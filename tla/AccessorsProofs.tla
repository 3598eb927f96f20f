-------------------------- MODULE AccessorsProofs ---------------------------
(***************************************************************************)
(* For every width, layout and call: a leaf keeps to the values of its     *)
(* kind, a number read from an output and set on an input is the same      *)
(* number there, and a call that throws has set what came before.          *)
(***************************************************************************)
EXTENDS Accessors, WellFoundedInduction, TLAPS

-----------------------------------------------------------------------------
(* The casts *)

LEMMA SizeType ==
  ASSUME NEW k \in Kinds
  PROVE  /\ Size(k) \in Nat \ {0}
         /\ Size(k) % 2 = 0
         /\ Lowest(k) \in Int
BY AccessorsAssumption DEF Size, Lowest, Kinds

\* A cast to a kind the number fits in leaves it alone.
LEMMA WrapFits ==
  ASSUME NEW k \in Kinds, NEW n \in IntegerRange(k)
  PROVE  Wrap(n, k) = n
<1>1. Size(k) \in Nat \ {0} /\ Lowest(k) \in Int
  BY SizeType
<1>2. n \in Int /\ Lowest(k) <= n /\ n - Lowest(k) < Size(k)
  BY <1>1 DEF IntegerRange
<1>3. \A m \in Nat, s \in Nat \ {0} : m < s => m % s = m
  OBVIOUS
<1>4. (n - Lowest(k)) % Size(k) = n - Lowest(k)
  BY <1>1, <1>2, <1>3
<1> QED
  BY <1>1, <1>2, <1>4 DEF Wrap

\* A cast to an integer kind is in its range.
LEMMA WrapInRange ==
  ASSUME NEW k \in Kinds, NEW n \in Int
  PROVE  Wrap(n, k) \in IntegerRange(k)
<1>0. Size(k) \in Nat \ {0} /\ Lowest(k) \in Int
  BY SizeType
<1>1. (n - Lowest(k)) % Size(k) \in 0 .. Size(k) - 1
  BY <1>0
<1> QED
  BY <1>0, <1>1 DEF Wrap, IntegerRange

\* The integers FMI carries, except enumerations, fit in its integer.
LEMMA ShortFits ==
  ASSUME NEW k \in IntegerKinds \ {"ENUMERATION"}
  PROVE  IntegerRange(k) \subseteq IntegerRange("INT_32")
<1>1. /\ Size8 \in Nat \ {0} /\ Size16 \in Nat \ {0} /\ Size32 \in Nat \ {0}
      /\ 2 * Size8 <= Size16 /\ 2 * Size16 <= Size32
  BY AccessorsAssumption
<1>2. Lowest("INT_32") = -(Size32 \div 2) /\ Size("INT_32") = Size32
  BY DEF Lowest, Size
<1>3. CASE k \in {"INT_8", "INT_16", "INT_32"}
  <2>1. Lowest(k) = -(Size(k) \div 2)
    BY <1>3 DEF Lowest
  <2>2. Size(k) \in Nat /\ Size(k) <= Size32
    BY <1>1, <1>3 DEF Size
  <2> QED
    BY <1>1, <1>2, <2>1, <2>2 DEF IntegerRange
<1>4. CASE k \in {"UINT_8", "UINT_16"}
  <2>1. Lowest(k) = 0
    BY <1>4 DEF Lowest
  <2>2. Size(k) \in Nat /\ 2 * Size(k) <= Size32
    BY <1>1, <1>4 DEF Size
  <2> QED
    BY <1>1, <1>2, <2>1, <2>2 DEF IntegerRange
<1> QED
  BY <1>3, <1>4 DEF IntegerKinds

\* An enumerator comes back from the negative number FMI takes it for.
LEMMA EnumerationReturns ==
  ASSUME NEW n \in IntegerRange("ENUMERATION")
  PROVE  Wrap(Wrap(n, "INT_32"), "ENUMERATION") = n
<1> DEFINE s == Size32
           h == s \div 2
<1>1. s \in Nat \ {0} /\ h \in Nat /\ s = 2 * h /\ h > 0
  BY AccessorsAssumption
<1>2. /\ Size("INT_32") = s /\ Lowest("INT_32") = -h
      /\ Size("ENUMERATION") = s /\ Lowest("ENUMERATION") = 0
  BY DEF Size, Lowest
<1>3. n \in Int /\ 0 <= n /\ n < s
  BY <1>1, <1>2 DEF IntegerRange
<1> HIDE DEF s, h
<1>4. \A m \in Int, q \in Nat \ {0} :
        /\ 0 <= m /\ m < q => m % q = m
        /\ q <= m /\ m < 2 * q => m % q = m - q
        /\ -q <= m /\ m < 0 => m % q = m + q
  OBVIOUS
<1>5. Wrap(n, "INT_32") = IF n < h THEN n ELSE n - s
  <2>1. Wrap(n, "INT_32") = -h + ((n + h) % s)
    BY <1>1, <1>2, <1>3 DEF Wrap
  <2>2. CASE n < h
    <3>3. n + h \in Int /\ 0 <= n + h /\ n + h < s
      BY <1>1, <1>3, <2>2
    <3>1. (n + h) % s = n + h
      BY <1>1, <1>4, <3>3
    <3> QED  BY <1>1, <1>3, <2>1, <2>2, <3>1
  <2>3. CASE ~(n < h)
    <3>3. n + h \in Int /\ s <= n + h /\ n + h < 2 * s
      BY <1>1, <1>3, <2>3
    <3> DEFINE m == n + h
    <3> HIDE DEF m
    <3>1. m % s = m - s
      BY <1>1, <1>4, <3>3 DEF m
    <3> QED  BY <1>1, <1>3, <2>1, <2>3, <3>1 DEF m
  <2> QED  BY <2>2, <2>3
<1>6. \A m \in Int : Wrap(m, "ENUMERATION") = m % s
  BY <1>1, <1>2 DEF Wrap
<1>7. CASE n < h
  BY <1>1, <1>3, <1>4, <1>5, <1>6, <1>7
<1>8. CASE ~(n < h)
  <2>1. (n - s) % s = n
    BY <1>1, <1>3, <1>4, <1>8
  <2> QED  BY <1>1, <1>3, <1>5, <1>6, <1>8, <2>1
<1> QED
  BY <1>7, <1>8

-----------------------------------------------------------------------------
(* Floating-point numbers *)

\* The unit of a last place is the least that will do.
LEMMA LeastUnit ==
  ASSUME NEW p \in Nat, NEW x \in Int, \E u \in Units : Below(x, p, u)
  PROVE  /\ Unit(x, p) \in Units
         /\ Below(x, p, Unit(x, p))
         /\ \A w \in Units : Below(x, p, w) => Unit(x, p) <= w
<1> DEFINE fit == {u \in Units : Below(x, p, u)}
<1>1. fit \subseteq Nat /\ fit # {}
  BY AccessorsAssumption
<1>2. PICK u \in fit : \A w \in fit : ~(<<w, u>> \in OpToRel(<, Nat))
  BY <1>1, NatLessThanWellFounded, WFMin
<1>3. ASSUME NEW w \in fit PROVE u <= w
  <2>1. u \in Nat /\ w \in Nat
    BY <1>1, <1>2
  <2>2. ~(w < u)
    BY <1>2, <2>1 DEF OpToRel
  <2> QED
    BY <2>1, <2>2
<1>4. \E y \in Units : /\ Below(x, p, y)
                       /\ \A w \in Units : Below(x, p, w) => y <= w
  BY <1>2, <1>3
<1> QED
  BY <1>4 DEF Unit

\* A multiple of the unit is the nearest one to itself.
LEMMA NearestMultiple ==
  ASSUME NEW k \in Int, NEW u \in Nat \ {0}
  PROVE  Nearest(k * u, u) = k * u
<1>1. (k * u) \div u = k
  OBVIOUS
<1>2. (k * u) % u = 0
  OBVIOUS
<1> QED
  BY <1>1, <1>2 DEF Nearest

LEMMA MultipleOfMultiple ==
  ASSUME NEW m \in Int, NEW u \in Nat \ {0}, NEW w \in Nat, w % u = 0
  PROVE  \E k \in Int : m * w = k * u
<1>1. w = u * (w \div u) + (w % u) /\ w \div u \in Int
  OBVIOUS
<1>2. w = u * (w \div u)
  BY <1>1
<1> DEFINE q == w \div u
<1>3. q \in Int /\ w = u * q
  BY <1>1, <1>2
<1> HIDE DEF q
<1>4. m * (u * q) = (m * q) * u
  BY <1>3
<1>5. m * w = (m * q) * u
  BY <1>3, <1>4
<1>6. m * q \in Int
  BY <1>3
<1> QED
  BY <1>5, <1>6

\* A floating-point number is its own rounding.
LEMMA RoundExact ==
  ASSUME NEW p \in {FloatPrecision, DoublePrecision}, NEW x \in Floats(p)
  PROVE  x \in Int /\ Round(x, p) = x
<1>1. p \in Nat \ {0} /\ p <= DoublePrecision /\ Infinity \in Nat
  BY AccessorsAssumption
<1>2. CASE x \in Numbers(p)
  <2>1. PICK m \in (1 - p) .. (p - 1), w \in Units : x = m * w
    BY <1>2 DEF Numbers
  <2>2. w \in Nat \ {0} /\ m \in Int /\ -p < m /\ m < p /\ x \in Int
    BY <1>1, <2>1, AccessorsAssumption
  <2>3. Below(x, p, w)
    <3>1. m * w < p * w
      BY ONLY <1>1, <2>2
    <3>2. -(p * w) < m * w
      BY ONLY <1>1, <2>2
    <3> QED
      BY <2>1, <3>1, <3>2 DEF Below
  <2> DEFINE u == Unit(x, p)
  <2>4. u \in Units /\ u <= w
    BY <1>1, <2>2, <2>3, LeastUnit
  <2>5. u \in Nat \ {0} /\ w % u = 0
    BY <2>4, AccessorsAssumption
  <2> HIDE DEF u
  <2>6. PICK k \in Int : x = k * u
    BY <2>1, <2>2, <2>5, MultipleOfMultiple
  <2>7. Nearest(x, u) = x
    BY <2>5, <2>6, NearestMultiple
  <2> QED
    BY <1>2, <2>2, <2>3, <2>7 DEF Round, u
<1>3. CASE x \in {-Infinity, Infinity}
  <2>1. \A u \in Units : u \in Nat /\ p * u <= Infinity
    <3> SUFFICES ASSUME NEW u \in Units PROVE u \in Nat /\ p * u <= Infinity
      OBVIOUS
    <3>1. u \in Nat /\ DoublePrecision \in Nat
          /\ DoublePrecision * u <= Infinity
      BY AccessorsAssumption
    <3>2. p * u <= DoublePrecision * u
      BY ONLY <1>1, <3>1
    <3>3. p * u \in Nat /\ DoublePrecision * u \in Nat
      BY ONLY <1>1, <3>1
    <3> QED
      BY <1>1, <3>1, <3>2, <3>3
  <2>2. \A u \in Units : ~Below(x, p, u)
    <3> SUFFICES ASSUME NEW u \in Units PROVE ~Below(x, p, u)
      OBVIOUS
    <3> DEFINE a == p * u
    <3>1. a \in Nat /\ a <= Infinity
      BY <1>1, <2>1
    <3> HIDE DEF a
    <3>2. ~(-a < x /\ x < a)
      BY <1>1, <1>3, <3>1
    <3> QED
      BY <3>2 DEF Below, a
  <2>3. Infinity > 0
    <3>1. DoublePrecision * 1 <= Infinity /\ DoublePrecision \in Nat \ {0}
      BY AccessorsAssumption
    <3> QED
      BY <1>1, <3>1
  <2> QED
    BY <1>1, <1>3, <2>2, <2>3 DEF Round
<1> QED
  BY <1>2, <1>3 DEF Floats

\* What rounding returns is a number of that precision.
LEMMA RoundFloats ==
  ASSUME NEW x, NEW p
  PROVE  Round(x, p) \in Floats(p)
BY DEF Round, Floats

\* A double holds every float.
LEMMA FloatIsDouble == Floats(FloatPrecision) \subseteq Floats(DoublePrecision)
<1>1. FloatPrecision \in Nat /\ DoublePrecision \in Nat
      /\ FloatPrecision <= DoublePrecision
  BY AccessorsAssumption
<1>2. (1 - FloatPrecision) .. (FloatPrecision - 1)
        \subseteq (1 - DoublePrecision) .. (DoublePrecision - 1)
  BY <1>1
<1> QED
  BY <1>2 DEF Floats, Numbers

\* A number below the precision needs no larger unit.
LEMMA SmallNumbers ==
  ASSUME NEW p \in Nat, NEW x \in Int, -p < x, x < p
  PROVE  x \in Floats(p)
<1>1. x \in (1 - p) .. (p - 1) /\ x = x * 1
  OBVIOUS
<1> QED
  BY <1>1, AccessorsAssumption DEF Floats, Numbers

-----------------------------------------------------------------------------
(* A number goes through *)

\* The kinds are apart, so the cases of the visitors are.
LEMMA IntegerVisitors ==
  ASSUME NEW k \in IntegerKinds, NEW x
  PROVE  /\ reader_visitor(k, x) = Wrap(x, "INT_32")
         /\ writer_visitor(k, x) = {Wrap(x, k)}
<1>1. /\ k \notin LongKinds /\ k # "FLOAT_32" /\ k # "BOOLEAN"
      /\ k # "CHAR_8"
  BY DEF IntegerKinds, LongKinds
<1>2. reader_visitor(k, x) = Wrap(x, "INT_32")
  BY <1>1 DEF reader_visitor
<1>3. writer_visitor(k, x) = {Wrap(x, k)}
  BY <1>1 DEF writer_visitor
<1> QED
  BY <1>2, <1>3

LEMMA LongVisitors ==
  ASSUME NEW k \in LongKinds, NEW x
  PROVE  /\ reader_visitor(k, x) = Round(2 * x, DoublePrecision)
         /\ Truncate(x) \in IntegerRange(k) =>
              writer_visitor(k, x) = {Truncate(x)}
<1>1. /\ k \notin IntegerKinds /\ k # "FLOAT_32" /\ k # "BOOLEAN"
      /\ k # "CHAR_8"
  BY DEF IntegerKinds, LongKinds
<1>2. reader_visitor(k, x) = Round(2 * x, DoublePrecision)
  BY <1>1 DEF reader_visitor
<1>3. ASSUME Truncate(x) \in IntegerRange(k)
      PROVE  writer_visitor(k, x) = {Truncate(x)}
  BY <1>1, <1>3 DEF writer_visitor
<1> QED
  BY <1>2, <1>3

\* What the writer of kind k2 stores of what the reader of k1 returned.
Through(k1, k2, v) == writer_visitor(k2, reader_visitor(k1, v))

LEMMA IntegerThrough ==
  ASSUME NEW k1 \in IntegerKinds, NEW k2 \in IntegerKinds,
         NEW v \in IntegerRange(k1),
         Represents(k2, 2 * v),
         Represents("INT_32", 2 * v) \/ k1 = k2
  PROVE  Through(k1, k2, v) = {v}
<1>1. Lowest(k1) \in Int /\ Size(k1) \in Nat
  BY SizeType DEF Kinds
<1>2. v \in Int
  BY <1>1 DEF IntegerRange
<1>3. (2 * v) \div 2 = v
  BY <1>2
<1>4. \A k \in IntegerKinds :
        k \notin FloatKinds /\ Values(k) = IntegerRange(k)
  BY DEF IntegerKinds, FloatKinds, Values
<1>5. v \in IntegerRange(k2)
  BY <1>3, <1>4 DEF Represents
<1>6. Through(k1, k2, v) = {Wrap(Wrap(v, "INT_32"), k2)}
  BY IntegerVisitors DEF Through
<1>7. CASE v \in IntegerRange("INT_32")
  <2>1. Wrap(v, "INT_32") = v
    BY <1>7, WrapFits DEF Kinds, IntegerKinds
  <2>2. Wrap(v, k2) = v
    BY <1>5, WrapFits DEF Kinds
  <2> QED
    BY <1>6, <2>1, <2>2
<1>8. CASE v \notin IntegerRange("INT_32")
  <2>1. k1 = k2
    BY <1>3, <1>4, <1>8 DEF Represents, IntegerKinds
  <2>2. k1 = "ENUMERATION"
    BY <1>8, ShortFits
  <2> QED
    BY <1>6, <2>1, <2>2, EnumerationReturns
<1> QED
  BY <1>7, <1>8

LEMMA RealThrough ==
  ASSUME NEW k1 \in LongKinds \union FloatKinds,
         NEW k2 \in LongKinds \union FloatKinds,
         NEW v \in Values(k1),
         Represents(k2, Number(k1, v)),
         \/ Carries("Real", Number(k1, v))
         \/ k1 = k2 /\ k2 \notin Lossy
  PROVE  \A w \in Through(k1, k2, v) : Number(k2, w) = Number(k1, v)
<1> DEFINE x == Number(k1, v)
<1>1. v \in Int /\ x \in Int
  <2>1. CASE k1 \in FloatKinds
    BY <2>1, RoundExact
    DEF FloatKinds, LongKinds, IntegerKinds, Values, Number
  <2>2. CASE k1 \in LongKinds
    <3>1. Lowest(k1) \in Int /\ Size(k1) \in Nat
      BY <2>2, SizeType DEF Kinds
    <3>2. v \in IntegerRange(k1) /\ k1 \notin FloatKinds
      BY <2>2 DEF Values, LongKinds, FloatKinds
    <3> QED
      BY <3>1, <3>2 DEF IntegerRange, Number
  <2> QED
    BY <2>1, <2>2
<1>2. reader_visitor(k1, v) = x
  <2>1. CASE k1 \in FloatKinds
    BY <2>1 DEF FloatKinds, LongKinds, IntegerKinds, reader_visitor, Number
  <2>2. CASE k1 \in LongKinds
    <3>1. reader_visitor(k1, v) = Round(2 * v, DoublePrecision) /\ x = 2 * v
      BY <2>2, LongVisitors DEF Number, LongKinds, FloatKinds
    <3>2. CASE Carries("Real", x)
      <4>1. x \in Values("FLOAT_64")
        BY <3>2 DEF Carries, Represents, FloatKinds
      <4> QED
        BY <3>1, <4>1, RoundExact DEF Values, IntegerKinds, LongKinds
    <3>3. CASE k1 = "UINT_32"
      <4>1. Size32 \in Nat /\ 2 * Size32 <= DoublePrecision
            /\ DoublePrecision \in Nat
        BY AccessorsAssumption, DoubleAssumption
      <4>2. v \in 0 .. Size32 - 1
        BY <3>3, <4>1
        DEF Values, IntegerRange, Lowest, Size, LongKinds, IntegerKinds
      <4>3. -DoublePrecision < 2 * v /\ 2 * v < DoublePrecision
        BY <4>1, <4>2
      <4> QED
        BY <1>1, <3>1, <4>1, <4>3, SmallNumbers, RoundExact
    <3> QED
      BY <2>2, <3>2, <3>3 DEF LongKinds, Lossy, FloatKinds
  <2> QED
    BY <2>1, <2>2
<1>3. Represents(k2, x)
  OBVIOUS
<1>4. Through(k1, k2, v) = writer_visitor(k2, x)
  BY <1>2 DEF Through
<1> HIDE DEF x
<1>5. CASE k2 \in LongKinds
  <2>1. k2 \notin FloatKinds /\ k2 \notin IntegerKinds
        /\ Values(k2) = IntegerRange(k2)
    BY <1>5 DEF LongKinds, FloatKinds, IntegerKinds, Values
  <2>2. x % 2 = 0 /\ x \div 2 \in IntegerRange(k2)
    BY <1>3, <2>1 DEF Represents
  <2>3. Truncate(x) = x \div 2 /\ 2 * (x \div 2) = x
    BY <1>1, <2>2 DEF Truncate
  <2>4. writer_visitor(k2, x) = {x \div 2}
    BY <1>5, <2>2, <2>3, LongVisitors
  <2> QED
    BY <1>4, <2>1, <2>3, <2>4 DEF x, Number
<1>6. CASE k2 \in FloatKinds
  <2>1. k2 \notin LongKinds /\ k2 \notin IntegerKinds
    BY <1>6 DEF LongKinds, FloatKinds, IntegerKinds
  <2>2. x \in Values(k2)
    BY <1>3, <1>6 DEF Represents
  <2>3. writer_visitor(k2, x) = {x}
    BY <1>6, <2>1, <2>2, RoundExact DEF writer_visitor, Values, FloatKinds
  <2> QED
    BY <1>4, <1>6, <2>3 DEF x, Number
<1> QED
  BY <1>5, <1>6

LEMMA BooleanThrough ==
  ASSUME NEW v \in Values("BOOLEAN")
  PROVE  Through("BOOLEAN", "BOOLEAN", v) = {v}
BY DEF Values, Through, reader_visitor, writer_visitor, IntegerKinds,
       LongKinds, FloatKinds

\* All cases of RelayIsExact at once.
LEMMA NumberThrough ==
  ASSUME NEW k1 \in Kinds, NEW k2 \in Kinds, NEW v \in Values(k1),
         type_of(k1) = type_of(k2), type_of(k2) # "String",
         Represents(k2, Number(k1, v)),
         \/ Carries(type_of(k2), Number(k1, v))
         \/ k1 = k2 /\ k2 \notin Lossy
  PROVE  \A w \in Through(k1, k2, v) : Number(k2, w) = Number(k1, v)
<1>1. CASE k2 \in IntegerKinds
  <2>1. type_of(k2) = "Integer" /\ k1 \in IntegerKinds
    BY <1>1 DEF type_of, IntegerKinds, LongKinds, FloatKinds
  <2>2. /\ k1 \notin FloatKinds /\ k2 \notin FloatKinds
        /\ Values(k1) = IntegerRange(k1)
    BY <1>1, <2>1 DEF IntegerKinds, FloatKinds, Values
  <2>3. Number(k1, v) = 2 * v /\ \A w : Number(k2, w) = 2 * w
    BY <2>2 DEF Number
  <2>4. Represents("INT_32", 2 * v) \/ k1 = k2
    BY <2>1, <2>3 DEF Carries
  <2>5. Through(k1, k2, v) = {v}
    BY <1>1, <2>1, <2>2, <2>3, <2>4, IntegerThrough
  <2> QED
    BY <2>3, <2>5
<1>2. CASE k2 \in LongKinds \union FloatKinds
  <2>1. type_of(k2) = "Real" /\ k1 \in LongKinds \union FloatKinds
    BY <1>2 DEF type_of, LongKinds, FloatKinds, IntegerKinds
  <2> QED
    BY <1>2, <2>1, RealThrough
<1>3. CASE k2 = "BOOLEAN"
  <2>1. k1 = "BOOLEAN"
    BY <1>3 DEF type_of, IntegerKinds, LongKinds, FloatKinds
  <2>2. Through(k1, k2, v) = {v}
    BY <1>3, <2>1, BooleanThrough
  <2> QED
    BY <1>3, <2>1, <2>2
<1> QED
  BY <1>1, <1>2, <1>3
  DEF Kinds, type_of, IntegerKinds, LongKinds, FloatKinds

-----------------------------------------------------------------------------
(* What the simulator holds *)

\* A setter addresses inputs only, a getter outputs.
CallOK ==
  /\ call.vr \in Seq(Leaves \union {Unknown})
  /\ \A i \in DOMAIN call.vr :
       /\ call.op = "set" => call.vr[i] \in Inputs \union {Unknown}
       /\ call.op = "get" => call.vr[i] \in Outputs \union {Unknown}

\* An output has a value of its kind.
OutputsOK ==
  /\ DOMAIN m_data = Leaves
  /\ \A a \in Outputs : m_data[a] \in Values(kind[a])

\* The value of a variable is what the reader of its origin returned.
HoldsOrigin(l) ==
  origin[l] # None =>
    /\ origin[l].kind \in Kinds
    /\ type_of(origin[l].kind) = type_of(kind[l])
    /\ origin[l].value \in Values(origin[l].kind)
    /\ type_of(kind[l]) # "String" =>
         variable[l] = reader_visitor(origin[l].kind, origin[l].value)

OriginsOK ==
  /\ DOMAIN variable = Leaves
  /\ DOMAIN origin = Leaves
  /\ \A l \in Leaves : HoldsOrigin(l)

AInv ==
  /\ kind \in [Leaves -> Kinds]
  /\ CallOK
  /\ OutputsOK
  /\ OriginsOK

LEMMA DefaultHasKind ==
  ASSUME NEW k \in Kinds
  PROVE  Default(k) \in Values(k)
<1>1. CASE k \in IntegerKinds \union LongKinds
  <2>1. Size(k) \in Nat \ {0} /\ Size(k) % 2 = 0
    BY SizeType
  <2>2. 0 \in IntegerRange(k)
    BY <2>1 DEF IntegerRange, Lowest
  <2> QED
    BY <1>1, <2>2 DEF Default, Values, IntegerKinds, LongKinds
<1>2. CASE k \in FloatKinds
  <2>1. FloatPrecision \in Nat \ {0} /\ DoublePrecision \in Nat \ {0}
    BY AccessorsAssumption
  <2>2. 0 \in Floats(FloatPrecision) /\ 0 \in Floats(DoublePrecision)
    BY <2>1, SmallNumbers
  <2> QED
    BY <1>2, <2>2
    DEF Default, Values, FloatKinds, IntegerKinds, LongKinds
<1>3. CASE k = "BOOLEAN"
  BY <1>3 DEF Default, Values, IntegerKinds, LongKinds
<1>4. CASE k = "STRING"
  BY <1>4 DEF Default, Values, IntegerKinds, LongKinds, Strings
<1>5. CASE k = "CHAR_8"
  BY <1>5, AccessorsAssumption DEF Default, Values, IntegerKinds, LongKinds
<1> QED
  BY <1>1, <1>2, <1>3, <1>4, <1>5 DEF Kinds

LEMMA InitAInv == Init => AInv
<1> SUFFICES ASSUME Init PROVE AInv
  OBVIOUS
<1>1. kind \in [Leaves -> Kinds]
  BY AccessorsAssumption DEF Init
<1>2. CallOK
  BY DEF Init, Idle, CallOK
<1>3. OutputsOK
  BY <1>1, DefaultHasKind DEF Init, OutputsOK, Leaves
<1>4. OriginsOK
  BY DEF Init, OriginsOK, HoldsOrigin
<1> QED
  BY <1>1, <1>2, <1>3, <1>4 DEF AInv

LEMMA StepAInv == AInv /\ [Next]_vars => AInv'
<1> SUFFICES ASSUME AInv, [Next]_vars PROVE AInv'
  OBVIOUS
<1> USE DEF AInv
<1>0. Outputs \subseteq Leaves /\ Inputs \subseteq Leaves
      /\ Outputs \intersect Inputs = {} /\ Unknown \notin Leaves
  BY AccessorsAssumption DEF Leaves
<1>1. ASSUME NEW a \in Outputs, Take(a) PROVE AInv'
  <2>1. PICK v \in Samples[kind[a]] : m_data' = [m_data EXCEPT ![a] = v]
    BY <1>1 DEF Take
  <2>2. v \in Values(kind[a])
    BY <1>0, <2>1, AccessorsAssumption
  <2>3. OutputsOK'
    BY <1>0, <1>1, <2>1, <2>2 DEF OutputsOK, Take
  <2> QED
    BY <1>1, <2>3 DEF Take, CallOK, OriginsOK, HoldsOrigin
<1>2. ASSUME NEW b \in Inputs, Choose(b) PROVE AInv'
  <2>1. PICK x : variable' = [variable EXCEPT ![b] = x]
    BY <1>2 DEF Choose
  <2>2. OriginsOK'
    BY <1>0, <1>2, <2>1 DEF Choose, OriginsOK, HoldsOrigin
  <2> QED
    BY <1>2, <2>2 DEF Choose, CallOK, OutputsOK
<1>3. ASSUME NEW a \in Outputs, NEW b \in Inputs, Connect(a, b) PROVE AInv'
  <2>1. HoldsOrigin(a)
    BY <1>0 DEF OriginsOK
  <2>2. OriginsOK'
    BY <1>0, <1>3, <2>1 DEF Connect, OriginsOK, HoldsOrigin
  <2> QED
    BY <1>3, <2>2 DEF Connect, CallOK, OutputsOK
<1>4. ASSUME NEW op \in {"set", "get"}, NEW vr \in References, Begin(op, vr)
      PROVE  AInv'
  <2>1. vr \in Seq(Leaves \union {Unknown})
    BY AccessorsAssumption
  <2>2. \A i \in DOMAIN vr : vr[i] \in Leaves \union {Unknown}
    BY <2>1
  <2>3. call'.op = op /\ call'.vr = vr
    BY <1>4 DEF Begin
  <2>4. CallOK'
    BY <1>4, <2>1, <2>2, <2>3 DEF Begin, CallOK
  <2> QED
    BY <1>4, <2>4 DEF Begin, OutputsOK, OriginsOK, HoldsOrigin
<1>5. ASSUME NEW l \in Leaves, SetOne(l) PROVE AInv'
  <2>1. l \in Inputs
    BY <1>0, <1>5 DEF SetOne, At, CallOK
  <2>2. PICK v : m_data' = [m_data EXCEPT ![l] = v]
    BY <1>5 DEF SetOne
  <2>3. OutputsOK'
    BY <1>0, <1>5, <2>1, <2>2 DEF SetOne, OutputsOK
  <2>4. CallOK'
    BY <1>5 DEF SetOne, At, CallOK
  <2> QED
    BY <1>5, <2>3, <2>4 DEF SetOne, OriginsOK, HoldsOrigin
<1>6. ASSUME NEW l \in Leaves, GetOne(l) PROVE AInv'
  <2>1. l \in Outputs
    BY <1>0, <1>6 DEF GetOne, At, CallOK
  <2>2. m_data[l] \in Values(kind[l]) /\ kind[l] \in Kinds
    BY <2>1 DEF OutputsOK
  <2>3. HoldsOrigin(l)'
    BY <1>6, <2>2 DEF GetOne, OriginsOK, HoldsOrigin
  <2>4. ASSUME NEW m \in Leaves, m # l PROVE HoldsOrigin(m)'
    BY <1>6, <2>4 DEF GetOne, OriginsOK, HoldsOrigin
  <2>5. OriginsOK'
    BY <1>6, <2>3, <2>4 DEF GetOne, OriginsOK
  <2>6. CallOK'
    BY <1>6 DEF GetOne, At, CallOK
  <2> QED
    BY <1>6, <2>5, <2>6 DEF GetOne, OutputsOK
<1>7. ASSUME NEW l \in Leaves, GetString(l) PROVE AInv'
  <2>1. l \in Outputs
    BY <1>0, <1>7 DEF GetString, At, CallOK
  <2>2. m_data[l] \in Values(kind[l]) /\ kind[l] \in Kinds
    BY <2>1 DEF OutputsOK
  <2>3. PICK x : variable' = [variable EXCEPT ![l] = x]
    BY <1>7 DEF GetString
  <2>4. HoldsOrigin(l)'
    BY <1>7, <2>2 DEF GetString, OriginsOK, HoldsOrigin
  <2>5. ASSUME NEW m \in Leaves, m # l PROVE HoldsOrigin(m)'
    BY <1>7, <2>3, <2>5 DEF GetString, OriginsOK, HoldsOrigin
  <2>6. OriginsOK'
    BY <1>7, <2>3, <2>4, <2>5 DEF GetString, OriginsOK
  <2>7. CallOK'
    BY <1>7 DEF GetString, At, CallOK
  <2> QED
    BY <1>7, <2>6, <2>7 DEF GetString, OutputsOK
<1>8. CASE Throw
  <2>1. CallOK'
    BY <1>8 DEF Throw, At, CallOK
  <2> QED
    BY <1>8, <2>1 DEF Throw, OutputsOK, OriginsOK, HoldsOrigin
<1>9. CASE Return
  <2>1. CallOK'
    BY <1>9 DEF Return, Idle, CallOK
  <2> QED
    BY <1>9, <2>1 DEF Return, OutputsOK, OriginsOK, HoldsOrigin
<1>10. CASE Reset
  <2>1. CallOK'
    BY <1>10 DEF Reset, Idle, CallOK
  <2>2. OutputsOK'
    BY <1>0, <1>10, DefaultHasKind DEF Reset, OutputsOK
  <2>3. OriginsOK'
    BY <1>10 DEF Reset, OriginsOK, HoldsOrigin
  <2> QED
    BY <1>10, <2>1, <2>2, <2>3 DEF Reset
<1>11. CASE UNCHANGED vars
  BY <1>11 DEF vars, CallOK, OutputsOK, OriginsOK, HoldsOrigin
<1> QED
  BY <1>1, <1>2, <1>3, <1>4, <1>5, <1>6, <1>7, <1>8, <1>9, <1>10, <1>11
  DEF Next

-----------------------------------------------------------------------------
(* Values stay in their kinds *)

\* Whatever the simulator gives to a leaf, the leaf has a value of its kind.
LEMMA WriterInKind ==
  ASSUME NEW k \in Kinds, NEW x \in FmiValues(type_of(k)),
         NEW v \in writer_visitor(k, x)
  PROVE  v \in Values(k)
<1>1. CASE k \in IntegerKinds
  <2>1. type_of(k) = "Integer" /\ Values(k) = IntegerRange(k)
    BY <1>1 DEF type_of, Values, IntegerKinds, LongKinds, FloatKinds
  <2>2. Size("INT_32") \in Nat /\ Lowest("INT_32") \in Int
    BY SizeType DEF Kinds, IntegerKinds
  <2>3. x \in Int
    BY <2>1, <2>2 DEF FmiValues, IntegerRange
  <2>4. v = Wrap(x, k)
    BY <1>1, IntegerVisitors
  <2> QED
    BY <2>1, <2>3, <2>4, WrapInRange
<1>2. CASE k \in LongKinds
  <2>1. k \notin IntegerKinds /\ Values(k) = IntegerRange(k)
    BY <1>2 DEF LongKinds, IntegerKinds, Values
  <2>2. /\ k # "FLOAT_32" /\ k # "BOOLEAN" /\ k # "CHAR_8"
    BY <1>2 DEF LongKinds
  <2>3. writer_visitor(k, x) = IF Truncate(x) \in IntegerRange(k)
                               THEN {Truncate(x)}
                               ELSE IntegerRange(k)
    BY <1>2, <2>1, <2>2 DEF writer_visitor
  <2> QED
    BY <2>1, <2>3
<1>3. CASE k \in FloatKinds
  <2>1. k \notin IntegerKinds /\ k \notin LongKinds
    BY <1>3 DEF LongKinds, IntegerKinds, FloatKinds
  <2>2. type_of(k) = "Real"
    BY <1>3, <2>1 DEF type_of, FloatKinds
  <2>3. x \in Values("FLOAT_64")
    BY <2>2 DEF FmiValues
  <2>4. CASE k = "FLOAT_32"
    BY <2>1, <2>4, RoundFloats DEF writer_visitor, Values
  <2>5. CASE k = "FLOAT_64"
    BY <2>1, <2>3, <2>5 DEF writer_visitor
  <2> QED
    BY <1>3, <2>4, <2>5 DEF FloatKinds
<1>4. CASE k = "BOOLEAN"
  BY <1>4 DEF writer_visitor, Values, LongKinds, IntegerKinds
<1>5. CASE k = "STRING"
  BY <1>5
  DEF writer_visitor, Values, LongKinds, IntegerKinds, FloatKinds, type_of,
      FmiValues
<1>6. CASE k = "CHAR_8"
  <2>1. x \in Strings /\ Values(k) = Chars
    BY <1>6
    DEF Values, LongKinds, IntegerKinds, FloatKinds, type_of, FmiValues
  <2>2. v = IF x = <<>> THEN NUL ELSE Head(x)
    BY <1>6 DEF writer_visitor, LongKinds, IntegerKinds
  <2>3. x # <<>> => Head(x) \in Chars
    BY <2>1 DEF Strings
  <2> QED
    BY <2>1, <2>2, <2>3, AccessorsAssumption
<1> QED
  BY <1>1, <1>2, <1>3, <1>4, <1>5, <1>6 DEF Kinds

\* Whatever a leaf has, the simulator gets a value of the FMI type.
LEMMA ReaderInType ==
  ASSUME NEW k \in Kinds, type_of(k) # "String", NEW v \in Values(k)
  PROVE  reader_visitor(k, v) \in FmiValues(type_of(k))
<1>1. CASE k \in IntegerKinds
  <2>1. type_of(k) = "Integer" /\ v \in IntegerRange(k)
    BY <1>1 DEF type_of, Values, IntegerKinds, LongKinds, FloatKinds
  <2>2. Size(k) \in Nat /\ Lowest(k) \in Int
    BY SizeType
  <2>3. v \in Int
    BY <2>1, <2>2 DEF IntegerRange
  <2>4. Wrap(v, "INT_32") \in IntegerRange("INT_32")
    BY <2>3, WrapInRange DEF Kinds, IntegerKinds
  <2> QED
    BY <1>1, <2>1, <2>4, IntegerVisitors DEF FmiValues
<1>2. CASE k \in LongKinds
  <2>1. type_of(k) = "Real"
    BY <1>2 DEF type_of, LongKinds, IntegerKinds
  <2>2. reader_visitor(k, v) \in Floats(DoublePrecision)
    BY <1>2, LongVisitors, RoundFloats
  <2> QED
    BY <2>1, <2>2 DEF FmiValues, Values, IntegerKinds, LongKinds
<1>3. CASE k \in FloatKinds
  <2>1. k \notin IntegerKinds /\ k \notin LongKinds /\ type_of(k) = "Real"
    BY <1>3 DEF type_of, LongKinds, IntegerKinds, FloatKinds
  <2>2. reader_visitor(k, v) = v
    BY <1>3, <2>1 DEF reader_visitor, FloatKinds
  <2>3. v \in Floats(DoublePrecision)
    BY <1>3, <2>1, FloatIsDouble DEF Values, FloatKinds
  <2> QED
    BY <2>1, <2>2, <2>3 DEF FmiValues, Values, IntegerKinds, LongKinds
<1>4. CASE k = "BOOLEAN"
  BY <1>4
  DEF reader_visitor, Values, FmiValues, type_of, LongKinds, IntegerKinds,
      FloatKinds
<1> QED
  BY <1>1, <1>2, <1>3, <1>4 DEF Kinds, type_of, LongKinds, FloatKinds

\* Each kind has one of four FMI types.
LEMMA TypeOfKind ==
  ASSUME NEW k \in Kinds
  PROVE  type_of(k) \in {"Integer", "Real", "Boolean", "String"}
BY DEF type_of

DataOK ==
  /\ DOMAIN m_data = Leaves
  /\ \A l \in Leaves : m_data[l] \in Values(kind[l])

VariablesOK ==
  /\ DOMAIN variable = Leaves
  /\ \A l \in Leaves :
       variable[l] # None => variable[l] \in FmiValues(type_of(kind[l]))

OriginTypes ==
  /\ DOMAIN origin = Leaves
  /\ \A l \in Leaves :
       origin[l] # None => DOMAIN origin[l] = {"kind", "value"}

\* A setter is called with values the simulator has.
SetterHasValues ==
  call.op = "set" =>
    \A i \in DOMAIN call.vr :
      call.vr[i] \in Leaves => variable[call.vr[i]] # None

CallTypes ==
  /\ call.op \in {"none", "set", "get", "failed"}
  /\ call.i \in 1 .. Len(call.vr) + 1
  /\ SetterHasValues

TInv ==
  /\ AInv
  /\ kind \in Layouts
  /\ DataOK
  /\ VariablesOK
  /\ OriginTypes
  /\ CallTypes

LEMMA TInvTypeOK == TInv => TypeOK
BY DEF TInv, TypeOK, DataOK, VariablesOK, OriginTypes, CallTypes, AInv,
       OriginsOK, HoldsOrigin

LEMMA InitTInv == Init => TInv
<1> SUFFICES ASSUME Init PROVE TInv
  OBVIOUS
<1>1. AInv
  BY InitAInv
<1>2. DataOK
  BY <1>1, DefaultHasKind DEF Init, DataOK, AInv
<1>3. VariablesOK /\ OriginTypes
  BY DEF Init, VariablesOK, OriginTypes
<1>4. CallTypes
  BY DEF Init, CallTypes, SetterHasValues, Idle
<1> QED
  BY <1>1, <1>2, <1>3, <1>4 DEF TInv, Init

\* One more position keeps to the array.
LEMMA OneMoreTyped ==
  ASSUME CallTypes, AInv, NEW l, At(call.op, l),
         call' = [call EXCEPT !.i = @ + 1],
         call.op = "set" => UNCHANGED variable
  PROVE  CallTypes'
<1>1. /\ call'.vr = call.vr /\ call'.i = call.i + 1 /\ call'.op = call.op
      /\ call.i \in 1 .. Len(call.vr)
  BY DEF At, CallTypes, AInv, CallOK
<1>2. SetterHasValues'
  BY <1>1 DEF CallTypes, SetterHasValues
<1>3. Len(call.vr) \in Nat
  BY DEF AInv, CallOK
<1> QED
  BY <1>1, <1>2, <1>3 DEF CallTypes

LEMMA StepTInv == TInv /\ [Next]_vars => TInv'
<1> SUFFICES ASSUME TInv, [Next]_vars PROVE TInv'
  OBVIOUS
<1>1. /\ AInv /\ AInv' /\ kind \in Layouts
      /\ DataOK /\ VariablesOK /\ OriginTypes /\ CallTypes
  BY StepAInv DEF TInv
<1>2. /\ Outputs \subseteq Leaves /\ Inputs \subseteq Leaves
      /\ Unknown \notin Leaves
      /\ \A l \in Leaves : kind[l] \in Kinds
  BY <1>1, AccessorsAssumption DEF Leaves, AInv
<1>3. ASSUME NEW a \in Outputs, Take(a) PROVE TInv'
  <2>1. PICK v \in Samples[kind[a]] : m_data' = [m_data EXCEPT ![a] = v]
    BY <1>3 DEF Take
  <2>2. v \in Values(kind[a])
    BY <1>2, <2>1, AccessorsAssumption
  <2>3. DataOK'
    BY <1>1, <1>3, <2>1, <2>2 DEF Take, DataOK
  <2> QED
    BY <1>1, <1>3, <2>3
    DEF Take, TInv, VariablesOK, OriginTypes, CallTypes, SetterHasValues
<1>4. ASSUME NEW b \in Inputs, Choose(b) PROVE TInv'
  <2>1. PICK x \in Choices[type_of(kind[b])] :
          variable' = [variable EXCEPT ![b] = x]
    BY <1>4 DEF Choose
  <2>2. x \in FmiValues(type_of(kind[b]))
    BY <1>2, <2>1, TypeOfKind, AccessorsAssumption
  <2>3. VariablesOK'
    BY <1>1, <1>4, <2>1, <2>2 DEF Choose, VariablesOK
  <2>4. OriginTypes'
    BY <1>1, <1>4 DEF Choose, OriginTypes
  <2>5. CallTypes'
    BY <1>1, <1>4 DEF Choose, CallTypes, SetterHasValues, Idle
  <2> QED
    BY <1>1, <1>4, <2>3, <2>4, <2>5 DEF Choose, TInv, DataOK
<1>5. ASSUME NEW a \in Outputs, NEW b \in Inputs, Connect(a, b) PROVE TInv'
  <2>1. VariablesOK'
    BY <1>1, <1>2, <1>5 DEF Connect, VariablesOK
  <2>2. OriginTypes'
    BY <1>1, <1>2, <1>5 DEF Connect, OriginTypes
  <2>3. CallTypes'
    BY <1>1, <1>5 DEF Connect, CallTypes, SetterHasValues, Idle
  <2> QED
    BY <1>1, <1>5, <2>1, <2>2, <2>3 DEF Connect, TInv, DataOK
<1>6. ASSUME NEW op \in {"set", "get"}, NEW vr \in References, Begin(op, vr)
      PROVE  TInv'
  <2>1. vr \in Seq(Leaves \union {Unknown})
    BY AccessorsAssumption
  <2>2. call' = [op |-> op, vr |-> vr, i |-> 1]
    BY <1>6 DEF Begin
  <2>3. SetterHasValues'
    BY <1>6, <2>2 DEF Begin, SetterHasValues
  <2>4. CallTypes'
    BY <2>1, <2>2, <2>3 DEF CallTypes
  <2> QED
    BY <1>1, <1>6, <2>4 DEF Begin, TInv, DataOK, VariablesOK, OriginTypes
<1>7. ASSUME NEW l \in Leaves, SetOne(l) PROVE TInv'
  <2>1. At(call.op, l) /\ call' = [call EXCEPT !.i = @ + 1]
        /\ call.op = "set" /\ call.vr[call.i] = l
    BY <1>7 DEF SetOne, At
  <2>2. variable[l] \in FmiValues(type_of(kind[l]))
    BY <1>1, <1>7, <2>1
    DEF SetOne, At, CallTypes, SetterHasValues, VariablesOK
  <2>3. PICK v \in writer_visitor(kind[l], variable[l]) :
          m_data' = [m_data EXCEPT ![l] = v]
    BY <1>7 DEF SetOne
  <2>4. v \in Values(kind[l])
    BY <1>2, <2>2, <2>3, WriterInKind
  <2>5. DataOK'
    BY <1>1, <1>7, <2>3, <2>4 DEF SetOne, DataOK
  <2>6. CallTypes'
    BY <1>1, <1>7, <2>1, OneMoreTyped DEF SetOne
  <2> QED
    BY <1>1, <1>7, <2>5, <2>6 DEF SetOne, TInv, VariablesOK, OriginTypes
<1>8. ASSUME NEW l \in Leaves, GetOne(l) PROVE TInv'
  <2>1. At(call.op, l) /\ call' = [call EXCEPT !.i = @ + 1]
        /\ call.op = "get"
    BY <1>8 DEF GetOne, At
  <2>2. reader_visitor(kind[l], m_data[l]) \in FmiValues(type_of(kind[l]))
    BY <1>1, <1>2, <1>8, ReaderInType DEF GetOne, DataOK
  <2>3. VariablesOK'
    BY <1>1, <1>8, <2>2 DEF GetOne, VariablesOK
  <2>4. OriginTypes'
    BY <1>1, <1>8 DEF GetOne, OriginTypes
  <2>5. CallTypes'
    BY <1>1, <2>1, OneMoreTyped
  <2> QED
    BY <1>1, <1>8, <2>3, <2>4, <2>5 DEF GetOne, TInv, DataOK
<1>9. ASSUME NEW l \in Leaves, GetString(l) PROVE TInv'
  <2>1. At(call.op, l) /\ call' = [call EXCEPT !.i = @ + 1]
        /\ call.op = "get"
    BY <1>9 DEF GetString, At
  <2>2. PICK x \in Choices["String"] : variable' = [variable EXCEPT ![l] = x]
    BY <1>9 DEF GetString
  <2>3. x \in FmiValues(type_of(kind[l]))
    BY <1>9, <2>2, AccessorsAssumption DEF GetString
  <2>4. VariablesOK'
    BY <1>1, <1>9, <2>2, <2>3 DEF GetString, VariablesOK
  <2>5. OriginTypes'
    BY <1>1, <1>9 DEF GetString, OriginTypes
  <2>6. CallTypes'
    BY <1>1, <2>1, OneMoreTyped
  <2> QED
    BY <1>1, <1>9, <2>4, <2>5, <2>6 DEF GetString, TInv, DataOK
<1>10. CASE Throw
  <2>1. CallTypes'
    BY <1>1, <1>10 DEF Throw, CallTypes, SetterHasValues, At
  <2> QED
    BY <1>1, <1>10, <2>1
    DEF Throw, TInv, DataOK, VariablesOK, OriginTypes
<1>11. CASE Return
  <2>1. CallTypes'
    BY <1>11 DEF Return, CallTypes, SetterHasValues, Idle
  <2> QED
    BY <1>1, <1>11, <2>1
    DEF Return, TInv, DataOK, VariablesOK, OriginTypes
<1>12. CASE Reset
  <2>1. CallTypes'
    BY <1>12 DEF Reset, CallTypes, SetterHasValues, Idle
  <2>2. DataOK'
    BY <1>2, <1>12, DefaultHasKind DEF Reset, DataOK
  <2>3. VariablesOK' /\ OriginTypes'
    BY <1>12 DEF Reset, VariablesOK, OriginTypes
  <2> QED
    BY <1>1, <1>12, <2>1, <2>2, <2>3 DEF Reset, TInv
<1>13. CASE UNCHANGED vars
  BY <1>1, <1>13
  DEF vars, TInv, DataOK, VariablesOK, OriginTypes, CallTypes, SetterHasValues
<1> QED
  BY <1>3, <1>4, <1>5, <1>6, <1>7, <1>8, <1>9, <1>10, <1>11, <1>12, <1>13
  DEF Next

(***************************************************************************)
(* TypeOK: no cast, defined or not, takes a leaf out of the values of its  *)
(* kind or a variable out of its FMI type, whatever the widths, the        *)
(* precisions, the largest number and the arrays of references.            *)
(***************************************************************************)
THEOREM Typed == Spec => []TypeOK
<1> QED
  BY InitTInv, StepTInv, TInvTypeOK, PTL DEF Spec

-----------------------------------------------------------------------------
\* RelayIsExact for one input and one step.
ArrivesAt(b) ==
  LET o == origin[b]
      x == Number(o.kind, o.value)
  IN  /\ At("set", b)
      /\ o # None
      /\ type_of(kind[b]) # "String"
      /\ Represents(kind[b], x)
      /\ \/ Carries(type_of(kind[b]), x)
         \/ o.kind = kind[b] /\ kind[b] \notin Lossy
      => Number(kind[b], m_data'[b]) = x

\* While a call is at an input to be set, only SetOne of it can happen.
LEMMA OnlySetOne ==
  ASSUME AInv, Next, NEW b \in Inputs, At("set", b)
  PROVE  SetOne(b)
<1>1. b # Unknown /\ b \in Leaves
  BY AccessorsAssumption DEF Leaves
<1>2. call.op = "set" /\ call # Idle
  BY DEF At, Idle
<1>3. ~(\E a \in Outputs : Take(a)) /\ ~(\E c \in Inputs : Choose(c))
      /\ ~(\E a \in Outputs, c \in Inputs : Connect(a, c))
      /\ ~(\E op \in {"set", "get"}, vr \in References : Begin(op, vr))
  BY <1>2 DEF Take, Choose, Connect, Begin
<1>4. ~(\E l \in Leaves : GetOne(l)) /\ ~(\E l \in Leaves : GetString(l))
  BY <1>2 DEF GetOne, GetString, At
<1>5. ~Throw /\ ~Reset
  BY <1>1, <1>2 DEF Throw, Reset, At
<1>6. ASSUME NEW l \in Leaves, SetOne(l) PROVE l = b
  BY <1>6 DEF SetOne, At
<1>7. ~Return
  <2>1. call.i \in 1 .. Len(call.vr)
    BY DEF AInv, CallOK, At
  <2> QED
    BY <2>1 DEF Return, AInv, CallOK
<1> QED
  BY <1>3, <1>4, <1>5, <1>6, <1>7 DEF Next

LEMMA StepArrives ==
  ASSUME AInv, [Next]_vars, NEW b \in Inputs
  PROVE  [ArrivesAt(b)]_vars
<1> SUFFICES ASSUME Next,
                    At("set", b), origin[b] # None,
                    type_of(kind[b]) # "String",
                    Represents(kind[b],
                               Number(origin[b].kind, origin[b].value)),
                    \/ Carries(type_of(kind[b]),
                               Number(origin[b].kind, origin[b].value))
                    \/ origin[b].kind = kind[b] /\ kind[b] \notin Lossy
             PROVE  Number(kind[b], m_data'[b])
                      = Number(origin[b].kind, origin[b].value)
  BY DEF ArrivesAt
<1>1. b \in Leaves
  BY DEF Leaves
<1>2. SetOne(b)
  BY OnlySetOne
<1>3. HoldsOrigin(b) /\ kind[b] \in Kinds /\ DOMAIN m_data = Leaves
  BY <1>1 DEF AInv, OriginsOK, OutputsOK
<1>4. PICK w \in writer_visitor(kind[b], variable[b]) :
        m_data' = [m_data EXCEPT ![b] = w]
  BY <1>2 DEF SetOne
<1>5. w \in Through(origin[b].kind, kind[b], origin[b].value)
  BY <1>3, <1>4 DEF HoldsOrigin, Through
<1>6. m_data'[b] = w
  BY <1>1, <1>3, <1>4
<1> QED
  BY <1>3, <1>5, <1>6, NumberThrough DEF HoldsOrigin

(***************************************************************************)
(* RelayIsExact: what a GetXXX read from an output and a SetXXX gave to an *)
(* input is the same number there, for every width of the kinds.           *)
(***************************************************************************)
THEOREM Relay == Spec => RelayIsExact
<1>1. Spec => []AInv
  BY InitAInv, StepAInv, PTL DEF Spec
<1>2. AInv /\ [Next]_vars => [\A b \in Inputs : ArrivesAt(b)]_vars
  BY StepArrives
<1>3. (\A b \in Inputs : ArrivesAt(b)) =>
        (\A b \in Inputs :
           LET o == origin[b]
               x == Number(o.kind, o.value)
           IN  /\ At("set", b)
               /\ o # None
               /\ type_of(kind[b]) # "String"
               /\ Represents(kind[b], x)
               /\ \/ Carries(type_of(kind[b]), x)
                  \/ o.kind = kind[b] /\ kind[b] \notin Lossy
               => Number(kind[b], m_data'[b]) = x)
  BY DEF ArrivesAt
<1> QED
  BY <1>1, <1>2, <1>3, PTL DEF Spec, RelayIsExact

-----------------------------------------------------------------------------
(* Calls that throw *)

\* What the loop of a call has passed was in range.
PassedOK ==
  /\ call.i \in Nat \ {0}
  /\ \A j \in 1 .. (call.i - 1) : call.vr[j] # Unknown

PInv ==
  /\ AInv
  /\ PassedOK
  /\ CallsArePrefixes

\* Without a position behind it, a call has set nothing.
LEMMA NothingSet ==
  ASSUME call.i = 1, NEW l
  PROVE  ~SetSoFar(l)
BY DEF SetSoFar

\* One more position adds its leaf, if that is an input.
LEMMA OneMoreSet ==
  ASSUME PassedOK, NEW l \in Leaves, At(call.op, l),
         call' = [call EXCEPT !.i = @ + 1], NEW m \in Leaves
  PROVE  SetSoFar(m)' <=> SetSoFar(m) \/ (m = l /\ l \in Inputs)
<1>1. call'.vr = call.vr /\ call'.i = call.i + 1 /\ call.i \in Nat \ {0}
  BY DEF PassedOK, At
<1>2. 1 .. (call'.i - 1) = (1 .. (call.i - 1)) \union {call.i}
  BY <1>1
<1>3. call.vr[call.i] = l /\ l # Unknown
  BY AccessorsAssumption DEF At
<1>4. \A j \in 1 .. (call'.i - 1) : call.vr[j] # Unknown
  BY <1>2, <1>3 DEF PassedOK
<1>5. SetSoFar(m) <=>
        m \in Inputs /\ \E j \in 1 .. (call.i - 1) : call.vr[j] = m
  BY <1>1, <1>2, <1>4 DEF SetSoFar
<1>6. SetSoFar(m)' <=>
        m \in Inputs /\ \E j \in 1 .. (call'.i - 1) : call.vr[j] = m
  BY <1>1, <1>4 DEF SetSoFar
<1> QED
  BY <1>2, <1>3, <1>5, <1>6

LEMMA OneMorePassed ==
  ASSUME PassedOK, NEW l \in Leaves, At(call.op, l),
         call' = [call EXCEPT !.i = @ + 1]
  PROVE  PassedOK'
<1>1. call'.vr = call.vr /\ call'.i = call.i + 1 /\ call.i \in Nat \ {0}
  BY DEF PassedOK, At
<1>2. 1 .. (call'.i - 1) = (1 .. (call.i - 1)) \union {call.i}
  BY <1>1
<1>3. call.vr[call.i] # Unknown
  BY AccessorsAssumption DEF At
<1>4. \A j \in 1 .. (call'.i - 1) : call.vr[j] # Unknown
  BY <1>2, <1>3 DEF PassedOK
<1> QED
  BY <1>1, <1>4 DEF PassedOK

LEMMA InitPInv == Init => PInv
<1> SUFFICES ASSUME Init PROVE PInv
  OBVIOUS
<1>1. call.i = 1
  BY DEF Init, Idle
<1>2. CallsArePrefixes
  BY <1>1, NothingSet DEF CallsArePrefixes, Init
<1> QED
  BY <1>1, <1>2, InitAInv DEF PInv, PassedOK

LEMMA StepPInv == PInv /\ [Next]_vars => PInv'
<1> SUFFICES ASSUME PInv, [Next]_vars PROVE PInv'
  OBVIOUS
<1>1. AInv /\ AInv' /\ PassedOK /\ CallsArePrefixes
  BY StepAInv DEF PInv
<1>2. Leaves = DOMAIN m_data /\ Leaves = DOMAIN variable
      /\ Outputs \intersect Inputs = {}
  BY <1>1, AccessorsAssumption DEF AInv, OutputsOK, OriginsOK
\* Between calls nothing is set and nothing differs.
<1>3. ASSUME call'.i = 1, before' = m_data' PROVE PInv'
  <2>1. \A l : ~SetSoFar(l)'
    BY <1>3 DEF SetSoFar
  <2> QED
    BY <1>1, <1>3, <2>1 DEF PInv, PassedOK, CallsArePrefixes
<1>4. CASE call = Idle /\ UNCHANGED call /\ before' = m_data'
  BY <1>3, <1>4 DEF Idle
<1>5. ASSUME call = Idle, UNCHANGED <<call, m_data, before>> PROVE PInv'
  <2>1. \A l : ~SetSoFar(l) /\ ~SetSoFar(l)'
    BY <1>5 DEF SetSoFar, Idle
  <2> QED
    BY <1>1, <1>5, <2>1 DEF PInv, PassedOK, CallsArePrefixes, Idle
<1>6. ASSUME NEW l \in Leaves, SetOne(l) PROVE PInv'
  <2>1. At(call.op, l) /\ call' = [call EXCEPT !.i = @ + 1]
    BY <1>6 DEF SetOne, At
  <2>2. l \in Inputs
    BY <1>1, <1>6, AccessorsAssumption DEF SetOne, At, AInv, CallOK
  <2>3. PICK v \in writer_visitor(kind[l], variable[l]) :
          m_data' = [m_data EXCEPT ![l] = v]
    BY <1>6 DEF SetOne
  <2>4. \A m \in Leaves : SetSoFar(m)' <=> SetSoFar(m) \/ m = l
    BY <1>1, <2>1, <2>2, OneMoreSet
  <2>5. CallsArePrefixes'
    BY <1>1, <1>2, <1>6, <2>3, <2>4 DEF SetOne, CallsArePrefixes
  <2>6. PassedOK'
    BY <1>1, <2>1, OneMorePassed
  <2> QED
    BY <1>1, <2>5, <2>6 DEF PInv
<1>7. ASSUME NEW l \in Leaves, GetOne(l) \/ GetString(l) PROVE PInv'
  <2>1. At(call.op, l) /\ call' = [call EXCEPT !.i = @ + 1]
    BY <1>7 DEF GetOne, GetString, At
  <2>2. l \in Outputs
    BY <1>1, <1>7, AccessorsAssumption
    DEF GetOne, GetString, At, AInv, CallOK
  <2>3. \A m \in Leaves : SetSoFar(m)' <=> SetSoFar(m)
    BY <1>1, <1>2, <2>1, <2>2, OneMoreSet
  <2>4. \A m \in Inputs : variable'[m] = variable[m]
    <3>1. \E x : variable' = [variable EXCEPT ![l] = x]
      BY <1>7 DEF GetOne, GetString
    <3>2. \A m \in Inputs : m \in DOMAIN variable /\ m # l
      BY <1>2, <2>2 DEF Leaves
    <3> QED
      BY <3>1, <3>2
  <2>5. \A m : SetSoFar(m) => m \in Inputs
    BY DEF SetSoFar
  <2>6. UNCHANGED <<kind, m_data, before>>
    BY <1>7 DEF GetOne, GetString
  <2>7. CallsArePrefixes'
    BY <1>1, <2>3, <2>4, <2>5, <2>6 DEF CallsArePrefixes
  <2>8. PassedOK'
    BY <1>1, <2>1, OneMorePassed
  <2> QED
    BY <1>1, <2>7, <2>8 DEF PInv
<1>8. CASE Throw
  <2>1. call'.vr = call.vr /\ call'.i = call.i
    BY <1>8 DEF Throw
  <2>2. \A m : SetSoFar(m)' <=> SetSoFar(m)
    BY <2>1 DEF SetSoFar
  <2> QED
    BY <1>1, <1>8, <2>1, <2>2 DEF Throw, PInv, PassedOK, CallsArePrefixes
<1>9. CASE UNCHANGED vars
  BY <1>1, <1>9 DEF vars, PInv, PassedOK, CallsArePrefixes, SetSoFar
<1>10. ASSUME NEW a \in Outputs, Take(a) PROVE PInv'
  BY <1>4, <1>10 DEF Take
<1>11. ASSUME NEW b \in Inputs, Choose(b) PROVE PInv'
  BY <1>5, <1>11 DEF Choose
<1>12. ASSUME NEW a \in Outputs, NEW b \in Inputs, Connect(a, b) PROVE PInv'
  BY <1>5, <1>12 DEF Connect
<1>13. ASSUME NEW op \in {"set", "get"}, NEW vr \in References, Begin(op, vr)
       PROVE  PInv'
  BY <1>3, <1>13 DEF Begin
<1>14. CASE Return \/ Reset
  BY <1>3, <1>14 DEF Return, Reset, Idle
<1> QED
  BY <1>6, <1>7, <1>8, <1>9, <1>10, <1>11, <1>12, <1>13, <1>14 DEF Next

(***************************************************************************)
(* CallsArePrefixes: a call that throws has set what came before in its    *)
(* array and nothing else, for every layout and every array of references. *)
(***************************************************************************)
THEOREM Prefixes == Spec => []CallsArePrefixes
<1>1. PInv => CallsArePrefixes
  BY DEF PInv
<1> QED
  BY <1>1, InitPInv, StepPInv, PTL DEF Spec
=============================================================================
