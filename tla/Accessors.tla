----------------------------- MODULE Accessors ------------------------------
(***************************************************************************)
(* SetXXX and GetXXX of the FMU and the visitors they call: what becomes   *)
(* of a value between a leaf of a DynamicData and the simulator, for each  *)
(* IDL kind.  A leaf is addressed by its FMI type and a value reference;   *)
(* here the reference is the leaf, and Unknown is one that is not there.   *)
(*                                                                         *)
(* The simulator keeps a value per variable.  It reads outputs, connects   *)
(* them to inputs, or thinks of a value, and sets inputs, with one call    *)
(* for many references; a step is one reference of such a call.            *)
(*                                                                         *)
(* Widths are parameters: a kind of n bits has Size = 2^n values, and a    *)
(* floating-point number with a significand of n bits is exact below       *)
(* Precision = 2^n.  Units are the powers of two a last place may stand    *)
(* for, consecutive from 1.  Reals are counted in halves, so that they     *)
(* have a fraction to lose; Infinity is a number above the others.         *)
(***************************************************************************)
EXTENDS Integers, Sequences

CONSTANTS
  Outputs, Inputs,            \* the leaves behind outputs and inputs
  Unknown,                    \* a value reference out of range
  Size8, Size16, Size32, Size64,
  FloatPrecision, DoublePrecision,
  Units,                      \* bound: the largest is that of the last place
                              \* of the largest float and the largest double
  Infinity,
  Chars, NUL,                 \* characters, and the one that ends a string
  Layouts,                    \* the kinds the IDL files may give the leaves
  Samples,                    \* Samples[k]: what DDS delivers for kind k
  Choices,                    \* Choices[t]: what the simulator thinks of
  References,                 \* the arrays of references it calls with
  None

VARIABLES
  kind,       \* per leaf: its IDL kind
  m_data,     \* per leaf: its value in the DynamicData
  variable,   \* per leaf: the value the simulator has for the variable
  origin,     \* per leaf: which leaf value that is, None if none
  call,       \* the call that runs: its operation, references, position
  before      \* the leaves when the call began

vars == <<kind, m_data, variable, origin, call, before>>

Leaves == Outputs \union Inputs

IntegerKinds == {"INT_8", "UINT_8", "INT_16", "UINT_16", "INT_32",
                 "ENUMERATION"}

LongKinds == {"UINT_32", "INT_64", "UINT_64"}

FloatKinds == {"FLOAT_32", "FLOAT_64"}

Kinds == IntegerKinds \union LongKinds \union FloatKinds \union
         {"BOOLEAN", "STRING", "CHAR_8"}

\* The vector of visitors a leaf of the kind is in.
type_of(k) == CASE k \in IntegerKinds -> "Integer"
                [] k \in LongKinds \union FloatKinds -> "Real"
                [] k = "BOOLEAN" -> "Boolean"
                [] OTHER -> "String"

-----------------------------------------------------------------------------
Size(k) == CASE k \in {"INT_8", "UINT_8"}   -> Size8
             [] k \in {"INT_16", "UINT_16"} -> Size16
             [] k \in {"INT_32", "UINT_32", "ENUMERATION"} -> Size32
             [] OTHER -> Size64

Lowest(k) == IF k \in {"INT_8", "INT_16", "INT_32", "INT_64"}
             THEN -(Size(k) \div 2)
             ELSE 0

IntegerRange(k) == Lowest(k) .. (Lowest(k) + Size(k) - 1)

\* static_cast of an integer to kind k: modulo its size.
Wrap(n, k) == Lowest(k) + ((n - Lowest(k)) % Size(k))

\* static_cast of a real, in halves, to an integer: towards zero.
Truncate(x) == IF x >= 0 THEN x \div 2 ELSE -((-x) \div 2)

\* The numbers with a significand below the precision.
Numbers(precision) ==
  {m * u : m \in (1 - precision) .. (precision - 1), u \in Units}

Floats(precision) == Numbers(precision) \union {-Infinity, Infinity}

\* Below the largest number with that unit in the last place, or next to it.
Below(x, precision, u) == -(precision * u) < x /\ x < precision * u

\* The unit of the last place of x.
Unit(x, precision) ==
  CHOOSE u \in Units :
    /\ Below(x, precision, u)
    /\ \A w \in Units : Below(x, precision, w) => u <= w

\* The nearest multiple of u, the even one of two as near.
Nearest(x, u) ==
  LET q == x \div u
      r == x % u
  IN  IF 2 * r > u \/ (2 * r = u /\ q % 2 = 1) THEN (q + 1) * u ELSE q * u

\* The nearest number with so many digits, infinity if it would be above the
\* largest.
Round(x, precision) ==
  IF /\ \E u \in Units : Below(x, precision, u)
     /\ Nearest(x, Unit(x, precision)) \in Numbers(precision)
  THEN Nearest(x, Unit(x, precision))
  ELSE IF x < 0 THEN -Infinity ELSE Infinity

Strings == Seq(Chars \ {NUL})

\* The values a leaf of the kind has.
Values(k) == CASE k \in IntegerKinds \union LongKinds -> IntegerRange(k)
               [] k = "FLOAT_32" -> Floats(FloatPrecision)
               [] k = "FLOAT_64" -> Floats(DoublePrecision)
               [] k = "BOOLEAN"  -> {0, 1}
               [] k = "CHAR_8"   -> Chars
               [] OTHER          -> Strings

\* The value of a new DynamicData.
Default(k) == CASE k = "STRING" -> <<>>
                [] k = "CHAR_8" -> NUL
                [] OTHER        -> 0

\* What fmi2Integer, fmi2Real, fmi2Boolean (an int) and fmi2String can be.
FmiValues(t) == CASE t = "Integer" -> IntegerRange("INT_32")
                  [] t = "Real"    -> Values("FLOAT_64")
                  [] t = "Boolean" -> Int
                  [] OTHER         -> Strings

ASSUME AccessorsAssumption ==
  /\ Outputs \intersect Inputs = {}
  /\ Unknown \notin Leaves
  /\ \A s \in {Size8, Size16, Size32, Size64} :
       /\ s \in Nat \ {0}
       /\ s % 2 = 0
  /\ 2 * Size8 <= Size16 /\ 2 * Size16 <= Size32 /\ 2 * Size32 <= Size64
  /\ FloatPrecision \in Nat \ {0} /\ DoublePrecision \in Nat
  /\ FloatPrecision <= DoublePrecision
  /\ Units \subseteq Nat \ {0} /\ 1 \in Units
  /\ \A u, w \in Units : u <= w => w % u = 0
  /\ Infinity \in Nat
  /\ \A u \in Units : DoublePrecision * u <= Infinity
  /\ NUL \in Chars
  /\ Layouts \subseteq [Leaves -> Kinds]
  /\ \A k \in Kinds : Samples[k] \subseteq Values(k)
  /\ \A t \in {"Integer", "Real", "Boolean", "String"} :
       Choices[t] \subseteq FmiValues(t)
  /\ References \subseteq Seq(Leaves \union {Unknown})

\* A double holds every integer of 32 bits.
ASSUME DoubleAssumption == 2 * Size32 <= DoublePrecision

-----------------------------------------------------------------------------
\* Mutant: an enumeration is read as if it were signed and 16 bits wide.
reader_visitorNarrow(k, v) ==
  CASE k = "ENUMERATION"  -> Wrap(v, "INT_16")
    [] k \in IntegerKinds -> Wrap(v, "INT_32")
    [] k \in LongKinds    -> Round(2 * v, DoublePrecision)
    [] k = "CHAR_8"       -> IF v = NUL THEN <<>> ELSE <<v>>
    [] OTHER              -> v

\* reader_visitor and the getter: the value of a leaf as the FMI type.  A
\* string of one NUL is empty to whoever reads it by its pointer.
reader_visitor(k, v) ==
  CASE k \in IntegerKinds -> Wrap(v, "INT_32")
    [] k \in LongKinds    -> Round(2 * v, DoublePrecision)
    [] k = "CHAR_8"       -> IF v = NUL THEN <<>> ELSE <<v>>
    [] OTHER              -> v

\* Mutant: INT_8 has the writer of INT_16.
writer_visitorWide(k, x) ==
  CASE k = "INT_8" -> {Wrap(x, "INT_16")}
    [] k \in IntegerKinds -> {Wrap(x, k)}
    [] k \in LongKinds -> IF Truncate(x) \in IntegerRange(k)
                          THEN {Truncate(x)}
                          ELSE IntegerRange(k)
    [] k = "FLOAT_32" -> {Round(x, FloatPrecision)}
    [] k = "BOOLEAN"  -> {IF x = 0 THEN 0 ELSE 1}
    [] k = "CHAR_8"   -> {IF x = <<>> THEN NUL ELSE Head(x)}
    [] OTHER          -> {x}

\* writer_visitor and the setter: what a leaf may be after it was given x.  A
\* real that is out of the range of the integer has no defined cast.
writer_visitor(k, x) ==
  CASE k \in IntegerKinds -> {Wrap(x, k)}
    [] k \in LongKinds -> IF Truncate(x) \in IntegerRange(k)
                          THEN {Truncate(x)}
                          ELSE IntegerRange(k)
    [] k = "FLOAT_32" -> {Round(x, FloatPrecision)}
    [] k = "BOOLEAN"  -> {IF x = 0 THEN 0 ELSE 1}
    [] k = "CHAR_8"   -> {IF x = <<>> THEN NUL ELSE Head(x)}
    [] OTHER          -> {x}

-----------------------------------------------------------------------------
Idle == [op |-> "none", vr |-> <<>>, i |-> 1]

Init ==
  /\ kind \in Layouts
  /\ m_data = [l \in Leaves |-> Default(kind[l])]
  /\ variable = [l \in Leaves |-> None]
  /\ origin = [l \in Leaves |-> None]
  /\ call = Idle
  /\ before = m_data

\* DoStep takes a sample.
Take(a) ==
  /\ call = Idle
  /\ m_data' \in {[m_data EXCEPT ![a] = v] : v \in Samples[kind[a]]}
  /\ before' = m_data'
  /\ UNCHANGED <<kind, variable, origin, call>>

\* The simulator has a value of its own for an input,
Choose(b) ==
  /\ call = Idle
  /\ variable' \in {[variable EXCEPT ![b] = x] :
                       x \in Choices[type_of(kind[b])]}
  /\ origin' = [origin EXCEPT ![b] = None]
  /\ UNCHANGED <<kind, m_data, call, before>>

\* or gives it the one it has for an output.
Connect(a, b) ==
  /\ call = Idle
  /\ origin[a] # None
  /\ type_of(kind[a]) = type_of(kind[b])
  /\ variable' = [variable EXCEPT ![b] = variable[a]]
  /\ origin' = [origin EXCEPT ![b] = origin[a]]
  /\ UNCHANGED <<kind, m_data, call, before>>

\* A call has the references of one FMI type, some may be out of range.
OfOneType(vr) ==
  \A i, j \in DOMAIN vr :
    vr[i] \in Leaves /\ vr[j] \in Leaves =>
      type_of(kind[vr[i]]) = type_of(kind[vr[j]])

Begin(op, vr) ==
  /\ call = Idle
  /\ OfOneType(vr)
  /\ \A i \in DOMAIN vr : vr[i] \in Leaves =>
       /\ op = "set" => vr[i] \in Inputs /\ variable[vr[i]] # None
       /\ op = "get" => vr[i] \in Outputs
  /\ call' = [op |-> op, vr |-> vr, i |-> 1]
  /\ before' = m_data
  /\ UNCHANGED <<kind, m_data, variable, origin>>

\* The loop of the call is at a leaf.
At(op, l) == /\ call.op = op
             /\ call.i \in DOMAIN call.vr
             /\ call.vr[call.i] = l

\* One round of SetReal, SetInteger, SetBoolean, SetString
SetOne(l) ==
  /\ At("set", l)
  /\ m_data' \in {[m_data EXCEPT ![l] = v] :
                     v \in writer_visitor(kind[l], variable[l])}
  /\ call' = [call EXCEPT !.i = @ + 1]
  /\ UNCHANGED <<kind, variable, origin, before>>

\* or of GetReal, GetInteger, GetBoolean.
GetOne(l) ==
  /\ At("get", l)
  /\ type_of(kind[l]) # "String"
  /\ variable' = [variable EXCEPT ![l] = reader_visitor(kind[l], m_data[l])]
  /\ origin' = [origin EXCEPT ![l] = [kind |-> kind[l], value |-> m_data[l]]]
  /\ call' = [call EXCEPT !.i = @ + 1]
  /\ UNCHANGED <<kind, m_data, before>>

\* GetString returns a pointer into val, a local of the loop: whatever is
\* there when the simulator looks.
GetString(l) ==
  /\ At("get", l)
  /\ type_of(kind[l]) = "String"
  /\ variable' \in {[variable EXCEPT ![l] = x] : x \in Choices["String"]}
  /\ origin' = [origin EXCEPT ![l] = [kind |-> kind[l], value |-> m_data[l]]]
  /\ call' = [call EXCEPT !.i = @ + 1]
  /\ UNCHANGED <<kind, m_data, before>>

\* Mutant: a reference out of range is skipped.
SkipUnknown ==
  /\ At(call.op, Unknown)
  /\ call' = [call EXCEPT !.i = @ + 1]
  /\ UNCHANGED <<kind, m_data, variable, origin, before>>

\* std::vector::at throws, and the call returns fmi2Error.
Throw ==
  /\ At(call.op, Unknown)
  /\ call' = [call EXCEPT !.op = "failed"]
  /\ UNCHANGED <<kind, m_data, variable, origin, before>>

Return ==
  /\ call.op \in {"set", "get"}
  /\ call.i > Len(call.vr)
  /\ call' = Idle
  /\ before' = m_data
  /\ UNCHANGED <<kind, m_data, variable, origin>>

\* fmi2Reset with the files as they were: new data.
Reset ==
  /\ call.op \in {"none", "failed"}
  /\ m_data' = [l \in Leaves |-> Default(kind[l])]
  /\ before' = m_data'
  /\ variable' = [l \in Leaves |-> None]
  /\ origin' = [l \in Leaves |-> None]
  /\ call' = Idle
  /\ UNCHANGED kind

Next ==
  \/ \E a \in Outputs : Take(a)
  \/ \E b \in Inputs : Choose(b)
  \/ \E a \in Outputs, b \in Inputs : Connect(a, b)
  \/ \E op \in {"set", "get"}, vr \in References : Begin(op, vr)
  \/ \E l \in Leaves : SetOne(l)
  \/ \E l \in Leaves : GetOne(l)
  \/ \E l \in Leaves : GetString(l)
  \/ Throw
  \/ Return
  \/ Reset

Spec == Init /\ [][Next]_vars

-----------------------------------------------------------------------------
(***************************************************************************)
(* Each leaf keeps a value of its kind, whatever the simulator sets, and   *)
(* the simulator gets values of the FMI type it asks for.                  *)
(***************************************************************************)
TypeOK ==
  /\ kind \in Layouts
  /\ DOMAIN m_data = Leaves
  /\ \A l \in Leaves : m_data[l] \in Values(kind[l])
  /\ DOMAIN variable = Leaves
  /\ \A l \in Leaves :
       variable[l] # None => variable[l] \in FmiValues(type_of(kind[l]))
  /\ DOMAIN origin = Leaves
  /\ \A l \in Leaves :
       origin[l] # None =>
         /\ DOMAIN origin[l] = {"kind", "value"}
         /\ origin[l].kind \in Kinds
         /\ origin[l].value \in Values(origin[l].kind)
         /\ type_of(origin[l].kind) = type_of(kind[l])
  /\ call.op \in {"none", "set", "get", "failed"}
  /\ call.i \in 1 .. Len(call.vr) + 1

\* The number a leaf stands for, in halves.
Number(k, v) == IF k \in FloatKinds THEN v ELSE 2 * v

\* A leaf of kind k can stand for the number.
Represents(k, x) ==
  IF k \in FloatKinds
  THEN x \in Values(k)
  ELSE x % 2 = 0 /\ x \div 2 \in Values(k)

\* The FMI type can.
Carries(type, x) ==
  CASE type = "Integer" -> Represents("INT_32", x)
    [] type = "Real"    -> Represents("FLOAT_64", x)
    [] OTHER            -> TRUE

(***************************************************************************)
(* A simulator reads an output and sets an input with what it got: the     *)
(* number behind the output arrives, if the FMI type and the kind of the   *)
(* input can stand for it.  Between leaves of one kind it arrives always,  *)
(* also an enumerator that FMI takes for a negative number, except for the *)
(* two kinds the table of docs/index.md calls lossy.                       *)
(***************************************************************************)
Lossy == {"INT_64", "UINT_64"}

RelayIsExact ==
  [][\A b \in Inputs :
       LET o == origin[b]
           x == Number(o.kind, o.value)
       IN  /\ At("set", b)
           /\ o # None
           /\ type_of(kind[b]) # "String"
           /\ Represents(kind[b], x)
           /\ \/ Carries(type_of(kind[b]), x)
              \/ o.kind = kind[b] /\ kind[b] \notin Lossy
           => Number(kind[b], m_data'[b]) = x]_vars

(***************************************************************************)
(* A call that throws at a reference has set the inputs before it in the   *)
(* array, and no other leaf has changed; a getter changes none.            *)
(***************************************************************************)
SetSoFar(l) ==
  /\ l \in Inputs
  /\ \E j \in 1 .. (call.i - 1) :
       /\ call.vr[j] = l
       /\ \A h \in 1 .. j : call.vr[h] # Unknown

CallsArePrefixes ==
  \A l \in Leaves : IF SetSoFar(l)
                    THEN m_data[l] \in writer_visitor(kind[l], variable[l])
                    ELSE m_data[l] = before[l]

(***************************************************************************)
(* After fmi2GetXXX the simulator has the values of the leaves, for every  *)
(* row of the table of docs/index.md:147, in which string and char8 are    *)
(* fmiString without a reservation.                                        *)
(***************************************************************************)
GettersAnswer ==
  \A a \in Outputs :
    origin[a] # None =>
      variable[a] = reader_visitor(origin[a].kind, origin[a].value)
=============================================================================
