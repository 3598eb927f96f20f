-------------------------- MODULE ConverterProofs ---------------------------
(***************************************************************************)
(* The class Converter: its conversions, for types of any shape and depth, *)
(* and its static members, for any number of instances.                    *)
(*                                                                         *)
(* Conversions.  The functions call themselves for the parts of a type, so *)
(* every lemma about them takes Recursion, that each function is what its  *)
(* body does, and goes by induction over Depth.  For every type: fresh     *)
(* objects of both libraries hold the same value (Fresh); a conversion to  *)
(* Fast DDS stores the value whatever was there before (Stores); one to    *)
(* a fresh object of xtypes gives it back (Reads), one to an object in use *)
(* keeps it of its type and lets it show the value (Refreshes).  Arrays of *)
(* arrays take the most: the places of two elements have nothing in common *)
(* (RegionsApart), so that no round of the loop disturbs an earlier one.   *)
(*                                                                         *)
(* Static members.  The maps and the list of consumers are shared, and     *)
(* what keeps them consistent is that calls are served one at a time       *)
(* (OneCall) and that reset empties all of them before it fills any: while *)
(* an instance fills them they hold nothing of another (BuildersAreOwn),   *)
(* and everybody else knows it has been disturbed (OthersDisturbed).       *)
(***************************************************************************)
EXTENDS Converter, Process, SequenceTheorems, WellFoundedInduction, TLAPS

\* Induction over the nesting of types.
LEMMA TypeInduction ==
  ASSUME NEW S,
         \A t \in AllTypes :
           (\A p \in AllTypes : Depth[p] < Depth[t] => p \in S) => t \in S
  PROVE  AllTypes \subseteq S
<1> DEFINE bad == {Depth[t] : t \in AllTypes \ S}
<1>0. \A t \in AllTypes : Depth[t] \in Nat
  BY ConverterAssumption
<1> SUFFICES ASSUME NEW x \in AllTypes, x \notin S PROVE FALSE
  OBVIOUS
<1>1. bad \subseteq Nat /\ bad # {}
  BY <1>0
<1>2. PICK n \in bad : \A m \in bad : ~(<<m, n>> \in OpToRel(<, Nat))
  BY <1>1, NatLessThanWellFounded, WFMin
<1>3. PICK t \in AllTypes \ S : n = Depth[t]
  BY <1>2
<1>4. ASSUME NEW p \in AllTypes, Depth[p] < Depth[t] PROVE p \in S
  <2>1. SUFFICES ASSUME p \notin S PROVE FALSE
    OBVIOUS
  <2>2. Depth[p] \in bad /\ Depth[p] \in Nat /\ n \in Nat
    BY <1>0, <1>3, <2>1
  <2>3. ~(Depth[p] < n)
    BY <1>2, <2>2 DEF OpToRel
  <2> QED
    BY <1>3, <1>4, <2>3
<1> QED
  BY <1>3, <1>4

\* Induction over the natural numbers.
LEMMA Induction ==
  ASSUME NEW S, 0 \in S, \A n \in Nat : n \in S => n + 1 \in S
  PROVE  Nat \subseteq S
<1> DEFINE bad == Nat \ S
<1> SUFFICES ASSUME NEW x \in Nat, x \notin S PROVE FALSE
  OBVIOUS
<1>0. bad \subseteq Nat /\ bad # {}
  OBVIOUS
<1>1. PICK n \in bad : \A m \in bad : ~(<<m, n>> \in OpToRel(<, Nat))
  BY <1>0, NatLessThanWellFounded, WFMin
<1>2. n \in Nat /\ n # 0
  BY <1>1
<1>3. n - 1 \in Nat /\ n - 1 < n
  BY <1>2
<1>4. n - 1 \in S
  <2> SUFFICES ASSUME n - 1 \notin S PROVE FALSE
    OBVIOUS
  <2>1. n - 1 \in bad
    BY <1>3
  <2>2. ~(n - 1 < n)
    BY <1>1, <1>2, <1>3, <2>1 DEF OpToRel
  <2> QED
    BY <1>3, <2>2
<1>5. (n - 1) + 1 \in S
  BY <1>3, <1>4
<1>6. (n - 1) + 1 = n
  BY <1>2
<1> QED
  BY <1>1, <1>5, <1>6

\* The four loops, each a job: what a round of the loop makes of its state.
Round(job, state, i) ==
  CASE job.loop = "set_array_data" ->
         set_element(job.type, job.from, state, job.indexes, i)
    [] job.loop = "set_map_data" ->
         assign(state,
                get_value(job.type.first, job.from[i][1],
                          DynamicData(job.type.first)),
                get_value(job.type.second, job.from[i][2],
                          DynamicData(job.type.second)))
    [] job.loop = "get_array_index" ->
         state * job.bounds[i] + job.indexes[i]
    [] job.loop = "Places" ->
         job.bounds[Len(job.bounds) - i + 1] * state

\* The state after each round.
Loop(job, start) ==
  CHOOSE state : state = [i \in Nat |->
    IF i = 0 THEN start ELSE Round(job, state[i - 1], i)]

\* A loop has a state after each round, the one its rounds lead to.
LEMMA LoopExists ==
  ASSUME NEW job, NEW start
  PROVE  \E state : state = [i \in Nat |->
           IF i = 0 THEN start ELSE Round(job, state[i - 1], i)]
<1> DEFINE Upto(n, g) ==
      g = [i \in 0 .. n |-> IF i = 0 THEN start ELSE Round(job, g[i - 1], i)]
    G(n) == CHOOSE g : Upto(n, g)
<1>1. \A n \in Nat : \E g : Upto(n, g)
  <2> DEFINE S == {n \in Nat : \E g : Upto(n, g)}
  <2>1. 0 \in S
    <3>1. Upto(0, [i \in 0 .. 0 |-> start])
      OBVIOUS
    <3> QED
      BY <3>1
  <2>2. ASSUME NEW n \in Nat, n \in S PROVE n + 1 \in S
    <3>1. PICK g : Upto(n, g)
      BY <2>2
    <3> DEFINE h == [i \in 0 .. n + 1 |->
                       IF i = n + 1 THEN Round(job, g[n], n + 1) ELSE g[i]]
    <3>2. \A i \in 0 .. n + 1 :
            h[i] = IF i = 0 THEN start ELSE Round(job, h[i - 1], i)
      <4> TAKE i \in 0 .. n + 1
      <4>1. CASE i = n + 1
        BY <4>1
      <4>2. CASE i # n + 1
        <5>1. i \in 0 .. n /\ (i # 0 => i - 1 \in 0 .. n /\ i - 1 # n + 1)
          BY <4>2
        <5>2. g[i] = IF i = 0 THEN start ELSE Round(job, g[i - 1], i)
          BY <3>1, <5>1
        <5> QED
          BY <4>2, <5>1, <5>2
      <4> QED
        BY <4>1, <4>2
    <3>3. Upto(n + 1, h)
      BY <3>2
    <3> HIDE DEF Upto, h
    <3> QED
      BY <3>3
  <2>3. Nat \subseteq S
    <3> HIDE DEF S
    <3> QED
      BY <2>1, <2>2, Induction
  <2> HIDE DEF Upto
  <2> QED
    BY <2>3
<1>2. \A n \in Nat : Upto(n, G(n))
  BY <1>1
<1>3. \A n \in Nat : \A i \in 0 .. n : G(n + 1)[i] = G(n)[i]
  <2> TAKE n \in Nat
  <2> DEFINE S == {i \in Nat : i \in 0 .. n => G(n + 1)[i] = G(n)[i]}
  <2> HIDE DEF G
  <2>0. Upto(n, G(n)) /\ Upto(n + 1, G(n + 1))
    BY <1>2
  <2>1. 0 \in S
    BY <2>0
  <2>2. ASSUME NEW i \in Nat, i \in S PROVE i + 1 \in S
    <3> SUFFICES ASSUME i + 1 \in 0 .. n
                 PROVE  G(n + 1)[i + 1] = G(n)[i + 1]
      OBVIOUS
    <3>1. G(n + 1)[i + 1] = Round(job, G(n + 1)[i], i + 1)
      BY <2>0
    <3>2. G(n)[i + 1] = Round(job, G(n)[i], i + 1)
      BY <2>0
    <3>3. G(n + 1)[i] = G(n)[i]
      BY <2>2
    <3> QED
      BY <3>1, <3>2, <3>3
  <2>3. Nat \subseteq S
    BY <2>1, <2>2, Induction
  <2> QED
    BY <2>3
<1> DEFINE f == [n \in Nat |-> G(n)[n]]
<1> HIDE DEF G
<1>4. \A i \in Nat : f[i] = IF i = 0 THEN start ELSE Round(job, f[i - 1], i)
  <2> TAKE i \in Nat
  <2>1. CASE i = 0
    BY <1>2, <2>1
  <2>2. CASE i # 0
    <3> DEFINE n == i - 1
    <3>1. n \in Nat /\ i = n + 1
      BY <2>2
    <3>2. G(i)[i] = Round(job, G(i)[n], i)
      BY <1>2, <2>2
    <3>3. G(i)[n] = G(n)[n]
      BY <1>3, <3>1
    <3> QED
      BY <2>2, <3>1, <3>2, <3>3
  <2> QED
    BY <2>1, <2>2
<1> HIDE DEF f
<1>5. f = [i \in Nat |-> IF i = 0 THEN start ELSE Round(job, f[i - 1], i)]
  <2>1. f = [i \in Nat |-> f[i]]
    BY DEF f
  <2> QED
    BY <1>4, <2>1
<1> QED
  BY <1>5

\* Its state before the first round, and what each round makes of it.
LEMMA LoopEquations ==
  ASSUME NEW job, NEW start
  PROVE  /\ Loop(job, start)[0] = start
         /\ \A i \in Nat :
              Loop(job, start)[i + 1] = Round(job, Loop(job, start)[i], i + 1)
<1> DEFINE L == Loop(job, start)
<1>1. L = [i \in Nat |-> IF i = 0 THEN start ELSE Round(job, L[i - 1], i)]
  BY LoopExists DEF Loop
<1> HIDE DEF L
<1>2. L[0] = start
  BY <1>1
<1>3. \A i \in Nat : L[i + 1] = Round(job, L[i], i + 1)
  <2> TAKE i \in Nat
  <2>1. i + 1 \in Nat /\ i + 1 # 0 /\ (i + 1) - 1 = i
    OBVIOUS
  <2> QED
    BY <1>1, <2>1
<1> QED
  BY <1>2, <1>3 DEF L

ArrayJob(t, from, indexes) ==
  [loop |-> "set_array_data", type |-> t, from |-> from, indexes |-> indexes]
MapJob(t, from) == [loop |-> "set_map_data", type |-> t, from |-> from]
IndexJob(bounds, indexes) ==
  [loop |-> "get_array_index", bounds |-> bounds, indexes |-> indexes]
PlacesJob(bounds) == [loop |-> "Places", bounds |-> bounds]

\* The functions with a loop, by their loops.
LEMMA ArrayLoop ==
  ASSUME NEW t, NEW from, NEW to, NEW indexes
  PROVE  /\ set_array_data_body(t, from, to, indexes)
              = Loop(ArrayJob(t, from, indexes), to)[Len(from)]
         /\ Loop(ArrayJob(t, from, indexes), to)[0] = to
         /\ \A i \in Nat :
              Loop(ArrayJob(t, from, indexes), to)[i + 1]
                = set_element(t, from,
                              Loop(ArrayJob(t, from, indexes), to)[i],
                              indexes, i + 1)
<1>1. \A x, i : Round(ArrayJob(t, from, indexes), x, i)
                 = set_element(t, from, x, indexes, i)
  BY DEF Round, ArrayJob
<1>2. Loop(ArrayJob(t, from, indexes), to)
        = CHOOSE array : array = [i \in Nat |->
            IF i = 0 THEN to
                     ELSE set_element(t, from, array[i - 1], indexes, i)]
  BY <1>1 DEF Loop
<1>3. set_array_data_body(t, from, to, indexes)
        = Loop(ArrayJob(t, from, indexes), to)[Len(from)]
  BY <1>2 DEF set_array_data_body
<1> QED
  BY <1>1, <1>3, LoopEquations

\* set_map_data, towards xtypes, assigns pair after pair.
LEMMA MapLoop ==
  ASSUME NEW t, NEW from, NEW to
  PROVE  /\ get_map_data(t, from, to)
              = Loop(MapJob(t, from), to)[Len(from)]
         /\ Loop(MapJob(t, from), to)[0] = to
         /\ \A i \in Nat :
              Loop(MapJob(t, from), to)[i + 1]
                = assign(Loop(MapJob(t, from), to)[i],
                         get_value(t.first, from[i + 1][1],
                                   DynamicData(t.first)),
                         get_value(t.second, from[i + 1][2],
                                   DynamicData(t.second)))
<1> DEFINE A(x, i) ==
             assign(x, get_value(t.first, from[i][1], DynamicData(t.first)),
                    get_value(t.second, from[i][2], DynamicData(t.second)))
<1>1. \A x, i : Round(MapJob(t, from), x, i) = A(x, i)
  BY DEF Round, MapJob
<1>2. Loop(MapJob(t, from), to)
        = CHOOSE map : map = [i \in Nat |->
            IF i = 0 THEN to ELSE A(map[i - 1], i)]
  BY <1>1 DEF Loop
<1>3. get_map_data(t, from, to) = Loop(MapJob(t, from), to)[Len(from)]
  BY <1>2 DEF get_map_data
<1> QED
  BY <1>1, <1>3, LoopEquations

\* get_array_index looks at the bounds of the array only.
Index(bounds, indexes) == Loop(IndexJob(bounds, indexes), 0)[Len(indexes)]

\* The index, one dimension after the other.
LEMMA IndexLoop ==
  ASSUME NEW bounds, NEW indexes
  PROVE  /\ Loop(IndexJob(bounds, indexes), 0)[0] = 0
         /\ \A i \in Nat :
              Loop(IndexJob(bounds, indexes), 0)[i + 1]
                = Loop(IndexJob(bounds, indexes), 0)[i] * bounds[i + 1]
                    + indexes[i + 1]
<1>1. \A x, i : Round(IndexJob(bounds, indexes), x, i)
                 = x * bounds[i] + indexes[i]
  BY DEF Round, IndexJob
<1> QED
  BY <1>1, LoopEquations

\* get_array_index is this index.
LEMMA GetArrayIndex ==
  ASSUME NEW array, NEW indexes
  PROVE  get_array_index(array, indexes) = Index(array.bounds, indexes)
<1>1. \A x, i : Round(IndexJob(array.bounds, indexes), x, i)
                 = x * array.bounds[i] + indexes[i]
  BY DEF Round, IndexJob
<1>2. Loop(IndexJob(array.bounds, indexes), 0)
        = CHOOSE index : index = [d \in Nat |->
            IF d = 0 THEN 0 ELSE index[d - 1] * array.bounds[d] + indexes[d]]
  BY <1>1 DEF Loop
<1> QED
  BY <1>2 DEF get_array_index, Index

\* The product of the bounds, one dimension after the other.
LEMMA PlacesLoop ==
  ASSUME NEW bounds
  PROVE  /\ Places(bounds) = Loop(PlacesJob(bounds), 1)[Len(bounds)]
         /\ Loop(PlacesJob(bounds), 1)[0] = 1
         /\ \A i \in Nat :
              Loop(PlacesJob(bounds), 1)[i + 1]
                = bounds[Len(bounds) - (i + 1) + 1]
                    * Loop(PlacesJob(bounds), 1)[i]
<1>1. \A x, i : Round(PlacesJob(bounds), x, i)
                 = bounds[Len(bounds) - i + 1] * x
  BY DEF Round, PlacesJob
<1>2. Loop(PlacesJob(bounds), 1)
        = CHOOSE places : places = [d \in Nat |->
            IF d = 0 THEN 1
                     ELSE bounds[Len(bounds) - d + 1] * places[d - 1]]
  BY <1>1 DEF Loop
<1>3. Places(bounds) = Loop(PlacesJob(bounds), 1)[Len(bounds)]
  BY <1>2 DEF Places
<1>4. \A i \in Nat : Loop(PlacesJob(bounds), 1)[i + 1]
                     = Round(PlacesJob(bounds),
                             Loop(PlacesJob(bounds), 1)[i], i + 1)
  BY LoopEquations
<1>5. Loop(PlacesJob(bounds), 1)[0] = 1
  BY LoopEquations
<1>6. ASSUME NEW i \in Nat
      PROVE  Loop(PlacesJob(bounds), 1)[i + 1]
               = bounds[Len(bounds) - (i + 1) + 1]
                   * Loop(PlacesJob(bounds), 1)[i]
  BY <1>1, <1>4, Zenon
<1> QED
  BY <1>3, <1>5, <1>6, Zenon

Positive == Nat \ {0}

\* No indexes at all: the first place.
LEMMA IndexEmpty == ASSUME NEW bounds PROVE Index(bounds, <<>>) = 0
BY IndexLoop DEF Index

\* An index is no less than zero.
LEMMA IndexInNat ==
  ASSUME NEW bounds \in Seq(Positive), NEW indexes \in Seq(Nat),
         Len(indexes) <= Len(bounds)
  PROVE  Index(bounds, indexes) \in Nat
<1> DEFINE L == Loop(IndexJob(bounds, indexes), 0)
           S == {i \in Nat : i <= Len(indexes) => L[i] \in Nat}
<1>1. 0 \in S
  BY IndexLoop
<1>2. ASSUME NEW i \in Nat, i \in S PROVE i + 1 \in S
  <2> SUFFICES ASSUME i + 1 <= Len(indexes) PROVE L[i + 1] \in Nat
    OBVIOUS
  <2>1. bounds[i + 1] \in Nat /\ indexes[i + 1] \in Nat /\ L[i] \in Nat
    BY <1>2 DEF Positive
  <2>2. L[i + 1] = L[i] * bounds[i + 1] + indexes[i + 1]
    BY IndexLoop
  <2> HIDE DEF L
  <2> QED
    BY <2>1, <2>2
<1>3. Nat \subseteq S
  <2> HIDE DEF S
  <2> QED
    BY <1>1, <1>2, Induction
<1>4. Len(indexes) \in S
  BY <1>3
<1> QED
  BY <1>4 DEF Index

\* One index more: the place among the elements of that dimension.
LEMMA IndexAppend ==
  ASSUME NEW bounds \in Seq(Positive), NEW indexes \in Seq(Nat),
         NEW x \in Nat, Len(indexes) < Len(bounds)
  PROVE  Index(bounds, Append(indexes, x))
           = Index(bounds, indexes) * bounds[Len(indexes) + 1] + x
<1> DEFINE s == Append(indexes, x)
           n == Len(indexes)
           L == Loop(IndexJob(bounds, indexes), 0)
           M == Loop(IndexJob(bounds, s), 0)
           S == {i \in Nat : i <= n => M[i] = L[i]}
<1>1. 0 \in S
  BY IndexLoop
<1>2. ASSUME NEW i \in Nat, i \in S PROVE i + 1 \in S
  <2> SUFFICES ASSUME i + 1 <= n PROVE M[i + 1] = L[i + 1]
    OBVIOUS
  <2>1. s[i + 1] = indexes[i + 1] /\ M[i] = L[i]
    BY <1>2
  <2>2. L[i + 1] = L[i] * bounds[i + 1] + indexes[i + 1]
    BY IndexLoop
  <2>3. M[i + 1] = M[i] * bounds[i + 1] + s[i + 1]
    BY IndexLoop
  <2> HIDE DEF L, M, s
  <2> QED
    BY <2>1, <2>2, <2>3
<1>3. Nat \subseteq S
  <2> HIDE DEF S
  <2> QED
    BY <1>1, <1>2, Induction
<1>4. n \in Nat /\ Len(s) = n + 1 /\ s[n + 1] = x
  OBVIOUS
<1>5. M[n] = L[n]
  BY <1>3, <1>4
<1>6. M[n + 1] = M[n] * bounds[n + 1] + s[n + 1]
  BY <1>4, IndexLoop
<1>7. Index(bounds, s) = M[n + 1] /\ Index(bounds, indexes) = L[n]
  BY <1>4 DEF Index
<1> QED
  BY <1>4, <1>5, <1>6, <1>7

\* No bounds: one value.
LEMMA PlacesEmpty == Places(<<>>) = 1
<1>1. Len(<<>>) = 0
  OBVIOUS
<1> QED
  BY <1>1, PlacesLoop, Zenon

\* One bound more multiplies the places.
LEMMA PlacesCons ==
  ASSUME NEW a \in Positive, NEW rest \in Seq(Positive)
  PROVE  Places(<<a>> \o rest) = a * Places(rest)
<1> DEFINE s == <<a>> \o rest
           n == Len(rest)
           L == Loop(PlacesJob(rest), 1)
           M == Loop(PlacesJob(s), 1)
           S == {i \in Nat : i <= n => M[i] = L[i]}
<1>0. s \in Seq(Positive) /\ n \in Nat /\ Len(s) = n + 1 /\ s[1] = a
  OBVIOUS
<1>1. 0 \in S
  BY PlacesLoop
<1>2. ASSUME NEW i \in Nat, i \in S PROVE i + 1 \in S
  <2> SUFFICES ASSUME i + 1 <= n PROVE M[i + 1] = L[i + 1]
    OBVIOUS
  <2>1. s[Len(s) - (i + 1) + 1] = rest[Len(rest) - (i + 1) + 1]
    BY <1>0
  <2>2. L[i + 1] = rest[Len(rest) - (i + 1) + 1] * L[i]
    BY PlacesLoop
  <2>3. M[i + 1] = s[Len(s) - (i + 1) + 1] * M[i]
    BY PlacesLoop
  <2>4. M[i] = L[i]
    BY <1>2
  <2> HIDE DEF L, M, s
  <2> QED
    BY <2>1, <2>2, <2>3, <2>4
<1>3. Nat \subseteq S
  <2> HIDE DEF S
  <2> QED
    BY <1>1, <1>2, Induction
<1>5. M[n] = L[n]
  BY <1>0, <1>3
<1>6. M[n + 1] = s[Len(s) - (n + 1) + 1] * M[n]
  BY <1>0, PlacesLoop
<1>7. Len(s) - (n + 1) + 1 = 1
  BY <1>0
<1>8. Places(s) = M[n + 1] /\ Places(rest) = L[n]
  BY <1>0, PlacesLoop
<1> QED
  BY <1>0, <1>5, <1>6, <1>7, <1>8

\* An array has at least one place.
LEMMA PlacesPositive ==
  ASSUME NEW bounds \in Seq(Positive)
  PROVE  Places(bounds) \in Positive
<1> DEFINE L == Loop(PlacesJob(bounds), 1)
           S == {i \in Nat : i <= Len(bounds) => L[i] \in Positive}
<1>0. L[0] = 1
  BY PlacesLoop, Zenon
<1>1. 0 \in S
  BY <1>0 DEF Positive
<1>2. ASSUME NEW i \in Nat, i \in S PROVE i + 1 \in S
  <2> SUFFICES ASSUME i + 1 <= Len(bounds) PROVE L[i + 1] \in Positive
    OBVIOUS
  <2>1. L[i + 1] = bounds[Len(bounds) - (i + 1) + 1] * L[i]
    BY PlacesLoop
  <2>2. bounds[Len(bounds) - (i + 1) + 1] \in Positive /\ L[i] \in Positive
    BY <1>2
  <2>3. \A x, y \in Positive : x * y \in Positive
    <3>1. SUFFICES ASSUME NEW x \in Nat, NEW y \in Nat, x > 0, y > 0
                   PROVE  x * y > 0
      BY DEF Positive
    <3> QED
      BY <3>1
  <2> HIDE DEF L
  <2> QED
    BY <2>1, <2>2, <2>3
<1>3. Nat \subseteq S
  <2> HIDE DEF S
  <2> QED
    BY <1>1, <1>2, Induction
<1>4. Len(bounds) \in S /\ Len(bounds) <= Len(bounds)
  BY <1>3
<1>5. Places(bounds) = L[Len(bounds)]
  BY PlacesLoop, Zenon
<1> QED
  BY <1>4, <1>5

-----------------------------------------------------------------------------
(* Arrays: the places of a value in a flat one. *)

Specs(t) == get_array_specs(t)
\* What a flat array that keeps t has in each place.
Element(t) == IF t.kind = "ARRAY" THEN Specs(t).content ELSE t

\* get_array_specs: the bounds of all dimensions, and what is no array.
SpecsOK(t) ==
  t.kind = "ARRAY" =>
    /\ Specs(t).bounds \in Seq(Positive)
    /\ Len(Specs(t).bounds) > 0
    /\ Specs(t).bounds[1] = t.dimension
    /\ Size(t) = Places(Specs(t).bounds)
    /\ Size(t) = t.dimension * Size(t.content)
    /\ Specs(t).content \in AllTypes
    /\ Specs(t).content.kind # "ARRAY"
    /\ Depth[Specs(t).content] < Depth[t]
    /\ Element(t) = Element(t.content)
    /\ t.content.kind = "ARRAY" =>
         Specs(t).bounds = <<t.dimension>> \o Specs(t.content).bounds
    /\ t.content.kind # "ARRAY" => Specs(t).bounds = <<t.dimension>>

\* What holds of the content of an array.
LEMMA ArrayParts ==
  ASSUME NEW t \in AllTypes, t.kind = "ARRAY"
  PROVE  /\ t.content \in AllTypes
         /\ Depth[t.content] \in Nat /\ Depth[t] \in Nat
         /\ Depth[t.content] < Depth[t]
         /\ t.dimension \in Positive
<1>1. Parts(t) = {t.content}
  BY DEF Parts, Complex
<1>2. t.content \in AllTypes /\ Depth[t.content] < Depth[t] /\ WellFormed(t)
  BY <1>1, ConverterAssumption
<1> QED
  BY <1>2, ConverterAssumption DEF WellFormed, Positive

\* get_array_specs finds the bounds of all dimensions, by induction.
LEMMA SpecsLemma ==
  ASSUME Recursion, NEW t \in AllTypes
  PROVE  SpecsOK(t)
<1> DEFINE S == {u \in AllTypes : SpecsOK(u)}
<1>1. ASSUME NEW u \in AllTypes,
             \A p \in AllTypes : Depth[p] < Depth[u] => p \in S
      PROVE  u \in S
  <2> SUFFICES ASSUME u.kind = "ARRAY" PROVE SpecsOK(u)
    BY DEF SpecsOK
  <2> DEFINE c == u.content
  <2>1. /\ c \in AllTypes /\ Depth[c] < Depth[u] /\ u.dimension \in Positive
        /\ Depth[c] \in Nat /\ Depth[u] \in Nat
    BY ArrayParts
  <2>2. SpecsOK(c)
    BY <1>1, <2>1
  <2>3. Specs(u) = get_array_specs_body(u)
    BY DEF Recursion, Specs
  <2>4. Size(u) = u.dimension * Size(c)
    BY DEF Recursion, Size_body
  <2>5. c.kind # "ARRAY" => Size(c) = 1
    BY <2>1 DEF Recursion, Size_body
  <2>6. CASE c.kind = "ARRAY"
    <3>1. /\ Specs(u).bounds = <<u.dimension>> \o Specs(c).bounds
          /\ Specs(u).content = Specs(c).content
      BY <2>3, <2>6 DEF get_array_specs_body, Specs
    <3>2. /\ Specs(c).bounds \in Seq(Positive) /\ Specs(c).content \in AllTypes
          /\ Depth[Specs(c).content] < Depth[c]
          /\ Specs(c).content.kind # "ARRAY"
      BY <2>2, <2>6 DEF SpecsOK
    <3>3. Places(Specs(u).bounds) = u.dimension * Places(Specs(c).bounds)
      BY <2>1, <3>1, <3>2, PlacesCons
    <3>4. Depth[Specs(c).content] \in Nat
      BY <3>2, ConverterAssumption
    <3>5. /\ Specs(u).bounds \in Seq(Positive)
          /\ Len(Specs(u).bounds) > 0
          /\ Specs(u).bounds[1] = u.dimension
      BY <2>1, <3>1, <3>2
    <3>6. Depth[Specs(u).content] < Depth[u]
      BY <2>1, <3>1, <3>2, <3>4
    <3> QED
      BY <2>2, <2>4, <2>6, <3>1, <3>2, <3>3, <3>5, <3>6 DEF SpecsOK, Element
  <2>7. CASE c.kind # "ARRAY"
    <3>1. Specs(u).bounds = <<u.dimension>> /\ Specs(u).content = c
      BY <2>3, <2>7 DEF get_array_specs_body, Specs
    <3>0. <<>> \in Seq(Positive) /\ <<u.dimension>> \o <<>> = <<u.dimension>>
      BY <2>1
    <3>2. Places(<<u.dimension>> \o <<>>) = u.dimension * Places(<<>>)
      BY <2>1, <3>0, PlacesCons
    <3>3. Places(<<u.dimension>>) = u.dimension
      BY <2>1, <3>2, PlacesEmpty DEF Positive
    <3>4. u.dimension * 1 = u.dimension
      BY <2>1 DEF Positive
    <3>5. /\ Specs(u).bounds \in Seq(Positive)
          /\ Len(Specs(u).bounds) > 0
          /\ Specs(u).bounds[1] = u.dimension
      BY <2>1, <3>1
    <3> QED
      BY <2>1, <2>4, <2>5, <2>7, <3>1, <3>3, <3>4, <3>5 DEF SpecsOK, Element
  <2> QED
    BY <2>6, <2>7
<1>2. AllTypes \subseteq S
  <2> HIDE DEF S
  <2> QED
    BY <1>1, TypeInduction
<1> QED
  BY <1>2

\* The blocks of S places that follow one another do not overlap.
LEMMA Blocks ==
  ASSUME NEW S \in Nat, NEW i \in Nat, NEW j \in Nat, i < j
  PROVE  i * S + S <= j * S
<1> DEFINE k == j - (i + 1)
<1>1. k \in Nat /\ j = i + 1 + k
  OBVIOUS
<1>2. k * S >= 0
  <2>1. k * S \in Nat
    BY <1>1
  <2> QED
    BY <2>1
<1>3. j * S = i * S + S + k * S
  <2> HIDE DEF k
  <2>1. (i + 1 + k) * S = i * S + S + k * S
    BY <1>1
  <2> QED
    BY <1>1, <2>1
<1>4. i * S \in Nat /\ k * S \in Int /\ j * S \in Nat
  BY <1>1
<1> HIDE DEF k
<1> QED
  BY <1>2, <1>3, <1>4

\* A flat array with these bounds has an array of type t at indexes.
Fits(t, bounds, indexes) ==
  /\ bounds \in Seq(Positive) /\ indexes \in Seq(Nat)
  /\ Len(bounds) = Len(indexes) + Len(Specs(t).bounds)
  /\ \A k \in 1 .. Len(Specs(t).bounds) :
       bounds[Len(indexes) + k] = Specs(t).bounds[k]
  /\ Index(bounds, indexes) * Size(t) + Size(t) <= Places(bounds)

\* The places of a value of type t at indexes.
Region(t, bounds, indexes) ==
  {k \in Nat : /\ Index(bounds, indexes) * Size(t) <= k
               /\ k < Index(bounds, indexes) * Size(t) + Size(t)}

\* A value takes at least one place.
LEMMA SizePositive ==
  ASSUME Recursion, NEW t \in AllTypes
  PROVE  Size(t) \in Positive
<1>1. CASE t.kind = "ARRAY"
  <2>1. Specs(t).bounds \in Seq(Positive)
    BY <1>1, SpecsLemma DEF SpecsOK
  <2>2. Size(t) = Places(Specs(t).bounds)
    BY <1>1, SpecsLemma DEF SpecsOK
  <2> QED
    BY <1>1, <2>1, <2>2, PlacesPositive
<1>2. CASE t.kind # "ARRAY"
  BY <1>2 DEF Recursion, Size_body, Positive
<1> QED
  BY <1>1, <1>2

\* The element i of an array at indexes.
LEMMA ElementAt ==
  ASSUME Recursion, NEW t \in AllTypes, t.kind = "ARRAY",
         NEW bounds, NEW indexes, Fits(t, bounds, indexes),
         NEW i \in 1 .. t.dimension
  PROVE  /\ Append(indexes, i - 1) \in Seq(Nat)
         /\ Index(bounds, indexes) \in Nat
         /\ Index(bounds, Append(indexes, i - 1)) \in Nat
         /\ Index(bounds, Append(indexes, i - 1)) * Size(t.content)
              = Index(bounds, indexes) * Size(t) + (i - 1) * Size(t.content)
         /\ (i - 1) * Size(t.content) + Size(t.content) <= Size(t)
<1> DEFINE ix == Append(indexes, i - 1)
           c == t.content
           I == Index(bounds, indexes)
           J == Index(bounds, ix)
           D == t.dimension
           Z == Size(c)
<1>1. D \in Nat /\ c \in AllTypes /\ Z \in Nat /\ i - 1 \in Nat
  BY ArrayParts, SizePositive DEF Positive
<1>2. SpecsOK(t)
  BY SpecsLemma
<1>3. /\ bounds \in Seq(Positive) /\ indexes \in Seq(Nat)
      /\ Len(indexes) < Len(bounds) /\ bounds[Len(indexes) + 1] = D
  <2>1. /\ Specs(t).bounds \in Seq(Positive) /\ Len(Specs(t).bounds) > 0
        /\ Specs(t).bounds[1] = D
    BY <1>2 DEF SpecsOK
  <2>2. /\ bounds \in Seq(Positive) /\ indexes \in Seq(Nat)
        /\ Len(bounds) = Len(indexes) + Len(Specs(t).bounds)
    BY DEF Fits
  <2>3. 1 \in 1 .. Len(Specs(t).bounds)
    BY <2>1
  <2>4. bounds[Len(indexes) + 1] = Specs(t).bounds[1]
    BY <2>3 DEF Fits
  <2>5. Len(indexes) < Len(bounds)
    BY <2>1, <2>2
  <2> QED
    BY <2>1, <2>2, <2>4, <2>5
<1>4. I \in Nat
  BY <1>3, IndexInNat
<1>5. J = I * D + (i - 1)
  BY <1>1, <1>3, IndexAppend
<1>6. Size(t) = D * Z
  BY <1>2 DEF SpecsOK
<1>7. ix \in Seq(Nat)
  BY <1>1, <1>3
<1>8. J \in Nat
  BY <1>1, <1>4, <1>5
<1> HIDE DEF I, J, D, Z, ix
<1>9. J * Z = I * (D * Z) + (i - 1) * Z
  <2> DEFINE m == i - 1
  <2>1. m \in Nat
    BY <1>1
  <2> HIDE DEF m
  <2>2. (I * D + m) * Z = I * (D * Z) + m * Z
    BY <1>1, <1>4, <2>1
  <2>3. J * Z = (I * D + m) * Z
    BY <1>5 DEF m
  <2> QED
    BY <2>2, <2>3 DEF m
<1>10. (i - 1) * Z + Z <= D * Z
  <2>1. i - 1 < D
    BY <1>1 DEF D
  <2> QED
    BY <1>1, <2>1, Blocks
<1> QED
  BY <1>4, <1>6, <1>7, <1>8, <1>9, <1>10 DEF I, J, D, Z, ix

\* A value that is no array takes one.
LEMMA FlatIndex ==
  ASSUME Recursion, NEW n \in Nat, NEW t \in AllTypes, t.kind # "ARRAY"
  PROVE  n * Size(t) = n /\ Size(t) = 1
<1>1. Size(t) = 1
  BY DEF Recursion, Size_body
<1> QED
  BY <1>1

\* Its places are among those of the array and of no other element.
LEMMA RegionOfElement ==
  ASSUME Recursion, NEW t \in AllTypes, t.kind = "ARRAY",
         NEW bounds, NEW indexes, Fits(t, bounds, indexes),
         NEW i \in 1 .. t.dimension
  PROVE  /\ Region(t.content, bounds, Append(indexes, i - 1))
              \subseteq Region(t, bounds, indexes)
         /\ Region(t, bounds, indexes) \subseteq 0 .. Places(bounds) - 1
         /\ t.content.kind = "ARRAY"
              => Fits(t.content, bounds, Append(indexes, i - 1))
         /\ t.content.kind # "ARRAY"
              => /\ Region(t.content, bounds, Append(indexes, i - 1))
                      = {Index(bounds, Append(indexes, i - 1))}
                 /\ Index(bounds, Append(indexes, i - 1))
                      \in 0 .. Places(bounds) - 1
<1> DEFINE ix == Append(indexes, i - 1)
           c == t.content
           I == Index(bounds, indexes)
           J == Index(bounds, ix)
           Z == Size(c)
           P == Places(bounds)
           A == I * Size(t)
           B == (i - 1) * Z
<1>1. /\ c \in AllTypes /\ Z \in Nat /\ Size(t) \in Nat /\ i - 1 \in Nat
      /\ Z > 0
  BY ArrayParts, SizePositive DEF Positive
<1>2. /\ ix \in Seq(Nat) /\ I \in Nat /\ J \in Nat
      /\ J * Z = A + B /\ B + Z <= Size(t)
  BY ElementAt
<1>3. /\ bounds \in Seq(Positive) /\ indexes \in Seq(Nat)
      /\ Len(bounds) = Len(indexes) + Len(Specs(t).bounds)
      /\ \A k \in 1 .. Len(Specs(t).bounds) :
           bounds[Len(indexes) + k] = Specs(t).bounds[k]
      /\ A + Size(t) <= P
  BY DEF Fits
<1>4. P \in Nat
  BY <1>3, PlacesPositive DEF Positive
<1>5. SpecsOK(t) /\ SpecsOK(c)
  BY <1>1, SpecsLemma
<1>6. A \in Nat /\ B \in Nat
  BY <1>1, <1>2
<1>7. J * Z + Z <= A + Size(t) /\ A <= J * Z
  <2> HIDE DEF A, B, J, Z
  <2> QED
    BY <1>1, <1>2, <1>6
<1>8. Region(c, bounds, ix) \subseteq Region(t, bounds, indexes)
  <2> SUFFICES ASSUME NEW k \in Nat, J * Z <= k, k < J * Z + Z
               PROVE  A <= k /\ k < A + Size(t)
    BY DEF Region
  <2>1. J * Z \in Nat
    BY <1>1, <1>2
  <2> HIDE DEF A, B, J, Z
  <2> QED
    BY <1>1, <1>6, <1>7, <2>1
<1>9. Region(t, bounds, indexes) \subseteq 0 .. P - 1
  <2> SUFFICES ASSUME NEW k \in Nat, A <= k, k < A + Size(t)
               PROVE  k \in 0 .. P - 1
    BY DEF Region
  <2> HIDE DEF A, B, J, Z, P
  <2> QED
    BY <1>1, <1>3, <1>4, <1>6
<1>10. ASSUME c.kind = "ARRAY" PROVE Fits(c, bounds, ix)
  <2>1. /\ Specs(t).bounds = <<t.dimension>> \o Specs(c).bounds
        /\ Specs(c).bounds \in Seq(Positive)
    BY <1>5, <1>10 DEF SpecsOK
  <2>2. Len(ix) = Len(indexes) + 1
    BY <1>1, <1>3
  <2>3. Len(Specs(t).bounds) = 1 + Len(Specs(c).bounds)
    BY <1>1, <2>1
  <2>4. Len(bounds) = Len(ix) + Len(Specs(c).bounds)
    <3> HIDE DEF ix
    <3>1. Len(indexes) \in Nat /\ Len(Specs(c).bounds) \in Nat
      BY <1>3, <2>1
    <3>2. Len(bounds) = Len(indexes) + Len(Specs(t).bounds)
      BY <1>3
    <3>3. \A x, y \in Nat : x + (1 + y) = (x + 1) + y
      OBVIOUS
    <3> QED
      BY <2>2, <2>3, <3>1, <3>2, <3>3, Zenon
  <2>5. ASSUME NEW k \in 1 .. Len(Specs(c).bounds)
        PROVE  bounds[Len(ix) + k] = Specs(c).bounds[k]
    <3> DEFINE b == Specs(c).bounds
    <3>1. b \in Seq(Positive) /\ Len(b) \in Nat /\ Len(indexes) \in Nat
      BY <1>3, <2>1
    <3> HIDE DEF ix, b
    <3>2. k + 1 \in 1 .. 1 + Len(b)
      BY <2>5, <3>1 DEF b
    <3>3. bounds[Len(indexes) + (k + 1)] = Specs(t).bounds[k + 1]
      BY <1>3, <2>3, <3>2 DEF b
    <3>4. (<<t.dimension>> \o b)[k + 1] = b[k]
      BY <2>5, <3>1 DEF b
    <3>5. Len(indexes) + (k + 1) = Len(ix) + k
      BY <2>2, <2>5, <3>1 DEF b
    <3> QED
      BY <2>1, <3>3, <3>4, <3>5 DEF b
  <2>6. J * Z + Z <= P
    <3>1. J * Z \in Nat
      BY <1>1, <1>2
    <3> HIDE DEF A, B, J, Z, P
    <3> QED
      BY <1>1, <1>3, <1>4, <1>6, <1>7, <3>1
  <2> QED
    BY <1>2, <1>3, <2>4, <2>5, <2>6 DEF Fits
<1>11. ASSUME c.kind # "ARRAY"
       PROVE  Region(c, bounds, ix) = {J}
  <2>1. J * Z = J /\ Z = 1
    BY <1>1, <1>2, <1>11, FlatIndex
  <2>2. Region(c, bounds, ix) = {k \in Nat : J <= k /\ k < J + 1}
    BY <2>1 DEF Region
  <2> HIDE DEF J
  <2> QED
    BY <1>2, <2>2
<1> QED
  BY <1>8, <1>9, <1>10, <1>11

\* Two elements of an array have no place in common.
LEMMA RegionsApart ==
  ASSUME Recursion, NEW t \in AllTypes, t.kind = "ARRAY",
         NEW bounds, NEW indexes, Fits(t, bounds, indexes),
         NEW i \in 1 .. t.dimension, NEW j \in 1 .. t.dimension, i # j
  PROVE  Region(t.content, bounds, Append(indexes, i - 1))
           \cap Region(t.content, bounds, Append(indexes, j - 1)) = {}
<1> DEFINE R(m) == Region(t.content, bounds, Append(indexes, m - 1))
<1>1. ASSUME NEW m \in 1 .. t.dimension, NEW n \in 1 .. t.dimension, m < n
      PROVE  R(m) \cap R(n) = {}
  <2> DEFINE Z == Size(t.content)
             A == Index(bounds, indexes) * Size(t)
             J(x) == Index(bounds, Append(indexes, x - 1)) * Z
             B(x) == (x - 1) * Z
  <2>1. /\ Z \in Nat /\ A \in Nat /\ B(m) \in Nat /\ B(n) \in Nat
        /\ m - 1 \in Nat /\ n - 1 \in Nat
    <3>1. Z \in Nat /\ Size(t) \in Nat
      BY ArrayParts, SizePositive DEF Positive
    <3>2. Index(bounds, indexes) \in Nat
      BY ElementAt
    <3>3. m - 1 \in Nat /\ n - 1 \in Nat
      BY ArrayParts DEF Positive
    <3> QED
      BY <3>1, <3>2, <3>3
  <2>2. J(m) = A + B(m) /\ J(n) = A + B(n)
    BY ElementAt
  <2>3. B(m) + Z <= B(n)
    <3>1. m - 1 < n - 1
      BY <1>1, ArrayParts DEF Positive
    <3> QED
      BY <2>1, <3>1, Blocks
  <2> SUFFICES ASSUME NEW k \in Nat, J(n) <= k, k < J(m) + Z PROVE FALSE
    BY DEF Region
  <2> HIDE DEF Z, A, B, J
  <2> QED
    BY <2>1, <2>2, <2>3
<1>2. i < j \/ j < i
  BY ArrayParts DEF Positive
<1> QED
  BY <1>1, <1>2

-----------------------------------------------------------------------------
(* The parts of a type. *)

\* A part of a type is a type of lower depth.
LEMMA PartsBelow ==
  ASSUME NEW t \in AllTypes, NEW p \in Parts(t)
  PROVE  /\ p \in AllTypes /\ Depth[p] < Depth[t]
BY ConverterAssumption

\* Members have ids from 0 on, and are found by their names.
LEMMA Members ==
  ASSUME NEW t \in AllTypes, t.kind \in {"STRUCTURE", "UNION"}
  PROVE  /\ Len(t.members) \in Positive
         /\ DOMAIN t.members = 1 .. Len(t.members)
         /\ \A i, j \in DOMAIN t.members :
              t.members[i].name = t.members[j].name => i = j
         /\ \A i \in DOMAIN t.members :
              /\ t.members[i].type \in AllTypes
              /\ Depth[t.members[i].type] < Depth[t]
              /\ get_member_id_by_name(t, t.members[i].name) = i - 1
<1>1. WellFormed(t)
  BY ConverterAssumption
<1>2. /\ Len(t.members) \in Positive
      /\ DOMAIN t.members = 1 .. Len(t.members)
      /\ \A i, j \in DOMAIN t.members :
           t.members[i].name = t.members[j].name => i = j
  BY <1>1 DEF WellFormed, Positive
<1>3. Parts(t) = {t.members[i].type : i \in DOMAIN t.members}
  BY DEF Parts, Complex
<1>4. ASSUME NEW i \in DOMAIN t.members
      PROVE  /\ t.members[i].type \in AllTypes
             /\ Depth[t.members[i].type] < Depth[t]
             /\ get_member_id_by_name(t, t.members[i].name) = i - 1
  <2>1. t.members[i].type \in AllTypes /\ Depth[t.members[i].type] < Depth[t]
    BY <1>3, PartsBelow
  <2>2. (CHOOSE j \in DOMAIN t.members :
           t.members[j].name = t.members[i].name) = i
    BY <1>2
  <2> QED
    BY <2>1, <2>2 DEF get_member_id_by_name
<1> QED
  BY <1>2, <1>4

\* The type of the elements of an array or sequence.
LEMMA SequenceParts ==
  ASSUME NEW t \in AllTypes, t.kind \in {"ARRAY", "SEQUENCE"}
  PROVE  t.content \in AllTypes /\ Depth[t.content] < Depth[t]
<1>1. Parts(t) = {t.content}
  BY DEF Parts, Complex
<1> QED
  BY <1>1, PartsBelow

\* The types of the keys and the values of a map.
LEMMA MapParts ==
  ASSUME NEW t \in AllTypes, t.kind = "MAP"
  PROVE  /\ t.first \in AllTypes /\ Depth[t.first] < Depth[t]
         /\ t.second \in AllTypes /\ Depth[t.second] < Depth[t]
<1>1. Parts(t) = {t.first, t.second}
  BY DEF Parts, Complex
<1> QED
  BY <1>1, PartsBelow

\* The positions of a sequence.
LEMMA SequenceDomain ==
  ASSUME NEW v, IsSequence(v)
  PROVE  DOMAIN v = 1 .. Len(v) /\ Len(v) \in Nat
BY DEF IsSequence

-----------------------------------------------------------------------------
(* What each function does. *)

\* Each function is what it does, for one type.
LEMMA Bodies ==
  ASSUME Recursion, NEW t \in AllTypes
  PROVE  /\ create_data(t) = create_data_body(t)
         /\ DynamicData(t) = DynamicData_body(t)
         /\ \A v, d : /\ set_value(t, v, d) = set_value_body(t, v, d)
                      /\ get_value(t, d, v) = get_value_body(t, d, v)
                      /\ IsValue(t, v) <=> IsValue_body(t, v)
                      /\ IsData(t, d) <=> IsData_body(t, d)
                      /\ Holds(t, d, v) <=> Holds_body(t, d, v)
         /\ \A out, v : Shows(t, out, v) <=> Shows_body(t, out, v)
BY DEF Recursion

\* The same for the functions on arrays.
LEMMA ArrayBodies ==
  ASSUME Recursion, NEW t \in AllTypes, t.kind = "ARRAY"
  PROVE  /\ \A v, d, indexes :
              /\ set_array_data(t, v, d, indexes)
                   = set_array_data_body(t, v, d, indexes)
              /\ get_array_data(t, d, indexes)
                   = get_array_data_body(t, d, indexes)
         /\ \A v, d, place :
              HoldsArray(t, d, v, place) <=> HoldsArray_body(t, d, v, place)
BY DEF Recursion

-----------------------------------------------------------------------------
(* Arrays: what each function says of one. *)

\* An array of xtypes is a sequence of its dimension.
LEMMA IsArrayValue ==
  ASSUME Recursion, NEW t \in AllTypes, t.kind = "ARRAY", NEW v
  PROVE  /\ IsValue(t, v) <=> /\ IsSequence(v) /\ Len(v) = t.dimension
                              /\ \A i \in DOMAIN v : IsValue(t.content, v[i])
         /\ IsValue(t, v) => DOMAIN v = 1 .. t.dimension
<1>1. IsValue(t, v) <=> IsValue_body(t, v)
  BY Bodies
<1>2. IsValue(t, v) <=> /\ IsSequence(v) /\ Len(v) = t.dimension
                        /\ \A i \in DOMAIN v : IsValue(t.content, v[i])
  BY <1>1 DEF IsValue_body, Complex
<1> QED
  BY <1>2, SequenceDomain

\* d is a flat array of data of type t.
IsArrayData(t, d) ==
  /\ d = [bounds |-> d.bounds, values |-> d.values]
  /\ DOMAIN d.values = 0 .. Places(d.bounds) - 1
  /\ \A k \in DOMAIN d.values : IsData(t, d.values[k])

\* An array of Fast DDS fits the type it has been made for.
LEMMA ArrayAtTop ==
  ASSUME Recursion, NEW t \in AllTypes, t.kind = "ARRAY"
  PROVE  \A d : /\ IsData(t, d) <=> /\ IsArrayData(Element(t), d)
                                    /\ d.bounds = Specs(t).bounds
                /\ IsData(t, d) => Fits(t, d.bounds, <<>>)
<1> TAKE d
<1> DEFINE b == Specs(t).bounds
<1>1. b \in Seq(Positive) /\ Size(t) = Places(b)
  BY SpecsLemma DEF SpecsOK
<1>2. Places(b) \in Nat
  BY <1>1, PlacesPositive DEF Positive
<1>3. Fits(t, b, <<>>)
  <2>1. Index(b, <<>>) = 0
    BY IndexEmpty
  <2>2. Index(b, <<>>) * Size(t) + Size(t) <= Places(b)
    BY <1>1, <1>2, <2>1
  <2>3. Len(<<>>) = 0 /\ Len(b) \in Nat /\ <<>> \in Seq(Nat)
    BY <1>1
  <2>4. \A k \in 1 .. Len(b) : b[Len(<<>>) + k] = b[k]
    BY <2>3
  <2>5. Len(b) = Len(<<>>) + Len(b)
    BY <2>3
  <2> QED
    BY <1>1, <2>2, <2>3, <2>4, <2>5 DEF Fits
<1>4. IsData(t, d) <=> IsData_body(t, d)
  BY Bodies
<1>5. IsData(t, d) <=> /\ d = [bounds |-> b, values |-> d.values]
                       /\ DOMAIN d.values = 0 .. Places(b) - 1
                       /\ \A k \in DOMAIN d.values :
                            IsData(Specs(t).content, d.values[k])
  BY <1>4 DEF IsData_body, Complex, Specs
<1>6. Element(t) = Specs(t).content
  BY DEF Element
<1> HIDE DEF b
<1>7. IsData(t, d) <=> IsArrayData(Element(t), d) /\ d.bounds = b
  <2>1. ASSUME IsData(t, d)
        PROVE  IsArrayData(Element(t), d) /\ d.bounds = b
    <3>1. d.bounds = b
      BY <1>5, <2>1
    <3> QED
      BY <1>5, <1>6, <2>1, <3>1 DEF IsArrayData
  <2>2. ASSUME IsArrayData(Element(t), d), d.bounds = b PROVE IsData(t, d)
    BY <1>5, <1>6, <2>2 DEF IsArrayData
  <2> QED
    BY <2>1, <2>2
<1> QED
  BY <1>3, <1>7 DEF b

\* The flat array d has v, of type t, at indexes.
HeldAt(t, d, v, indexes) ==
  IF t.kind = "ARRAY"
  THEN HoldsArray(t, d, v, Index(d.bounds, indexes) * Size(t))
  ELSE Holds(t, d.values[Index(d.bounds, indexes)], v)

\* It holds a value where it holds the elements of it.
LEMMA HeldElements ==
  ASSUME Recursion, NEW t \in AllTypes, t.kind = "ARRAY", NEW d, NEW v,
         NEW indexes, Fits(t, d.bounds, indexes), DOMAIN v = 1 .. t.dimension
  PROVE  HeldAt(t, d, v, indexes)
           <=> \A i \in DOMAIN v :
                 HeldAt(t.content, d, v[i], Append(indexes, i - 1))
<1> DEFINE c == t.content
           place == Index(d.bounds, indexes) * Size(t)
           next(i) == place + (i - 1) * Size(c)
           J(i) == Index(d.bounds, Append(indexes, i - 1))
           Following(i) == IF c.kind = "ARRAY"
                      THEN HoldsArray(c, d, v[i], next(i))
                      ELSE Holds(c, d.values[next(i)], v[i])
<1>1. HeldAt(t, d, v, indexes) <=> \A i \in DOMAIN v : Following(i)
  <2>1. HoldsArray(t, d, v, place) <=> HoldsArray_body(t, d, v, place)
    BY ArrayBodies
  <2> QED
    BY <2>1 DEF HoldsArray_body, HeldAt
<1>2. ASSUME NEW i \in DOMAIN v
      PROVE  Following(i) <=> HeldAt(c, d, v[i], Append(indexes, i - 1))
  <2>1. J(i) \in Nat /\ J(i) * Size(c) = next(i) /\ c \in AllTypes
    BY ElementAt, SequenceParts
  <2>2. CASE c.kind = "ARRAY"
    BY <2>1, <2>2 DEF HeldAt
  <2>3. CASE c.kind # "ARRAY"
    <3>1. J(i) = next(i)
      BY <2>1, <2>3, FlatIndex
    <3> QED
      BY <2>3, <3>1 DEF HeldAt
  <2> QED
    BY <2>2, <2>3
<1> HIDE DEF Following
<1> QED
  BY <1>1, <1>2

\* A whole array is the one without indexes.
LEMMA HeldAtTop ==
  ASSUME Recursion, NEW t \in AllTypes, t.kind = "ARRAY", NEW d, NEW v
  PROVE  Holds(t, d, v) <=> HeldAt(t, d, v, <<>>)
<1>1. Index(d.bounds, <<>>) * Size(t) = 0
  BY IndexEmpty, SizePositive DEF Positive
<1>2. Holds(t, d, v) <=> Holds_body(t, d, v)
  BY Bodies
<1> QED
  BY <1>1, <1>2 DEF Holds_body, HeldAt, Complex

\* What an array holds depends on its own places only.
Frame(t) ==
  t.kind = "ARRAY" =>
    \A d, e, v, indexes :
      /\ Fits(t, d.bounds, indexes) /\ e.bounds = d.bounds
      /\ IsValue(t, v)
      /\ \A k \in Region(t, d.bounds, indexes) : e.values[k] = d.values[k]
      /\ HeldAt(t, d, v, indexes)
      => HeldAt(t, e, v, indexes)

\* So for an element of the array.
LEMMA FrameElement ==
  ASSUME Recursion, NEW t \in AllTypes, t.kind = "ARRAY",
         Frame(t.content),
         NEW d, NEW e, NEW indexes, NEW i \in 1 .. t.dimension, NEW x,
         Fits(t, d.bounds, indexes), e.bounds = d.bounds,
         IsValue(t.content, x),
         \A k \in Region(t.content, d.bounds, Append(indexes, i - 1)) :
           e.values[k] = d.values[k],
         HeldAt(t.content, d, x, Append(indexes, i - 1))
  PROVE  HeldAt(t.content, e, x, Append(indexes, i - 1))
<1> DEFINE ix == Append(indexes, i - 1)
<1>1. CASE t.content.kind = "ARRAY"
  <2>1. Fits(t.content, d.bounds, ix)
    BY <1>1, RegionOfElement
  <2>2. HeldAt(t.content, d, x, ix)
    BY <1>1 DEF HeldAt
  <2>3. HeldAt(t.content, e, x, ix)
    BY <1>1, <2>1, <2>2 DEF Frame
  <2> QED
    BY <1>1, <2>3 DEF HeldAt
<1>2. CASE t.content.kind # "ARRAY"
  <2>1. Index(d.bounds, ix) \in Region(t.content, d.bounds, ix)
    BY <1>2, RegionOfElement
  <2> QED
    BY <1>2, <2>1 DEF HeldAt
<1> QED
  BY <1>1, <1>2

\* So for an array of any depth.
LEMMA FrameLemma == ASSUME Recursion, NEW t \in AllTypes PROVE Frame(t)
<1> DEFINE S == {u \in AllTypes : Frame(u)}
<1>1. ASSUME NEW u \in AllTypes,
             \A p \in AllTypes : Depth[p] < Depth[u] => p \in S
      PROVE  u \in S
  <2> SUFFICES ASSUME u.kind = "ARRAY", NEW d, NEW e, NEW v, NEW indexes,
                      Fits(u, d.bounds, indexes), e.bounds = d.bounds,
                      IsValue(u, v),
                      \A k \in Region(u, d.bounds, indexes) :
                        e.values[k] = d.values[k],
                      HeldAt(u, d, v, indexes)
               PROVE  HeldAt(u, e, v, indexes)
    BY DEF Frame
  <2>1. Frame(u.content)
    BY <1>1, SequenceParts
  <2>2. ASSUME NEW i \in DOMAIN v
        PROVE  HeldAt(u.content, e, v[i], Append(indexes, i - 1))
    <3>1. i \in 1 .. u.dimension /\ IsValue(u.content, v[i])
      BY IsArrayValue
    <3>2. HeldAt(u.content, d, v[i], Append(indexes, i - 1))
      BY IsArrayValue, HeldElements
    <3>3. \A k \in Region(u.content, d.bounds, Append(indexes, i - 1)) :
            e.values[k] = d.values[k]
      BY <3>1, RegionOfElement
    <3> QED
      BY <2>1, <3>1, <3>2, <3>3, FrameElement
  <2>3. DOMAIN v = 1 .. u.dimension /\ Fits(u, e.bounds, indexes)
    BY IsArrayValue
  <2> QED
    BY <2>2, <2>3, HeldElements
<1>2. AllTypes \subseteq S
  <2> HIDE DEF S
  <2> QED
    BY <1>1, TypeInduction
<1> QED
  BY <1>2

-----------------------------------------------------------------------------
(* Fresh objects. *)

\* They are of their type, and the one holds the other.
Fresh(t) ==
  /\ IsValue(t, DynamicData(t)) /\ IsData(t, create_data(t))
  /\ Holds(t, create_data(t), DynamicData(t))
  /\ t.kind = "ARRAY" =>
       \A d, indexes :
         /\ Fits(t, d.bounds, indexes)
         /\ \A k \in 0 .. Places(d.bounds) - 1 :
              d.values[k] = create_data(Element(t))
         => HeldAt(t, d, DynamicData(t), indexes)

FreshBelow(t) == \A p \in AllTypes : Depth[p] < Depth[t] => Fresh(p)

\* Fresh structures: every member is fresh under its name and its id.
LEMMA FreshStructure ==
  ASSUME Recursion, NEW t \in AllTypes, t.kind = "STRUCTURE", FreshBelow(t)
  PROVE  Fresh(t)
<1> DEFINE v == DynamicData(t)
           d == create_data(t)
           m == t.members
           names == {m[i].name : i \in DOMAIN m}
<1>1. v = [n \in names |-> DynamicData(m[get_member_id_by_name(t, n) + 1].type)]
  BY Bodies DEF DynamicData_body, Complex
<1>2. d = [id \in 0 .. Len(m) - 1 |-> create_data(m[id + 1].type)]
  BY Bodies DEF create_data_body, Complex
<1>3. ASSUME NEW i \in DOMAIN m
      PROVE  /\ Fresh(m[i].type)
             /\ v[m[i].name] = DynamicData(m[i].type)
             /\ d[i - 1] = create_data(m[i].type)
  <2>1. /\ i \in 1 .. Len(m) /\ Len(m) \in Nat
        /\ get_member_id_by_name(t, m[i].name) = i - 1
    BY Members DEF Positive
  <2>2. (i - 1) + 1 = i /\ i - 1 \in 0 .. Len(m) - 1
    BY <2>1
  <2>3. Fresh(m[i].type)
    BY Members DEF FreshBelow
  <2> HIDE DEF v, d
  <2>4. v[m[i].name] = DynamicData(m[i].type)
    BY <1>1, <2>1, <2>2
  <2>5. d[i - 1] = create_data(m[i].type)
    BY <1>2, <2>2
  <2> QED
    BY <2>3, <2>4, <2>5
<1> HIDE DEF v, d
<1>4. v = [n \in names |-> v[n]]
  BY <1>1
<1>5. IsValue(t, v)
  <2>1. IsValue_body(t, v)
    BY <1>3, <1>4 DEF IsValue_body, Fresh, Complex
  <2> QED
    BY <2>1, Bodies
<1>6. IsData(t, d)
  <2>1. DOMAIN d = 0 .. Len(m) - 1
    BY <1>2
  <2>2. ASSUME NEW id \in DOMAIN d PROVE IsData(m[id + 1].type, d[id])
    <3>1. id + 1 \in DOMAIN m /\ (id + 1) - 1 = id
      BY <2>1, Members DEF Positive
    <3> QED
      BY <1>3, <3>1 DEF Fresh
  <2>3. IsData_body(t, d)
    BY <2>1, <2>2 DEF IsData_body, Complex
  <2> QED
    BY <2>3, Bodies
<1>7. Holds(t, d, v)
  <2>1. Holds_body(t, d, v)
    BY <1>3 DEF Holds_body, Fresh, Complex
  <2> QED
    BY <2>1, Bodies
<1> QED
  BY <1>5, <1>6, <1>7 DEF Fresh, v, d

\* Fresh unions: the first member is the active one.
LEMMA FreshUnion ==
  ASSUME Recursion, NEW t \in AllTypes, t.kind = "UNION", FreshBelow(t)
  PROVE  Fresh(t)
<1> DEFINE v == DynamicData(t)
           d == create_data(t)
           m == t.members
<1>1. v = [case |-> m[1].name, value |-> DynamicData(m[1].type)]
  BY Bodies DEF DynamicData_body, Complex
<1>2. d = [id |-> 0,
           values |-> [id \in 0 .. Len(m) - 1 |-> create_data(m[id + 1].type)]]
  BY Bodies DEF create_data_body, Complex
<1>3. Len(m) \in Nat /\ DOMAIN m = 1 .. Len(m) /\ 1 \in DOMAIN m
  BY Members DEF Positive
<1>4. \A i \in DOMAIN m : Fresh(m[i].type)
  BY Members DEF FreshBelow
<1> HIDE DEF v, d
<1>5. IsValue(t, v)
  <2>1. v = [case |-> v.case, value |-> v.value]
    BY <1>1
  <2>2. v.case = m[1].name /\ IsValue(m[1].type, v.value)
    BY <1>1, <1>3, <1>4 DEF Fresh
  <2>3. IsValue_body(t, v)
    BY <1>3, <2>1, <2>2 DEF IsValue_body, Complex
  <2> QED
    BY <2>3, Bodies
<1>6. DOMAIN d.values = 0 .. Len(m) - 1 /\ d.id = 0 /\ d.id \in DOMAIN d.values
  BY <1>2, <1>3
<1>7. IsData(t, d)
  <2>1. ASSUME NEW id \in DOMAIN d.values
        PROVE  IsData(m[id + 1].type, d.values[id])
    <3>1. id + 1 \in DOMAIN m
      BY <1>3, <1>6
    <3>2. d.values[id] = create_data(m[id + 1].type)
      BY <1>2, <1>6
    <3> QED
      BY <1>4, <3>1, <3>2 DEF Fresh
  <2>2. IsData_body(t, d)
    BY <1>6, <2>1 DEF IsData_body, Complex
  <2> QED
    BY <2>2, Bodies
<1>8. Holds(t, d, v)
  <2>1. d.values[0] = create_data(m[1].type)
    <3>1. 0 \in 0 .. Len(m) - 1 /\ 0 + 1 = 1
      BY <1>3
    <3> QED
      BY <1>2, <3>1
  <2>2. Holds(m[1].type, d.values[0], v.value)
    BY <1>1, <1>3, <1>4, <2>1 DEF Fresh
  <2>3. v.case = m[1].name /\ d.id + 1 = 1
    BY <1>1, <1>6
  <2>4. Holds_body(t, d, v)
    BY <1>6, <2>2, <2>3 DEF Holds_body, Complex
  <2> QED
    BY <2>4, Bodies
<1> QED
  BY <1>5, <1>7, <1>8 DEF Fresh, v, d

\* Fresh sequences and maps are empty, fresh primitives are zero.
LEMMA FreshSimple ==
  ASSUME Recursion, NEW t \in AllTypes,
         t.kind \notin {"STRUCTURE", "UNION", "ARRAY"}
  PROVE  Fresh(t)
<1>1. CASE t.kind \in {"SEQUENCE", "MAP"}
  <2>1. DynamicData(t) = <<>> /\ create_data(t) = <<>>
    BY <1>1, Bodies DEF DynamicData_body, create_data_body, Complex
  <2>2. IsSequence(<<>>) /\ DOMAIN <<>> = {}
    BY DEF IsSequence
  <2>3. IsValue_body(t, <<>>) /\ IsData_body(t, <<>>)
    BY <1>1, <2>2 DEF IsValue_body, IsData_body, Complex
  <2>4. Holds_body(t, <<>>, <<>>)
    BY <1>1, <2>2 DEF Holds_body, Complex
  <2> QED
    BY <1>1, <2>1, <2>3, <2>4, Bodies DEF Fresh
<1>2. CASE t.kind \notin Complex
  <2>1. DynamicData(t) = 0 /\ create_data(t) = 0
    BY <1>2, Bodies DEF DynamicData_body, create_data_body, Complex
  <2>2. IsValue_body(t, 0) /\ IsData_body(t, 0) /\ Holds_body(t, 0, 0)
    <3>1. CASE t.kind = "INT_8"
      BY <3>1 DEF IsValue_body, IsData_body, Holds_body, Complex
    <3>2. CASE t.kind # "INT_8"
      <4>1. t.kind \notin Complex \union {"INT_8"}
        BY <1>2, <3>2
      <4>2. IsValue_body(t, 0)
        BY <4>1 DEF IsValue_body, Complex
      <4>3. IsData_body(t, 0)
        BY <4>1 DEF IsData_body, Complex
      <4>4. Holds_body(t, 0, 0)
        BY <4>1 DEF Holds_body, Complex
      <4> QED
        BY <4>2, <4>3, <4>4
    <3> QED
      BY <3>1, <3>2
  <2> QED
    BY <1>2, <2>1, <2>2, Bodies DEF Fresh, Complex
<1> QED
  BY <1>1, <1>2 DEF Complex

\* Fresh arrays: every place has a fresh element.
LEMMA FreshArray ==
  ASSUME Recursion, NEW t \in AllTypes, t.kind = "ARRAY", FreshBelow(t)
  PROVE  Fresh(t)
<1> DEFINE v == DynamicData(t)
           d == create_data(t)
           c == t.content
           b == Specs(t).bounds
<1>1. v = [i \in 1 .. t.dimension |-> DynamicData(c)]
  BY Bodies DEF DynamicData_body, Complex
<1>2. d = [bounds |-> b,
           values |-> [k \in 0 .. Places(b) - 1 |-> create_data(Element(t))]]
  BY Bodies DEF create_data_body, Complex, Specs, Element
<1>3. Fresh(c) /\ Fresh(Element(t)) /\ t.dimension \in Nat
  BY ArrayParts, SpecsLemma DEF FreshBelow, SpecsOK, Element, Positive
<1> HIDE DEF v, d, b
<1>4. /\ IsValue(t, v) /\ DOMAIN v = 1 .. t.dimension
      /\ \A i \in DOMAIN v : v[i] = DynamicData(c)
  <2>1. DOMAIN v = 1 .. t.dimension /\ Len(v) = t.dimension
    BY <1>1, <1>3
  <2>2. IsSequence(v)
    BY <1>1, <1>3, <2>1 DEF IsSequence
  <2>3. \A i \in DOMAIN v : v[i] = DynamicData(c)
    BY <1>1, <2>1
  <2> QED
    BY <1>3, <2>1, <2>2, <2>3, IsArrayValue DEF Fresh
<1>5. IsData(t, d)
  <2>1. IsArrayData(Element(t), d) /\ d.bounds = b
    BY <1>2, <1>3 DEF IsArrayData, Fresh
  <2> QED
    BY <2>1, ArrayAtTop DEF b
<1>6. ASSUME NEW e, NEW indexes, Fits(t, e.bounds, indexes),
             \A k \in 0 .. Places(e.bounds) - 1 :
               e.values[k] = create_data(Element(t))
      PROVE  HeldAt(t, e, v, indexes)
  <2> SUFFICES ASSUME NEW i \in DOMAIN v
               PROVE  HeldAt(c, e, v[i], Append(indexes, i - 1))
    BY <1>4, <1>6, HeldElements
  <2> DEFINE ix == Append(indexes, i - 1)
  <2>1. i \in 1 .. t.dimension /\ v[i] = DynamicData(c)
    BY <1>4
  <2>2. Element(t) = Element(c)
    BY SpecsLemma DEF SpecsOK
  <2>3. CASE c.kind = "ARRAY"
    <3>1. Fits(c, e.bounds, ix)
      BY <1>6, <2>1, <2>3, RegionOfElement
    <3> QED
      BY <1>3, <1>6, <2>1, <2>2, <2>3, <3>1 DEF Fresh, HeldAt
  <2>4. CASE c.kind # "ARRAY"
    <3>1. Index(e.bounds, ix) \in 0 .. Places(e.bounds) - 1
      BY <1>6, <2>1, <2>4, RegionOfElement
    <3>2. Element(t) = c
      BY <2>2, <2>4 DEF Element
    <3> QED
      BY <1>3, <1>6, <2>1, <2>4, <3>1, <3>2 DEF Fresh, HeldAt
  <2> QED
    BY <2>3, <2>4
<1>7. Holds(t, d, v)
  <2>1. Fits(t, d.bounds, <<>>)
    BY <1>5, ArrayAtTop
  <2>2. \A k \in 0 .. Places(d.bounds) - 1 :
          d.values[k] = create_data(Element(t))
    BY <1>2
  <2>3. HeldAt(t, d, v, <<>>)
    BY <1>6, <2>1, <2>2
  <2> QED
    BY <2>3, HeldAtTop
<1> QED
  BY <1>4, <1>5, <1>6, <1>7 DEF Fresh, v, d

\* Fresh objects of any type are of that type.
LEMMA FreshLemma == ASSUME Recursion, NEW t \in AllTypes PROVE Fresh(t)
<1> DEFINE S == {u \in AllTypes : Fresh(u)}
<1>1. ASSUME NEW u \in AllTypes,
             \A p \in AllTypes : Depth[p] < Depth[u] => p \in S
      PROVE  u \in S
  <2>1. FreshBelow(u)
    BY <1>1 DEF FreshBelow
  <2> QED
    BY <2>1, FreshStructure, FreshUnion, FreshSimple, FreshArray
<1>2. AllTypes \subseteq S
  <2> HIDE DEF S
  <2> QED
    BY <1>1, TypeInduction
<1> QED
  BY <1>2

-----------------------------------------------------------------------------
(* From xtypes to Fast DDS. *)

\* e is the flat array d with v, of type t, stored at indexes.
StoredAt(t, d, e, v, indexes) ==
  /\ IsArrayData(Element(t), e) /\ e.bounds = d.bounds
  /\ \A k \in 0 .. Places(d.bounds) - 1 :
       k \notin Region(t, d.bounds, indexes) => e.values[k] = d.values[k]
  /\ HeldAt(t, e, v, indexes)

\* set_value stores a value, whatever was there before.
Stores(t) ==
  /\ \A v, d : IsValue(t, v) /\ IsData(t, d)
                 => /\ IsData(t, set_value(t, v, d))
                    /\ Holds(t, set_value(t, v, d), v)
  /\ t.kind = "ARRAY" =>
       \A v, d, indexes :
         /\ IsValue(t, v) /\ IsArrayData(Element(t), d)
         /\ Fits(t, d.bounds, indexes)
         => StoredAt(t, d, set_array_data(t, v, d, indexes), v, indexes)

StoresBelow(t) == \A p \in AllTypes : Depth[p] < Depth[t] => Stores(p)

\* Structures: each member goes under its own id.
LEMMA StoresStructure ==
  ASSUME Recursion, NEW t \in AllTypes, t.kind = "STRUCTURE", StoresBelow(t)
  PROVE  Stores(t)
<1> SUFFICES ASSUME NEW v, NEW d, IsValue(t, v), IsData(t, d)
             PROVE  /\ IsData(t, set_value(t, v, d))
                    /\ Holds(t, set_value(t, v, d), v)
  BY DEF Stores
<1> DEFINE m == t.members
           e == set_value(t, v, d)
<1>1. e = [id \in DOMAIN d |->
             set_value(m[id + 1].type, v[m[id + 1].name], d[id])]
  BY Bodies DEF set_value_body, set_struct_data, Complex
<1>2. \A i \in DOMAIN m : IsValue(m[i].type, v[m[i].name])
  <2>1. IsValue_body(t, v)
    BY Bodies
  <2> QED
    BY <2>1 DEF IsValue_body, Complex
<1>3. /\ DOMAIN d = 0 .. Len(m) - 1
      /\ \A id \in DOMAIN d : IsData(m[id + 1].type, d[id])
  <2>1. IsData_body(t, d)
    BY Bodies
  <2> QED
    BY <2>1 DEF IsData_body, Complex
<1> HIDE DEF e
<1>4. ASSUME NEW id \in DOMAIN d
      PROVE  /\ IsData(m[id + 1].type, e[id])
             /\ Holds(m[id + 1].type, e[id], v[m[id + 1].name])
  <2>1. id + 1 \in DOMAIN m
    BY <1>3, Members DEF Positive
  <2>2. Stores(m[id + 1].type)
    BY <2>1, Members DEF StoresBelow
  <2>3. e[id] = set_value(m[id + 1].type, v[m[id + 1].name], d[id])
    BY <1>1
  <2>4. IsValue(m[id + 1].type, v[m[id + 1].name])
    BY <1>2, <2>1
  <2>5. IsData(m[id + 1].type, d[id])
    BY <1>3
  <2> QED
    BY <2>2, <2>3, <2>4, <2>5 DEF Stores
<1>5. DOMAIN e = DOMAIN d
  BY <1>1
<1>6. IsData(t, e)
  <2>1. IsData_body(t, e)
    BY <1>3, <1>4, <1>5 DEF IsData_body, Complex
  <2> QED
    BY <2>1, Bodies
<1>7. Holds(t, e, v)
  <2>1. ASSUME NEW i \in DOMAIN m
        PROVE  Holds(m[i].type, e[i - 1], v[m[i].name])
    <3>1. i - 1 \in DOMAIN d /\ (i - 1) + 1 = i
      BY <1>3, Members DEF Positive
    <3> QED
      BY <1>4, <3>1
  <2>2. Holds_body(t, e, v)
    BY <2>1 DEF Holds_body, Complex
  <2> QED
    BY <2>2, Bodies
<1> QED
  BY <1>6, <1>7 DEF e

\* Unions: the member is converted over what the id had before.
LEMMA StoresUnion ==
  ASSUME Recursion, NEW t \in AllTypes, t.kind = "UNION", StoresBelow(t)
  PROVE  Stores(t)
<1> SUFFICES ASSUME NEW v, NEW d, IsValue(t, v), IsData(t, d)
             PROVE  /\ IsData(t, set_value(t, v, d))
                    /\ Holds(t, set_value(t, v, d), v)
  BY DEF Stores
<1> DEFINE m == t.members
           e == set_value(t, v, d)
<1>1. PICK i \in DOMAIN m : v.case = m[i].name /\ IsValue(m[i].type, v.value)
  <2>1. IsValue_body(t, v)
    BY Bodies
  <2> QED
    BY <2>1 DEF IsValue_body, Complex
<1>2. /\ DOMAIN d.values = 0 .. Len(m) - 1
      /\ \A id \in DOMAIN d.values : IsData(m[id + 1].type, d.values[id])
  <2>1. IsData_body(t, d)
    BY Bodies
  <2> QED
    BY <2>1 DEF IsData_body, Complex
<1>3. /\ i - 1 \in DOMAIN d.values /\ (i - 1) + 1 = i
      /\ get_member_id_by_name(t, v.case) = i - 1
  BY <1>1, <1>2, Members DEF Positive
<1> DEFINE x == set_value(m[i].type, v.value, d.values[i - 1])
<1>4. e = [id |-> i - 1, values |-> [d.values EXCEPT ![i - 1] = x]]
  BY <1>3, Bodies DEF set_value_body, set_union_data, Complex
<1>5. IsData(m[i].type, x) /\ Holds(m[i].type, x, v.value)
  <2>1. Stores(m[i].type)
    BY Members DEF StoresBelow
  <2>2. IsData(m[i].type, d.values[i - 1])
    BY <1>2, <1>3
  <2> QED
    BY <1>1, <2>1, <2>2 DEF Stores
<1> HIDE DEF e, x
<1>6. /\ e.id = i - 1 /\ DOMAIN e.values = 0 .. Len(m) - 1
      /\ e.values[i - 1] = x
      /\ \A id \in DOMAIN d.values : id # i - 1 => e.values[id] = d.values[id]
  BY <1>2, <1>3, <1>4
<1>7. IsData(t, e)
  <2>1. \A id \in DOMAIN e.values : IsData(m[id + 1].type, e.values[id])
    BY <1>2, <1>3, <1>5, <1>6
  <2>2. IsData_body(t, e)
    BY <1>2, <1>3, <1>6, <2>1 DEF IsData_body, Complex
  <2> QED
    BY <2>2, Bodies
<1>8. Holds(t, e, v)
  <2>1. Holds_body(t, e, v)
    BY <1>1, <1>3, <1>5, <1>6 DEF Holds_body, Complex
  <2> QED
    BY <2>1, Bodies
<1> QED
  BY <1>7, <1>8 DEF e

\* A new element, as sequences, maps and arrays get it.
LEMMA StoresNew ==
  ASSUME Recursion, NEW t \in AllTypes, Stores(t), NEW v, IsValue(t, v)
  PROVE  /\ IsData(t, set_value(t, v, create_data(t)))
         /\ Holds(t, set_value(t, v, create_data(t)), v)
<1>1. IsData(t, create_data(t))
  BY FreshLemma DEF Fresh
<1> QED
  BY <1>1 DEF Stores

\* clear_all_values leaves nothing in front of the new elements.
LEMMA EmptyBefore ==
  ASSUME NEW n \in Nat, NEW s, s = [i \in 1 .. n |-> s[i]]
  PROVE  /\ <<>> \o s = s /\ Len(s) = n /\ IsSequence(s)
         /\ DOMAIN s = 1 .. n
<1>1. s \in Seq({s[i] : i \in 1 .. n}) /\ DOMAIN s = 1 .. n
  BY SeqDef
<1>2. Len(s) = n
  BY <1>1
<1>3. <<>> \o s = s
  BY <1>1
<1> QED
  BY <1>1, <1>2, <1>3 DEF IsSequence

\* Sequences: emptied, then filled element by element.
LEMMA StoresSequence ==
  ASSUME Recursion, NEW t \in AllTypes, t.kind = "SEQUENCE", StoresBelow(t)
  PROVE  Stores(t)
<1> SUFFICES ASSUME NEW v, NEW d, IsValue(t, v), IsData(t, d)
             PROVE  /\ IsData(t, set_value(t, v, d))
                    /\ Holds(t, set_value(t, v, d), v)
  BY DEF Stores
<1> DEFINE c == t.content
           x(i) == set_value(c, v[i], create_data(c))
           e == [i \in 1 .. Len(v) |-> x(i)]
<1>1. IsSequence(v) /\ \A i \in DOMAIN v : IsValue(c, v[i])
  <2>1. IsValue_body(t, v)
    BY Bodies
  <2> QED
    BY <2>1 DEF IsValue_body, Complex
<1>2. set_value(t, v, d) = <<>> \o e
  BY Bodies
     DEF set_value_body, set_sequence_data, clear_all_values, Complex
<1>3. \A i \in DOMAIN v : IsData(c, x(i)) /\ Holds(c, x(i), v[i])
  BY <1>1, SequenceParts, StoresNew DEF StoresBelow
<1>4. Len(v) \in Nat /\ DOMAIN v = 1 .. Len(v)
  BY <1>1, SequenceDomain
<1> HIDE DEF x
<1>5. e = [i \in 1 .. Len(v) |-> e[i]]
  OBVIOUS
<1>6. /\ <<>> \o e = e /\ Len(e) = Len(v) /\ IsSequence(e)
      /\ DOMAIN e = 1 .. Len(v)
  <2> HIDE DEF e
  <2> QED
    BY <1>4, <1>5, EmptyBefore
<1>7. IsData_body(t, e) /\ Holds_body(t, e, v)
  BY <1>3, <1>4, <1>6 DEF IsData_body, Holds_body, Complex
<1> QED
  BY <1>2, <1>6, <1>7, Bodies

\* Maps: emptied, then filled pair by pair.
LEMMA StoresMap ==
  ASSUME Recursion, NEW t \in AllTypes, t.kind = "MAP", StoresBelow(t)
  PROVE  Stores(t)
<1> SUFFICES ASSUME NEW v, NEW d, IsValue(t, v), IsData(t, d)
             PROVE  /\ IsData(t, set_value(t, v, d))
                    /\ Holds(t, set_value(t, v, d), v)
  BY DEF Stores
<1> DEFINE x(i) == set_value(t.first, v[i][1], create_data(t.first))
           y(i) == set_value(t.second, v[i][2], create_data(t.second))
           e == [i \in 1 .. Len(v) |-> <<x(i), y(i)>>]
<1>1. /\ IsSequence(v)
      /\ \A i \in DOMAIN v : /\ IsValue(t.first, v[i][1])
                             /\ IsValue(t.second, v[i][2])
  <2>1. IsValue_body(t, v)
    BY Bodies
  <2> QED
    BY <2>1 DEF IsValue_body, Complex
<1>2. set_value(t, v, d) = <<>> \o e
  BY Bodies DEF set_value_body, set_map_data, clear_all_values, Complex
<1>3. \A i \in DOMAIN v :
        /\ IsData(t.first, x(i)) /\ Holds(t.first, x(i), v[i][1])
        /\ IsData(t.second, y(i)) /\ Holds(t.second, y(i), v[i][2])
  BY <1>1, MapParts, StoresNew DEF StoresBelow
<1>4. Len(v) \in Nat /\ DOMAIN v = 1 .. Len(v)
  BY <1>1, SequenceDomain
<1> HIDE DEF x, y
<1>5. e = [i \in 1 .. Len(v) |-> e[i]]
  OBVIOUS
<1>6. /\ <<>> \o e = e /\ Len(e) = Len(v) /\ IsSequence(e)
      /\ DOMAIN e = 1 .. Len(v)
  <2> HIDE DEF e
  <2> QED
    BY <1>4, <1>5, EmptyBefore
<1>7. \A i \in DOMAIN v : e[i][1] = x(i) /\ e[i][2] = y(i)
  BY <1>4
<1>8. IsData_body(t, e) /\ Holds_body(t, e, v)
  <2> HIDE DEF e
  <2> QED
    BY <1>3, <1>4, <1>6, <1>7 DEF IsData_body, Holds_body, Complex
<1> QED
  BY <1>2, <1>6, <1>8, Bodies

\* Primitives: a signed byte is kept as an octet.
LEMMA StoresPrimitive ==
  ASSUME Recursion, NEW t \in AllTypes, t.kind \notin Complex
  PROVE  Stores(t)
<1> SUFFICES ASSUME NEW v, NEW d, IsValue(t, v), IsData(t, d)
             PROVE  /\ IsData(t, set_value(t, v, d))
                    /\ Holds(t, set_value(t, v, d), v)
  BY DEF Stores, Complex
<1> DEFINE e == set_primitive_data(t, v)
<1>1. set_value(t, v, d) = e
  BY Bodies DEF set_value_body, Complex
<1>2. IsValue_body(t, v)
  BY Bodies
<1>3. IsData_body(t, e) /\ Holds_body(t, e, v)
  <2>1. CASE t.kind = "INT_8"
    <3>1. v \in -128 .. 127 /\ e = v % 256
      BY <1>2, <2>1 DEF IsValue_body, set_primitive_data, Complex
    <3>2. e = IF v < 0 THEN v + 256 ELSE v
      BY <3>1
    <3>3. e \in 0 .. 255
      BY <3>1, <3>2
    <3> HIDE DEF e
    <3>4. IsData_body(t, e)
      BY <2>1, <3>3 DEF IsData_body, Complex
    <3>5. Holds_body(t, e, v)
      BY <2>1, <3>2 DEF Holds_body, Complex
    <3> QED
      BY <3>4, <3>5
  <2>2. CASE t.kind # "INT_8"
    <3>1. t.kind \notin Complex \union {"INT_8"}
      BY <2>2
    <3>2. v \in Int /\ e = v
      BY <1>2, <3>1 DEF IsValue_body, set_primitive_data, Complex
    <3> HIDE DEF e
    <3>3. IsData_body(t, e)
      BY <3>1, <3>2 DEF IsData_body, Complex
    <3>4. Holds_body(t, e, v)
      BY <3>1, <3>2 DEF Holds_body, Complex
    <3> QED
      BY <3>3, <3>4
  <2> QED
    BY <2>1, <2>2
<1> QED
  BY <1>1, <1>3, Bodies

\* Arrays: a round stores one element in the places of its own.
LEMMA StoresElement ==
  ASSUME Recursion, NEW t \in AllTypes, t.kind = "ARRAY", Stores(t.content),
         NEW v, NEW d, NEW indexes, NEW i \in 1 .. t.dimension,
         IsValue(t, v), IsArrayData(Element(t), d), Fits(t, d.bounds, indexes)
  PROVE  StoredAt(t.content, d, set_element(t, v, d, indexes, i), v[i],
                  Append(indexes, i - 1))
<1> DEFINE c == t.content
           ix == Append(indexes, i - 1)
           e == set_element(t, v, d, indexes, i)
<1>1. c \in AllTypes /\ IsValue(c, v[i]) /\ Element(t) = Element(c)
  BY SequenceParts, IsArrayValue, SpecsLemma DEF SpecsOK
<1>2. CASE c.kind = "ARRAY"
  <2>1. Fits(c, d.bounds, ix)
    BY <1>2, RegionOfElement
  <2>2. e = set_array_data(c, v[i], d, ix)
    BY <1>2 DEF set_element, new_indexes
  <2> QED
    BY <1>1, <1>2, <2>1, <2>2 DEF Stores
<1>3. CASE c.kind # "ARRAY"
  <2> DEFINE x == set_value(c, v[i], create_data(c))
             J == Index(d.bounds, ix)
  <2>1. e = [d EXCEPT !.values[J] = x]
    BY <1>3, GetArrayIndex DEF set_element, new_indexes
  <2>2. IsData(c, x) /\ Holds(c, x, v[i])
    BY <1>1, StoresNew
  <2>3. /\ J \in 0 .. Places(d.bounds) - 1
        /\ Region(c, d.bounds, ix) = {J}
    BY <1>3, RegionOfElement
  <2>4. Element(t) = c /\ Element(c) = c
    BY <1>1, <1>3 DEF Element
  <2>5. /\ d = [bounds |-> d.bounds, values |-> d.values]
        /\ DOMAIN d.values = 0 .. Places(d.bounds) - 1
        /\ \A k \in DOMAIN d.values : IsData(c, d.values[k])
    BY <2>4 DEF IsArrayData
  <2> HIDE DEF e, x, J
  <2>6. e = [bounds |-> d.bounds, values |-> [d.values EXCEPT ![J] = x]]
    BY <2>1, <2>5
  <2>7. /\ e.bounds = d.bounds /\ DOMAIN e.values = DOMAIN d.values
        /\ e.values[J] = x
        /\ \A k \in DOMAIN d.values : k # J => e.values[k] = d.values[k]
        /\ e = [bounds |-> e.bounds, values |-> e.values]
    BY <2>3, <2>5, <2>6
  <2>8. IsArrayData(c, e)
    BY <2>2, <2>5, <2>7 DEF IsArrayData
  <2>9. HeldAt(c, e, v[i], ix)
    BY <1>3, <2>2, <2>7 DEF HeldAt, J
  <2>10. StoredAt(c, d, e, v[i], ix)
    BY <2>3, <2>4, <2>5, <2>7, <2>8, <2>9 DEF StoredAt
  <2> QED
    BY <2>10 DEF e
<1> QED
  BY <1>2, <1>3

\* The loop of set_array_data: e is the array d after i rounds.
Rounds(t, d, e, v, indexes, i) ==
  /\ IsArrayData(Element(t), e) /\ e.bounds = d.bounds
  /\ \A k \in 0 .. Places(d.bounds) - 1 :
       k \notin Region(t, d.bounds, indexes) => e.values[k] = d.values[k]
  /\ \A j \in 1 .. i : HeldAt(t.content, e, v[j], Append(indexes, j - 1))

\* A round keeps the elements of the rounds before it.
LEMMA OneRound ==
  ASSUME Recursion, NEW t \in AllTypes, t.kind = "ARRAY", Stores(t.content),
         NEW v, NEW d, NEW e, NEW indexes, NEW i \in Nat,
         i + 1 \in 1 .. t.dimension,
         IsValue(t, v), Fits(t, d.bounds, indexes),
         Rounds(t, d, e, v, indexes, i)
  PROVE  Rounds(t, d, set_element(t, v, e, indexes, i + 1), v, indexes, i + 1)
<1> DEFINE c == t.content
           ix(j) == Append(indexes, j - 1)
           f == set_element(t, v, e, indexes, i + 1)
           P == Places(d.bounds)
<1>1. IsArrayData(Element(t), e) /\ e.bounds = d.bounds
  BY DEF Rounds
<1>2. StoredAt(c, e, f, v[i + 1], ix(i + 1))
  BY <1>1, StoresElement
<1>3. Element(t) = Element(c) /\ c \in AllTypes /\ t.dimension \in Nat
  BY SpecsLemma, ArrayParts DEF SpecsOK, Positive
<1> HIDE DEF f
<1>4. /\ IsArrayData(Element(t), f) /\ f.bounds = d.bounds
      /\ \A k \in 0 .. P - 1 :
           k \notin Region(c, d.bounds, ix(i + 1))
             => f.values[k] = e.values[k]
      /\ HeldAt(c, f, v[i + 1], ix(i + 1))
  BY <1>1, <1>2, <1>3 DEF StoredAt
<1>5. \A k \in 0 .. P - 1 :
        k \notin Region(t, d.bounds, indexes) => f.values[k] = d.values[k]
  <2>1. Region(c, d.bounds, ix(i + 1)) \subseteq Region(t, d.bounds, indexes)
    BY RegionOfElement
  <2> QED
    BY <1>4, <2>1 DEF Rounds
<1>6. ASSUME NEW j \in 1 .. i PROVE HeldAt(c, f, v[j], ix(j))
  <2>1. j \in 1 .. t.dimension /\ j # i + 1
    BY <1>3
  <2>2. HeldAt(c, e, v[j], ix(j))
    BY DEF Rounds
  <2>3. Region(c, d.bounds, ix(j)) \cap Region(c, d.bounds, ix(i + 1)) = {}
    BY <2>1, RegionsApart
  <2>4. Region(c, d.bounds, ix(j)) \subseteq 0 .. P - 1
    BY <2>1, RegionOfElement
  <2>5. \A k \in Region(c, d.bounds, ix(j)) : f.values[k] = e.values[k]
    BY <1>4, <2>3, <2>4
  <2>6. IsValue(c, v[j])
    BY <2>1, IsArrayValue
  <2>7. Frame(c) /\ f.bounds = e.bounds /\ Fits(t, e.bounds, indexes)
    BY <1>1, <1>3, <1>4, FrameLemma
  <2> HIDE DEF c, P
  <2>8. \A k \in Region(c, e.bounds, ix(j)) : f.values[k] = e.values[k]
    BY <1>1, <2>5
  <2> QED
    BY <2>1, <2>2, <2>6, <2>7, <2>8, FrameElement DEF c
<1>7. \A j \in 1 .. i + 1 : j \in 1 .. i \/ j = i + 1
  OBVIOUS
<1> QED
  BY <1>4, <1>5, <1>6, <1>7 DEF Rounds, f

\* So after the last round every element is there.
LEMMA StoresArrayAt ==
  ASSUME Recursion, NEW t \in AllTypes, t.kind = "ARRAY", Stores(t.content),
         NEW v, NEW d, NEW indexes,
         IsValue(t, v), IsArrayData(Element(t), d), Fits(t, d.bounds, indexes)
  PROVE  StoredAt(t, d, set_array_data(t, v, d, indexes), v, indexes)
<1> DEFINE L == Loop(ArrayJob(t, v, indexes), d)
           S == {i \in Nat : i <= t.dimension
                               => Rounds(t, d, L[i], v, indexes, i)}
<1>1. set_array_data(t, v, d, indexes) = L[Len(v)]
  BY ArrayBodies, ArrayLoop
<1>2. Len(v) = t.dimension /\ t.dimension \in Nat /\ DOMAIN v = 1 .. t.dimension
  BY IsArrayValue, ArrayParts DEF Positive
<1>3. 0 \in S
  <2>1. L[0] = d
    BY ArrayLoop
  <2>2. Rounds(t, d, d, v, indexes, 0)
    BY DEF Rounds
  <2> QED
    BY <2>1, <2>2
<1>4. ASSUME NEW i \in Nat, i \in S PROVE i + 1 \in S
  <2> SUFFICES ASSUME i + 1 <= t.dimension
               PROVE  Rounds(t, d, L[i + 1], v, indexes, i + 1)
    OBVIOUS
  <2>1. Rounds(t, d, L[i], v, indexes, i) /\ i + 1 \in 1 .. t.dimension
    BY <1>2, <1>4
  <2>2. L[i + 1] = set_element(t, v, L[i], indexes, i + 1)
    BY ArrayLoop
  <2> HIDE DEF L
  <2> QED
    BY <2>1, <2>2, OneRound
<1>5. Nat \subseteq S
  <2> HIDE DEF S
  <2> QED
    BY <1>3, <1>4, Induction
<1> DEFINE e == set_array_data(t, v, d, indexes)
<1>6. Rounds(t, d, e, v, indexes, t.dimension)
  BY <1>1, <1>2, <1>5
<1> HIDE DEF e
<1>7. HeldAt(t, e, v, indexes)
  BY <1>2, <1>6, HeldElements DEF Rounds
<1> QED
  BY <1>6, <1>7 DEF Rounds, StoredAt, HeldAt, e

\* An array of arrays is the array without indexes.
LEMMA StoresArray ==
  ASSUME Recursion, NEW t \in AllTypes, t.kind = "ARRAY", StoresBelow(t)
  PROVE  Stores(t)
<1>1. Stores(t.content)
  BY SequenceParts DEF StoresBelow
<1>2. ASSUME NEW v, NEW d, IsValue(t, v), IsData(t, d)
      PROVE  /\ IsData(t, set_value(t, v, d))
             /\ Holds(t, set_value(t, v, d), v)
  <2> DEFINE e == set_value(t, v, d)
  <2>1. e = set_array_data(t, v, d, <<>>)
    BY Bodies DEF set_value_body, Complex
  <2>2. /\ IsArrayData(Element(t), d) /\ d.bounds = Specs(t).bounds
        /\ Fits(t, d.bounds, <<>>)
    BY <1>2, ArrayAtTop
  <2>3. StoredAt(t, d, e, v, <<>>)
    BY <1>1, <1>2, <2>1, <2>2, StoresArrayAt
  <2> HIDE DEF e
  <2>4. IsData(t, e) /\ HeldAt(t, e, v, <<>>)
    BY <2>2, <2>3, ArrayAtTop DEF StoredAt
  <2>5. Holds(t, e, v)
    BY <2>4, HeldAtTop
  <2> QED
    BY <2>4, <2>5 DEF e
<1> QED
  BY <1>1, <1>2, StoresArrayAt DEF Stores

\* Conversion into the DynamicData of Fast DDS.
LEMMA StoresLemma == ASSUME Recursion, NEW t \in AllTypes PROVE Stores(t)
<1> DEFINE S == {u \in AllTypes : Stores(u)}
<1>1. ASSUME NEW u \in AllTypes,
             \A p \in AllTypes : Depth[p] < Depth[u] => p \in S
      PROVE  u \in S
  <2>1. StoresBelow(u)
    BY <1>1 DEF StoresBelow
  <2> QED
    BY <2>1, StoresStructure, StoresUnion, StoresSequence, StoresMap,
       StoresArray, StoresPrimitive DEF Complex
<1>2. AllTypes \subseteq S
  <2> HIDE DEF S
  <2> QED
    BY <1>1, TypeInduction
<1> QED
  BY <1>2

-----------------------------------------------------------------------------
(* From Fast DDS to a fresh DynamicData of xtypes. *)

\* get_value gives a fresh object the value that the data holds.
Reads(t) ==
  /\ \A v, d : IsValue(t, v) /\ IsData(t, d) /\ Holds(t, d, v)
                 => get_value(t, d, DynamicData(t)) = v
  /\ t.kind = "ARRAY" =>
       \A v, d, indexes :
         /\ IsValue(t, v) /\ IsArrayData(Element(t), d)
         /\ Fits(t, d.bounds, indexes) /\ HeldAt(t, d, v, indexes)
         => get_array_data(t, d, indexes) = v

ReadsBelow(t) == \A p \in AllTypes : Depth[p] < Depth[t] => Reads(p)

\* Structures: each member from its own id.
LEMMA ReadsStructure ==
  ASSUME Recursion, NEW t \in AllTypes, t.kind = "STRUCTURE", ReadsBelow(t)
  PROVE  Reads(t)
<1> SUFFICES ASSUME NEW v, NEW d, IsValue(t, v), IsData(t, d), Holds(t, d, v)
             PROVE  get_value(t, d, DynamicData(t)) = v
  BY DEF Reads
<1> DEFINE m == t.members
           names == {m[i].name : i \in DOMAIN m}
           out == DynamicData(t)
           w == get_value(t, d, out)
           id(n) == get_member_id_by_name(t, n)
<1>1. out = [n \in names |-> DynamicData(m[id(n) + 1].type)]
  BY Bodies DEF DynamicData_body, Complex
<1>2. w = [n \in DOMAIN out |-> get_value(m[id(n) + 1].type, d[id(n)], out[n])]
  BY Bodies DEF get_value_body, get_struct_data, Complex
<1>3. /\ v = [n \in names |-> v[n]]
      /\ \A i \in DOMAIN m : IsValue(m[i].type, v[m[i].name])
  <2>1. IsValue_body(t, v)
    BY Bodies
  <2> QED
    BY <2>1 DEF IsValue_body, Complex
<1>4. /\ DOMAIN d = 0 .. Len(m) - 1
      /\ \A k \in DOMAIN d : IsData(m[k + 1].type, d[k])
  <2>1. IsData_body(t, d)
    BY Bodies
  <2> QED
    BY <2>1 DEF IsData_body, Complex
<1>5. \A i \in DOMAIN m : Holds(m[i].type, d[i - 1], v[m[i].name])
  <2>1. Holds_body(t, d, v)
    BY Bodies
  <2> QED
    BY <2>1 DEF Holds_body, Complex
<1> HIDE DEF out, w
<1>6. ASSUME NEW i \in DOMAIN m PROVE w[m[i].name] = v[m[i].name]
  <2> DEFINE n == m[i].name
  <2>1. /\ id(n) = i - 1 /\ i - 1 \in DOMAIN d /\ (i - 1) + 1 = i
        /\ m[i].type \in AllTypes /\ Depth[m[i].type] < Depth[t]
    BY <1>4, Members DEF Positive
  <2>2. n \in names /\ out[n] = DynamicData(m[i].type)
    BY <1>1, <2>1
  <2>3. w[n] = get_value(m[i].type, d[i - 1], DynamicData(m[i].type))
    BY <1>1, <1>2, <2>1, <2>2
  <2>4. IsData(m[i].type, d[i - 1])
    BY <1>4, <2>1
  <2> QED
    BY <1>3, <1>5, <2>1, <2>3, <2>4 DEF ReadsBelow, Reads
<1>7. \A n \in names : w[n] = v[n]
  BY <1>6
<1>8. w = [n \in names |-> w[n]]
  BY <1>1, <1>2
<1> QED
  BY <1>3, <1>7, <1>8 DEF w, out

\* The active member of a union that holds a value is the value's.
LEMMA UnionHeld ==
  ASSUME Recursion, NEW t \in AllTypes, t.kind = "UNION", NEW v, NEW d,
         IsValue(t, v), IsData(t, d), Holds(t, d, v)
  PROVE  \E i \in DOMAIN t.members :
           /\ d.id = i - 1 /\ d.id + 1 = i
           /\ v = [case |-> t.members[i].name, value |-> v.value]
           /\ IsValue(t.members[i].type, v.value)
           /\ IsData(t.members[i].type, d.values[i - 1])
           /\ Holds(t.members[i].type, d.values[i - 1], v.value)
<1> DEFINE m == t.members
           i == d.id + 1
<1>1. /\ DOMAIN d.values = 0 .. Len(m) - 1 /\ d.id \in DOMAIN d.values
      /\ \A id \in DOMAIN d.values : IsData(m[id + 1].type, d.values[id])
  <2>1. IsData_body(t, d)
    BY Bodies
  <2> QED
    BY <2>1 DEF IsData_body, Complex
<1>2. v.case = m[i].name /\ Holds(m[i].type, d.values[d.id], v.value)
  <2>1. Holds_body(t, d, v)
    BY Bodies
  <2> QED
    BY <2>1 DEF Holds_body, Complex
<1>3. i \in DOMAIN m /\ d.id = i - 1
  BY <1>1, Members DEF Positive
<1>4. v = [case |-> v.case, value |-> v.value] /\ IsValue(m[i].type, v.value)
  <2>1. IsValue_body(t, v)
    BY Bodies
  <2>2. PICK j \in DOMAIN m : v.case = m[j].name /\ IsValue(m[j].type, v.value)
    BY <2>1 DEF IsValue_body, Complex
  <2>3. v = [case |-> v.case, value |-> v.value]
    BY <2>1 DEF IsValue_body, Complex
  <2>4. j = i
    BY <1>2, <1>3, <2>2, Members
  <2> QED
    BY <2>2, <2>3, <2>4
<1> QED
  BY <1>1, <1>2, <1>3, <1>4

\* Unions: the active member, in a case that is new or as good as new.
LEMMA ReadsUnion ==
  ASSUME Recursion, NEW t \in AllTypes, t.kind = "UNION", ReadsBelow(t)
  PROVE  Reads(t)
<1> SUFFICES ASSUME NEW v, NEW d, IsValue(t, v), IsData(t, d), Holds(t, d, v)
             PROVE  get_value(t, d, DynamicData(t)) = v
  BY DEF Reads
<1> DEFINE m == t.members
           out == DynamicData(t)
<1>1. PICK i \in DOMAIN m :
        /\ d.id = i - 1 /\ d.id + 1 = i
        /\ v = [case |-> m[i].name, value |-> v.value]
        /\ IsValue(m[i].type, v.value)
        /\ IsData(m[i].type, d.values[i - 1])
        /\ Holds(m[i].type, d.values[i - 1], v.value)
  BY UnionHeld
<1>2. out = [case |-> m[1].name, value |-> DynamicData(m[1].type)]
  BY Bodies DEF DynamicData_body, Complex
<1>3. (IF out.case = m[i].name THEN out.value ELSE DynamicData(m[i].type))
        = DynamicData(m[i].type)
  <2>1. 1 \in DOMAIN m
    BY Members DEF Positive
  <2>2. m[1].name = m[i].name => 1 = i
    BY <2>1, Members
  <2> HIDE DEF out
  <2> QED
    BY <1>2, <2>2
<1>4. get_value(t, d, out)
        = [case |-> m[i].name,
           value |-> get_value(m[i].type, d.values[i - 1],
                               IF out.case = m[i].name
                               THEN out.value ELSE DynamicData(m[i].type))]
  BY <1>1, Bodies DEF get_value_body, get_union_data, Complex
<1>5. get_value(m[i].type, d.values[i - 1], DynamicData(m[i].type)) = v.value
  <2>1. Reads(m[i].type)
    BY Members DEF ReadsBelow
  <2> QED
    BY <1>1, <2>1 DEF Reads
<1> HIDE DEF out
<1> QED
  BY <1>1, <1>3, <1>4, <1>5 DEF out

\* The elements of a sequence, read one by one.
LEMMA ReadsElements ==
  ASSUME Recursion, NEW t \in AllTypes, t.kind = "SEQUENCE", ReadsBelow(t),
         NEW v, NEW d, IsValue(t, v), IsData(t, d), Holds(t, d, v)
  PROVE  [i \in 1 .. Len(d) |->
            get_value(t.content, d[i], DynamicData(t.content))] = v
<1> DEFINE c == t.content
<1>1. IsSequence(v) /\ \A i \in DOMAIN v : IsValue(c, v[i])
  <2>1. IsValue_body(t, v)
    BY Bodies
  <2> QED
    BY <2>1 DEF IsValue_body, Complex
<1>2. IsSequence(d) /\ \A i \in DOMAIN d : IsData(c, d[i])
  <2>1. IsData_body(t, d)
    BY Bodies
  <2> QED
    BY <2>1 DEF IsData_body, Complex
<1>3. Len(d) = Len(v) /\ \A i \in DOMAIN v : Holds(c, d[i], v[i])
  <2>1. Holds_body(t, d, v)
    BY Bodies
  <2> QED
    BY <2>1 DEF Holds_body, Complex
<1>4. DOMAIN v = 1 .. Len(v) /\ DOMAIN d = 1 .. Len(d)
  BY <1>1, <1>2, SequenceDomain
<1>5. \A i \in 1 .. Len(d) : get_value(c, d[i], DynamicData(c)) = v[i]
  <2>1. Reads(c)
    BY SequenceParts DEF ReadsBelow
  <2> QED
    BY <1>1, <1>2, <1>3, <1>4, <2>1 DEF Reads
<1>6. v = [i \in 1 .. Len(v) |-> v[i]]
  BY <1>1 DEF IsSequence
<1> QED
  BY <1>3, <1>5, <1>6

\* Sequences: the elements, behind none.
LEMMA ReadsSequence ==
  ASSUME Recursion, NEW t \in AllTypes, t.kind = "SEQUENCE", ReadsBelow(t)
  PROVE  Reads(t)
<1> SUFFICES ASSUME NEW v, NEW d, IsValue(t, v), IsData(t, d), Holds(t, d, v)
             PROVE  get_value(t, d, DynamicData(t)) = v
  BY DEF Reads
<1> DEFINE w == [i \in 1 .. Len(d) |->
                   get_value(t.content, d[i], DynamicData(t.content))]
<1>1. DynamicData(t) = <<>>
  BY Bodies DEF DynamicData_body, Complex
<1>2. get_value(t, d, <<>>) = <<>> \o w
  BY Bodies DEF get_value_body, get_sequence_data, Complex
<1>3. w = v
  BY ReadsElements
<1>4. IsSequence(v)
  <2>1. IsValue_body(t, v)
    BY Bodies
  <2> QED
    BY <2>1 DEF IsValue_body, Complex
<1>5. <<>> \o v = v
  BY <1>4, EmptyBefore DEF IsSequence
<1> HIDE DEF w
<1> QED
  BY <1>1, <1>2, <1>3, <1>5

\* Primitives: an octet is cast to the signed byte it came from.
LEMMA ReadsPrimitive ==
  ASSUME Recursion, NEW t \in AllTypes, t.kind \notin Complex
  PROVE  Reads(t)
<1> SUFFICES ASSUME NEW v, NEW d, IsValue(t, v), IsData(t, d), Holds(t, d, v)
             PROVE  get_value(t, d, DynamicData(t)) = v
  BY DEF Reads, Complex
<1>1. get_value(t, d, DynamicData(t)) = get_primitive_data(t, d)
  BY Bodies DEF get_value_body, Complex
<1>2. IsValue_body(t, v) /\ Holds_body(t, d, v)
  BY Bodies
<1>3. CASE t.kind = "INT_8"
  <2>1. v \in -128 .. 127 /\ d = IF v < 0 THEN v + 256 ELSE v
    BY <1>2, <1>3 DEF IsValue_body, Holds_body, Complex
  <2>2. get_primitive_data(t, d) = IF d > 127 THEN d - 256 ELSE d
    BY <1>3 DEF get_primitive_data
  <2> QED
    BY <1>1, <2>1, <2>2
<1>4. CASE t.kind # "INT_8"
  <2>1. t.kind \notin Complex \union {"INT_8"}
    BY <1>4
  <2>2. d = v
    BY <1>2, <2>1 DEF Holds_body, Complex
  <2> QED
    BY <1>1, <1>4, <2>2 DEF get_primitive_data
<1> QED
  BY <1>3, <1>4

\* Arrays: every element from its own place.
LEMMA ReadsArrayAt ==
  ASSUME Recursion, NEW t \in AllTypes, t.kind = "ARRAY", Reads(t.content),
         NEW v, NEW d, NEW indexes,
         IsValue(t, v), IsArrayData(Element(t), d), Fits(t, d.bounds, indexes),
         HeldAt(t, d, v, indexes)
  PROVE  get_array_data(t, d, indexes) = v
<1> DEFINE c == t.content
           ix(i) == Append(indexes, i - 1)
           w == get_array_data(t, d, indexes)
<1>1. w = [i \in 1 .. t.dimension |->
             IF c.kind = "ARRAY"
             THEN get_array_data(c, d, ix(i))
             ELSE get_value(c, d.values[get_array_index(d, ix(i))],
                            DynamicData(c))]
  <2>1. w = get_array_data_body(t, d, indexes)
    BY ArrayBodies
  <2> QED
    BY <2>1 DEF get_array_data_body, new_indexes
<1>2. /\ IsSequence(v) /\ Len(v) = t.dimension /\ DOMAIN v = 1 .. t.dimension
      /\ \A i \in DOMAIN v : IsValue(c, v[i])
  BY IsArrayValue
<1> HIDE DEF w
<1>3. ASSUME NEW i \in 1 .. t.dimension PROVE w[i] = v[i]
  <2>1. HeldAt(c, d, v[i], ix(i)) /\ IsValue(c, v[i])
    <3>1. \A j \in DOMAIN v : HeldAt(c, d, v[j], Append(indexes, j - 1))
      BY <1>2, HeldElements
    <3> QED
      BY <1>2, <3>1
  <2>2. Element(t) = Element(c)
    BY SpecsLemma DEF SpecsOK
  <2>3. CASE c.kind = "ARRAY"
    <3>1. Fits(c, d.bounds, ix(i))
      BY <2>3, RegionOfElement
    <3>2. w[i] = get_array_data(c, d, ix(i))
      BY <1>1, <2>3
    <3> QED
      BY <2>1, <2>2, <2>3, <3>1, <3>2 DEF Reads, HeldAt
  <2>4. CASE c.kind # "ARRAY"
    <3> DEFINE J == Index(d.bounds, ix(i))
    <3>1. J \in 0 .. Places(d.bounds) - 1
      BY <2>4, RegionOfElement
    <3>2. w[i] = get_value(c, d.values[J], DynamicData(c))
      BY <1>1, <2>4, GetArrayIndex
    <3>3. Element(t) = c
      BY <2>2, <2>4 DEF Element
    <3>4. IsData(c, d.values[J])
      BY <3>1, <3>3 DEF IsArrayData
    <3> QED
      BY <2>1, <2>4, <3>2, <3>4 DEF Reads, HeldAt
  <2> QED
    BY <2>3, <2>4
<1>4. w = [i \in 1 .. t.dimension |-> w[i]]
  BY <1>1
<1>5. v = [i \in 1 .. t.dimension |-> v[i]]
  BY <1>2 DEF IsSequence
<1> QED
  BY <1>3, <1>4, <1>5 DEF w

\* An array of arrays is the array without indexes.
LEMMA ReadsArray ==
  ASSUME Recursion, NEW t \in AllTypes, t.kind = "ARRAY", ReadsBelow(t)
  PROVE  /\ Reads(t)
         /\ \A d, out : get_value(t, d, out) = get_array_data(t, d, <<>>)
<1>1. Reads(t.content)
  BY SequenceParts DEF ReadsBelow
<1>2. \A d, out : get_value(t, d, out) = get_array_data(t, d, <<>>)
  BY Bodies DEF get_value_body, Complex
<1>3. ASSUME NEW v, NEW d, IsValue(t, v), IsData(t, d), Holds(t, d, v)
      PROVE  get_value(t, d, DynamicData(t)) = v
  <2>1. IsArrayData(Element(t), d) /\ Fits(t, d.bounds, <<>>)
    BY <1>3, ArrayAtTop
  <2>3. HeldAt(t, d, v, <<>>)
    BY <1>3, HeldAtTop
  <2> QED
    BY <1>1, <1>2, <1>3, <2>1, <2>3, ReadsArrayAt
<1> QED
  BY <1>1, <1>2, <1>3, ReadsArrayAt DEF Reads

-----------------------------------------------------------------------------
(* Maps. *)

IsMap(t, w) ==
  /\ IsSequence(w)
  /\ \A i \in DOMAIN w : /\ w[i] = <<w[i][1], w[i][2]>>
                         /\ IsValue(t.first, w[i][1])
                         /\ IsValue(t.second, w[i][2])
  /\ \A i, j \in DOMAIN w : w[i][1] = w[j][1] => i = j

\* A value of a map type, in these words.
LEMMA IsMapValue ==
  ASSUME Recursion, NEW t \in AllTypes, t.kind = "MAP", NEW w
  PROVE  IsValue(t, w) <=> IsMap(t, w)
<1>1. IsValue(t, w) <=> IsValue_body(t, w)
  BY Bodies
<1> QED
  BY <1>1 DEF IsValue_body, IsMap, Complex

\* One element more.
LEMMA Appended ==
  ASSUME NEW s, IsSequence(s), NEW x
  PROVE  /\ IsSequence(Append(s, x))
         /\ DOMAIN Append(s, x) = 1 .. Len(s) + 1
         /\ Len(Append(s, x)) = Len(s) + 1
         /\ \A i \in 1 .. Len(s) : Append(s, x)[i] = s[i]
         /\ Append(s, x)[Len(s) + 1] = x
<1> DEFINE T == {s[i] : i \in 1 .. Len(s)} \union {x}
<1>1. Len(s) \in Nat /\ s = [i \in 1 .. Len(s) |-> s[i]]
  BY DEF IsSequence
<1>2. s \in Seq(T)
  BY <1>1, SeqDef
<1> HIDE DEF T
<1>3. x \in T
  BY DEF T
<1>4. Append(s, x) \in Seq(T) /\ Len(Append(s, x)) = Len(s) + 1
  BY <1>2, <1>3
<1>5. /\ \A i \in 1 .. Len(s) : Append(s, x)[i] = s[i]
      /\ Append(s, x)[Len(s) + 1] = x
  BY <1>2, <1>3
<1>6. DOMAIN Append(s, x) = 1 .. Len(s) + 1
  BY <1>4
<1>7. IsSequence(Append(s, x))
  <2> DEFINE r == Append(s, x)
  <2>1. r \in Seq(T) /\ Len(r) \in Nat
    BY <1>4
  <2> HIDE DEF r
  <2>2. r = [i \in 1 .. Len(r) |-> r[i]]
    BY <2>1
  <2>3. IsSequence(r)
    BY <2>1, <2>2 DEF IsSequence
  <2> QED
    BY <2>3 DEF r
<1> QED
  BY <1>4, <1>5, <1>6, <1>7

\* assign keeps the keys apart, sets one pair and keeps the others.
LEMMA Assign ==
  ASSUME NEW t, NEW map, NEW key, NEW value, IsMap(t, map),
         IsValue(t.first, key), IsValue(t.second, value)
  PROVE  /\ IsMap(t, assign(map, key, value))
         /\ \E j \in DOMAIN assign(map, key, value) :
              assign(map, key, value)[j] = <<key, value>>
         /\ \A i \in DOMAIN map :
              map[i][1] # key
                => \E j \in DOMAIN assign(map, key, value) :
                     assign(map, key, value)[j] = map[i]
<1> DEFINE r == assign(map, key, value)
           n == Len(map)
<1>1. DOMAIN map = 1 .. n /\ n \in Nat
  BY SequenceDomain DEF IsMap
<1>2. CASE \E i \in DOMAIN map : map[i][1] = key
  <2>1. r = [i \in DOMAIN map |-> IF map[i][1] = key THEN <<key, value>>
                                                      ELSE map[i]]
    BY <1>2 DEF assign
  <2> HIDE DEF r
  <2>2. /\ DOMAIN r = DOMAIN map
        /\ \A i \in DOMAIN map : /\ map[i][1] = key => r[i] = <<key, value>>
                                 /\ map[i][1] # key => r[i] = map[i]
    BY <2>1
  <2>3. \A i \in DOMAIN map : r[i][1] = map[i][1]
    BY <2>2
  <2>4. IsSequence(r)
    <3>1. r = [i \in 1 .. n |-> r[i]]
      BY <1>1, <2>1
    <3> QED
      BY <1>1, <3>1, EmptyBefore
  <2>5. IsMap(t, r)
    <3>1. \A i \in DOMAIN r : /\ r[i] = <<r[i][1], r[i][2]>>
                              /\ IsValue(t.first, r[i][1])
                              /\ IsValue(t.second, r[i][2])
      BY <2>2 DEF IsMap
    <3>2. \A i, j \in DOMAIN r : r[i][1] = r[j][1] => i = j
      BY <2>2, <2>3 DEF IsMap
    <3> QED
      BY <2>4, <3>1, <3>2 DEF IsMap
  <2> QED
    BY <1>2, <2>2, <2>5 DEF r
<1>3. CASE ~ \E i \in DOMAIN map : map[i][1] = key
  <2>1. r = Append(map, <<key, value>>)
    BY <1>3 DEF assign
  <2> HIDE DEF r
  <2>2. /\ IsSequence(r) /\ DOMAIN r = 1 .. n + 1
        /\ \A i \in 1 .. n : r[i] = map[i]
        /\ r[n + 1] = <<key, value>>
    BY <2>1, Appended DEF IsMap
  <2>3. \A i \in 1 .. n + 1 : i \in 1 .. n \/ i = n + 1
    BY <1>1
  <2>4. n + 1 \in 1 .. n + 1 /\ 1 .. n \subseteq 1 .. n + 1
    BY <1>1
  <2>5. IsMap(t, r)
    <3>1. \A i \in DOMAIN r : /\ r[i] = <<r[i][1], r[i][2]>>
                              /\ IsValue(t.first, r[i][1])
                              /\ IsValue(t.second, r[i][2])
      BY <1>1, <2>2, <2>3 DEF IsMap
    <3>2. \A i \in 1 .. n : r[i][1] # r[n + 1][1]
      BY <1>1, <1>3, <2>2
    <3>3. \A i, j \in 1 .. n : r[i][1] = r[j][1] => i = j
      BY <1>1, <2>2 DEF IsMap
    <3>4. \A i, j \in DOMAIN r : r[i][1] = r[j][1] => i = j
      BY <2>2, <2>3, <3>2, <3>3
    <3> QED
      BY <2>2, <3>1, <3>4 DEF IsMap
  <2>6. r[n + 1] = <<key, value>> /\ n + 1 \in DOMAIN r
    BY <2>2, <2>4
  <2>7. \A i \in DOMAIN map : i \in DOMAIN r /\ r[i] = map[i]
    BY <1>1, <2>2, <2>4
  <2> QED
    BY <2>5, <2>6, <2>7 DEF r
<1> QED
  BY <1>2, <1>3

\* The pairs of a map, read one by one.
LEMMA ReadsPairs ==
  ASSUME Recursion, NEW t \in AllTypes, t.kind = "MAP", ReadsBelow(t),
         NEW v, NEW d, IsValue(t, v), IsData(t, d), Holds(t, d, v)
  PROVE  /\ Len(d) = Len(v) /\ Len(v) \in Nat /\ DOMAIN v = 1 .. Len(v)
         /\ \A i \in 1 .. Len(v) :
              /\ get_value(t.first, d[i][1], DynamicData(t.first)) = v[i][1]
              /\ get_value(t.second, d[i][2], DynamicData(t.second)) = v[i][2]
<1>1. IsMap(t, v)
  BY IsMapValue
<1>2. /\ IsSequence(d)
      /\ \A i \in DOMAIN d : /\ IsData(t.first, d[i][1])
                             /\ IsData(t.second, d[i][2])
  <2>1. IsData_body(t, d)
    BY Bodies
  <2> QED
    BY <2>1 DEF IsData_body, Complex
<1>3. /\ Len(d) = Len(v)
      /\ \A i \in DOMAIN v : /\ Holds(t.first, d[i][1], v[i][1])
                             /\ Holds(t.second, d[i][2], v[i][2])
  <2>1. Holds_body(t, d, v)
    BY Bodies
  <2> QED
    BY <2>1 DEF Holds_body, Complex
<1>4. DOMAIN v = 1 .. Len(v) /\ Len(v) \in Nat /\ DOMAIN d = 1 .. Len(d)
  BY <1>1, <1>2, SequenceDomain DEF IsMap
<1>5. Reads(t.first) /\ Reads(t.second)
  BY MapParts DEF ReadsBelow
<1>6. ASSUME NEW i \in 1 .. Len(v)
      PROVE  /\ get_value(t.first, d[i][1], DynamicData(t.first)) = v[i][1]
             /\ get_value(t.second, d[i][2], DynamicData(t.second)) = v[i][2]
  <2>1. IsValue(t.first, v[i][1]) /\ IsValue(t.second, v[i][2])
    BY <1>1, <1>4 DEF IsMap
  <2>2. IsData(t.first, d[i][1]) /\ IsData(t.second, d[i][2])
    BY <1>2, <1>3, <1>4
  <2>3. Holds(t.first, d[i][1], v[i][1]) /\ Holds(t.second, d[i][2], v[i][2])
    BY <1>3, <1>4
  <2> QED
    BY <1>5, <2>1, <2>2, <2>3 DEF Reads
<1> QED
  BY <1>3, <1>4, <1>6

\* The loop of set_map_data from an empty map: the first i pairs are there.
LEMMA ReadsMap ==
  ASSUME Recursion, NEW t \in AllTypes, t.kind = "MAP", ReadsBelow(t)
  PROVE  Reads(t)
<1> SUFFICES ASSUME NEW v, NEW d, IsValue(t, v), IsData(t, d), Holds(t, d, v)
             PROVE  get_value(t, d, DynamicData(t)) = v
  BY DEF Reads
<1> DEFINE L == Loop(MapJob(t, d), <<>>)
           Upto(i) == [j \in 1 .. i |-> v[j]]
           S == {i \in Nat : i <= Len(v) => L[i] = Upto(i)}
<1>1. DynamicData(t) = <<>>
  BY Bodies DEF DynamicData_body, Complex
<1>2. get_value(t, d, <<>>) = L[Len(d)]
  BY MapLoop, Bodies DEF get_value_body, Complex
<1>3. IsMap(t, v)
  BY IsMapValue
<1>4. Len(d) = Len(v) /\ Len(v) \in Nat /\ DOMAIN v = 1 .. Len(v)
  BY ReadsPairs
<1>5. 0 \in S
  <2>1. L[0] = <<>>
    BY MapLoop
  <2>2. Upto(0) = <<>>
    OBVIOUS
  <2> QED
    BY <2>1, <2>2
<1>6. ASSUME NEW i \in Nat, i \in S PROVE i + 1 \in S
  <2> SUFFICES ASSUME i + 1 <= Len(v) PROVE L[i + 1] = Upto(i + 1)
    OBVIOUS
  <2> DEFINE n == i + 1
  <2>1. n \in 1 .. Len(v) /\ i <= Len(v) /\ n \in DOMAIN v
    BY <1>4
  <2>2. L[i] = Upto(i)
    BY <1>6, <2>1
  <2>3. L[n] = assign(L[i], v[n][1], v[n][2])
    <3>1. L[n] = assign(L[i],
                   get_value(t.first, d[n][1], DynamicData(t.first)),
                   get_value(t.second, d[n][2], DynamicData(t.second)))
      BY MapLoop
    <3>2. /\ get_value(t.first, d[n][1], DynamicData(t.first)) = v[n][1]
          /\ get_value(t.second, d[n][2], DynamicData(t.second)) = v[n][2]
      BY <2>1, ReadsPairs
    <3> QED
      BY <3>1, <3>2
  <2>4. \A j \in 1 .. i : Upto(i)[j] = v[j] /\ v[j][1] # v[n][1]
    <3> TAKE j \in 1 .. i
    <3>1. j \in DOMAIN v /\ j # n
      BY <1>4, <2>1
    <3> QED
      BY <1>3, <2>1, <3>1 DEF IsMap
  <2>5. DOMAIN Upto(i) = 1 .. i
    OBVIOUS
  <2>6. assign(Upto(i), v[n][1], v[n][2])
          = Append(Upto(i), <<v[n][1], v[n][2]>>)
    <3> HIDE DEF Upto
    <3> QED
      BY <2>4, <2>5 DEF assign
  <2>7. v[n] = <<v[n][1], v[n][2]>>
    BY <1>3, <2>1 DEF IsMap
  <2>8. Append(Upto(i), v[n]) = Upto(n)
    <3> DEFINE s == Upto(i)
    <3>1. s = [j \in 1 .. i |-> s[j]]
      OBVIOUS
    <3>2. IsSequence(s) /\ Len(s) = i
      <4> HIDE DEF s
      <4> QED
        BY <3>1, EmptyBefore
    <3>3. /\ IsSequence(Append(s, v[n])) /\ Len(Append(s, v[n])) = n
          /\ \A j \in 1 .. i : Append(s, v[n])[j] = s[j]
          /\ Append(s, v[n])[n] = v[n]
      <4> HIDE DEF s
      <4> QED
        BY <3>2, Appended
    <3>4. \A j \in 1 .. n : j \in 1 .. i \/ j = n
      OBVIOUS
    <3>5. \A j \in 1 .. i : s[j] = v[j]
      OBVIOUS
    <3> DEFINE r == Append(s, v[n])
    <3>6. r = [j \in 1 .. n |-> r[j]]
      <4> HIDE DEF s
      <4> QED
        BY <3>3 DEF IsSequence
    <3> HIDE DEF s, r
    <3>7. \A j \in 1 .. n : r[j] = v[j]
      BY <3>3, <3>4, <3>5 DEF r
    <3>8. r = Upto(n)
      BY <3>6, <3>7
    <3> QED
      BY <3>8 DEF r, s
  <2> HIDE DEF L, Upto
  <2> QED
    BY <2>2, <2>3, <2>6, <2>7, <2>8
<1>7. Nat \subseteq S
  <2> HIDE DEF S
  <2> QED
    BY <1>5, <1>6, Induction
<1>8. L[Len(v)] = Upto(Len(v))
  BY <1>4, <1>7
<1>9. v = Upto(Len(v))
  BY <1>3 DEF IsMap, IsSequence
<1> QED
  BY <1>1, <1>2, <1>4, <1>8, <1>9

\* Conversion into a new DynamicData of xtypes.
LEMMA ReadsLemma == ASSUME Recursion, NEW t \in AllTypes PROVE Reads(t)
<1> DEFINE S == {u \in AllTypes : Reads(u)}
<1>1. ASSUME NEW u \in AllTypes,
             \A p \in AllTypes : Depth[p] < Depth[u] => p \in S
      PROVE  u \in S
  <2>1. ReadsBelow(u)
    BY <1>1 DEF ReadsBelow
  <2> QED
    BY <2>1, ReadsStructure, ReadsUnion, ReadsSequence, ReadsMap,
       ReadsArray, ReadsPrimitive DEF Complex
<1>2. AllTypes \subseteq S
  <2> HIDE DEF S
  <2> QED
    BY <1>1, TypeInduction
<1> QED
  BY <1>2

-----------------------------------------------------------------------------
(* From Fast DDS to a DynamicData of xtypes that is in use. *)

\* The object keeps its type and shows the value that the data holds.
Refreshes(t) ==
  \A v, d, out :
    IsValue(t, v) /\ IsData(t, d) /\ Holds(t, d, v) /\ IsValue(t, out)
      => /\ IsValue(t, get_value(t, d, out))
         /\ Shows(t, get_value(t, d, out), v)

RefreshesBelow(t) == \A p \in AllTypes : Depth[p] < Depth[t] => Refreshes(p)

\* Structures: each member goes on from what it was.
LEMMA RefreshesStructure ==
  ASSUME Recursion, NEW t \in AllTypes, t.kind = "STRUCTURE", RefreshesBelow(t)
  PROVE  Refreshes(t)
<1> SUFFICES ASSUME NEW v, NEW d, NEW out, IsValue(t, v), IsData(t, d),
                    Holds(t, d, v), IsValue(t, out)
             PROVE  /\ IsValue(t, get_value(t, d, out))
                    /\ Shows(t, get_value(t, d, out), v)
  BY DEF Refreshes
<1> DEFINE m == t.members
           names == {m[i].name : i \in DOMAIN m}
           w == get_value(t, d, out)
           id(n) == get_member_id_by_name(t, n)
<1>1. /\ out = [n \in names |-> out[n]]
      /\ \A i \in DOMAIN m : IsValue(m[i].type, out[m[i].name])
  <2>1. IsValue_body(t, out)
    BY Bodies
  <2> QED
    BY <2>1 DEF IsValue_body, Complex
<1>2. w = [n \in DOMAIN out |-> get_value(m[id(n) + 1].type, d[id(n)], out[n])]
  BY Bodies DEF get_value_body, get_struct_data, Complex
<1>3. \A i \in DOMAIN m : IsValue(m[i].type, v[m[i].name])
  <2>1. IsValue_body(t, v)
    BY Bodies
  <2> QED
    BY <2>1 DEF IsValue_body, Complex
<1>4. /\ DOMAIN d = 0 .. Len(m) - 1
      /\ \A k \in DOMAIN d : IsData(m[k + 1].type, d[k])
  <2>1. IsData_body(t, d)
    BY Bodies
  <2> QED
    BY <2>1 DEF IsData_body, Complex
<1>5. \A i \in DOMAIN m : Holds(m[i].type, d[i - 1], v[m[i].name])
  <2>1. Holds_body(t, d, v)
    BY Bodies
  <2> QED
    BY <2>1 DEF Holds_body, Complex
<1> HIDE DEF w
<1>6. ASSUME NEW i \in DOMAIN m
      PROVE  /\ IsValue(m[i].type, w[m[i].name])
             /\ Shows(m[i].type, w[m[i].name], v[m[i].name])
  <2> DEFINE n == m[i].name
  <2>1. /\ id(n) = i - 1 /\ i - 1 \in DOMAIN d /\ (i - 1) + 1 = i
        /\ m[i].type \in AllTypes /\ Depth[m[i].type] < Depth[t]
    BY <1>4, Members DEF Positive
  <2>2. n \in DOMAIN out
    BY <1>1
  <2>3. w[n] = get_value(m[i].type, d[i - 1], out[n])
    BY <1>2, <2>1, <2>2
  <2>4. IsData(m[i].type, d[i - 1])
    BY <1>4, <2>1
  <2>5. Refreshes(m[i].type)
    BY <2>1 DEF RefreshesBelow
  <2> QED
    BY <1>1, <1>3, <1>5, <2>3, <2>4, <2>5 DEF Refreshes
<1>7. w = [n \in names |-> w[n]]
  BY <1>1, <1>2
<1>8. IsValue_body(t, w)
  BY <1>6, <1>7 DEF IsValue_body, Complex
<1>9. Shows_body(t, w, v)
  BY <1>6 DEF Shows_body
<1> QED
  BY <1>8, <1>9, Bodies DEF w

\* Unions: the case goes on if it was the case, else starts anew.
LEMMA RefreshesUnion ==
  ASSUME Recursion, NEW t \in AllTypes, t.kind = "UNION", RefreshesBelow(t)
  PROVE  Refreshes(t)
<1> SUFFICES ASSUME NEW v, NEW d, NEW out, IsValue(t, v), IsData(t, d),
                    Holds(t, d, v), IsValue(t, out)
             PROVE  /\ IsValue(t, get_value(t, d, out))
                    /\ Shows(t, get_value(t, d, out), v)
  BY DEF Refreshes
<1> DEFINE m == t.members
           w == get_value(t, d, out)
<1>1. PICK i \in DOMAIN m :
        /\ d.id = i - 1 /\ d.id + 1 = i
        /\ v = [case |-> m[i].name, value |-> v.value]
        /\ IsValue(m[i].type, v.value)
        /\ IsData(m[i].type, d.values[i - 1])
        /\ Holds(m[i].type, d.values[i - 1], v.value)
  BY UnionHeld
<1>2. PICK j \in DOMAIN m :
        out.case = m[j].name /\ IsValue(m[j].type, out.value)
  <2>1. IsValue_body(t, out)
    BY Bodies
  <2> QED
    BY <2>1 DEF IsValue_body, Complex
<1> DEFINE old == IF out.case = m[i].name
                  THEN out.value ELSE DynamicData(m[i].type)
<1>3. IsValue(m[i].type, old)
  <2>1. CASE out.case = m[i].name
    BY <1>2, <2>1, Members
  <2>2. CASE out.case # m[i].name
    BY <2>2, Members, FreshLemma DEF Fresh
  <2> QED
    BY <2>1, <2>2
<1>4. w = [case |-> m[i].name,
           value |-> get_value(m[i].type, d.values[i - 1], old)]
  BY <1>1, Bodies DEF get_value_body, get_union_data, Complex
<1> HIDE DEF w, old
<1>5. IsValue(m[i].type, w.value) /\ Shows(m[i].type, w.value, v.value)
  <2>1. Refreshes(m[i].type)
    BY Members DEF RefreshesBelow
  <2>2. w.value = get_value(m[i].type, d.values[i - 1], old)
    BY <1>4
  <2> QED
    BY <1>1, <1>3, <2>1, <2>2 DEF Refreshes
<1>6. w = [case |-> w.case, value |-> w.value] /\ w.case = m[i].name
  BY <1>4
<1>7. IsValue_body(t, w)
  BY <1>5, <1>6 DEF IsValue_body, Complex
<1>8. Shows_body(t, w, v)
  <2>1. v.case = m[i].name /\ get_member_id_by_name(t, v.case) + 1 = i
    <3>1. v.case = m[i].name
      BY <1>1
    <3>2. get_member_id_by_name(t, m[i].name) = i - 1
      BY Members
    <3>3. (i - 1) + 1 = i
      BY <1>1
    <3> QED
      BY <3>1, <3>2, <3>3
  <2> QED
    BY <1>5, <1>6, <2>1 DEF Shows_body
<1> QED
  BY <1>7, <1>8, Bodies DEF w

\* Arrays and primitives are set anew, whatever was there.
LEMMA RefreshesArray ==
  ASSUME Recursion, NEW t \in AllTypes,
         t.kind = "ARRAY" \/ t.kind \notin Complex
  PROVE  Refreshes(t)
<1> SUFFICES ASSUME NEW v, NEW d, NEW out, IsValue(t, v), IsData(t, d),
                    Holds(t, d, v), IsValue(t, out)
             PROVE  /\ IsValue(t, get_value(t, d, out))
                    /\ Shows(t, get_value(t, d, out), v)
  BY DEF Refreshes
<1>1. get_value(t, d, out) = get_value(t, d, DynamicData(t))
  BY Bodies DEF get_value_body, Complex
<1>2. get_value(t, d, DynamicData(t)) = v
  BY ReadsLemma DEF Reads
<1>3. Shows_body(t, v, v)
  BY DEF Shows_body, Complex
<1> QED
  BY <1>1, <1>2, <1>3, Bodies

\* What is pushed behind a sequence is its end.
LEMMA SuffixOfConcat ==
  ASSUME NEW s, IsSequence(s), NEW u, IsSequence(u)
  PROVE  /\ IsSuffix(s, u \o s) /\ IsSequence(u \o s)
         /\ DOMAIN (u \o s) = 1 .. Len(u) + Len(s)
         /\ \A i \in 1 .. Len(u) : (u \o s)[i] = u[i]
         /\ \A i \in 1 .. Len(s) : (u \o s)[Len(u) + i] = s[i]
<1> DEFINE T == {s[i] : i \in 1 .. Len(s)} \union {u[i] : i \in 1 .. Len(u)}
           r == u \o s
           m == Len(u)
           n == Len(s)
<1>1. /\ n \in Nat /\ s = [i \in 1 .. n |-> s[i]]
      /\ m \in Nat /\ u = [i \in 1 .. m |-> u[i]]
  BY DEF IsSequence
<1>2. s \in Seq(T) /\ u \in Seq(T)
  BY <1>1, SeqDef
<1> HIDE DEF T
<1>3. /\ r \in Seq(T) /\ Len(r) = m + n
      /\ \A i \in 1 .. m + n : r[i] = IF i <= m THEN u[i] ELSE s[i - m]
  BY <1>2, ConcatProperties
<1> HIDE DEF r
<1>4. r = [i \in 1 .. Len(r) |-> r[i]] /\ DOMAIN r = 1 .. Len(r)
  BY <1>3
<1>5. IsSequence(r)
  BY <1>1, <1>3, <1>4 DEF IsSequence
<1>6. \A i \in 1 .. m : r[i] = u[i]
  BY <1>1, <1>3
<1>7. \A i \in 1 .. n : r[m + i] = s[i]
  <2> TAKE i \in 1 .. n
  <2>1. m + i \in 1 .. m + n /\ ~(m + i <= m) /\ (m + i) - m = i
    BY <1>1
  <2> QED
    BY <1>3, <2>1
<1>8. IsSuffix(s, r)
  <2> DEFINE p == Reverse(s)
             q == Reverse(r)
  <2>1. p = [i \in 1 .. n |-> s[(n - i) + 1]]
    BY DEF Reverse
  <2>2. q = [i \in 1 .. m + n |-> r[(m + n - i) + 1]]
    BY <1>3 DEF Reverse
  <2>3. p \in Seq(T) /\ Len(p) = n
    <3>1. \A i \in 1 .. n : s[(n - i) + 1] \in T
      BY <1>1, <1>2
    <3> HIDE DEF p
    <3>2. p \in [1 .. n -> T]
      BY <2>1, <3>1
    <3> QED
      BY <1>1, <3>2, SeqDef
  <2>4. q \in Seq(T) /\ Len(q) = m + n
    <3>1. \A i \in 1 .. m + n : r[(m + n - i) + 1] \in T
      BY <1>1, <1>3
    <3> HIDE DEF q
    <3>2. q \in [1 .. m + n -> T]
      BY <2>2, <3>1
    <3>3. m + n \in Nat
      BY <1>1
    <3> QED
      BY <3>2, <3>3, SeqDef
  <2>5. \A i \in 1 .. n : p[i] = q[i]
    <3> TAKE i \in 1 .. n
    <3>1. (n - i) + 1 \in 1 .. n /\ m + ((n - i) + 1) = (m + n - i) + 1
      BY <1>1
    <3>2. i \in 1 .. m + n
      BY <1>1
    <3>3. r[m + ((n - i) + 1)] = s[(n - i) + 1]
      BY <1>7, <3>1
    <3> HIDE DEF p, q
    <3> QED
      BY <2>1, <2>2, <3>1, <3>2, <3>3
  <2> HIDE DEF p, q
  <2>6. SubSeq(p, 1, n) = SubSeq(q, 1, n)
    <3> DEFINE a == SubSeq(p, 1, n)
               b == SubSeq(q, 1, n)
    <3>1. /\ a \in Seq(T) /\ Len(a) = IF 1 <= n THEN n - 1 + 1 ELSE 0
          /\ \A i \in 1 .. n - 1 + 1 : a[i] = p[1 + i - 1]
      BY <1>1, <2>3, SubSeqProperties
    <3>2. /\ b \in Seq(T) /\ Len(b) = IF 1 <= n THEN n - 1 + 1 ELSE 0
          /\ \A i \in 1 .. n - 1 + 1 : b[i] = q[1 + i - 1]
      <4>1. \A i \in 1 .. n : q[i] \in T
        BY <1>1, <2>4
      <4> QED
        BY <1>1, <4>1, SubSeqProperties
    <3>3. Len(a) = n /\ Len(b) = n
      BY <1>1, <3>1, <3>2
    <3>4. \A i \in 1 .. n : a[i] = p[i] /\ b[i] = q[i]
      <4> TAKE i \in 1 .. n
      <4>1. i \in 1 .. n - 1 + 1 /\ 1 + i - 1 = i
        BY <1>1
      <4> QED
        BY <3>1, <3>2, <4>1
    <3> HIDE DEF a, b
    <3>5. \A i \in 1 .. Len(a) : a[i] = b[i]
      BY <2>5, <3>3, <3>4
    <3>6. a = b
      BY <3>1, <3>2, <3>3, <3>5, SeqEqual
    <3> QED
      BY <3>6 DEF a, b
  <2>7. IsPrefix(p, q)
    BY <1>1, <2>3, <2>4, <2>6 DEF IsPrefix
  <2> QED
    BY <2>7 DEF IsSuffix, p, q
<1> QED
  BY <1>3, <1>4, <1>5, <1>6, <1>7, <1>8 DEF r

\* Sequences: the elements come behind what is there.
LEMMA RefreshesSequence ==
  ASSUME Recursion, NEW t \in AllTypes, t.kind = "SEQUENCE"
  PROVE  Refreshes(t)
<1> SUFFICES ASSUME NEW v, NEW d, NEW out, IsValue(t, v), IsData(t, d),
                    Holds(t, d, v), IsValue(t, out)
             PROVE  /\ IsValue(t, get_value(t, d, out))
                    /\ Shows(t, get_value(t, d, out), v)
  BY DEF Refreshes
<1> DEFINE c == t.content
           w == [i \in 1 .. Len(d) |-> get_value(c, d[i], DynamicData(c))]
           r == out \o v
<1>1. get_value(t, d, out) = out \o w
  BY Bodies DEF get_value_body, get_sequence_data, Complex
<1>2. w = v
  <2>1. ReadsBelow(t)
    BY ReadsLemma DEF ReadsBelow
  <2> QED
    BY <2>1, ReadsElements
<1>3. /\ IsSequence(v) /\ \A i \in DOMAIN v : IsValue(c, v[i])
      /\ IsSequence(out) /\ \A i \in DOMAIN out : IsValue(c, out[i])
  <2>1. IsValue_body(t, v) /\ IsValue_body(t, out)
    BY Bodies
  <2> QED
    BY <2>1 DEF IsValue_body, Complex
<1> HIDE DEF w
<1>4. /\ DOMAIN v = 1 .. Len(v) /\ Len(v) \in Nat
      /\ DOMAIN out = 1 .. Len(out) /\ Len(out) \in Nat
  BY <1>3, SequenceDomain
<1>5. /\ IsSuffix(v, r) /\ IsSequence(r) /\ DOMAIN r = 1 .. Len(out) + Len(v)
      /\ \A i \in 1 .. Len(out) : r[i] = out[i]
      /\ \A i \in 1 .. Len(v) : r[Len(out) + i] = v[i]
  BY <1>3, SuffixOfConcat
<1> HIDE DEF r
<1>6. ASSUME NEW i \in DOMAIN r PROVE IsValue(c, r[i])
  <2>1. CASE i \in 1 .. Len(out)
    BY <1>3, <1>4, <1>5, <2>1
  <2>2. CASE i \notin 1 .. Len(out)
    <3> DEFINE j == i - Len(out)
    <3>1. j \in 1 .. Len(v) /\ Len(out) + j = i
      BY <1>4, <1>5, <2>2
    <3>2. r[i] = v[j]
      BY <1>5, <3>1
    <3> QED
      BY <1>3, <1>4, <3>1, <3>2
  <2> QED
    BY <2>1, <2>2
<1>7. IsValue_body(t, r) /\ Shows_body(t, r, v)
  BY <1>5, <1>6 DEF IsValue_body, Shows_body, Complex
<1> QED
  BY <1>1, <1>2, <1>7, Bodies DEF r

\* Maps: every pair is there in the end, and no key twice.
LEMMA RefreshesMap ==
  ASSUME Recursion, NEW t \in AllTypes, t.kind = "MAP"
  PROVE  Refreshes(t)
<1> SUFFICES ASSUME NEW v, NEW d, NEW out, IsValue(t, v), IsData(t, d),
                    Holds(t, d, v), IsValue(t, out)
             PROVE  /\ IsValue(t, get_value(t, d, out))
                    /\ Shows(t, get_value(t, d, out), v)
  BY DEF Refreshes
<1> DEFINE L == Loop(MapJob(t, d), out)
           Has(map, i) == \A j \in 1 .. i : \E k \in DOMAIN map : map[k] = v[j]
           S == {i \in Nat : i <= Len(v) => IsMap(t, L[i]) /\ Has(L[i], i)}
<1>1. get_value(t, d, out) = L[Len(d)]
  BY MapLoop, Bodies DEF get_value_body, Complex
<1>2. IsMap(t, v) /\ IsMap(t, out)
  BY IsMapValue
<1>3. ReadsBelow(t)
  BY ReadsLemma DEF ReadsBelow
<1>4. Len(d) = Len(v) /\ Len(v) \in Nat /\ DOMAIN v = 1 .. Len(v)
  BY <1>3, ReadsPairs
<1>5. 0 \in S
  <2>1. L[0] = out
    BY MapLoop
  <2> QED
    BY <1>2, <2>1
<1>6. ASSUME NEW i \in Nat, i \in S PROVE i + 1 \in S
  <2> SUFFICES ASSUME i + 1 <= Len(v)
               PROVE  IsMap(t, L[i + 1]) /\ Has(L[i + 1], i + 1)
    OBVIOUS
  <2> DEFINE n == i + 1
             map == L[i]
             r == L[n]
  <2>1. n \in 1 .. Len(v) /\ i <= Len(v) /\ n \in DOMAIN v
    BY <1>4
  <2>2. IsMap(t, map) /\ Has(map, i)
    BY <1>6, <2>1
  <2>3. r = assign(map, v[n][1], v[n][2])
    <3>1. r = assign(map,
                get_value(t.first, d[n][1], DynamicData(t.first)),
                get_value(t.second, d[n][2], DynamicData(t.second)))
      BY MapLoop
    <3>2. /\ get_value(t.first, d[n][1], DynamicData(t.first)) = v[n][1]
          /\ get_value(t.second, d[n][2], DynamicData(t.second)) = v[n][2]
      BY <1>3, <2>1, ReadsPairs
    <3> HIDE DEF map, r
    <3> QED
      BY <3>1, <3>2
  <2>4. /\ v[n] = <<v[n][1], v[n][2]>>
        /\ IsValue(t.first, v[n][1]) /\ IsValue(t.second, v[n][2])
    BY <1>2, <2>1 DEF IsMap
  <2> HIDE DEF map, r
  <2>5. /\ IsMap(t, r)
        /\ \E k \in DOMAIN r : r[k] = <<v[n][1], v[n][2]>>
        /\ \A j \in DOMAIN map :
             map[j][1] # v[n][1] => \E k \in DOMAIN r : r[k] = map[j]
    BY <2>2, <2>3, <2>4, Assign
  <2>6. ASSUME NEW j \in 1 .. n PROVE \E k \in DOMAIN r : r[k] = v[j]
    <3>1. CASE j = n
      BY <2>4, <2>5, <3>1
    <3>2. CASE j # n
      <4>1. j \in 1 .. i /\ j \in DOMAIN v
        BY <1>4, <2>1, <3>2
      <4>2. v[j][1] # v[n][1]
        BY <1>2, <2>1, <3>2, <4>1 DEF IsMap
      <4>3. PICK k \in DOMAIN map : map[k] = v[j]
        BY <2>2, <4>1
      <4> QED
        BY <2>5, <4>2, <4>3
    <3> QED
      BY <3>1, <3>2
  <2> QED
    BY <2>5, <2>6 DEF r
<1>7. Nat \subseteq S
  <2> HIDE DEF S
  <2> QED
    BY <1>5, <1>6, Induction
<1> DEFINE w == L[Len(v)]
<1>8. IsMap(t, w) /\ Has(w, Len(v))
  BY <1>4, <1>7
<1> HIDE DEF w
<1>9. Shows_body(t, w, v)
  BY <1>4, <1>8 DEF Shows_body
<1>10. IsValue(t, w) /\ Shows(t, w, v)
  BY <1>8, <1>9, IsMapValue, Bodies
<1> QED
  BY <1>1, <1>4, <1>10 DEF w

\* Conversion into the DynamicData of the DataMapper.
LEMMA RefreshesLemma == ASSUME Recursion, NEW t \in AllTypes PROVE Refreshes(t)
<1> DEFINE S == {u \in AllTypes : Refreshes(u)}
<1>1. ASSUME NEW u \in AllTypes,
             \A p \in AllTypes : Depth[p] < Depth[u] => p \in S
      PROVE  u \in S
  <2>1. RefreshesBelow(u)
    BY <1>1 DEF RefreshesBelow
  <2> QED
    BY <2>1, RefreshesStructure, RefreshesUnion, RefreshesSequence,
       RefreshesMap, RefreshesArray DEF Complex
<1>2. AllTypes \subseteq S
  <2> HIDE DEF S
  <2> QED
    BY <1>1, TypeInduction
<1> QED
  BY <1>2

-----------------------------------------------------------------------------
(* The topic. *)

ConverterIInv == ConverterTypeOK /\ PublishesWhatIsSet /\ OutputShowsLatest

\* The objects of a new connection are fresh.
LEMMA ConverterInitially ==
  ASSUME Recursion, ConverterInit PROVE ConverterIInv
<1>1. type \in RootTypes /\ type \in AllTypes /\ MaxTakes \in Nat
  BY ConverterAssumption DEF ConverterInit
<1>2. Fresh(type)
  BY <1>1, FreshLemma
<1> QED
  BY <1>1, <1>2
     DEF ConverterInit, Fresh, ConverterIInv, ConverterTypeOK,
         PublishesWhatIsSet, OutputShowsLatest

\* A write stores, a take refreshes, whatever was there.
LEMMA ConverterStep ==
  ASSUME Recursion, ConverterIInv, [ConverterNext]_converterVars
  PROVE  ConverterIInv'
<1>0. type \in RootTypes /\ type \in AllTypes /\ MaxTakes \in Nat
  BY ConverterAssumption DEF ConverterIInv, ConverterTypeOK
<1>1. ASSUME NEW v \in Values[type], Write(v) PROVE ConverterIInv'
  <2>1. Stores(type) /\ IsValue(type, v)
    BY <1>0, StoresLemma, ConverterAssumption
  <2>2. IsData(type, write_data)
    BY DEF ConverterIInv, ConverterTypeOK
  <2>3. /\ write_data' = set_value(type, v, write_data) /\ written' = v
        /\ type' = type /\ output' = output /\ latest' = latest
        /\ takes' = takes
    BY <1>1 DEF Write, xtypes_to_fastdds
  <2>4. IsData(type, write_data') /\ Holds(type, write_data', v)
    BY <2>1, <2>2, <2>3 DEF Stores
  <2>5. ConverterTypeOK'
    BY <2>1, <2>3, <2>4 DEF ConverterIInv, ConverterTypeOK
  <2>6. PublishesWhatIsSet'
    BY <2>3, <2>4 DEF PublishesWhatIsSet
  <2>7. OutputShowsLatest'
    BY <2>3 DEF ConverterIInv, OutputShowsLatest
  <2> QED
    BY <2>5, <2>6, <2>7 DEF ConverterIInv
<1>2. ASSUME Take PROVE ConverterIInv'
  <2>1. /\ output' = get_value(type, write_data, output)
        /\ latest' = written /\ takes < MaxTakes /\ takes' = takes + 1
        /\ type' = type /\ write_data' = write_data /\ written' = written
    BY <1>2 DEF Take, fastdds_to_xtypes
  <2>2. /\ IsValue(type, written) /\ IsData(type, write_data)
        /\ Holds(type, write_data, written) /\ IsValue(type, output)
        /\ takes \in 0 .. MaxTakes
    BY DEF ConverterIInv, ConverterTypeOK, PublishesWhatIsSet
  <2>3. IsValue(type, output') /\ Shows(type, output', written)
    BY <1>0, <2>1, <2>2, RefreshesLemma DEF Refreshes
  <2>4. takes' \in 0 .. MaxTakes
    BY <1>0, <2>1, <2>2
  <2>5. ConverterTypeOK'
    BY <2>1, <2>2, <2>3, <2>4 DEF ConverterIInv, ConverterTypeOK
  <2>6. PublishesWhatIsSet'
    BY <2>1, <2>2 DEF PublishesWhatIsSet
  <2>7. OutputShowsLatest'
    BY <2>1, <2>3 DEF OutputShowsLatest
  <2> QED
    BY <2>5, <2>6, <2>7 DEF ConverterIInv
<1>3. ASSUME UNCHANGED converterVars PROVE ConverterIInv'
  BY <1>3 DEF converterVars, ConverterIInv, ConverterTypeOK,
              PublishesWhatIsSet, OutputShowsLatest
<1> QED
  BY <1>1, <1>2, <1>3 DEF ConverterNext

(***************************************************************************)
(* A new DynamicData of xtypes gets back the value that was converted to   *)
(* Fast DDS, over whatever the object there held before.                   *)
(***************************************************************************)
THEOREM RoundTrip ==
  ASSUME Recursion, NEW t \in AllTypes, NEW v, NEW d,
         IsValue(t, v), IsData(t, d)
  PROVE  get_value(t, set_value(t, v, d), DynamicData(t)) = v
<1>1. IsData(t, set_value(t, v, d)) /\ Holds(t, set_value(t, v, d), v)
  BY StoresLemma DEF Stores
<1> QED
  BY <1>1, ReadsLemma DEF Reads

\* All three invariants, which need one another: a take shows the latest
\* sample only if write_data holds what was written, and both are of the
\* type of the topic.
THEOREM ConverterInvariant ==
  ASSUME Recursion PROVE ConverterSpec => []ConverterIInv
<1>1. ConverterInit => ConverterIInv
  BY ConverterInitially
<1>2. ConverterIInv /\ [ConverterNext]_converterVars => ConverterIInv'
  BY ConverterStep
<1> QED
  BY <1>1, <1>2, PTL DEF ConverterSpec

\* The objects of both libraries keep to the type of the topic.
THEOREM ConversionsKeepTypes ==
  ASSUME Recursion PROVE ConverterSpec => []ConverterTypeOK
<1>1. ConverterIInv => ConverterTypeOK
  BY DEF ConverterIInv
<1> QED
  BY <1>1, ConverterInvariant, PTL

\* What is published is the value that is written, nothing of an earlier one.
THEOREM PublishedIsWritten ==
  ASSUME Recursion PROVE ConverterSpec => []PublishesWhatIsSet
<1>1. ConverterIInv => PublishesWhatIsSet
  BY DEF ConverterIInv
<1> QED
  BY <1>1, ConverterInvariant, PTL

\* The object that sample after sample is converted into shows the latest.
THEOREM LatestIsShown ==
  ASSUME Recursion PROVE ConverterSpec => []OutputShowsLatest
<1>1. ConverterIInv => OutputShowsLatest
  BY DEF ConverterIInv
<1> QED
  BY <1>1, ConverterInvariant, PTL

-----------------------------------------------------------------------------
(* The static members. *)

\* At most one instance is being served.
OneCall ==
  \A i, j \in Instances :
    at[i] \notin Waiting /\ at[j] \notin Waiting => i = j

\* From Converter::clear_data_structures to the end of reset.
Filling == {"logger", "profile", "entities", "signals"}

\* From Log::ClearConsumers to the end of reset, or of the instance.
Cleared == {"registry", "unwound"} \union Filling

BuildersAreOwn ==
  \A i \in Instances, n \in Types :
    at[i] \in Filling => m_builders[n] \in {i, None}

OthersDisturbed ==
  \A i, j \in Instances : at[i] \in Cleared => disturbed[j] = (j # i)

\* What AloneIsComplete is in the course of a reset.
SoFar(i) ==
  /\ at[i] \in {"registry", "logger"} => consumers = {}
  /\ at[i] \in {"profile", "entities", "signals", "ready", "stepping"} =>
       /\ consumers = {i}
       /\ \A n \in Types : own_types[i][n] # None => m_types[n] = i
  /\ at[i] = "logger" => \A n \in Types : own_types[i][n] = None
  /\ at[i] = "ready" => \A n \in Filtered[i] : m_types[n] = i

AloneSoFar == \A i \in Instances : ~disturbed[i] => SoFar(i)

IInv == /\ TypeOK
        /\ OneCall
        /\ BuildersAreOwn
        /\ OwnDefinitions
        /\ PointersAreValid
        /\ OthersDisturbed

-----------------------------------------------------------------------------
\* The variables have their types.
LEMMA InitTypeOK == Init => TypeOK
  BY DEF Init, TypeOK, Definition, Nothing, Waiting

LEMMA NextTypeOK == TypeOK /\ [Next]_vars => TypeOK'
  <1> SUFFICES ASSUME TypeOK, [Next]_vars PROVE TypeOK'
    OBVIOUS
  <1> USE DEF TypeOK, Waiting, InReset, InDestructor, Goto, statics
  <1>1. ASSUME NEW i \in Instances, Instantiate(i) PROVE TypeOK'
    BY <1>1 DEF Instantiate
  <1>2. ASSUME NEW i \in Instances, Reset(i) PROVE TypeOK'
    BY <1>2 DEF Reset
  <1>3. ASSUME NEW i \in Instances, Free(i) PROVE TypeOK'
    BY <1>3 DEF Free
  <1>4. ASSUME NEW i \in Instances, MapperIsReset(i) PROVE TypeOK'
    BY <1>4 DEF MapperIsReset
  <1>5. ASSUME NEW i \in Instances, ClearConsumers(i) PROVE TypeOK'
    BY <1>5 DEF ClearConsumers, Definition, Nothing
  <1>6. ASSUME NEW i \in Instances, ClearRegistry(i) PROVE TypeOK'
    BY <1>6 DEF ClearRegistry, Definition, Nothing
  <1>7. ASSUME NEW i \in Instances, RegisterConsumer(i) PROVE TypeOK'
    BY <1>7 DEF RegisterConsumer
  <1>8. ASSUME NEW i \in Instances, LoadProfile(i) PROVE TypeOK'
    BY <1>8 DEF LoadProfile
  <1>9. ASSUME NEW i \in Instances, CreateEntities(i) PROVE TypeOK'
    BY <1>9 DEF CreateEntities
  <1>10. ASSUME NEW i \in Instances, NEW n \in Types, RegisterType(i, n)
         PROVE  TypeOK'
    <2>1. create_builder(i, n) \in Instances \union {None}
      BY DEF create_builder, Definition
    <2>2. m_builders' \in Definition
      BY <1>10, <2>1 DEF RegisterType, Definition
    <2>3. own_types' \in [Instances -> Definition]
      BY <1>10, <2>1 DEF RegisterType, Definition
    <2>4. m_registered_types' \in Definition
      BY <1>10 DEF RegisterType, Definition
    <2>5. m_types' \in Definition
      BY <1>10 DEF RegisterType, Definition
    <2> QED
      BY <1>10, <2>2, <2>3, <2>4, <2>5 DEF RegisterType
  <1>11. ASSUME NEW i \in Instances, ResetReturns(i) PROVE TypeOK'
    BY <1>11 DEF ResetReturns
  <1>12. ASSUME NEW i \in Instances, Throw(i) PROVE TypeOK'
    BY <1>12 DEF Throw
  <1>13. ASSUME NEW i \in Instances, ExitInitializationMode(i) PROVE TypeOK'
    BY <1>13 DEF ExitInitializationMode, Definition
  <1>14. CASE UNCHANGED vars
    BY <1>14 DEF vars
  <1> QED
    BY <1>1, <1>2, <1>3, <1>4, <1>5, <1>6, <1>7, <1>8, <1>9, <1>10, <1>11,
       <1>12, <1>13, <1>14 DEF Next

(***************************************************************************)
(* Every handler and every step of reset moves one instance, and only a    *)
(* call the simulator makes, when nobody is served, moves one that waits.  *)
(***************************************************************************)
LEMMA NextOneCall == TypeOK /\ OneCall /\ [Next]_vars => OneCall'
  <1> SUFFICES ASSUME TypeOK, OneCall, [Next]_vars PROVE OneCall'
    OBVIOUS
  <1>1. CASE UNCHANGED vars
    BY <1>1 DEF vars, OneCall
  <1>2. ASSUME NEW i \in Instances, NEW place, Goto(i, place), Idle
        PROVE  OneCall'
    BY <1>2 DEF OneCall, Goto, Idle, TypeOK
  <1>3. ASSUME NEW i \in Instances, NEW place, Goto(i, place),
               at[i] \notin Waiting
        PROVE  OneCall'
    BY <1>3 DEF OneCall, Goto, TypeOK
  <1>4. ASSUME NEW i \in Instances,
               \/ Instantiate(i) \/ Reset(i) \/ Free(i)
               \/ ExitInitializationMode(i)
        PROVE  OneCall'
    BY <1>2, <1>4 DEF Instantiate, Reset, Free, ExitInitializationMode
  <1>5. ASSUME NEW i \in Instances,
               \/ MapperIsReset(i) \/ ClearConsumers(i) \/ ClearRegistry(i)
               \/ RegisterConsumer(i) \/ LoadProfile(i) \/ CreateEntities(i)
               \/ ResetReturns(i) \/ Throw(i)
        PROVE  OneCall'
    <2>1. at[i] \notin Waiting
      BY <1>5 DEF Waiting, MapperIsReset, ClearConsumers, ClearRegistry,
                  RegisterConsumer, LoadProfile, CreateEntities,
                  ResetReturns, Throw
    <2>2. \E place : Goto(i, place)
      BY <1>5, Zenon
         DEF MapperIsReset, ClearConsumers, ClearRegistry,
             RegisterConsumer, LoadProfile, CreateEntities, ResetReturns,
             Throw
    <2> QED
      BY <1>3, <2>1, <2>2
  <1>6. ASSUME NEW i \in Instances, NEW n \in Types, RegisterType(i, n)
        PROVE  OneCall'
    BY <1>6 DEF RegisterType, OneCall
  <1> QED
    BY <1>1, <1>4, <1>5, <1>6 DEF Next

(***************************************************************************)
(* FmiLogger listens for an instance from RegisterConsumer to the next     *)
(* ClearConsumers, of whichever instance.                                  *)
(***************************************************************************)
LEMMA NextSoleListener ==
  TypeOK /\ OthersDisturbed /\ SoleListener /\ [Next]_vars => SoleListener'
  <1> SUFFICES ASSUME TypeOK, OthersDisturbed, SoleListener, [Next]_vars
               PROVE  SoleListener'
    OBVIOUS
  <1> USE DEF SoleListener, TypeOK
  <1>1. CASE UNCHANGED vars
    BY <1>1 DEF vars
  <1>2. ASSUME NEW i \in Instances, ClearConsumers(i)
        PROVE  SoleListener'
    BY <1>2 DEF ClearConsumers
  <1>3. ASSUME NEW i \in Instances, RegisterConsumer(i)
        PROVE  SoleListener'
    <2>1. \A j \in Instances : disturbed[j] = (j # i)
      BY <1>3 DEF RegisterConsumer, OthersDisturbed, Cleared, Filling
    <2>2. consumers \subseteq {i}
      BY <2>1
    <2> QED
      BY <1>3, <2>1, <2>2 DEF RegisterConsumer, Goto
  <1>4. ASSUME NEW i \in Instances, ClearRegistry(i)
        PROVE  SoleListener'
    BY <1>4 DEF ClearRegistry, Goto
  <1>5. ASSUME NEW i \in Instances,
               \/ Instantiate(i) \/ Reset(i) \/ Free(i)
               \/ MapperIsReset(i) \/ LoadProfile(i) \/ CreateEntities(i)
               \/ (\E n \in Types : RegisterType(i, n))
               \/ ResetReturns(i) \/ Throw(i) \/ ExitInitializationMode(i)
        PROVE  SoleListener'
    BY <1>5 DEF Instantiate, Reset, Free, MapperIsReset, LoadProfile,
                CreateEntities, RegisterType, ResetReturns, Throw,
                ExitInitializationMode, Goto, statics
  <1> QED
    BY <1>1, <1>2, <1>3, <1>4, <1>5 DEF Next

-----------------------------------------------------------------------------
\* What RegisterType does to the maps, entry by entry.
LEMMA Registered ==
  ASSUME TypeOK, NEW i \in Instances, NEW n \in Types, RegisterType(i, n)
  PROVE  /\ \A j \in Instances, m \in Types :
              own_types'[j][m] = IF j = i /\ m = n THEN create_builder(i, n)
                                                   ELSE own_types[j][m]
         /\ \A m \in Types :
              /\ m_builders'[m] = IF m = n THEN create_builder(i, n)
                                           ELSE m_builders[m]
              /\ m_types'[m] = IF m = n THEN i ELSE m_types[m]
              /\ m_registered_types'[m] =
                   IF m = n /\ m_registered_types[n] = None
                   THEN i
                   ELSE m_registered_types[m]
  BY DEF RegisterType, TypeOK, Definition

\* The other steps change neither the definitions nor the pointers.
SameRegistry ==
  UNCHANGED <<own_types, m_types, m_registered_types, m_builders>>

LEMMA StepOfRegistry ==
  ASSUME Next
  PROVE  \/ \E i \in Instances : ClearRegistry(i)
         \/ \E i \in Instances, n \in Types : RegisterType(i, n)
         \/ \E i \in Instances, place \in Waiting \union InReset
                                             \union InDestructor :
              /\ Goto(i, place)
              /\ place \notin {"absent", "logger"}
              /\ place \in Filling => at[i] \in Filling
              /\ SameRegistry
  <1> USE DEF Waiting, InReset, InDestructor, SameRegistry, Filling, statics
  <1>1. PICK i \in Instances :
          \/ Instantiate(i) \/ Reset(i) \/ Free(i)
          \/ MapperIsReset(i) \/ ClearConsumers(i) \/ ClearRegistry(i)
          \/ RegisterConsumer(i) \/ LoadProfile(i) \/ CreateEntities(i)
          \/ (\E n \in Types : RegisterType(i, n))
          \/ ResetReturns(i) \/ Throw(i) \/ ExitInitializationMode(i)
    BY DEF Next
  <1>2. CASE Instantiate(i) \/ Reset(i) \/ MapperIsReset(i)
    BY <1>2 DEF Instantiate, Reset, MapperIsReset
  <1>3. CASE ClearConsumers(i)
    BY <1>3 DEF ClearConsumers
  <1>4. CASE RegisterConsumer(i) \/ LoadProfile(i) \/ CreateEntities(i)
    BY <1>4 DEF RegisterConsumer, LoadProfile, CreateEntities
  <1>5. CASE ResetReturns(i) \/ Throw(i)
    BY <1>5 DEF ResetReturns, Throw
  <1>6. CASE Free(i) \/ ExitInitializationMode(i)
    BY <1>6 DEF Free, ExitInitializationMode
  <1> QED
    BY <1>1, <1>2, <1>3, <1>4, <1>5, <1>6

\* While an instance fills the maps, nobody else does.
LEMMA NextBuildersAreOwn ==
  TypeOK /\ OneCall /\ BuildersAreOwn /\ [Next]_vars => BuildersAreOwn'
  <1> SUFFICES ASSUME TypeOK, OneCall, BuildersAreOwn, [Next]_vars
               PROVE  BuildersAreOwn'
    OBVIOUS
  <1> USE DEF BuildersAreOwn, Filling
  <1>1. CASE UNCHANGED vars
    BY <1>1 DEF vars
  <1>2. ASSUME NEW i \in Instances, ClearRegistry(i)
        PROVE  BuildersAreOwn'
    BY <1>2 DEF ClearRegistry, Nothing
  <1>3. ASSUME NEW i \in Instances, NEW n \in Types, RegisterType(i, n)
        PROVE  BuildersAreOwn'
    <2> SUFFICES ASSUME NEW j \in Instances, NEW m \in Types,
                        at'[j] \in Filling
                 PROVE  m_builders'[m] \in {j, None}
      OBVIOUS
    <2>1. at' = at /\ at[i] = "signals"
      BY <1>3 DEF RegisterType
    <2>2. j = i
      BY <2>1 DEF OneCall, Waiting
    <2> QED
      BY <1>3, <2>1, <2>2, Registered DEF create_builder
  <1>4. ASSUME NEW i \in Instances,
               NEW place \in Waiting \union InReset \union InDestructor,
               Goto(i, place),
               place \in Filling => at[i] \in Filling,
               SameRegistry
        PROVE  BuildersAreOwn'
    BY <1>4 DEF Goto, SameRegistry, TypeOK
  <1> QED
    BY <1>1, <1>2, <1>3, <1>4, StepOfRegistry

\* create_builder finds at most a definition of the instance's own.
LEMMA NextOwnDefinitions ==
  TypeOK /\ BuildersAreOwn /\ OwnDefinitions /\ [Next]_vars
    => OwnDefinitions'
  <1> SUFFICES ASSUME TypeOK, BuildersAreOwn, OwnDefinitions, [Next]_vars
               PROVE  OwnDefinitions'
    OBVIOUS
  <1> USE DEF OwnDefinitions
  <1>1. CASE UNCHANGED vars
    BY <1>1 DEF vars
  <1>2. ASSUME NEW i \in Instances, ClearRegistry(i)
        PROVE  OwnDefinitions'
    BY <1>2 DEF ClearRegistry, Nothing, TypeOK
  <1>3. ASSUME NEW i \in Instances, NEW n \in Types, RegisterType(i, n)
        PROVE  OwnDefinitions'
    <2>1. create_builder(i, n) = i
      BY <1>3 DEF RegisterType, BuildersAreOwn, Filling, create_builder
    <2> QED
      BY <1>3, <2>1, Registered
  <1>4. ASSUME SameRegistry
        PROVE  OwnDefinitions'
    BY <1>4 DEF SameRegistry
  <1> QED
    BY <1>1, <1>2, <1>3, <1>4, StepOfRegistry

\* A pointer is removed with what it points to.
LEMMA NextPointersAreValid ==
  TypeOK /\ PointersAreValid /\ [Next]_vars => PointersAreValid'
  <1> SUFFICES ASSUME TypeOK, PointersAreValid, [Next]_vars
               PROVE  PointersAreValid'
    OBVIOUS
  <1> USE DEF PointersAreValid
  <1>1. CASE UNCHANGED vars
    BY <1>1 DEF vars
  <1>2. ASSUME NEW i \in Instances, ClearRegistry(i)
        PROVE  PointersAreValid'
    BY <1>2 DEF ClearRegistry, Nothing
  <1>3. ASSUME NEW i \in Instances, NEW n \in Types, RegisterType(i, n)
        PROVE  PointersAreValid'
    <2> SUFFICES ASSUME NEW m \in Types, m_registered_types'[m] # None
                 PROVE  /\ at'[m_registered_types'[m]] # "absent"
                        /\ own_types'[m_registered_types'[m]][m] # None
      OBVIOUS
    <2>1. at' = at /\ at[i] = "signals"
      BY <1>3 DEF RegisterType
    <2>2. create_builder(i, n) # None
      BY ProcessAssumption DEF create_builder
    <2>3. own_types'[i][n] # None
      BY <1>3, <2>2, Registered
    <2>4. CASE m = n /\ m_registered_types[n] = None
      BY <1>3, <2>1, <2>3, <2>4, Registered
    <2>5. CASE ~(m = n /\ m_registered_types[n] = None)
      <3> DEFINE j == m_registered_types[m]
      <3>1. m_registered_types'[m] = j
        BY <1>3, <2>5, Registered
      <3>2. j # None /\ j \in Instances
        BY <3>1 DEF TypeOK, Definition
      <3>3. at[j] # "absent" /\ own_types[j][m] # None
        BY <3>2
      <3>4. own_types'[j][m] # None
        BY <1>3, <2>2, <3>2, <3>3, Registered
      <3> QED
        BY <2>1, <3>1, <3>3, <3>4
    <2> QED
      BY <2>4, <2>5
  <1>4. ASSUME NEW i \in Instances, NEW place, Goto(i, place),
               place # "absent", SameRegistry
        PROVE  PointersAreValid'
    BY <1>4 DEF Goto, SameRegistry, TypeOK
  <1> QED
    BY <1>1, <1>2, <1>3, <1>4, StepOfRegistry

-----------------------------------------------------------------------------
\* Nobody but the instance being served comes past ClearConsumers, which
\* marks all the others.
LEMMA NextOthersDisturbed ==
  TypeOK /\ OneCall /\ OthersDisturbed /\ [Next]_vars => OthersDisturbed'
  <1> SUFFICES ASSUME TypeOK, OneCall, OthersDisturbed, [Next]_vars
               PROVE  OthersDisturbed'
    OBVIOUS
  <1> USE DEF OthersDisturbed, Cleared, Filling, TypeOK
  <1>1. CASE UNCHANGED vars
    BY <1>1 DEF vars
  <1>2. ASSUME NEW i \in Instances, ClearConsumers(i)
        PROVE  OthersDisturbed'
    <2> SUFFICES ASSUME NEW j \in Instances, NEW k \in Instances,
                        at'[j] \in Cleared
                 PROVE  disturbed'[k] = (k # j)
      OBVIOUS
    <2>1. j = i
      BY <1>2 DEF ClearConsumers, Goto, OneCall, Waiting
    <2> QED
      BY <1>2, <2>1 DEF ClearConsumers
  <1>3. ASSUME NEW i \in Instances,
               \/ Instantiate(i) \/ Reset(i) \/ Free(i)
               \/ MapperIsReset(i) \/ ClearRegistry(i)
               \/ RegisterConsumer(i) \/ LoadProfile(i) \/ CreateEntities(i)
               \/ ResetReturns(i) \/ Throw(i) \/ ExitInitializationMode(i)
        PROVE  OthersDisturbed'
    BY <1>3 DEF Instantiate, Reset, Free, MapperIsReset, ClearRegistry,
                RegisterConsumer, LoadProfile, CreateEntities, ResetReturns,
                Throw, ExitInitializationMode, Goto, statics
  <1>4. ASSUME NEW i \in Instances, NEW n \in Types, RegisterType(i, n)
        PROVE  OthersDisturbed'
    BY <1>4 DEF RegisterType
  <1> QED
    BY <1>1, <1>2, <1>3, <1>4 DEF Next

\* The same for what an undisturbed instance finds in the static members.
LEMMA NextAloneSoFar ==
  IInv /\ AloneSoFar /\ [Next]_vars => AloneSoFar'
  <1> SUFFICES ASSUME IInv, AloneSoFar, [Next]_vars PROVE AloneSoFar'
    OBVIOUS
  <1>1. CASE UNCHANGED vars
    BY <1>1 DEF vars, AloneSoFar, SoFar
  <1>2. ASSUME NEW i \in Instances, ClearConsumers(i)
        PROVE  AloneSoFar'
    <2> SUFFICES ASSUME NEW j \in Instances, ~disturbed'[j]
                 PROVE  SoFar(j)'
      BY DEF AloneSoFar
    <2>1. j = i
      BY <1>2 DEF ClearConsumers
    <2> QED
      BY <1>2, <2>1 DEF ClearConsumers, Goto, SoFar, IInv, TypeOK
  <1>3. ASSUME NEW i \in Instances, ClearRegistry(i)
        PROVE  AloneSoFar'
    <2> SUFFICES ASSUME NEW j \in Instances, ~disturbed'[j]
                 PROVE  SoFar(j)'
      BY DEF AloneSoFar
    <2>1. j = i
      BY <1>3 DEF ClearRegistry, IInv, OthersDisturbed, Cleared
    <2> QED
      BY <1>3, <2>1
         DEF ClearRegistry, Goto, Nothing, AloneSoFar, SoFar, IInv, TypeOK
  <1>4. ASSUME NEW i \in Instances, RegisterConsumer(i)
        PROVE  AloneSoFar'
    <2> SUFFICES ASSUME NEW j \in Instances, ~disturbed'[j]
                 PROVE  SoFar(j)'
      BY DEF AloneSoFar
    <2>1. j = i
      BY <1>4 DEF RegisterConsumer, IInv, OthersDisturbed, Cleared, Filling
    <2> QED
      BY <1>4, <2>1
         DEF RegisterConsumer, Goto, AloneSoFar, SoFar, IInv, TypeOK
  <1>5. ASSUME NEW i \in Instances, NEW n \in Types, RegisterType(i, n)
        PROVE  AloneSoFar'
    <2> SUFFICES ASSUME NEW j \in Instances, ~disturbed'[j]
                 PROVE  SoFar(j)'
      BY DEF AloneSoFar
    <2>1. UNCHANGED <<at, disturbed, consumers>> /\ at[i] = "signals"
      BY <1>5 DEF RegisterType
    <2>2. j = i
      BY <2>1 DEF IInv, OthersDisturbed, Cleared, Filling
    <2>3. \A m \in Types : own_types'[i][m] # None => m_types'[m] = i
      BY <1>5, <2>1, <2>2, Registered DEF AloneSoFar, SoFar, IInv
    <2> QED
      BY <2>1, <2>2, <2>3 DEF AloneSoFar, SoFar
  <1>6. ASSUME NEW i \in Instances, ResetReturns(i)
        PROVE  AloneSoFar'
    BY <1>6, ProcessAssumption
       DEF ResetReturns, Goto, statics, AloneSoFar, SoFar, IInv, TypeOK
  <1>7. ASSUME NEW i \in Instances,
               \/ Instantiate(i) \/ Reset(i) \/ Free(i)
               \/ MapperIsReset(i) \/ LoadProfile(i) \/ CreateEntities(i)
               \/ Throw(i) \/ ExitInitializationMode(i)
        PROVE  AloneSoFar'
    BY <1>7
       DEF Instantiate, Reset, Free, MapperIsReset, LoadProfile,
           CreateEntities, Throw, ExitInitializationMode, Goto, statics,
           AloneSoFar, SoFar, IInv, TypeOK
  <1> QED
    BY <1>1, <1>2, <1>3, <1>4, <1>5, <1>6, <1>7 DEF Next

\* init_key_filters reads what reset has left.
LEMMA NextAloneIsComplete ==
  IInv /\ AloneSoFar /\ AloneIsComplete /\ [Next]_vars => AloneIsComplete'
  <1> SUFFICES ASSUME IInv, AloneSoFar, AloneIsComplete, [Next]_vars,
                      NEW i \in Instances,
                      at'[i] = "stepping", ~disturbed'[i]
               PROVE  /\ \A n \in Filtered[i] : filters'[i][n] = i
                      /\ consumers' = {i}
    BY DEF AloneIsComplete
  <1>1. CASE UNCHANGED vars
    BY <1>1 DEF vars, AloneIsComplete
  <1>2. CASE ExitInitializationMode(i)
    BY <1>2, ProcessAssumption
       DEF ExitInitializationMode, Goto, statics, AloneSoFar, SoFar, IInv,
           TypeOK, Definition
  <1>3. CASE \E j \in Instances \ {i} : ExitInitializationMode(j)
    BY <1>3 DEF ExitInitializationMode, Goto, statics, AloneIsComplete, IInv,
                TypeOK
  <1>4. CASE \E j \in Instances : ClearConsumers(j)
    BY <1>4 DEF ClearConsumers, Goto, IInv, TypeOK
  <1>5. CASE \E j \in Instances : RegisterConsumer(j)
    BY <1>5 DEF RegisterConsumer, Goto, IInv, TypeOK, OthersDisturbed,
                Cleared, Filling
  <1>6. CASE \E j \in Instances :
               \/ Instantiate(j) \/ Reset(j) \/ Free(j)
               \/ MapperIsReset(j) \/ ClearRegistry(j) \/ LoadProfile(j)
               \/ CreateEntities(j) \/ (\E n \in Types : RegisterType(j, n))
               \/ ResetReturns(j) \/ Throw(j)
    BY <1>6 DEF Instantiate, Reset, Free, MapperIsReset, ClearRegistry,
                LoadProfile, CreateEntities, RegisterType, ResetReturns,
                Throw, Goto, statics, AloneIsComplete, IInv, TypeOK
  <1> QED
    BY <1>1, <1>2, <1>3, <1>4, <1>5, <1>6 DEF Next

-----------------------------------------------------------------------------
LEMMA InitAll == Init => /\ IInv
                         /\ SoleListener
                         /\ AloneSoFar
                         /\ AloneIsComplete
  <1> SUFFICES ASSUME Init
               PROVE  IInv /\ SoleListener /\ AloneSoFar /\ AloneIsComplete
    OBVIOUS
  <1>1. TypeOK
    BY InitTypeOK
  <1> QED
    BY <1>1
       DEF Init, IInv, OneCall, BuildersAreOwn, OwnDefinitions,
           PointersAreValid, OthersDisturbed, SoleListener, AloneSoFar,
           SoFar, AloneIsComplete, Nothing, Filling, Cleared, Waiting

\* The strengthening of all that follows.
LEMMA Inductive == Spec => []IInv
  <1>1. Init => IInv
    BY InitAll
  <1>2. IInv /\ [Next]_vars => IInv'
    BY NextTypeOK, NextOneCall, NextBuildersAreOwn, NextOwnDefinitions,
       NextPointersAreValid, NextOthersDisturbed DEF IInv
  <1> QED
    BY <1>1, <1>2, PTL DEF Spec

\* The variables keep their types, whatever number of instances there is.
THEOREM TypesAreKept == Spec => []TypeOK
  BY Inductive, PTL DEF IInv

\* The log goes to one instance at most, the one whose reset came last, and
\* to none whose clear() has begun with Log::ClearConsumers.
THEOREM Consumers == Spec => []SoleListener
  <1>1. Init => SoleListener
    BY InitAll
  <1>2. IInv /\ SoleListener /\ [Next]_vars => SoleListener'
    BY NextSoleListener DEF IInv
  <1> QED
    BY <1>1, <1>2, Inductive, PTL DEF Spec

\* A pointer of m_registered_types never outlives what it points to.
THEOREM Pointers == Spec => []PointersAreValid
  BY Inductive, PTL DEF IInv

\* The types of an instance are never those of another.
THEOREM Definitions == Spec => []OwnDefinitions
  BY Inductive, PTL DEF IInv

\* An instance nobody has interfered with has its filters and the log.
THEOREM Alone == Spec => []AloneIsComplete
  <1>1. Init => AloneSoFar /\ AloneIsComplete
    BY InitAll
  <1>2. IInv /\ AloneSoFar /\ [Next]_vars => AloneSoFar'
    BY NextAloneSoFar
  <1>3. IInv /\ AloneSoFar /\ AloneIsComplete /\ [Next]_vars
          => AloneIsComplete'
    BY NextAloneIsComplete
  <1> QED
    BY <1>1, <1>2, <1>3, Inductive, PTL DEF Spec
=============================================================================
