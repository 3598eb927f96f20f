---------------------------- MODULE MCAccessors -----------------------------
(***************************************************************************)
(* One output and one input, over every pair of kinds of an FMI type, and  *)
(* a second input of the kind of the first, where that is INT_8, so that a *)
(* call has an input before and one after a reference it throws at.        *)
(* Widths are scaled down, in their order: 1, 2, 3 and 5 bits,             *)
(* significands of 2 and 4 bits.  The largest float is 3 * 64, the largest *)
(* double 15 * 64.                                                         *)
(***************************************************************************)
EXTENDS Accessors

CONSTANTS out, in1, in2

MCOutputs == {out}
MCInputs == {in1, in2}

MCLayouts ==
  {l \in [Leaves -> Kinds] :
     /\ type_of(l[out]) = type_of(l[in1])
     /\ l[in2] = IF l[in1] = "INT_8" THEN "INT_8" ELSE "BOOLEAN"}

MCChars == 0 .. 2

\* The ends of the range, the middle, and what a double rounds.
Ends(k) == {Lowest(k), Lowest(k) + Size(k) \div 2, Lowest(k) + Size(k) - 1}

MCSamples ==
  [k \in Kinds |->
     CASE k = "UINT_64" -> Ends(k) \union {5, 17}
       [] k \in IntegerKinds \union LongKinds -> Ends(k)
       [] k = "FLOAT_32" -> {-3, 1, 16}
       [] k = "FLOAT_64" -> {-7, 5, 14, 72, -Infinity}
       [] k = "BOOLEAN"  -> {0, 1}
       [] k = "CHAR_8"   -> {0, 1}
       [] OTHER          -> {<<>>, <<2, 1>>}]

MCChoices ==
  [t \in {"Integer", "Real", "Boolean", "String"} |->
     CASE t = "Integer" -> {-4, 3}
       [] t = "Real"    -> {-3, 320}
       [] t = "Boolean" -> {2}
       [] OTHER         -> {<<>>, <<1>>, <<2, 1>>}]

MCReferences ==
  {<<out>>, <<in1>>, <<in1, Unknown, in2>>, <<out, Unknown>>}
=============================================================================
