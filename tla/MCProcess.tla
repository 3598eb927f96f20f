----------------------------- MODULE MCProcess ------------------------------
(***************************************************************************)
(* Three instances, so that one can come between two, over two type names  *)
(* they all use.                                                           *)
(***************************************************************************)
EXTENDS Process, TLC

CONSTANTS i1, i2, i3, n1, n2

MCInstances == {i1, i2, i3}
MCTypes == {n1, n2}
MCFiltered == [i \in MCInstances |-> IF i = i3 THEN {n1} ELSE {n1, n2}]

\* i1 and i2 are alike; i3 filters one of the topics only.
Symmetry == Permutations({i1, i2})
=============================================================================
