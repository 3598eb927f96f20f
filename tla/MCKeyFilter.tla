---------------------------- MODULE MCKeyFilter ----------------------------
EXTENDS KeyFilter, TLC

CONSTANTS r1, r2, a1, a2, a3

\* A reader with two keys and one with one; a key of a kind that
\* init_key_filters cannot print; the kinds whose text is not their value.
TwoReaders  == {r1, r2}
PlainKeys   == (r1 :> <<"INT_32", "STRING">>) @@ (r2 :> <<"INT_32">>)
ExoticKeys  == (r1 :> <<"INT_32">>) @@ (r2 :> <<"INT_32", "FLOAT_128">>)
LossyKeys   == (r1 :> <<"FLOAT_64">>) @@ (r2 :> <<"BOOLEAN">>)
AllFiles    == {PlainKeys, ExoticKeys, LossyKeys}
PlainFiles  == {PlainKeys, ExoticKeys}

\* One more than there are filters: a reset may find old addresses for all
\* of its filters, for one or, the first time, for one of two only.
ThreeAddresses == {a1, a2, a3}
Symmetry == Permutations(ThreeAddresses)

\* Among the floats 0, 2 * 10^-7, which prints as 0.000000, and 10^-6.
MCDomain == [INT_32 |-> {0, 1}, STRING |-> {0, 1}, BOOLEAN |-> {0, 1},
             FLOAT_64 |-> {0, 2, 10}, FLOAT_128 |-> {0}]
MCDefault == [INT_32 |-> 0, STRING |-> 0, BOOLEAN |-> 0,
              FLOAT_64 |-> 0, FLOAT_128 |-> 0]
=============================================================================
