------------------------------ MODULE MCSignals ------------------------------
(* Values of the constants of IdlTypes for the runs of the signal modules. *)
EXTENDS Integers, Sequences

Leaf(kind, key) == [kind |-> kind, key |-> key]

\* A structure with an @key integer, one with an @key boolean and a 32-bit
\* unsigned, and one with the kinds FMI has no type for.
MCNodes ==
  [Sensor |-> <<Leaf("STRUCTURE", FALSE), Leaf("INT_32", TRUE),
                Leaf("FLOAT_64", FALSE)>>,
   Switch |-> <<Leaf("STRUCTURE", FALSE), Leaf("BOOLEAN", TRUE),
                Leaf("UINT_32", FALSE), Leaf("CHAR_8", TRUE)>>,
   Exotic |-> <<Leaf("STRUCTURE", FALSE), Leaf("FLOAT_128", FALSE),
                Leaf("ENUMERATION", TRUE)>>]

MCTypes == DOMAIN MCNodes
MCTopics == {"ta", "tb"}
MCMissing == "missing"

Signal(topic, type, key_filter) ==
  [topic |-> topic, type |-> type, key_filter |-> key_filter]

\* A handful of files with an unsupported leaf, a duplicate topic, a missing
\* attribute or an unknown type.
BrokenMappings ==
  LET ok   == Signal("ta", "Sensor", TRUE)
      ok2  == Signal("tb", "Switch", TRUE)
      exo  == Signal("tb", "Exotic", TRUE)
      miss == Signal("missing", "Sensor", TRUE)
      unk  == Signal("tb", "missing", FALSE)
  IN  {[fmu_out |-> <<ok, exo>>,  fmu_in |-> <<Signal("ta", "Sensor", FALSE)>>],
       [fmu_out |-> <<exo, ok>>,  fmu_in |-> <<>>],
       [fmu_out |-> <<ok, ok>>,   fmu_in |-> <<>>],
       [fmu_out |-> <<ok, ok2>>,  fmu_in |-> <<unk>>],
       [fmu_out |-> <<ok2, miss>>, fmu_in |-> <<>>],
       [fmu_out |-> <<ok2, ok>>,  fmu_in |-> <<Signal("ta", "Switch", FALSE)>>],
       [fmu_out |-> <<ok>>,       fmu_in |-> <<Signal("ta", "Switch", FALSE)>>]}

\* Files that differ in the order, the filters and the inputs, one with an
\* unsupported leaf, and two that only the repacker or nobody accepts.
FewMappings ==
  LET ta(k) == Signal("ta", "Sensor", k)
      tb(k) == Signal("tb", "Switch", k)
      exo   == Signal("tb", "Exotic", TRUE)
  IN  {[fmu_out |-> <<ta(TRUE), tb(TRUE)>>, fmu_in |-> <<tb(FALSE)>>],
       [fmu_out |-> <<tb(TRUE), ta(FALSE)>>, fmu_in |-> <<ta(FALSE)>>],
       [fmu_out |-> <<ta(FALSE), exo>>, fmu_in |-> <<exo>>],
       [fmu_out |-> <<tb(TRUE)>>, fmu_in |-> <<ta(FALSE), tb(FALSE)>>],
       [fmu_out |-> <<ta(TRUE), ta(TRUE)>>, fmu_in |-> <<>>],
       [fmu_out |-> <<tb(TRUE), Signal("ta", "missing", FALSE)>>,
        fmu_in |-> <<>>]}
=============================================================================
