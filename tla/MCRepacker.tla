----------------------------- MODULE MCRepacker -----------------------------
(***************************************************************************)
(* Two outputs with filters and an input, a file that is rejected after a  *)
(* leaf without FMI type, and two files that differ by a blank in          *)
(* key_filter="tr ue", which is not true.                                  *)
(***************************************************************************)
EXTENDS Repacker, MCSignals

CONSTANT t1

MCTemplates == {t1}

Plain  == [fmu_out |-> <<Signal("ta", "Sensor", TRUE)>>, fmu_in |-> <<>>]
Spaced == [fmu_out |-> <<Signal("ta", "Sensor", FALSE)>>, fmu_in |-> <<>>]

Ordered == [fmu_out |-> <<Signal("tb", "Switch", TRUE),
                          Signal("ta", "Sensor", TRUE)>>,
            fmu_in  |-> <<Signal("tb", "Switch", FALSE)>>]

Unknown == [fmu_out |-> <<Signal("tb", "Exotic", TRUE),
                          Signal("missing", "Sensor", TRUE)>>,
            fmu_in  |-> <<>>]

MCMappings == {Plain, Spaced, Ordered, Unknown}

MCConfiguration == [mapping  : MCMappings \union {None},
                    template : MCTemplates \union {None}]

Stripped(m) == IF m = Spaced THEN Plain ELSE m

MCDigest ==
  [c \in MCConfiguration |->
     IF c.mapping = None THEN c
                              ELSE [c EXCEPT !.mapping = Stripped(@)]]
=============================================================================
