------------------------------ MODULE Process -------------------------------
(***************************************************************************)
(* Several FMU instances in one process.  Each has members of its own, but *)
(* the log consumers of Fast DDS and the maps of the Converter are static: *)
(* whichever instance is reset or destroyed empties them for all.          *)
(*                                                                         *)
(* The simulator calls one instance at a time; at[i] is how far such a     *)
(* call has come in FmuInstance, DynamicPubSub::clear and reset.  A type   *)
(* is a name; as two instances may have different definitions of it, the   *)
(* instance that gave the definition stands for it.                        *)
(***************************************************************************)
EXTENDS Integers

CONSTANTS
  Instances,   \* the FMU instances of the process
  Types,       \* the names of the types of their topics
  Filtered,    \* Filtered[i]: those of the outputs of i with key_filter
  None

VARIABLES
  at,                  \* per instance: where it is
  fresh,               \* per instance: the constructor has not returned
  m_xml_loaded,        \* per instance: dds_profile.xml has been loaded
  own_types,           \* per instance: DynamicPubSub::m_types, with the
                       \* definition the builder of the type had
  filters,             \* per instance: the definition each filter decodes
                       \* samples with
  consumers,           \* static: the instances whose FmiLogger listens
  m_types,             \* static: the definition of a name
  m_registered_types,  \* static: whose own_types a pointer is into
  m_builders,          \* static: the definition a builder was made from
  disturbed            \* history, per instance: another one has emptied the
                       \* static members since its reset

vars == <<at, fresh, m_xml_loaded, own_types, filters, consumers, m_types,
          m_registered_types, m_builders, disturbed>>

statics == <<consumers, m_types, m_registered_types, m_builders>>

ASSUME ProcessAssumption ==
  /\ Filtered \in [Instances -> SUBSET Types]
  /\ None \notin Instances

Waiting == {"absent", "ready", "stepping", "failed"}

InReset == {"mapper", "clear", "registry", "logger", "profile", "entities",
            "signals"}

InDestructor == {"unwind", "unwound"}

\* No call is being served.
Idle == \A i \in Instances : at[i] \in Waiting

Nothing == [n \in Types |-> None]

Goto(i, place) == at' = [at EXCEPT ![i] = place]

-----------------------------------------------------------------------------
Init ==
  /\ at = [i \in Instances |-> "absent"]
  /\ fresh = [i \in Instances |-> FALSE]
  /\ m_xml_loaded = [i \in Instances |-> FALSE]
  /\ own_types = [i \in Instances |-> Nothing]
  /\ filters = [i \in Instances |-> Nothing]
  /\ consumers = {}
  /\ m_types = Nothing
  /\ m_registered_types = Nothing
  /\ m_builders = Nothing
  /\ disturbed = [i \in Instances |-> FALSE]

\* CppfmuInstantiateSlave: the constructor of FmuInstance calls Reset.
Instantiate(i) ==
  /\ Idle
  /\ at[i] = "absent"
  /\ Goto(i, "mapper")
  /\ fresh' = [fresh EXCEPT ![i] = TRUE]
  /\ m_xml_loaded' = [m_xml_loaded EXCEPT ![i] = FALSE]
  /\ UNCHANGED <<own_types, filters, statics, disturbed>>

\* fmi2Reset
Reset(i) ==
  /\ Idle
  /\ at[i] \in {"ready", "stepping", "failed"}
  /\ Goto(i, "mapper")
  /\ UNCHANGED <<fresh, m_xml_loaded, own_types, filters, statics, disturbed>>

\* m_mapper.reset has returned; m_pubsub.reset begins with clear.
MapperIsReset(i) ==
  /\ at[i] = "mapper"
  /\ Goto(i, "clear")
  /\ UNCHANGED <<fresh, m_xml_loaded, own_types, filters, statics, disturbed>>

\* fmi2FreeInstance: m_logger is destroyed first, then m_pubsub, whose
\* destructor is clear.
Free(i) ==
  /\ Idle
  /\ at[i] \in {"ready", "stepping", "failed"}
  /\ Goto(i, "unwind")
  /\ UNCHANGED <<fresh, m_xml_loaded, own_types, filters, statics, disturbed>>

\* Mutant: the consumers stay.
KeepConsumers(i) ==
  /\ \/ at[i] = "clear"  /\ Goto(i, "registry")
     \/ at[i] = "unwind" /\ Goto(i, "unwound")
  /\ filters' = [filters EXCEPT ![i] = Nothing]
  /\ UNCHANGED <<fresh, m_xml_loaded, own_types, consumers, m_types,
                 m_registered_types, m_builders, disturbed>>

\* clear: Log::ClearConsumers, of all instances, and the entities of this
\* one with their filters.
ClearConsumers(i) ==
  /\ \/ at[i] = "clear"  /\ Goto(i, "registry")
     \/ at[i] = "unwind" /\ Goto(i, "unwound")
  /\ consumers' = {}
  /\ filters' = [filters EXCEPT ![i] = Nothing]
  /\ disturbed' = [j \in Instances |-> j # i]
  /\ UNCHANGED <<fresh, m_xml_loaded, own_types, m_types,
                 m_registered_types, m_builders>>

\* Mutants: one of the static maps is forgotten.
KeepPointers(i) ==
  /\ \/ at[i] = "registry" /\ Goto(i, "logger")
     \/ at[i] = "unwound"  /\ Goto(i, "absent")
  /\ m_types' = Nothing
  /\ m_builders' = Nothing
  /\ own_types' = [own_types EXCEPT ![i] = Nothing]
  /\ UNCHANGED <<fresh, m_xml_loaded, filters, consumers,
                 m_registered_types, disturbed>>

KeepBuilders(i) ==
  /\ \/ at[i] = "registry" /\ Goto(i, "logger")
     \/ at[i] = "unwound"  /\ Goto(i, "absent")
  /\ m_types' = Nothing
  /\ m_registered_types' = Nothing
  /\ own_types' = [own_types EXCEPT ![i] = Nothing]
  /\ UNCHANGED <<fresh, m_xml_loaded, filters, consumers, m_builders,
                 disturbed>>

\* clear: Converter::clear_data_structures, of all instances, and the members
\* of this one.
ClearRegistry(i) ==
  /\ \/ at[i] = "registry" /\ Goto(i, "logger")
     \/ at[i] = "unwound"  /\ Goto(i, "absent")
  /\ m_types' = Nothing
  /\ m_registered_types' = Nothing
  /\ m_builders' = Nothing
  /\ own_types' = [own_types EXCEPT ![i] = Nothing]
  /\ UNCHANGED <<fresh, m_xml_loaded, filters, consumers, disturbed>>

\* reset: Log::RegisterConsumer of a FmiLogger on this m_logger.
RegisterConsumer(i) ==
  /\ at[i] = "logger"
  /\ Goto(i, "profile")
  /\ consumers' = consumers \union {i}
  /\ UNCHANGED <<fresh, m_xml_loaded, own_types, filters, m_types,
                 m_registered_types, m_builders, disturbed>>

\* reset: dds_profile.xml is loaded once in the life of an instance.
LoadProfile(i) ==
  /\ at[i] = "profile"
  /\ Goto(i, "entities")
  /\ m_xml_loaded' = [m_xml_loaded EXCEPT ![i] = TRUE]
  /\ UNCHANGED <<fresh, own_types, filters, statics, disturbed>>

\* reset: participant, publisher, subscriber, the list of signals.
CreateEntities(i) ==
  /\ at[i] = "entities"
  /\ Goto(i, "signals")
  /\ UNCHANGED <<fresh, m_xml_loaded, own_types, filters, statics, disturbed>>

\* Mutant: a builder is told by its name only.
create_builderOfName(i, n) == n

\* Converter::create_builder: a builder made before serves for the name.
create_builder(i, n) == IF m_builders[n] # None THEN m_builders[n] ELSE i

\* reset: a signal with a type this instance has not met yet.
RegisterType(i, n) ==
  /\ at[i] = "signals"
  /\ own_types[i][n] = None
  /\ m_builders' = [m_builders EXCEPT ![n] = create_builder(i, n)]
  /\ own_types' = [own_types EXCEPT ![i] = [@ EXCEPT ![n] =
                                              create_builder(i, n)]]
  /\ m_registered_types' =
       [m_registered_types EXCEPT ![n] = IF @ = None THEN i ELSE @]
  /\ m_types' = [m_types EXCEPT ![n] = i]
  /\ UNCHANGED <<at, fresh, m_xml_loaded, filters, consumers, disturbed>>

\* reset returns.
ResetReturns(i) ==
  /\ at[i] = "signals"
  /\ \A n \in Filtered[i] : own_types[i][n] # None
  /\ Goto(i, "ready")
  /\ fresh' = [fresh EXCEPT ![i] = FALSE]
  /\ UNCHANGED <<m_xml_loaded, own_types, filters, statics, disturbed>>

\* Reset throws.  Thrown out of the constructor, what has been constructed is
\* destroyed, m_logger first.
Throw(i) ==
  /\ \/ at[i] \in {"mapper", "entities", "signals"}
     \/ at[i] = "profile" /\ ~m_xml_loaded[i]
  /\ Goto(i, IF fresh[i] THEN "unwind" ELSE "failed")
  /\ fresh' = [fresh EXCEPT ![i] = FALSE]
  /\ UNCHANGED <<m_xml_loaded, own_types, filters, statics, disturbed>>

\* init_key_filters: the data of a filter is of the type the Converter has
\* under the name; if it has none the filter gets no entry, and nobody is
\* told.
ExitInitializationMode(i) ==
  /\ Idle
  /\ at[i] = "ready"
  /\ Goto(i, "stepping")
  /\ filters' =
       [filters EXCEPT ![i] = [n \in Types |-> IF n \in Filtered[i]
                                               THEN m_types[n]
                                               ELSE None]]
  /\ UNCHANGED <<fresh, m_xml_loaded, own_types, statics, disturbed>>

Next ==
  \E i \in Instances :
    \/ Instantiate(i) \/ Reset(i) \/ Free(i)
    \/ MapperIsReset(i) \/ ClearConsumers(i) \/ ClearRegistry(i)
    \/ RegisterConsumer(i) \/ LoadProfile(i) \/ CreateEntities(i)
    \/ (\E n \in Types : RegisterType(i, n))
    \/ ResetReturns(i) \/ Throw(i) \/ ExitInitializationMode(i)

Spec == Init /\ [][Next]_vars

-----------------------------------------------------------------------------
Definition == [Types -> Instances \union {None}]

TypeOK ==
  /\ at \in [Instances -> Waiting \union InReset \union InDestructor]
  /\ fresh \in [Instances -> BOOLEAN]
  /\ m_xml_loaded \in [Instances -> BOOLEAN]
  /\ own_types \in [Instances -> Definition]
  /\ filters \in [Instances -> Definition]
  /\ consumers \in SUBSET Instances
  /\ m_types \in Definition
  /\ m_registered_types \in Definition
  /\ m_builders \in Definition
  /\ disturbed \in [Instances -> BOOLEAN]

(***************************************************************************)
(* Fast DDS gives every log entry of the process, on a thread of its own,  *)
(* to every consumer.  The entries of one instance are not told to the     *)
(* simulator by another as well: one instance listens at most, the one     *)
(* whose reset came last, and none once a clear has removed the consumers. *)
(*                                                                         *)
(* In "unwind" the listener is there and its m_logger, the last member, is *)
(* already destroyed: until ClearConsumers the log thread may call a       *)
(* FmiLogger that refers to nothing (FmuInstance.hpp:125).  That is what   *)
(* the code does, and this property does not exclude it.                   *)
(***************************************************************************)
SoleListener ==
  \A i \in consumers :
    /\ consumers = {i}
    /\ ~disturbed[i]
    /\ at[i] \notin {"absent", "unwound"}

(***************************************************************************)
(* The pointers of m_registered_types are into the maps of the instances:  *)
(* what they point to is there, also after the instance has failed to      *)
(* reset, has been destroyed, or another has taken its place.              *)
(***************************************************************************)
PointersAreValid ==
  \A n \in Types :
    LET i == m_registered_types[n]
    IN  i # None => at[i] # "absent" /\ own_types[i][n] # None

(***************************************************************************)
(* create_builder returns what it has under a name.  The topics of an      *)
(* instance have the types of its own IDL files all the same, whatever     *)
(* the instances before it called by that name.                            *)
(***************************************************************************)
OwnDefinitions ==
  \A i \in Instances, n \in Types : own_types[i][n] \in {i, None}

(***************************************************************************)
(* An instance that has the process to itself since its reset has each of  *)
(* its filters, decodes samples with its own definition, and gets the log. *)
(***************************************************************************)
AloneIsComplete ==
  \A i \in Instances :
    at[i] = "stepping" /\ ~disturbed[i] =>
      /\ \A n \in Filtered[i] : filters[i][n] = i
      /\ consumers = {i}

(***************************************************************************)
(* docs/index.md:178: "Several FMU instances is conditionally possible: Do *)
(* not use multiple dds-fmu instances in the simulator instance if they    *)
(* are on the same DDS Domain ID".  The instances here are on domains of   *)
(* their own; one that steps has its filters, over its own types.          *)
(***************************************************************************)
SteppingHasFilters ==
  \A i \in Instances :
    at[i] = "stepping" => \A n \in Filtered[i] : filters[i][n] = i
=============================================================================
