---------------------------- MODULE SignalMapping ----------------------------
(***************************************************************************)
(* The two programs that read ddsfmu_mapping.xml, together: the repacker   *)
(* writes modelDescription.xml, a simulator imports it, and an FMU         *)
(* instance builds its DataMapper from the files it finds.  The simulator  *)
(* addresses a variable by the value reference of the description; the     *)
(* FMU answers with the leaf its vectors hold at that index.               *)
(*                                                                         *)
(* The GUID, a hash of the files under resources/config, is compared when  *)
(* the FMU is instantiated and never again: fmi2Reset reads the files anew *)
(* whatever they contain by then.                                          *)
(***************************************************************************)
EXTENDS DataMapper, FiniteSets

VARIABLES
  sd_mapping, sd_pc, sd_element, sd_node, sd_keys, sd_idx, sd_outputs,
  sd_signals,          \* generate_xml of the repacker
  model,               \* what the simulator imported: <<>> or
                       \* <<[guid, variables]>>
  alive,               \* an FMU instance exists, with this DataMapper
  stale                \* history: the last reset began with queued keys

sd_vars == <<sd_mapping, sd_pc, sd_element, sd_node, sd_keys, sd_idx,
             sd_outputs, sd_signals>>

system_vars == <<sd_vars, vars, model, alive, stale>>

SD == INSTANCE SignalDistributor WITH
        signal_mapping <- sd_mapping, pc <- sd_pc, element <- sd_element,
        node <- sd_node, m_potential_keys <- sd_keys, m_idx <- sd_idx,
        m_outputs <- sd_outputs, m_signal_mapping <- sd_signals

-----------------------------------------------------------------------------
SystemInit ==
  /\ SD!Init
  /\ Init
  /\ model = <<>>
  /\ alive = FALSE
  /\ stale = FALSE

\* A step of the repacker, used on an FMU that is not running.
Repack ==
  /\ ~alive
  /\ SD!Next
  /\ UNCHANGED <<vars, model, alive, stale>>

\* The simulator imports the FMU the repacker has written.
Import ==
  /\ ~alive
  /\ sd_pc = "written"
  /\ model' = <<[guid |-> sd_mapping, variables |-> sd_signals]>>
  /\ UNCHANGED <<sd_vars, vars, alive, stale>>

\* CppfmuInstantiateSlave: the files have the GUID of the description, and
\* the constructor of FmuInstance resets a new DataMapper.  Another GUID, or
\* a constructor that throws, leaves no instance.  Bound: the repacker has
\* come to its end.
Instantiate ==
  /\ ~alive
  /\ model # <<>>
  /\ sd_pc \in {"written", "failed"}
  /\ signal_mapping' = model[1].guid
  /\ pc' = "Read"
  /\ element' = 1
  /\ node' = 0
  /\ m_potential_keys' = <<>>
  /\ m_offsets' = Empty
  /\ m_visitors' = [t \in FmiTypes |-> <<>>]
  /\ m_data_store' = Empty
  /\ alive' = TRUE
  /\ stale' = FALSE
  /\ UNCHANGED <<sd_vars, model>>

\* After an error or not: no GUID is compared.
fmi2Reset ==
  /\ alive
  /\ pc \in {"ready", "failed"}
  /\ Reset
  /\ stale' = (m_potential_keys # <<>>)
  /\ UNCHANGED <<sd_vars, model, alive>>

\* reset goes on.
ResetStep ==
  /\ alive
  /\ \/ Reject \/ Duplicate \/ BeginAdd \/ Visit \/ EndAdd
     \/ NextLoop
  /\ UNCHANGED <<sd_vars, model, alive, stale>>

\* The instance and its DataMapper are destroyed.
Free ==
  /\ alive
  /\ pc \in {"ready", "failed"}
  /\ signal_mapping' = model[1].guid
  /\ pc' = "start"
  /\ element' = 1
  /\ node' = 0
  /\ m_potential_keys' = <<>>
  /\ m_offsets' = Empty
  /\ m_visitors' = [t \in FmiTypes |-> <<>>]
  /\ m_data_store' = Empty
  /\ alive' = FALSE
  /\ stale' = FALSE
  /\ UNCHANGED <<sd_vars, model>>

SystemNext ==
  Repack \/ Import \/ Instantiate \/ fmi2Reset \/ ResetStep \/ Free

SystemSpec == SystemInit /\ [][SystemNext]_system_vars

-----------------------------------------------------------------------------
direction(causality) ==
  CASE causality = "OUTPUT"    -> "Read"
    [] causality = "INPUT"     -> "Write"
    [] causality = "PARAMETER" -> "Parameter"

\* The leaf a variable of the description is about.
LeafOf(s) ==
  [key  |-> [topic |-> s.topic, direction |-> direction(s.causality)],
   node |-> s.node]

(***************************************************************************)
(* docs/index.md: the repacker "generates modelDescription.xml, which is   *)
(* consistent with the custom configuration".  Two walks of the file, in   *)
(* two programs, number the scalars independently; in an instance built    *)
(* from the files the description was written from, every value reference  *)
(* of the description reaches the very leaf its variable names, and no     *)
(* other leaf has a reference.                                             *)
(***************************************************************************)
ReferencesAgree ==
  (alive /\ pc = "ready" /\ signal_mapping = model[1].guid /\ ~stale) =>
    LET variables == model[1].variables
    IN  /\ \A i \in DOMAIN variables :
             LET s == variables[i]
             IN  /\ s.vr + 1 \in DOMAIN m_visitors[s.type]
                 /\ m_visitors[s.type][s.vr + 1] = LeafOf(s)
        /\ \A t \in FmiTypes :
             Len(m_visitors[t]) =
               Cardinality({i \in DOMAIN variables : variables[i].type = t})

(***************************************************************************)
(* An index the description does not have makes vector::at throw; one it   *)
(* has for another type of value is a cast of foreign memory.  After a     *)
(* reset that failed halfway, the references that still answer answer for  *)
(* the leaf the description names.                                         *)
(***************************************************************************)
PartialResetAnswersAlike ==
  (alive /\ signal_mapping = model[1].guid /\ ~stale) =>
    \A i \in DOMAIN model[1].variables :
      LET s == model[1].variables[i]
      IN  s.vr + 1 \in DOMAIN m_visitors[s.type]
            => m_visitors[s.type][s.vr + 1] = LeafOf(s)
=============================================================================
