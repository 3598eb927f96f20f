-------------------------- MODULE SignalDistributor --------------------------
(***************************************************************************)
(* The repacker's generate_xml: it walks ddsfmu_mapping.xml, all <fmu_out> *)
(* elements and then all <fmu_in> elements, and lets SignalDistributor     *)
(* give each scalar of each topic a name, a causality and the next value   *)
(* reference of its FMI type.  The @key members of the outputs with        *)
(* key_filter follow at the end as parameters.                             *)
(*                                                                         *)
(* A step is one element of the file or one node of a for_each.            *)
(***************************************************************************)
EXTENDS IdlTypes

VARIABLES
  signal_mapping,   \* ddsfmu_mapping.xml as generate_xml parsed it
  pc,               \* which loop of generate_xml runs, or how it ended
  element,          \* fmu_node: the element of the loop
  node,             \* the node for_each visits next, 0 outside add
  m_potential_keys, \* outputs queued for key parameters
  m_idx,            \* m_real_idx, m_integer_idx, m_boolean_idx, m_string_idx
  m_outputs,        \* scalar outputs counted
  m_signal_mapping  \* SignalInfo in the order of <ModelVariables>

vars == <<signal_mapping, pc, element, node, m_potential_keys, m_idx,
          m_outputs, m_signal_mapping>>

Cardinal == {"OUTPUT", "INPUT", "PARAMETER"}

Couple == [topic : Topics, type : Types]

SignalInfo == [vr : Nat, topic : Topics, node : Nat \ {0},
               causality : Cardinal, type : FmiTypes]

\* The elements the loop pc walks.
Elements == IF pc = "OUTPUT" THEN signal_mapping.fmu_out
                             ELSE signal_mapping.fmu_in

\* What add is working on: an element of the file, or the front of the queue.
Adding == IF pc = "PARAMETER" THEN Head(m_potential_keys)
                              ELSE Elements[element]

-----------------------------------------------------------------------------
Init ==
  /\ signal_mapping \in Mappings
  /\ pc = "start"
  /\ element = 1
  /\ node = 0
  /\ m_potential_keys = <<>>
  /\ m_idx = [t \in FmiTypes |-> 0]
  /\ m_outputs = 0
  /\ m_signal_mapping = <<>>

\* A run of the repacker: the files, as the user left them, are read,
\* SignalDistributor() sets its counters to 0 and the first loop starts; or a
\* file is missing or broken.
Generate ==
  /\ pc \in {"start", "written", "failed"}
  /\ pc' \in {"OUTPUT", "failed"}
  /\ signal_mapping' \in Mappings
  /\ element' = 1
  /\ node' = 0
  /\ m_potential_keys' = <<>>
  /\ m_idx' = [t \in FmiTypes |-> 0]
  /\ m_outputs' = 0
  /\ m_signal_mapping' = <<>>

\* An element without its attributes, or of a type no IDL file defines.
Reject ==
  /\ pc \in {"OUTPUT", "INPUT"}
  /\ node = 0
  /\ element \in DOMAIN Elements
  /\ ~Readable(Elements[element])
  /\ pc' = "failed"
  /\ UNCHANGED <<signal_mapping, element, node, m_potential_keys,
                 m_idx, m_outputs, m_signal_mapping>>

BeginAdd ==
  /\ node = 0
  /\ \/ /\ pc \in {"OUTPUT", "INPUT"}
        /\ element \in DOMAIN Elements
        /\ Readable(Elements[element])
     \/ /\ pc = "PARAMETER"
        /\ m_potential_keys # <<>>
  /\ node' = 1
  /\ UNCHANGED <<signal_mapping, pc, element, m_potential_keys,
                 m_idx, m_outputs, m_signal_mapping>>

\* Mutants: a value reference is used up by a leaf that gets none; the key
\* parameters are counted as outputs.
VisitSkips ==
  LET leaf == Nodes[Adding.type][node]
      type == resolve_type(leaf.kind)
  IN  /\ node # 0
      /\ node <= Len(Nodes[Adding.type])
      /\ node' = node + 1
      /\ m_signal_mapping' =
           IF Selected(leaf, pc = "PARAMETER") /\ type \in FmiTypes
           THEN Append(m_signal_mapping,
                       [vr |-> m_idx[type], topic |-> Adding.topic,
                        node |-> node, causality |-> pc, type |-> type])
           ELSE m_signal_mapping
      /\ m_idx' = [t \in FmiTypes |-> IF t = type THEN m_idx[t] + 1
                                                  ELSE m_idx[t]]
      /\ UNCHANGED <<signal_mapping, pc, element, m_potential_keys, m_outputs>>

VisitCountsParameters ==
  LET leaf == Nodes[Adding.type][node]
      type == resolve_type(leaf.kind)
  IN  /\ node # 0
      /\ node <= Len(Nodes[Adding.type])
      /\ node' = node + 1
      /\ IF Selected(leaf, pc = "PARAMETER") /\ type \in FmiTypes
         THEN /\ m_signal_mapping' =
                   Append(m_signal_mapping,
                          [vr |-> m_idx[type], topic |-> Adding.topic,
                           node |-> node, causality |-> pc, type |-> type])
              /\ m_idx' = [m_idx EXCEPT ![type] = @ + 1]
              /\ m_outputs' = IF pc # "INPUT" THEN m_outputs + 1 ELSE m_outputs
         ELSE UNCHANGED <<m_signal_mapping, m_idx, m_outputs>>
      /\ UNCHANGED <<signal_mapping, pc, element, m_potential_keys>>

\* The for_each callback of add.  An output is counted before its type is
\* resolved, so one of an unsupported kind is counted and not emitted.
Visit ==
  LET leaf == Nodes[Adding.type][node]
      type == resolve_type(leaf.kind)
  IN  /\ node # 0
      /\ node <= Len(Nodes[Adding.type])
      /\ node' = node + 1
      /\ m_outputs' = IF pc = "OUTPUT" /\ Selected(leaf, FALSE)
                      THEN m_outputs + 1
                      ELSE m_outputs
      /\ IF Selected(leaf, pc = "PARAMETER") /\ type \in FmiTypes
         THEN /\ m_signal_mapping' =
                   Append(m_signal_mapping,
                          [vr |-> m_idx[type], topic |-> Adding.topic,
                           node |-> node, causality |-> pc, type |-> type])
              /\ m_idx' = [m_idx EXCEPT ![type] = @ + 1]
         ELSE UNCHANGED <<m_signal_mapping, m_idx>>
      /\ UNCHANGED <<signal_mapping, pc, element, m_potential_keys>>

\* add returns: an output with key_filter is queued, a queued one is popped.
EndAdd ==
  /\ node # 0
  /\ node > Len(Nodes[Adding.type])
  /\ node' = 0
  /\ \/ /\ pc = "PARAMETER"
        /\ m_potential_keys' = Tail(m_potential_keys)
        /\ UNCHANGED element
     \/ /\ pc \in {"OUTPUT", "INPUT"}
        /\ element' = element + 1
        /\ m_potential_keys' =
             IF pc = "OUTPUT" /\ Adding.key_filter
             THEN Append(m_potential_keys,
                         [topic |-> Adding.topic, type |-> Adding.type])
             ELSE m_potential_keys
  /\ UNCHANGED <<signal_mapping, pc, m_idx, m_outputs, m_signal_mapping>>

\* Mutant: the next loop starts one element too early.
NextLoopFromZero ==
  /\ node = 0
  /\ pc \in {"OUTPUT", "INPUT"}
  /\ element > Len(Elements)
  /\ pc' = IF pc = "OUTPUT" THEN "INPUT" ELSE "PARAMETER"
  /\ element' = 0
  /\ UNCHANGED <<signal_mapping, node, m_potential_keys,
                 m_idx, m_outputs, m_signal_mapping>>

\* A loop has run out of elements: <fmu_out>, then <fmu_in>, then
\* process_key_queue, then the file is written.
NextLoop ==
  /\ node = 0
  /\ \/ /\ pc \in {"OUTPUT", "INPUT"}
        /\ element > Len(Elements)
        /\ pc' = IF pc = "OUTPUT" THEN "INPUT" ELSE "PARAMETER"
        /\ element' = 1
     \/ /\ pc = "PARAMETER"
        /\ m_potential_keys = <<>>
        /\ pc' = "written"
        /\ UNCHANGED element
  /\ UNCHANGED <<signal_mapping, node, m_potential_keys,
                 m_idx, m_outputs, m_signal_mapping>>

Next == Generate \/ Reject \/ BeginAdd \/ Visit \/ EndAdd \/ NextLoop

Spec == Init /\ [][Next]_vars

-----------------------------------------------------------------------------
TypeOK ==
  /\ signal_mapping \in Mapping
  /\ pc \in Cardinal \union {"start", "written", "failed"}
  /\ element \in Nat \ {0}
  /\ node \in Nat
  /\ m_potential_keys \in Seq(Couple)
  /\ m_idx \in [FmiTypes -> Nat]
  /\ m_outputs \in Nat
  /\ m_signal_mapping \in Seq(SignalInfo)

(***************************************************************************)
(* FMI 2.0 wants the value references of one type to be unique; the        *)
(* DataMapper's vectors also need them dense.  Of every type the           *)
(* references handed out are exactly 0 .. m_idx - 1, each of them once, in *)
(* the order of the file, whatever the types and the order of the topics.  *)
(***************************************************************************)
DenseReferences ==
  /\ \A i \in DOMAIN m_signal_mapping :
       m_signal_mapping[i].vr < m_idx[m_signal_mapping[i].type]
  /\ \A i, j \in DOMAIN m_signal_mapping :
       (i < j /\ m_signal_mapping[i].type = m_signal_mapping[j].type)
         => m_signal_mapping[i].vr < m_signal_mapping[j].vr
  /\ \A t \in FmiTypes : \A k \in 0 .. m_idx[t] - 1 :
       \E i \in DOMAIN m_signal_mapping :
         m_signal_mapping[i].type = t /\ m_signal_mapping[i].vr = k

(***************************************************************************)
(* model_structure_outputs_generator lists the variables 1 .. m_outputs as *)
(* the outputs, on the word of model-descriptor.hpp: "Our implementation   *)
(* puts all outputs before inputs".  When every output leaf has an FMI     *)
(* type, the variables it lists are the outputs and all of them.           *)
(***************************************************************************)
StructureListsOutputs ==
  AllSupported(signal_mapping) =>
    \A i \in DOMAIN m_signal_mapping :
      (m_signal_mapping[i].causality = "OUTPUT") <=> (i <= m_outputs)
=============================================================================
