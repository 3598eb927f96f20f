----------------------------- MODULE DataMapper -----------------------------
(***************************************************************************)
(* DataMapper of the FMU: reset reads ddsfmu_mapping.xml and fills, per    *)
(* FMI type, a vector of visitors that is indexed by value reference.  A   *)
(* visitor is bound to one leaf of the DynamicData stored for a topic and  *)
(* a direction.  reset may throw between any two steps; the members keep   *)
(* what was done until then, and the next reset starts from that.          *)
(*                                                                         *)
(* A step is one element of the file or one node of a for_each.            *)
(***************************************************************************)
EXTENDS IdlTypes

CONSTANT MaxStaleKeys \* bound: failed resets may leave this many in the queue

ASSUME MaxStaleKeysAssumption == MaxStaleKeys \in Nat

VARIABLES
  signal_mapping,   \* ddsfmu_mapping.xml as reset parsed it
  pc,               \* which loop of reset runs, or how it ended
  element,          \* fmu_node: the element of the loop
  node,             \* the node for_each visits next, 0 outside add
  m_potential_keys, \* outputs queued for key parameters
  m_offsets,        \* per key: the sizes of the vectors when it was added
  m_visitors,       \* per FMI type: the reader vector, and the writer vector
                    \* with it (add pushes to both or to none)
  m_data_store      \* per key: the type of the DynamicData

vars == <<signal_mapping, pc, element, node, m_potential_keys,
          m_offsets, m_visitors, m_data_store>>

Direction == {"Read", "Write", "Parameter"}

StoreKey == [topic : Topics, direction : Direction]

Couple == [topic : Topics, type : Types]

Visitor == [key : StoreKey, node : Nat \ {0}]

IndexOffsets == [FmiTypes -> Nat]

\* The elements the loop pc walks.
Elements == IF pc = "Read" THEN signal_mapping.fmu_out
                           ELSE signal_mapping.fmu_in

\* What add is working on: an element of the file, or the front of the queue.
Adding == IF pc = "Parameter" THEN Head(m_potential_keys)
                              ELSE Elements[element]

AddingKey == [topic |-> Adding.topic, direction |-> pc]

\* std::map::emplace: an entry that is there stays as it is.
Emplace(f, k, v) ==
  IF k \in DOMAIN f
  THEN f
  ELSE [x \in DOMAIN f \union {k} |-> IF x = k THEN v ELSE f[x]]

\* Mutant: the two switches drift apart.
has_visitorNarrow(type, kind) ==
  kind \in CASE type = "Real"    -> {"FLOAT_32", "FLOAT_64", "INT_64",
                                     "UINT_64"}
             [] type = "Integer" -> {"INT_8", "UINT_8", "INT_16", "UINT_16",
                                     "INT_32", "ENUMERATION"}
             [] type = "Boolean" -> {"BOOLEAN"}
             [] type = "String"  -> {"STRING", "CHAR_8"}
             [] OTHER            -> {}

\* The kinds for which the switch of add has a visitor; it has to stay the
\* same as the switch of SignalDistributor::resolve_type.
has_visitor(type, kind) ==
  kind \in CASE type = "Real"    -> {"FLOAT_32", "FLOAT_64", "UINT_32",
                                     "INT_64", "UINT_64"}
             [] type = "Integer" -> {"INT_8", "UINT_8", "INT_16", "UINT_16",
                                     "INT_32", "ENUMERATION"}
             [] type = "Boolean" -> {"BOOLEAN"}
             [] type = "String"  -> {"STRING", "CHAR_8"}
             [] OTHER            -> {}

Empty == [x \in {} |-> x]

-----------------------------------------------------------------------------
Init ==
  /\ signal_mapping \in Mappings
  /\ pc = "start"
  /\ element = 1
  /\ node = 0
  /\ m_potential_keys = <<>>
  /\ m_offsets = Empty
  /\ m_visitors = [t \in FmiTypes |-> <<>>]
  /\ m_data_store = Empty

\* Mutant: clear() forgets the visitors.
ResetKeepsVisitors ==
  /\ pc \in {"start", "ready", "failed"}
  /\ pc' \in {"Read", "failed"}
  /\ pc' = "Read" => Len(m_potential_keys) <= MaxStaleKeys
  /\ signal_mapping' \in Mappings
  /\ element' = 1
  /\ node' = 0
  /\ m_data_store' = Empty
  /\ UNCHANGED <<m_potential_keys, m_offsets, m_visitors>>

\* reset: clear(), then the files, which the user may have edited, are read
\* and the first loop starts; or a file is missing or broken.  clear() leaves
\* m_offsets and the queue alone.
Reset ==
  /\ pc \in {"start", "ready", "failed"}
  /\ pc' \in {"Read", "failed"}
  /\ pc' = "Read" => Len(m_potential_keys) <= MaxStaleKeys
  /\ signal_mapping' \in Mappings
  /\ element' = 1
  /\ node' = 0
  /\ m_visitors' = [t \in FmiTypes |-> <<>>]
  /\ m_data_store' = Empty
  /\ UNCHANGED <<m_potential_keys, m_offsets>>

\* An element without its attributes, or of a type no IDL file defines.
Reject ==
  /\ pc \in {"Read", "Write"}
  /\ node = 0
  /\ element \in DOMAIN Elements
  /\ ~Readable(Elements[element])
  /\ pc' = "failed"
  /\ UNCHANGED <<signal_mapping, element, node, m_potential_keys,
                 m_offsets, m_visitors, m_data_store>>

\* The loop is at something add is called for.
AtAdd ==
  /\ node = 0
  /\ \/ /\ pc \in {"Read", "Write"}
        /\ element \in DOMAIN Elements
        /\ Readable(Elements[element])
     \/ /\ pc = "Parameter"
        /\ m_potential_keys # <<>>

\* add throws on a second topic of one direction.
Duplicate ==
  /\ AtAdd
  /\ AddingKey \in DOMAIN m_data_store
  /\ pc' = "failed"
  /\ UNCHANGED <<signal_mapping, element, node, m_potential_keys,
                 m_offsets, m_visitors, m_data_store>>

\* Mutant: a topic may come twice.
BeginAddAgain ==
  /\ AtAdd
  /\ m_data_store' = Emplace(m_data_store, AddingKey, Adding.type)
  /\ m_offsets' = Emplace(m_offsets, AddingKey,
                          [t \in FmiTypes |-> Len(m_visitors[t])])
  /\ node' = 1
  /\ UNCHANGED <<signal_mapping, pc, element, m_potential_keys, m_visitors>>

BeginAdd ==
  /\ AtAdd
  /\ AddingKey \notin DOMAIN m_data_store
  /\ m_data_store' = Emplace(m_data_store, AddingKey, Adding.type)
  /\ m_offsets' = Emplace(m_offsets, AddingKey,
                          [t \in FmiTypes |-> Len(m_visitors[t])])
  /\ node' = 1
  /\ UNCHANGED <<signal_mapping, pc, element, m_potential_keys,
                 m_visitors>>

\* The for_each callback of add.
Visit ==
  LET leaf == Nodes[Adding.type][node]
      type == resolve_type(leaf.kind)
  IN  /\ node # 0
      /\ node <= Len(Nodes[Adding.type])
      /\ node' = node + 1
      /\ m_visitors' =
           IF Selected(leaf, pc = "Parameter") /\ has_visitor(type, leaf.kind)
           THEN [m_visitors EXCEPT ![type] =
                   Append(@, [key |-> AddingKey, node |-> node])]
           ELSE m_visitors
      /\ UNCHANGED <<signal_mapping, pc, element, m_potential_keys,
                     m_offsets, m_data_store>>

\* add returns: an output with key_filter is queued, a queued one is popped.
EndAdd ==
  /\ node # 0
  /\ node > Len(Nodes[Adding.type])
  /\ node' = 0
  /\ \/ /\ pc = "Parameter"
        /\ m_potential_keys' = Tail(m_potential_keys)
        /\ UNCHANGED element
     \/ /\ pc \in {"Read", "Write"}
        /\ element' = element + 1
        /\ m_potential_keys' =
             IF pc = "Read" /\ Adding.key_filter
             THEN Append(m_potential_keys,
                         [topic |-> Adding.topic, type |-> Adding.type])
             ELSE m_potential_keys
  /\ UNCHANGED <<signal_mapping, pc, m_offsets, m_visitors,
                 m_data_store>>

\* Mutant: the next loop starts one element too early.
NextLoopFromZero ==
  /\ node = 0
  /\ pc \in {"Read", "Write"}
  /\ element > Len(Elements)
  /\ pc' = IF pc = "Read" THEN "Write" ELSE "Parameter"
  /\ element' = 0
  /\ UNCHANGED <<signal_mapping, node, m_potential_keys, m_offsets,
                 m_visitors, m_data_store>>

\* A loop has run out: <fmu_out>, then <fmu_in>, then process_key_queue.
NextLoop ==
  /\ node = 0
  /\ \/ /\ pc \in {"Read", "Write"}
        /\ element > Len(Elements)
        /\ pc' = IF pc = "Read" THEN "Write" ELSE "Parameter"
        /\ element' = 1
     \/ /\ pc = "Parameter"
        /\ m_potential_keys = <<>>
        /\ pc' = "ready"
        /\ UNCHANGED element
  /\ UNCHANGED <<signal_mapping, node, m_potential_keys, m_offsets,
                 m_visitors, m_data_store>>

Next ==
  Reset \/ Reject \/ Duplicate \/ BeginAdd \/ Visit \/ EndAdd
       \/ NextLoop

Spec == Init /\ [][Next]_vars

-----------------------------------------------------------------------------
TypeOK ==
  /\ signal_mapping \in Mapping
  /\ pc \in Direction \union {"start", "ready", "failed"}
  /\ element \in Nat \ {0}
  /\ node \in Nat
  /\ m_potential_keys \in Seq(Couple)
  /\ DOMAIN m_offsets \subseteq StoreKey
  /\ \A k \in DOMAIN m_offsets : m_offsets[k] \in IndexOffsets
  /\ m_visitors \in [FmiTypes -> Seq(Visitor)]
  /\ DOMAIN m_data_store \subseteq StoreKey
  /\ \A k \in DOMAIN m_data_store : m_data_store[k] \in Types

(***************************************************************************)
(* A visitor is a raw reference into a DynamicData of the store, and the   *)
(* type of its vector is the only guard of the cast it makes.  Whenever    *)
(* reset stopped, also halfway, each visitor refers to a leaf of a stored  *)
(* value, and that leaf has the FMI type of the vector.                    *)
(***************************************************************************)
VisitorsAreBound ==
  \A t \in FmiTypes : \A i \in DOMAIN m_visitors[t] :
    LET v == m_visitors[t][i]
    IN  /\ v.key \in DOMAIN m_data_store
        /\ v.node \in DOMAIN Nodes[m_data_store[v.key]]
        /\ resolve_type(Nodes[m_data_store[v.key]][v.node].kind) = t

\* One leaf is bound to one value reference.
OneReferencePerLeaf ==
  \A t \in FmiTypes : \A i, j \in DOMAIN m_visitors[t] :
    m_visitors[t][i] = m_visitors[t][j] => i = j

(***************************************************************************)
(* The documentation of reset, "Clears and repopulates internal data       *)
(* structures", as the users of a ready mapper need it: the store has an   *)
(* entry for each element of the file just read, a parameter for each      *)
(* output with key_filter, and nothing of an earlier file.                 *)
(***************************************************************************)
KeysOf(m) ==
  {[topic |-> m.fmu_out[i].topic, direction |-> "Read"] :
     i \in DOMAIN m.fmu_out}
  \union
  {[topic |-> m.fmu_in[i].topic, direction |-> "Write"] :
     i \in DOMAIN m.fmu_in}
  \union
  {[topic |-> m.fmu_out[i].topic, direction |-> "Parameter"] :
     i \in {j \in DOMAIN m.fmu_out : m.fmu_out[j].key_filter}}

Repopulated ==
  pc = "ready" => DOMAIN m_data_store = KeysOf(signal_mapping)
=============================================================================
