------------------------- MODULE SignalMappingProofs -------------------------
(***************************************************************************)
(* Proofs about DataMapper, and about the system SignalMapping makes of it *)
(* and the repacker, for any IDL types, topics and mapping files, and any  *)
(* sequence of complete and failed resets.                                 *)
(*                                                                         *)
(* Inv adds to the three invariants of DataMapper what makes them          *)
(* inductive: inside add the value worked on is in the store, under the    *)
(* type whose nodes are visited; and the visitors bound to it so far are   *)
(* bound to nodes that have been visited before.                           *)
(*                                                                         *)
(* SInv is about both programs.  The description has all leaves of its     *)
(* file in the order of the walk (from SignalDistributorProofs), and       *)
(* numbers them type by type without a gap.  An instance that reads the    *)
(* same file makes the same walk, and the references it has filled so far  *)
(* are those of the leaves it has passed: so the next visitor it appends   *)
(* to the vector of a type is at the very index the description gave the   *)
(* next leaf of that type.                                                 *)
(***************************************************************************)
EXTENDS SignalMapping, SequenceTheorems, FiniteSetTheorems, TLAPS

\* add has something to work on.
AddingOK ==
  node # 0 =>
    \/ /\ pc \in {"Read", "Write"}
       /\ element \in DOMAIN Elements
       /\ Readable(Elements[element])
    \/ /\ pc = "Parameter"
       /\ m_potential_keys # <<>>

\* Its value is in the store.
AddingIsStored ==
  node # 0 => /\ AddingKey \in DOMAIN m_data_store
              /\ m_data_store[AddingKey] = Adding.type

\* The visitors bound to the value of k are bound to nodes before n.
BoundBelow(k, n) ==
  \A t \in FmiTypes : \A i \in DOMAIN m_visitors[t] :
    m_visitors[t][i].key = k => m_visitors[t][i].node < n

\* Nodes are bound in the order of the visit.
BoundBefore == node # 0 => BoundBelow(AddingKey, node)

Inv ==
  /\ TypeOK
  /\ AddingOK
  /\ AddingIsStored
  /\ BoundBefore
  /\ VisitorsAreBound
  /\ OneReferencePerLeaf

-----------------------------------------------------------------------------
\* The FMI type of a kind is one of the four, or there is none.
LEMMA ResolvedTypes ==
  ASSUME NEW kind
  PROVE  resolve_type(kind) \in FmiTypes \union {"Unknown"}
  BY DEF resolve_type, FmiTypes

\* Where the switch of add has a visitor there is an FMI type.
LEMMA VisitorsHaveTypes ==
  ASSUME NEW kind, has_visitor(resolve_type(kind), kind)
  PROVE  resolve_type(kind) \in FmiTypes
  <1>1. resolve_type(kind) # "Unknown"
    BY DEF has_visitor
  <1>. QED  BY <1>1, ResolvedTypes

\* What add works on is a topic and a type of the IDL files.
LEMMA AddingIsKnown ==
  ASSUME TypeOK,
         \/ /\ pc \in {"Read", "Write"}
            /\ element \in DOMAIN Elements
            /\ Readable(Elements[element])
         \/ /\ pc = "Parameter"
            /\ m_potential_keys # <<>>
  PROVE  /\ pc \in Direction
         /\ Adding.topic \in Topics
         /\ Adding.type \in Types
         /\ AddingKey \in StoreKey
         /\ Nodes[Adding.type] \in Seq(Node)
  <1>1. CASE pc = "Parameter"
    <2>1. Head(m_potential_keys) \in Couple
      BY <1>1 DEF TypeOK
    <2>. QED
      BY <1>1, <2>1, IdlAssumption
         DEF Adding, AddingKey, StoreKey, Couple, Direction
  <1>2. CASE pc # "Parameter"
    <2>1. Elements \in Seq(Element)
      BY DEF TypeOK, Mapping, Elements
    <2>2. /\ pc \in {"Read", "Write"}
          /\ Elements[element] \in Element
          /\ Readable(Elements[element])
      BY <1>2, <2>1
    <2>. QED
      BY <2>2, IdlAssumption
         DEF Adding, AddingKey, StoreKey, Element, Readable, Direction
  <1>. QED  BY <1>1, <1>2

-----------------------------------------------------------------------------
\* A new mapper has no visitor and no value.
LEMMA InitInv == Init => Inv
  <1>. SUFFICES ASSUME Init PROVE Inv
    OBVIOUS
  <1>1. TypeOK
    BY IdlAssumption DEF Init, TypeOK, Empty, Visitor
  <1>. QED
    BY <1>1 DEF Init, Inv, AddingOK, AddingIsStored, BoundBefore,
                VisitorsAreBound, OneReferencePerLeaf

\* clear() takes the visitors away together with the values.
LEMMA ResetInv ==
  ASSUME Inv, Reset
  PROVE  Inv'
  <1>1. TypeOK'
    BY IdlAssumption DEF Inv, Reset, TypeOK, Empty, Direction
  <1>. QED
    BY <1>1 DEF Reset, Inv, AddingOK, AddingIsStored, BoundBefore,
                VisitorsAreBound, OneReferencePerLeaf

\* Outside add, what binds nothing and stores nothing keeps Inv.
LEMMA NothingBound ==
  ASSUME Inv, TypeOK', node' = 0, UNCHANGED <<m_visitors, m_data_store>>
  PROVE  Inv'
  BY DEF Inv, AddingOK, AddingIsStored, BoundBefore, VisitorsAreBound,
         OneReferencePerLeaf

\* An element that is rejected keeps Inv.
LEMMA RejectInv ==
  ASSUME Inv, Reject
  PROVE  Inv'
  <1>1. TypeOK'
    BY DEF Inv, TypeOK, Reject
  <1>. QED  BY <1>1, NothingBound DEF Reject

\* A second topic of one direction keeps Inv.
LEMMA DuplicateInv ==
  ASSUME Inv, Duplicate
  PROVE  Inv'
  <1>1. TypeOK' /\ node' = 0
    BY DEF Inv, TypeOK, Duplicate, AtAdd
  <1>. QED  BY <1>1, NothingBound DEF Duplicate

\* A new value is in the store before its first node is visited, and nothing
\* refers to it yet.
LEMMA BeginAddInv ==
  ASSUME Inv, BeginAdd
  PROVE  Inv'
  <1>. DEFINE K == AddingKey
              T == Adding.type
              Sizes == [t \in FmiTypes |-> Len(m_visitors[t])]
  <1>1. /\ \/ /\ pc \in {"Read", "Write"}
              /\ element \in DOMAIN Elements
              /\ Readable(Elements[element])
           \/ /\ pc = "Parameter"
              /\ m_potential_keys # <<>>
        /\ K \in StoreKey /\ T \in Types
    BY AddingIsKnown DEF Inv, BeginAdd, AtAdd
  <1>2. /\ UNCHANGED <<Elements, K, T>>
        /\ AddingKey' = K /\ Adding'.type = T
    BY DEF BeginAdd, Elements, Adding, AddingKey
  <1>3. /\ DOMAIN m_data_store' = DOMAIN m_data_store \union {K}
        /\ m_data_store'[K] = T
        /\ \A k \in DOMAIN m_data_store : m_data_store'[k] = m_data_store[k]
    BY DEF BeginAdd, Emplace
  <1>4. Sizes \in IndexOffsets
    BY DEF Inv, TypeOK, IndexOffsets
  <1>5. /\ DOMAIN m_offsets' = DOMAIN m_offsets \union {K}
        /\ \A k \in DOMAIN m_offsets' : m_offsets'[k] \in IndexOffsets
    <2>. HIDE DEF Sizes, K
    <2>1. m_offsets' = Emplace(m_offsets, K, Sizes)
      BY DEF BeginAdd, K, Sizes
    <2>. QED  BY <2>1, <1>4 DEF Emplace, Inv, TypeOK
  <1>. HIDE DEF K, T
  <1>6. TypeOK'
    BY <1>1, <1>3, <1>5 DEF Inv, TypeOK, BeginAdd
  <1>7. AddingOK'
    BY <1>1, <1>2 DEF AddingOK, BeginAdd
  <1>8. AddingIsStored'
    BY <1>2, <1>3 DEF AddingIsStored
  <1>9. K \notin DOMAIN m_data_store
    BY DEF BeginAdd, K
  <1>10. BoundBefore'
    BY <1>2, <1>9
       DEF BoundBefore, BoundBelow, Inv, VisitorsAreBound, BeginAdd
  <1>11. VisitorsAreBound'
    BY <1>3 DEF VisitorsAreBound, Inv, BeginAdd
  <1>12. OneReferencePerLeaf'
    BY DEF OneReferencePerLeaf, Inv, BeginAdd
  <1>. QED  BY <1>6, <1>7, <1>8, <1>10, <1>11, <1>12 DEF Inv

(***************************************************************************)
(* A leaf that gets a visitor is a leaf of the stored value, of the FMI    *)
(* type of the vector, and no visitor was bound to it.                     *)
(***************************************************************************)
LEMMA BindInv ==
  ASSUME Inv, NEW type \in FmiTypes, NEW k \in StoreKey,
         k \in DOMAIN m_data_store,
         node \in DOMAIN Nodes[m_data_store[k]], node \in Nat \ {0},
         resolve_type(Nodes[m_data_store[k]][node].kind) = type,
         BoundBelow(k, node),
         m_visitors' = [m_visitors EXCEPT ![type] =
                          Append(@, [key |-> k, node |-> node])],
         node' = node + 1,
         UNCHANGED m_data_store
  PROVE  /\ m_visitors' \in [FmiTypes -> Seq(Visitor)]
         /\ VisitorsAreBound'
         /\ OneReferencePerLeaf'
         /\ BoundBelow(k, node)'
  <1>. DEFINE new == [key |-> k, node |-> node]
              old == m_visitors[type]
              n   == Len(old)
  <1>1. new \in Visitor /\ new.key = k /\ new.node = node
    BY DEF Visitor
  <1>2. m_visitors \in [FmiTypes -> Seq(Visitor)]
    BY DEF Inv, TypeOK
  <1>3. /\ m_visitors' = [m_visitors EXCEPT ![type] = Append(old, new)]
        /\ old \in Seq(Visitor) /\ n \in Nat /\ DOMAIN old = 1 .. n
    BY <1>2
  <1>. HIDE DEF new
  <1>4. /\ Append(old, new) \in Seq(Visitor)
        /\ DOMAIN Append(old, new) = 1 .. n + 1
        /\ \A i \in 1 .. n : Append(old, new)[i] = old[i]
        /\ Append(old, new)[n + 1] = new
    BY <1>1, <1>3, AppendProperties
  <1>5. m_visitors' \in [FmiTypes -> Seq(Visitor)]
    BY <1>2, <1>3, <1>4
  <1>6. /\ \A t \in FmiTypes \ {type} : m_visitors'[t] = m_visitors[t]
        /\ DOMAIN m_visitors'[type] = 1 .. n + 1
        /\ \A i \in 1 .. n : m_visitors'[type][i] = m_visitors[type][i]
        /\ m_visitors'[type][n + 1] = new
    BY <1>2, <1>3, <1>4
  <1>7. DOMAIN m_visitors[type] = 1 .. n
    BY <1>3
  <1>. HIDE DEF old, n
  <1>8. \A t \in FmiTypes : \A i \in DOMAIN m_visitors'[t] :
          \/ t = type /\ i = n + 1
          \/ i \in DOMAIN m_visitors[t] /\ m_visitors'[t][i] = m_visitors[t][i]
    BY <1>3, <1>6, <1>7
  <1>9. VisitorsAreBound'
    <2>. SUFFICES ASSUME NEW t \in FmiTypes, NEW i \in DOMAIN m_visitors'[t]
                  PROVE
      LET v == m_visitors'[t][i]
      IN  /\ v.key \in DOMAIN m_data_store
          /\ v.node \in DOMAIN Nodes[m_data_store[v.key]]
          /\ resolve_type(Nodes[m_data_store[v.key]][v.node].kind) = t
      BY DEF VisitorsAreBound
    <2>1. CASE t = type /\ i = n + 1
      BY <2>1, <1>1, <1>6
    <2>2. CASE /\ i \in DOMAIN m_visitors[t]
               /\ m_visitors'[t][i] = m_visitors[t][i]
      BY <2>2 DEF Inv, VisitorsAreBound
    <2>. QED  BY <2>1, <2>2, <1>8
  <1>10. \A t \in FmiTypes : \A i \in DOMAIN m_visitors[t] :
           m_visitors[t][i] # new
    <2>. SUFFICES ASSUME NEW t \in FmiTypes, NEW i \in DOMAIN m_visitors[t],
                         m_visitors[t][i] = new
                  PROVE  FALSE
      OBVIOUS
    <2>1. m_visitors[t][i].key = k /\ m_visitors[t][i].node = node
      BY <1>1
    <2>2. node < node
      BY <2>1 DEF BoundBelow
    <2>. QED  BY <2>2
  <1>11. OneReferencePerLeaf'
    <2>. SUFFICES ASSUME NEW t \in FmiTypes, NEW i \in DOMAIN m_visitors'[t],
                         NEW j \in DOMAIN m_visitors'[t],
                         m_visitors'[t][i] = m_visitors'[t][j]
                  PROVE  i = j
      BY DEF OneReferencePerLeaf
    <2>1. CASE t # type
      <3>1. m_visitors'[t] = m_visitors[t]
        BY <2>1, <1>6
      <3>. QED  BY <3>1 DEF Inv, OneReferencePerLeaf
    <2>2. CASE t = type
      <3>1. CASE i = n + 1 /\ j = n + 1
        BY <3>1
      <3>2. CASE i = n + 1 /\ j # n + 1
        BY <2>2, <3>2, <1>6, <1>8, <1>10
      <3>3. CASE i # n + 1 /\ j = n + 1
        BY <2>2, <3>3, <1>6, <1>8, <1>10
      <3>4. CASE i # n + 1 /\ j # n + 1
        BY <3>4, <1>8 DEF Inv, OneReferencePerLeaf
      <3>. QED  BY <3>1, <3>2, <3>3, <3>4
    <2>. QED  BY <2>1, <2>2
  <1>12. ASSUME NEW t \in FmiTypes, NEW i \in DOMAIN m_visitors'[t],
                m_visitors'[t][i].key = k
         PROVE  m_visitors'[t][i].node < node + 1
    <2>1. CASE t = type /\ i = n + 1
      BY <2>1, <1>1, <1>6
    <2>2. CASE /\ i \in DOMAIN m_visitors[t]
               /\ m_visitors'[t][i] = m_visitors[t][i]
      <3>1. /\ m_visitors[t][i] \in Visitor
            /\ m_visitors[t][i].node < node
        BY <2>2, <1>2, <1>12 DEF BoundBelow
      <3>2. m_visitors[t][i].node \in Nat
        BY <3>1 DEF Visitor
      <3>. QED  BY <2>2, <3>1, <3>2
    <2>. QED  BY <2>1, <2>2, <1>8
  <1>13. BoundBelow(k, node)'
    BY <1>12 DEF BoundBelow
  <1>. QED  BY <1>5, <1>9, <1>11, <1>13

\* The for_each callback keeps Inv.
LEMMA VisitInv ==
  ASSUME Inv, Visit
  PROVE  Inv'
  <1>. DEFINE leaf  == Nodes[Adding.type][node]
              type  == resolve_type(leaf.kind)
              bound == /\ Selected(leaf, pc = "Parameter")
                       /\ has_visitor(type, leaf.kind)
  <1>1. /\ AddingKey \in StoreKey
        /\ Nodes[Adding.type] \in Seq(Node)
        /\ node \in Nat \ {0} /\ node \in DOMAIN Nodes[Adding.type]
    BY AddingIsKnown DEF Inv, TypeOK, AddingOK, Visit
  <1>2. /\ UNCHANGED <<Elements, AddingKey, Adding>>
        /\ node' = node + 1
        /\ UNCHANGED <<signal_mapping, pc, element, m_potential_keys,
                       m_offsets, m_data_store>>
    BY DEF Visit, Elements, Adding, AddingKey
  <1>3. AddingOK'
    BY <1>1, <1>2 DEF Inv, AddingOK
  <1>4. AddingIsStored'
    BY <1>1, <1>2 DEF Inv, AddingIsStored
  <1>5. /\ m_visitors' \in [FmiTypes -> Seq(Visitor)]
        /\ VisitorsAreBound'
        /\ OneReferencePerLeaf'
        /\ BoundBelow(AddingKey, node)'
    <2>1. CASE bound
      <3>1. type \in FmiTypes
        BY <2>1, VisitorsHaveTypes
      <3>2. m_visitors' = [m_visitors EXCEPT ![type] =
                             Append(@, [key |-> AddingKey, node |-> node])]
        BY <2>1 DEF Visit
      <3>3. /\ AddingKey \in DOMAIN m_data_store
            /\ m_data_store[AddingKey] = Adding.type
            /\ BoundBelow(AddingKey, node)
        BY <1>1 DEF Inv, AddingIsStored, BoundBefore
      <3>4. /\ node \in DOMAIN Nodes[m_data_store[AddingKey]]
            /\ resolve_type(Nodes[m_data_store[AddingKey]][node].kind) = type
        BY <1>1, <3>3
      <3>. HIDE DEF type
      <3>. QED
        BY ONLY Inv, <1>1, <1>2, <3>1, <3>2, <3>3, <3>4, BindInv
    <2>2. CASE ~bound
      <3>1. UNCHANGED m_visitors
        BY <2>2 DEF Visit
      <3>2. VisitorsAreBound' /\ OneReferencePerLeaf'
        BY <1>2, <3>1 DEF Inv, VisitorsAreBound, OneReferencePerLeaf
      <3>3. ASSUME NEW t \in FmiTypes, NEW i \in DOMAIN m_visitors[t],
                   m_visitors[t][i].key = AddingKey
            PROVE  m_visitors[t][i].node < node + 1
        <4>1. m_visitors[t][i].node < node
          BY <1>1, <3>3 DEF Inv, BoundBefore, BoundBelow
        <4>2. m_visitors[t][i] \in Visitor
          BY DEF Inv, TypeOK
        <4>. QED  BY <1>1, <4>1, <4>2 DEF Visitor
      <3>4. m_visitors \in [FmiTypes -> Seq(Visitor)]
        BY DEF Inv, TypeOK
      <3>5. BoundBelow(AddingKey, node)'
        BY <1>2, <3>1, <3>3 DEF BoundBelow
      <3>. QED  BY <3>1, <3>2, <3>4, <3>5
    <2>. QED  BY <2>1, <2>2
  <1>6. TypeOK'
    BY <1>1, <1>2, <1>5 DEF Inv, TypeOK
  <1>7. BoundBefore'
    BY <1>2, <1>5 DEF BoundBefore
  <1>. QED  BY <1>3, <1>4, <1>5, <1>6, <1>7 DEF Inv

\* The end of an add keeps Inv.
LEMMA EndAddInv ==
  ASSUME Inv, EndAdd
  PROVE  Inv'
  <1>1. TypeOK'
    <2>1. CASE pc = "Parameter"
      <3>1. m_potential_keys \in Seq(Couple) /\ m_potential_keys # <<>>
        BY <2>1 DEF Inv, TypeOK, AddingOK, EndAdd
      <3>2. Tail(m_potential_keys) \in Seq(Couple)
        BY <3>1, HeadTailProperties
      <3>. QED  BY <2>1, <3>2 DEF Inv, TypeOK, EndAdd
    <2>2. CASE pc \in {"Read", "Write"}
      <3>. DEFINE c == [topic |-> Adding.topic, type |-> Adding.type]
      <3>1. c \in Couple
        BY AddingIsKnown DEF Inv, AddingOK, EndAdd, Couple
      <3>. HIDE DEF c
      <3>2. Append(m_potential_keys, c) \in Seq(Couple)
        BY <3>1, AppendProperties DEF Inv, TypeOK
      <3>3. m_potential_keys' \in {m_potential_keys,
                                   Append(m_potential_keys, c)}
        BY <2>2 DEF c, EndAdd
      <3>4. m_potential_keys' \in Seq(Couple)
        BY <3>2, <3>3 DEF Inv, TypeOK
      <3>. QED  BY <2>2, <3>4 DEF Inv, TypeOK, EndAdd
    <2>. QED  BY <2>1, <2>2 DEF EndAdd
  <1>. QED  BY <1>1, NothingBound DEF EndAdd

\* From one loop to the next, Inv stays.
LEMMA NextLoopInv ==
  ASSUME Inv, NextLoop
  PROVE  Inv'
  <1>1. TypeOK'
    BY DEF Inv, TypeOK, NextLoop, Direction
  <1>2. node' = 0
    BY DEF NextLoop
  <1>. QED  BY <1>1, <1>2, NothingBound DEF NextLoop

-----------------------------------------------------------------------------
\* Every step of reset, and every reset, keeps Inv.
LEMMA StepInv == Inv /\ [Next]_vars => Inv'
  <1>. SUFFICES ASSUME Inv, [Next]_vars PROVE Inv'
    OBVIOUS
  <1>1. CASE UNCHANGED vars
    BY <1>1 DEF vars, Inv, TypeOK, AddingOK, AddingIsStored, BoundBefore,
                BoundBelow, VisitorsAreBound, OneReferencePerLeaf, Elements,
                Adding, AddingKey
  <1>2. CASE Next
    BY <1>2, ResetInv, RejectInv, DuplicateInv, BeginAddInv, VisitInv,
       EndAddInv, NextLoopInv DEF Next
  <1>. QED  BY <1>1, <1>2

\* Inv holds in every reachable state.
LEMMA Invariant == Spec => []Inv
  BY InitInv, StepInv, PTL DEF Spec

(***************************************************************************)
(* The members of DataMapper keep their types, through any number of       *)
(* complete and failed resets.                                             *)
(***************************************************************************)
THEOREM TypeCorrect == Spec => []TypeOK
  BY Invariant, PTL DEF Inv

(***************************************************************************)
(* A visitor always refers to a leaf of a value that is in the store, and  *)
(* the leaf has the FMI type of the visitor's vector, for all IDL types    *)
(* and mapping files, and wherever reset has thrown.                       *)
(***************************************************************************)
THEOREM Bound == Spec => []VisitorsAreBound
  BY Invariant, PTL DEF Inv

(***************************************************************************)
(* No leaf is bound to two value references of an FMI type, and this too   *)
(* whatever was left over from a reset that threw.                         *)
(***************************************************************************)
THEOREM References == Spec => []OneReferencePerLeaf
  BY Invariant, PTL DEF Inv
-----------------------------------------------------------------------------
(* The composition.  SDP holds what is proved of the repacker's walk.      *)

SDP == INSTANCE SignalDistributorProofs WITH
         signal_mapping <- sd_mapping, pc <- sd_pc, element <- sd_element,
         node <- sd_node, m_potential_keys <- sd_keys, m_idx <- sd_idx,
         m_outputs <- sd_outputs, m_signal_mapping <- sd_signals

\* IdlAssumption, as that module states it.
LEMMA SameAssumption ==
  /\ Nodes \in [Types -> Seq(SDP!Node)]
  /\ Missing \notin Types \union Topics
  /\ Mappings # {} /\ Mappings \subseteq SDP!Mapping
  BY IdlAssumption
     DEF Node, Mapping, Element, Kinds, PrimitiveKinds, SDP!Node,
         SDP!Mapping, SDP!Element, SDP!Kinds, SDP!PrimitiveKinds

\* Both programs speak of the same types, kinds and files.
LEMMA SameWords ==
  /\ SDP!FmiTypes = FmiTypes
  /\ SDP!Mapping = Mapping
  /\ SDP!Node = Node
  /\ SDP!Couple = Couple
  /\ \A e : SDP!Readable(e) = Readable(e)
  /\ \A k : SDP!resolve_type(k) = resolve_type(k)
  /\ \A k, b : SDP!Selected(k, b) = Selected(k, b)
  BY DEF FmiTypes, Mapping, Node, Element, Kinds, PrimitiveKinds, Couple,
         Readable, resolve_type, Selected,
         SDP!FmiTypes, SDP!Mapping, SDP!Node, SDP!Element, SDP!Kinds,
         SDP!PrimitiveKinds, SDP!Couple, SDP!Readable, SDP!resolve_type,
         SDP!Selected

\* And count alike.
LEMMA SameCardinality == \A S : SDP!Cardinality(S) = Cardinality(S)
  BY Zenon DEF Cardinality, SDP!Cardinality

\* The first states of the repacker are the same.
LEMMA SameInit == SD!Init => SDP!Init
  BY DEF SD!Init, SDP!Init, SD!FmiTypes, SDP!FmiTypes

\* And so are its steps.
LEMMA SameNext == SD!Next => SDP!Next
  <1> USE DEF SD!FmiTypes, SD!Elements, SD!Adding, SD!Readable, SD!Selected,
              SD!resolve_type, SD!PrimitiveKinds,
              SDP!FmiTypes, SDP!Elements, SDP!Adding, SDP!Readable,
              SDP!Selected, SDP!resolve_type, SDP!PrimitiveKinds
  <1>1. SD!Generate => SDP!Generate
    BY DEF SD!Generate, SDP!Generate
  <1>2. SD!Reject => SDP!Reject
    BY DEF SD!Reject, SDP!Reject
  <1>3. SD!BeginAdd => SDP!BeginAdd
    BY DEF SD!BeginAdd, SDP!BeginAdd
  <1>4. SD!Visit => SDP!Visit
    BY DEF SD!Visit, SDP!Visit
  <1>5. SD!EndAdd => SDP!EndAdd
    BY DEF SD!EndAdd, SDP!EndAdd
  <1>6. SD!NextLoop => SDP!NextLoop
    BY DEF SD!NextLoop, SDP!NextLoop
  <1> QED
    BY ONLY <1>1, <1>2, <1>3, <1>4, <1>5, <1>6 DEF SD!Next, SDP!Next

-----------------------------------------------------------------------------
(* A description W of file m, and visitors mv.                             *)

Count(W, t) == Cardinality(SDP!OfType(W, t))

\* The references of each type are 0 .. Count - 1, in the order of W.
Numbered(W) ==
  /\ \A t \in FmiTypes : Count(W, t) \in Nat
  /\ \A i \in DOMAIN W : W[i].vr < Count(W, W[i].type)
  /\ \A i, j \in DOMAIN W :
       i < j /\ W[i].type = W[j].type => W[i].vr < W[j].vr
  /\ \A t \in FmiTypes : \A k \in 0 .. Count(W, t) - 1 :
       \E i \in DOMAIN W : W[i].type = t /\ W[i].vr = k

\* What there is answers for the leaf W names, and W names all there is.
Agree(W, mv) ==
  /\ \A i \in DOMAIN W :
       W[i].vr + 1 \in DOMAIN mv[W[i].type] =>
         mv[W[i].type][W[i].vr + 1] = LeafOf(W[i])
  /\ \A t \in FmiTypes : Len(mv[t]) <= Count(W, t)

\* The walk of reset has filled the references of the leaves it has passed.
Follows(W, m, mv, loop, e, n, K) ==
  \E P, q :
    /\ SDP!Describes(W, P, m)
    /\ \A p \in SDP!Leaves(m) : \E i \in DOMAIN W : P[i] = p
    /\ SDP!Queued(m, loop, e, q, K)
    /\ \A i \in DOMAIN W :
         (W[i].vr < Len(mv[W[i].type])) <=> SDP!Passed(P[i], loop, e, n, q)

\* A node that is a leaf in the loop.
IsLeaf(x, loop) ==
  Selected(x, loop = 3) /\ resolve_type(x.kind) \in FmiTypes

\* The fields of a variable have their types.
LEMMA VariableTypes ==
  ASSUME NEW W \in Seq(SDP!SignalInfo), NEW i \in DOMAIN W
  PROVE  W[i].vr \in Nat /\ W[i].type \in FmiTypes
  <1>1. W[i] \in SDP!SignalInfo
    OBVIOUS
  <1>2. W[i].vr \in Nat /\ W[i].type \in SDP!FmiTypes
    BY <1>1 DEF SDP!SignalInfo
  <1> QED
    BY <1>2, SameWords

\* After clear() nothing is filled and nothing is passed.
LEMMA FollowingBegins ==
  ASSUME NEW m \in Mapping, NEW W \in Seq(SDP!SignalInfo), SDP!Lists(W, m),
         NEW mv, \A t \in FmiTypes : mv[t] = <<>>
  PROVE  Follows(W, m, mv, 1, 1, 0, <<>>)
  <1>1. PICK P : /\ SDP!Describes(W, P, m)
                 /\ \A p \in SDP!Leaves(m) : \E i \in DOMAIN W : P[i] = p
    BY DEF SDP!Lists
  <1>2. /\ SDP!Queued(m, 1, 1, <<>>, <<>>)
        /\ \A p \in SDP!Leaves(m) : ~SDP!Passed(p, 1, 1, 0, <<>>)
    <2>1. m \in SDP!Mapping
      BY SameWords
    <2> QED
      BY <2>1, SameAssumption, SDP!WalkBegins
  <1>3. P \in [DOMAIN W -> SDP!Leaves(m)]
    BY <1>1 DEF SDP!Describes
  <1>4. \A i \in DOMAIN W : ~(W[i].vr < Len(mv[W[i].type]))
    BY VariableTypes
  <1> QED
    BY <1>1, <1>2, <1>3, <1>4 DEF Follows

\* A step that fills nothing and passes nothing.
LEMMA NothingFollowed ==
  ASSUME NEW W, NEW m, NEW mv, NEW loop, NEW e, NEW n, NEW K,
         Follows(W, m, mv, loop, e, n, K),
         NEW loop2, NEW e2, NEW n2, NEW K2,
         \A q : SDP!Queued(m, loop, e, q, K) =>
           \E r : /\ SDP!Queued(m, loop2, e2, r, K2)
                  /\ \A p \in SDP!Leaves(m) :
                       SDP!Passed(p, loop2, e2, n2, r)
                         <=> SDP!Passed(p, loop, e, n, q)
  PROVE  Follows(W, m, mv, loop2, e2, n2, K2)
  <1>1. PICK P, q :
          /\ SDP!Describes(W, P, m)
          /\ \A p \in SDP!Leaves(m) : \E i \in DOMAIN W : P[i] = p
          /\ SDP!Queued(m, loop, e, q, K)
          /\ \A i \in DOMAIN W : (W[i].vr < Len(mv[W[i].type]))
                                   <=> SDP!Passed(P[i], loop, e, n, q)
    BY DEF Follows
  <1>2. PICK r : /\ SDP!Queued(m, loop2, e2, r, K2)
                 /\ \A p \in SDP!Leaves(m) :
                      SDP!Passed(p, loop2, e2, n2, r)
                        <=> SDP!Passed(p, loop, e, n, q)
    BY <1>1
  <1>3. P \in [DOMAIN W -> SDP!Leaves(m)]
    BY <1>1 DEF SDP!Describes
  <1>4. \A i \in DOMAIN W : (W[i].vr < Len(mv[W[i].type]))
                              <=> SDP!Passed(P[i], loop2, e2, n2, r)
    BY <1>1, <1>2, <1>3
  <1> QED
    BY <1>1, <1>2, <1>4 DEF Follows

\* No two variables are about one place.
LEMMA PlacesDiffer ==
  ASSUME NEW m \in Mapping, NEW W \in Seq(SDP!SignalInfo), NEW P,
         SDP!Describes(W, P, m)
  PROVE  \A i, j \in DOMAIN W : P[i] = P[j] => i = j
  <1> SUFFICES ASSUME NEW i \in DOMAIN W, NEW j \in DOMAIN W, i < j,
                      P[i] = P[j]
               PROVE  FALSE
    <2>1. DOMAIN W \subseteq Nat
      BY LenProperties
    <2> QED
      BY <2>1
  <1>1. SDP!Before(P[i], P[j].phase, P[j].element, P[j].node)
    BY DEF SDP!Describes
  <1>2. P[i] \in SDP!Place
    BY DEF SDP!Describes, SDP!Leaves
  <1> QED
    BY <1>1, <1>2, SameAssumption, SDP!NotBeforeItself

\* A node without a visitor is no leaf of the description.
LEMMA NoLeafFollowed ==
  ASSUME NEW m \in Mapping, NEW W, NEW mv, NEW loop \in 1 .. 3,
         NEW e \in Nat, NEW n \in Nat \ {0}, NEW K \in Seq(Couple),
         Follows(W, m, mv, loop, e, n, K), SDP!Busy(m, loop, e, K),
         NEW leaf, leaf = Nodes[SDP!Adds(m, loop, e, K).type][n],
         ~IsLeaf(leaf, loop)
  PROVE  Follows(W, m, mv, loop, e, n + 1, K)
  <1>1. ASSUME NEW q, SDP!Queued(m, loop, e, q, K)
        PROVE  \A p \in SDP!Leaves(m) :
                 SDP!Passed(p, loop, e, n + 1, q)
                   <=> SDP!Passed(p, loop, e, n, q)
    <2>1. PICK c \in SDP!Place : SDP!Here(c, m, loop, e, n, q, K)
      <3>1. m \in SDP!Mapping /\ K \in Seq(SDP!Couple)
        BY SameWords
      <3> QED
        BY <1>1, <3>1, SameAssumption, SDP!NodeWalked
    <2>2. SDP!NodeAt(m, c) = leaf /\ c.phase = loop
      BY <2>1 DEF SDP!Here, SDP!NodeAt
    <2>3. c \notin SDP!Leaves(m)
      BY <2>2, SameWords DEF SDP!Leaves, IsLeaf
    <2> QED
      BY <2>1, <2>3 DEF SDP!Here
  <1> QED
    BY <1>1, NothingFollowed

\* The node x, number n of what add works on, gets the visitor v.
Binds(m, loop, e, n, K, x, t, v, mv, mv2) ==
  /\ SDP!Busy(m, loop, e, K)
  /\ n \in DOMAIN Nodes[SDP!Adds(m, loop, e, K).type]
  /\ x = Nodes[SDP!Adds(m, loop, e, K).type][n]
  /\ t = resolve_type(x.kind)
  /\ IsLeaf(x, loop)
  /\ v = [key |-> [topic |-> SDP!Adds(m, loop, e, K).topic,
                   direction |-> direction(SDP!Causality(loop))],
          node |-> n]
  /\ mv2[t] = Append(mv[t], v)
  /\ \A u \in FmiTypes \ {t} : mv2[u] = mv[u]

\* A node with a visitor is the leaf of the next reference of its type.
LEMMA LeafFollowed ==
  ASSUME NEW m \in Mapping, NEW W \in Seq(SDP!SignalInfo), Numbered(W),
         NEW mv \in [FmiTypes -> Seq(Visitor)], NEW loop \in 1 .. 3,
         NEW e \in Nat, NEW n \in Nat \ {0}, NEW K \in Seq(Couple),
         Follows(W, m, mv, loop, e, n, K), Agree(W, mv),
         NEW leaf, NEW type \in FmiTypes, NEW v \in Visitor,
         NEW mv2 \in [FmiTypes -> Seq(Visitor)],
         Binds(m, loop, e, n, K, leaf, type, v, mv, mv2)
  PROVE  Follows(W, m, mv2, loop, e, n + 1, K) /\ Agree(W, mv2)
  <1>0. /\ SDP!Busy(m, loop, e, K)
        /\ leaf = Nodes[SDP!Adds(m, loop, e, K).type][n]
        /\ n \in DOMAIN Nodes[SDP!Adds(m, loop, e, K).type]
        /\ type = resolve_type(leaf.kind)
        /\ IsLeaf(leaf, loop)
        /\ v = [key |-> [topic |-> SDP!Adds(m, loop, e, K).topic,
                         direction |-> direction(SDP!Causality(loop))],
                node |-> n]
        /\ mv2[type] = Append(mv[type], v)
        /\ \A u \in FmiTypes \ {type} : mv2[u] = mv[u]
    BY DEF Binds
  <1>1. PICK P, q :
          /\ SDP!Describes(W, P, m)
          /\ \A p \in SDP!Leaves(m) : \E i \in DOMAIN W : P[i] = p
          /\ SDP!Queued(m, loop, e, q, K)
          /\ \A i \in DOMAIN W : (W[i].vr < Len(mv[W[i].type]))
                                   <=> SDP!Passed(P[i], loop, e, n, q)
    BY DEF Follows
  <1>2. PICK c \in SDP!Place : SDP!Here(c, m, loop, e, n, q, K)
    <2>1. m \in SDP!Mapping /\ K \in Seq(SDP!Couple)
      BY SameWords
    <2> QED
      BY <1>0, <1>1, <2>1, SameAssumption, SDP!NodeWalked
  <1>3. SDP!NodeAt(m, c) = leaf /\ c.phase = loop /\ c.node = n
    BY <1>0, <1>2 DEF SDP!Here, SDP!NodeAt
  <1>4. c \in SDP!Leaves(m)
    BY <1>0, <1>2, <1>3, SameWords DEF SDP!Leaves, SDP!Here, IsLeaf
  <1>5. PICK s \in DOMAIN W : P[s] = c
    BY <1>1, <1>4
  <1>6. /\ W[s].topic = SDP!Adds(m, loop, e, K).topic
        /\ W[s].node = n
        /\ W[s].causality = SDP!Causality(loop)
        /\ W[s].type = type
    BY <1>0, <1>1, <1>2, <1>3, <1>5, SameWords
       DEF SDP!Describes, SDP!Here
  <1>7. v = LeafOf(W[s])
    BY <1>0, <1>6 DEF LeafOf
  <1> DEFINE l == Len(mv[type])
  <1>8. /\ mv[type] \in Seq(Visitor) /\ l \in Nat
        /\ DOMAIN mv[type] = 1 .. l
        /\ Len(mv2[type]) = l + 1 /\ DOMAIN mv2[type] = 1 .. l + 1
        /\ mv2[type][l + 1] = v
        /\ \A x \in 1 .. l : mv2[type][x] = mv[type][x]
    <2>1. mv2[type] = Append(mv[type], v)
      BY <1>0
    <2> QED
      BY ONLY <2>1, AppendProperties, LenProperties, type \in FmiTypes,
              v \in Visitor, mv \in [FmiTypes -> Seq(Visitor)]
  <1> HIDE DEF l
  <1>9. ~(W[s].vr < l)
    BY <1>1, <1>2, <1>5, <1>6 DEF SDP!Here, l
  <1>10. W[s].vr = l
    <2>1. W[s].vr \in Nat /\ W[s].vr < Count(W, type) /\ Count(W, type) \in Nat
      BY <1>6, VariableTypes DEF Numbered
    <2>2. ASSUME W[s].vr # l PROVE FALSE
      <3>1. l \in 0 .. Count(W, type) - 1 /\ l < W[s].vr
        BY ONLY <1>8, <1>9, <2>1, <2>2
      <3>2. PICK j \in DOMAIN W : W[j].type = type /\ W[j].vr = l
        BY <3>1 DEF Numbered
      <3>3. DOMAIN W \subseteq Nat
        BY LenProperties
      <3>4. ~(s < j) /\ s # j
        <4>1. s < j => W[s].vr < W[j].vr
          BY <1>6, <3>2 DEF Numbered
        <4> QED
          BY ONLY <2>1, <1>8, <3>1, <3>2, <4>1
      <3>5. j < s
        BY <3>3, <3>4
      <3>6. SDP!Before(P[j], c.phase, c.element, c.node)
        BY <1>1, <1>5, <3>5 DEF SDP!Describes
      <3>7. SDP!Passed(P[j], loop, e, n, q)
        BY <1>2, <1>3, <3>6 DEF SDP!Passed, SDP!Here
      <3>8. W[j].vr < l
        BY <1>1, <3>2, <3>7 DEF l
      <3> QED
        BY ONLY <1>8, <3>2, <3>8
    <2> QED
      BY <2>2
  <1>11. \A j \in DOMAIN W : W[j].type = type /\ W[j].vr = l => j = s
    <2> SUFFICES ASSUME NEW j \in DOMAIN W, W[j].type = type, W[j].vr = l,
                        j # s
                 PROVE  FALSE
      OBVIOUS
    <2>1. j < s \/ s < j
      BY LenProperties
    <2>2. W[j].vr < W[s].vr \/ W[s].vr < W[j].vr
      BY <1>6, <2>1 DEF Numbered
    <2> QED
      BY ONLY <1>8, <1>10, <2>2, W[j].vr = l
  <1>12. Agree(W, mv2)
    <2>1. ASSUME NEW i \in DOMAIN W, W[i].vr + 1 \in DOMAIN mv2[W[i].type]
          PROVE  mv2[W[i].type][W[i].vr + 1] = LeafOf(W[i])
      <3>1. W[i].vr \in Nat /\ W[i].type \in FmiTypes
        BY VariableTypes
      <3>2. CASE W[i].type # type
        <4>1. mv2[W[i].type] = mv[W[i].type]
          BY <1>0, <3>1, <3>2
        <4> QED
          BY <2>1, <4>1 DEF Agree
      <3>3. CASE W[i].type = type /\ W[i].vr = l
        BY <1>7, <1>8, <1>11, <3>3
      <3>4. CASE W[i].type = type /\ W[i].vr # l
        <4>1. W[i].vr + 1 \in 1 .. l
          BY ONLY <1>8, <2>1, <3>1, <3>4
        <4>2. mv[type][W[i].vr + 1] = LeafOf(W[i])
          BY <1>8, <3>4, <4>1 DEF Agree
        <4> QED
          BY <1>8, <3>4, <4>1, <4>2
      <3> QED
        BY <3>2, <3>3, <3>4
    <2>2. ASSUME NEW t \in FmiTypes
          PROVE  Len(mv2[t]) <= Count(W, t)
      <3>1. CASE t # type
        <4>1. mv2[t] = mv[t]
          BY <1>0, <3>1
        <4> QED
          BY <4>1 DEF Agree
      <3>2. CASE t = type
        <4>1. /\ l < Count(W, type) /\ Count(W, type) \in Nat
          BY <1>6, <1>10 DEF Numbered
        <4> QED
          BY ONLY <1>8, <3>2, <4>1
      <3> QED
        BY <3>1, <3>2
    <2> QED
      BY <2>1, <2>2 DEF Agree
  <1>13. ASSUME NEW i \in DOMAIN W
         PROVE  (W[i].vr < Len(mv2[W[i].type]))
                  <=> SDP!Passed(P[i], loop, e, n + 1, q)
    <2>1. W[i].vr \in Nat /\ W[i].type \in FmiTypes
      BY VariableTypes
    <2>2. P[i] \in SDP!Leaves(m)
      BY <1>1 DEF SDP!Describes
    <2>3. SDP!Passed(P[i], loop, e, n + 1, q)
            <=> SDP!Passed(P[i], loop, e, n, q) \/ P[i] = c
      BY <1>2, <2>2 DEF SDP!Here
    <2>4. P[i] = c <=> i = s
      BY <1>1, <1>5, PlacesDiffer
    <2>5. SDP!Passed(P[i], loop, e, n + 1, q)
            <=> W[i].vr < Len(mv[W[i].type]) \/ i = s
      BY <1>1, <2>3, <2>4
    <2>6. CASE W[i].type # type
      <3>1. mv2[W[i].type] = mv[W[i].type] /\ i # s
        BY <1>0, <1>6, <2>1, <2>6
      <3> QED
        BY <2>5, <3>1
    <2>7. CASE W[i].type = type
      <3>1. i = s <=> W[i].vr = l
        BY <1>10, <1>11, <2>7
      <3>2. W[i].vr < l + 1 <=> W[i].vr < l \/ W[i].vr = l
        BY ONLY <1>8, <2>1
      <3> QED
        BY <1>8, <2>5, <2>7, <3>1, <3>2 DEF l
    <2> QED
      BY <2>6, <2>7
  <1>14. Follows(W, m, mv2, loop, e, n + 1, K)
    BY <1>1, <1>13 DEF Follows
  <1> QED
    BY <1>12, <1>14

\* At the end of the walk every reference has been filled.
LEMMA FollowingEnds ==
  ASSUME NEW m \in Mapping, NEW W \in Seq(SDP!SignalInfo), Numbered(W),
         NEW mv \in [FmiTypes -> Seq(Visitor)], NEW e, NEW n,
         Follows(W, m, mv, 3, e, n, <<>>), Agree(W, mv)
  PROVE  /\ \A i \in DOMAIN W :
              /\ W[i].vr + 1 \in DOMAIN mv[W[i].type]
              /\ mv[W[i].type][W[i].vr + 1] = LeafOf(W[i])
         /\ \A t \in FmiTypes : Len(mv[t]) = Count(W, t)
  <1>1. PICK P, q :
          /\ SDP!Describes(W, P, m)
          /\ SDP!Queued(m, 3, e, q, <<>>)
          /\ \A i \in DOMAIN W : (W[i].vr < Len(mv[W[i].type]))
                                   <=> SDP!Passed(P[i], 3, e, n, q)
    BY DEF Follows
  <1>2. \A p \in SDP!Leaves(m) : SDP!Passed(p, 3, e, n, q)
    <2>1. m \in SDP!Mapping
      BY SameWords
    <2> QED
      BY <1>1, <2>1, SameAssumption, SDP!WalkEnds
  <1>3. P \in [DOMAIN W -> SDP!Leaves(m)]
    BY <1>1 DEF SDP!Describes
  <1>4. \A i \in DOMAIN W : W[i].vr < Len(mv[W[i].type])
    BY <1>1, <1>2, <1>3
  <1>5. ASSUME NEW i \in DOMAIN W
        PROVE  W[i].vr + 1 \in DOMAIN mv[W[i].type]
    <2>1. W[i].vr \in Nat /\ mv[W[i].type] \in Seq(Visitor)
      BY VariableTypes
    <2> QED
      BY <1>4, <2>1, LenProperties
  <1>6. ASSUME NEW t \in FmiTypes
        PROVE  Len(mv[t]) = Count(W, t)
    <2>1. /\ Len(mv[t]) \in Nat /\ Count(W, t) \in Nat
          /\ Len(mv[t]) <= Count(W, t)
      BY LenProperties DEF Agree, Numbered
    <2>2. ASSUME Len(mv[t]) < Count(W, t) PROVE FALSE
      <3>1. Len(mv[t]) \in 0 .. Count(W, t) - 1
        BY <2>1, <2>2
      <3>2. PICK i \in DOMAIN W : W[i].type = t /\ W[i].vr = Len(mv[t])
        BY <3>1 DEF Numbered
      <3> QED
        BY <1>4, <2>1, <3>2
    <2> QED
      BY <2>1, <2>2
  <1> QED
    BY <1>5, <1>6 DEF Agree
-----------------------------------------------------------------------------
(* The walk of reset, in an instance built from the file the description   *)
(* was written from.                                                       *)

DirectionLoop(c) == IF c = "Read" THEN 1 ELSE IF c = "Write" THEN 2 ELSE 3

\* A description W that has been written for the file m.
Imported(m, W) ==
  /\ m \in Mapping
  /\ W \in Seq(SDP!SignalInfo)
  /\ SDP!Lists(W, m)
  /\ Numbered(W)

\* What a mapper at c has done with file m, for a simulator that imported W.
Built(W, m, c, mv, e, n, K) ==
  /\ Agree(W, mv)
  /\ c \in Direction \union {"ready"} =>
       Follows(W, m, mv, DirectionLoop(c), e, n, K)
  /\ c = "ready" => K = <<>>

\* The loops of reset are numbered as those of generate_xml.
LEMMA DirectionFacts ==
  /\ DirectionLoop("Read") = 1 /\ DirectionLoop("Write") = 2
  /\ DirectionLoop("Parameter") = 3 /\ DirectionLoop("ready") = 3
  /\ \A c \in Direction :
       /\ DirectionLoop(c) \in 1 .. 3
       /\ direction(SDP!Causality(DirectionLoop(c))) = c
       /\ DirectionLoop(c) = 3 <=> c = "Parameter"
       /\ c # "ready"
  BY DEF DirectionLoop, Direction, direction, SDP!Causality

\* The two switches over the kinds are the same.
LEMMA SwitchesAgree ==
  ASSUME NEW kind
  PROVE  has_visitor(resolve_type(kind), kind)
           <=> resolve_type(kind) \in FmiTypes
  BY DEF has_visitor, resolve_type, FmiTypes

\* What add works on, in the terms of the walk.
LEMMA AddingIsWalked ==
  ASSUME TypeOK, AddingOK, node # 0
  PROVE  /\ pc \in Direction
         /\ Adding = SDP!Adds(signal_mapping, DirectionLoop(pc), element,
                              m_potential_keys)
         /\ SDP!Busy(signal_mapping, DirectionLoop(pc), element,
                     m_potential_keys)
         /\ pc \in {"Read", "Write"} =>
              Elements = SDP!ElementsIn(signal_mapping, DirectionLoop(pc))
  <1>1. pc \in Direction
    BY AddingIsKnown DEF AddingOK
  <1>2. CASE pc \in {"Read", "Write"}
    <2>1. /\ DirectionLoop(pc) \in 1 .. 2 /\ DirectionLoop(pc) # 3
          /\ Elements = SDP!ElementsIn(signal_mapping, DirectionLoop(pc))
      BY <1>2 DEF DirectionLoop, Elements, SDP!ElementsIn
    <2>2. element \in DOMAIN Elements /\ SDP!Readable(Elements[element])
      BY <1>2, SameWords DEF AddingOK
    <2> QED
      BY <1>1, <1>2, <2>1, <2>2 DEF Adding, SDP!Adds, SDP!Busy
  <1>3. CASE pc = "Parameter"
    BY <1>1, <1>3, DirectionFacts
       DEF AddingOK, Adding, SDP!Adds, SDP!Busy
  <1> QED
    BY <1>1, <1>2, <1>3 DEF Direction

\* clear() has emptied the vectors.
LEMMA NothingBuilt ==
  ASSUME NEW m, NEW W, Imported(m, W), NEW mv,
         \A t \in FmiTypes : mv[t] = <<>>
  PROVE  /\ Built(W, m, "Read", mv, 1, 0, <<>>)
         /\ \A c, e, n, K : c \notin Direction \union {"ready"} =>
              Built(W, m, c, mv, e, n, K)
  <1>1. Agree(W, mv)
    <2>1. \A i \in DOMAIN W : mv[W[i].type] = <<>> /\ W[i].vr \in Nat
      BY VariableTypes DEF Imported
    <2>2. DOMAIN <<>> = {} /\ Len(<<>>) = 0
      OBVIOUS
    <2>3. \A t \in FmiTypes : Count(W, t) \in Nat
      BY DEF Imported, Numbered
    <2> QED
      BY <2>1, <2>2, <2>3 DEF Agree
  <1>2. Follows(W, m, mv, 1, 1, 0, <<>>)
    BY FollowingBegins DEF Imported
  <1> QED
    BY <1>1, <1>2, DirectionFacts DEF Built

\* A reset that has thrown leaves what it has built.
LEMMA FailureBuilt ==
  ASSUME NEW W, NEW m, NEW c, NEW mv, NEW e, NEW n, NEW K,
         Built(W, m, c, mv, e, n, K)
  PROVE  Built(W, m, "failed", mv, e, n, K)
  BY DEF Built, Direction

\* The start of an add passes no leaf.
LEMMA BeginAddBuilt ==
  ASSUME NEW W, NEW m, Imported(m, W), Inv, BeginAdd,
         Built(W, m, pc, m_visitors, element, node, m_potential_keys)
  PROVE  Built(W, m, pc', m_visitors', element', node', m_potential_keys')
  <1>1. /\ pc \in Direction /\ node = 0 /\ node' = 1
        /\ UNCHANGED <<pc, element, m_potential_keys, m_visitors>>
    BY DEF BeginAdd, AtAdd, Direction
  <1>2. Follows(W, m, m_visitors, DirectionLoop(pc), element, 0,
                m_potential_keys)
    BY <1>1 DEF Built
  <1>3. \A q, p : p \in SDP!Leaves(m) =>
          (SDP!Passed(p, DirectionLoop(pc), element, 1, q)
             <=> SDP!Passed(p, DirectionLoop(pc), element, 0, q))
    <2>1. m \in SDP!Mapping
      BY SameWords DEF Imported
    <2> QED
      BY <2>1, SameAssumption, SDP!AddWalked
  <1>4. Follows(W, m, m_visitors, DirectionLoop(pc), element, 1,
                m_potential_keys)
    BY <1>2, <1>3, NothingFollowed
  <1> QED
    BY <1>1, <1>4, DirectionFacts DEF Built

\* The callback binds a visitor just when it passes a leaf, and the right one.
LEMMA VisitBuilt ==
  ASSUME NEW W, NEW m, Imported(m, W), Inv, Visit, m = signal_mapping,
         Built(W, m, pc, m_visitors, element, node, m_potential_keys)
  PROVE  Built(W, m, pc', m_visitors', element', node', m_potential_keys')
  <1> DEFINE leaf == Nodes[Adding.type][node]
             type == resolve_type(leaf.kind)
             bound == /\ Selected(leaf, pc = "Parameter")
                      /\ has_visitor(type, leaf.kind)
  <1>1. /\ TypeOK /\ AddingOK /\ node # 0 /\ node \in Nat \ {0}
        /\ element \in Nat /\ m_potential_keys \in Seq(Couple)
        /\ m_visitors \in [FmiTypes -> Seq(Visitor)]
        /\ node' = node + 1
        /\ node <= Len(Nodes[Adding.type])
        /\ UNCHANGED <<pc, element, m_potential_keys>>
    BY DEF Visit, Inv, TypeOK
  <1>2. /\ pc \in Direction
        /\ Adding = SDP!Adds(m, DirectionLoop(pc), element, m_potential_keys)
        /\ SDP!Busy(m, DirectionLoop(pc), element, m_potential_keys)
    BY <1>1, AddingIsWalked
  <1>3. AddingKey \in StoreKey /\ Nodes[Adding.type] \in Seq(Node)
    BY <1>1, AddingIsKnown DEF AddingOK
  <1>4. node \in DOMAIN Nodes[Adding.type]
    BY <1>1, <1>3, LenProperties
  <1>5. /\ DirectionLoop(pc) \in 1 .. 3 /\ pc # "ready"
        /\ direction(SDP!Causality(DirectionLoop(pc))) = pc
        /\ DirectionLoop(pc) = 3 <=> pc = "Parameter"
    BY <1>2, DirectionFacts
  <1>6. PICK loop \in 1 .. 3, e \in Nat :
          loop = DirectionLoop(pc) /\ e = element
    BY <1>1, <1>5
  <1>7. PICK n \in Nat \ {0} : n = node
    BY <1>1
  <1>8. PICK K \in Seq(Couple) : K = m_potential_keys
    BY <1>1
  <1>9. PICK mv \in [FmiTypes -> Seq(Visitor)] : mv = m_visitors
    BY <1>1
  <1>10. PICK x : x = leaf
    OBVIOUS
  <1>11. /\ Follows(W, m, mv, loop, e, n, K) /\ Agree(W, mv)
         /\ SDP!Busy(m, loop, e, K)
         /\ x = Nodes[SDP!Adds(m, loop, e, K).type][n]
         /\ n \in DOMAIN Nodes[SDP!Adds(m, loop, e, K).type]
    BY <1>2, <1>4, <1>6, <1>7, <1>8, <1>9, <1>10 DEF Built
  <1>12. bound <=> IsLeaf(x, loop)
    BY <1>5, <1>6, <1>10, SwitchesAgree DEF IsLeaf
  <1>13. m \in Mapping /\ W \in Seq(SDP!SignalInfo) /\ Numbered(W)
    BY DEF Imported
  <1>14. Follows(W, m, m_visitors', loop, e, n + 1, K)
           /\ Agree(W, m_visitors')
    <2>1. CASE bound
      <3>1. PICK t \in FmiTypes : t = resolve_type(x.kind)
        BY <1>12, <2>1 DEF IsLeaf
      <3>2. PICK v \in Visitor : v = [key |-> AddingKey, node |-> n]
        BY <1>3 DEF Visitor
      <3>3. v = [key |-> [topic |-> SDP!Adds(m, loop, e, K).topic,
                          direction |-> direction(SDP!Causality(loop))],
                 node |-> n]
        BY <1>2, <1>5, <1>6, <1>8, <3>2 DEF AddingKey
      <3>4. m_visitors' = [mv EXCEPT ![t] = Append(mv[t], v)]
        BY <1>7, <1>9, <1>10, <2>1, <3>1, <3>2 DEF Visit
      <3>5. Append(mv[t], v) \in Seq(Visitor)
        <4>1. mv[t] \in Seq(Visitor)
          OBVIOUS
        <4> QED
          BY <4>1, AppendProperties
      <3>6. PICK mv2 \in [FmiTypes -> Seq(Visitor)] : mv2 = m_visitors'
        BY <3>4, <3>5
      <3>7. /\ mv2[t] = Append(mv[t], v)
            /\ \A u \in FmiTypes \ {t} : mv2[u] = mv[u]
        BY <3>4, <3>6
      <3>8. IsLeaf(x, loop)
        BY <1>12, <2>1
      <3>9. Binds(m, loop, e, n, K, x, t, v, mv, mv2)
        BY <1>11, <3>1, <3>3, <3>7, <3>8 DEF Binds
      <3>10. Follows(W, m, mv2, loop, e, n + 1, K) /\ Agree(W, mv2)
        BY ONLY <1>11, <1>13, <3>9, LeafFollowed,
                loop \in 1 .. 3, e \in Nat, n \in Nat \ {0},
                K \in Seq(Couple), mv \in [FmiTypes -> Seq(Visitor)],
                mv2 \in [FmiTypes -> Seq(Visitor)], t \in FmiTypes,
                v \in Visitor
      <3> QED
        BY <3>6, <3>10
    <2>2. CASE ~bound
      <3>1. m_visitors' = mv
        BY <1>9, <2>2 DEF Visit
      <3>2. ~IsLeaf(x, loop)
        BY <1>12, <2>2
      <3>3. Follows(W, m, mv, loop, e, n + 1, K)
        BY ONLY <1>11, <1>13, <3>2, NoLeafFollowed,
                loop \in 1 .. 3, e \in Nat, n \in Nat \ {0},
                K \in Seq(Couple)
      <3> QED
        BY <1>11, <3>1, <3>3
    <2> QED
      BY <2>1, <2>2
  <1> QED
    BY <1>1, <1>5, <1>6, <1>7, <1>8, <1>14 DEF Built
\* The end of an add passes no leaf.
LEMMA EndAddBuilt ==
  ASSUME NEW W, NEW m, Imported(m, W), Inv, EndAdd, m = signal_mapping,
         Built(W, m, pc, m_visitors, element, node, m_potential_keys)
  PROVE  Built(W, m, pc', m_visitors', element', node', m_potential_keys')
  <1>1. /\ TypeOK /\ AddingOK /\ node \in Nat /\ node # 0 /\ element \in Nat
        /\ m_potential_keys \in Seq(Couple)
        /\ node > Len(Nodes[Adding.type]) /\ node' = 0
        /\ UNCHANGED <<pc, m_visitors>>
    BY DEF EndAdd, Inv, TypeOK
  <1>2. /\ pc \in Direction
        /\ Adding = SDP!Adds(m, DirectionLoop(pc), element, m_potential_keys)
        /\ SDP!Busy(m, DirectionLoop(pc), element, m_potential_keys)
    BY <1>1, AddingIsWalked
  <1>3. PICK e \in Nat, n \in Nat : e = element /\ n = node
    BY <1>1
  <1>4. PICK K \in Seq(Couple) : K = m_potential_keys
    BY <1>1
  <1>5. Follows(W, m, m_visitors, DirectionLoop(pc), e, n, K)
    BY <1>2, <1>3, <1>4 DEF Built
  <1>6. m \in SDP!Mapping /\ K \in Seq(SDP!Couple)
    BY SameWords DEF Imported
  <1>7. Follows(W, m, m_visitors, DirectionLoop(pc), element', 0,
                m_potential_keys')
    <2>1. CASE pc \in {"Read", "Write"}
      <3>1. PICK loop \in 1 .. 2 : loop = DirectionLoop(pc)
        BY <2>1, DirectionFacts
      <3>2. Adding = SDP!ElementsIn(m, loop)[e] /\ SDP!Busy(m, loop, e, K)
        BY <1>2, <1>3, <1>4, <3>1 DEF SDP!Adds
      <3>3. /\ loop = 1 <=> pc = "Read"
            /\ loop = 1 => SDP!ElementsIn(m, loop) = m.fmu_out
        BY <2>1, <3>1, DirectionFacts DEF SDP!ElementsIn
      <3>4. PICK L : L = m_potential_keys'
        OBVIOUS
      <3>5. element' = e + 1 /\ L = SDP!Enqueued(m, loop, e, K)
        BY <1>3, <1>4, <2>1, <3>2, <3>3, <3>4 DEF EndAdd, SDP!Enqueued
      <3>6. \A q : SDP!Queued(m, loop, e, q, K) =>
              \E r : /\ SDP!Queued(m, loop, e + 1, r, L)
                     /\ \A p \in SDP!Leaves(m) :
                          SDP!Passed(p, loop, e + 1, 0, r)
                            <=> SDP!Passed(p, loop, e, n, q)
        <4>1. n > Len(Nodes[SDP!ElementsIn(m, loop)[e].type])
          BY <1>1, <1>3, <3>2
        <4> QED
          BY ONLY <1>6, <3>2, <3>5, <4>1, SameAssumption, SDP!ElementWalked,
                  loop \in 1 .. 2, e \in Nat, n \in Nat
      <3>7. Follows(W, m, m_visitors, loop, e, n, K)
        BY <1>5, <3>1
      <3>8. Follows(W, m, m_visitors, loop, e + 1, 0, L)
        BY <3>6, <3>7, NothingFollowed
      <3> QED
        BY <3>1, <3>4, <3>5, <3>8
    <2>2. CASE pc = "Parameter"
      <3>1. /\ K # <<>> /\ m_potential_keys' = Tail(K) /\ element' = e
            /\ DirectionLoop(pc) = 3
        BY <1>1, <1>3, <1>4, <2>2, DirectionFacts DEF AddingOK, EndAdd
      <3>2. n > Len(Nodes[Head(K).type])
        BY <1>1, <1>3, <1>4, <2>2 DEF Adding
      <3>3. \A q : SDP!Queued(m, 3, e, q, K) =>
              \E r : /\ SDP!Queued(m, 3, e, r, Tail(K))
                     /\ \A p \in SDP!Leaves(m) :
                          SDP!Passed(p, 3, e, 0, r)
                            <=> SDP!Passed(p, 3, e, n, q)
        BY ONLY <1>6, <3>1, <3>2, SameAssumption, SDP!ParameterWalked,
                n \in Nat
      <3>4. Follows(W, m, m_visitors, 3, e, n, K)
        BY <1>5, <3>1
      <3>5. Follows(W, m, m_visitors, 3, e, 0, Tail(K))
        BY <3>3, <3>4, NothingFollowed
      <3> QED
        BY <3>1, <3>5
    <2> QED
      BY <1>2, <2>1, <2>2 DEF Direction
  <1>8. pc # "ready"
    BY <1>2, DirectionFacts
  <1> QED
    BY <1>1, <1>7, <1>8 DEF Built

\* From one loop to the next no leaf is passed.
LEMMA NextLoopBuilt ==
  ASSUME NEW W, NEW m, Imported(m, W), Inv, NextLoop, m = signal_mapping,
         Built(W, m, pc, m_visitors, element, node, m_potential_keys)
  PROVE  Built(W, m, pc', m_visitors', element', node', m_potential_keys')
  <1>1. /\ pc \in Direction /\ node = 0 /\ element \in Nat
        /\ m_potential_keys \in Seq(Couple)
        /\ UNCHANGED <<node, m_visitors, m_potential_keys>>
    BY DEF NextLoop, Direction, Inv, TypeOK
  <1>2. PICK e \in Nat : e = element
    BY <1>1
  <1>3. PICK K \in Seq(Couple) : K = m_potential_keys
    BY <1>1
  <1>4. Follows(W, m, m_visitors, DirectionLoop(pc), e, 0, K)
    BY <1>1, <1>2, <1>3 DEF Built
  <1>5. m \in SDP!Mapping /\ K \in Seq(SDP!Couple)
    BY SameWords DEF Imported
  <1>6. /\ Follows(W, m, m_visitors, DirectionLoop(pc'), element', 0, K)
        /\ pc' = "ready" => K = <<>>
    <2>1. CASE pc \in {"Read", "Write"}
      <3>1. PICK loop \in 1 .. 2 : loop = DirectionLoop(pc)
        BY <2>1, DirectionFacts
      <3>2. /\ Elements = SDP!ElementsIn(m, loop)
            /\ DirectionLoop(pc') = loop + 1
            /\ pc' # "ready"
        BY <2>1, <3>1 DEF NextLoop, DirectionLoop, Elements, SDP!ElementsIn
      <3>3. element' = 1 /\ e > Len(SDP!ElementsIn(m, loop))
        BY <1>2, <2>1, <3>2 DEF NextLoop
      <3>4. Follows(W, m, m_visitors, loop, e, 0, K)
        BY <1>4, <3>1
      <3>5. \A q : SDP!Queued(m, loop, e, q, K) =>
              /\ SDP!Queued(m, loop + 1, 1, q, K)
              /\ \A p \in SDP!Leaves(m) :
                   SDP!Passed(p, loop + 1, 1, 0, q)
                     <=> SDP!Passed(p, loop, e, 0, q)
        BY ONLY <1>5, <3>3, SameAssumption, SDP!LoopWalked,
                loop \in 1 .. 2, e \in Nat
      <3>6. Follows(W, m, m_visitors, loop + 1, 1, 0, K)
        BY <3>4, <3>5, NothingFollowed
      <3> QED
        BY <3>2, <3>3, <3>6
    <2>2. CASE pc = "Parameter"
      <3>1. /\ pc' = "ready" /\ element' = e /\ K = <<>>
            /\ DirectionLoop(pc') = DirectionLoop(pc)
        BY <1>2, <1>3, <2>2, DirectionFacts DEF NextLoop
      <3> QED
        BY <1>4, <3>1
    <2> QED
      BY <1>1, <2>1, <2>2 DEF Direction
  <1> QED
    BY <1>1, <1>3, <1>6 DEF Built

\* A step of reset goes on as the description expects it.
LEMMA ResetStepBuilt ==
  ASSUME NEW W, NEW m, Imported(m, W), Inv, m = signal_mapping,
         Reject \/ Duplicate \/ BeginAdd \/ Visit \/ EndAdd \/ NextLoop,
         Built(W, m, pc, m_visitors, element, node, m_potential_keys)
  PROVE  Built(W, m, pc', m_visitors', element', node', m_potential_keys')
  <1>1. CASE Reject \/ Duplicate
    <2>1. /\ pc' = "failed"
          /\ UNCHANGED <<element, node, m_potential_keys, m_visitors>>
      BY <1>1 DEF Reject, Duplicate
    <2> QED
      BY <2>1, FailureBuilt
  <1> QED
    BY <1>1, BeginAddBuilt, VisitBuilt, EndAddBuilt, NextLoopBuilt
-----------------------------------------------------------------------------
(* The system.                                                             *)

\* What a simulator has imported is a description of the file it names.
ModelOK == model # <<>> => Imported(model[1].guid, model[1].variables)

\* An instance that has read that file builds what the description names.
InstanceOK ==
  (alive /\ signal_mapping = model[1].guid /\ ~stale) =>
    Built(model[1].variables, model[1].guid, pc, m_visitors, element, node,
          m_potential_keys)

SInv ==
  /\ SDP!WInv
  /\ Inv
  /\ ModelOK
  /\ alive => model # <<>>
  /\ InstanceOK

\* A description that has been written can be imported.
LEMMA WrittenIsImported ==
  ASSUME SDP!WInv, sd_pc = "written"
  PROVE  Imported(sd_mapping, sd_signals)
  <1>1. /\ sd_mapping \in Mapping
        /\ sd_signals \in Seq(SDP!SignalInfo)
        /\ sd_idx \in [FmiTypes -> Nat]
    BY SameWords DEF SDP!WInv, SDP!Inv, SDP!TypeOK
  <1>2. SDP!Lists(sd_signals, sd_mapping)
    <2>1. SDP!Walked
      BY DEF SDP!WInv
    <2>2. SDP!Walks(sd_signals, sd_mapping, 3, sd_element, sd_node, <<>>)
      BY <2>1, SameAssumption, SDP!LoopFacts DEF SDP!Walked
    <2>3. sd_mapping \in SDP!Mapping
      BY <1>1, SameWords
    <2> QED
      BY <2>2, <2>3, SameAssumption, SDP!WalkIsComplete
  <1>3. \A t \in FmiTypes : Count(sd_signals, t) = sd_idx[t]
    <2>1. SDP!Counts(sd_signals, sd_idx)
      BY DEF SDP!WInv
    <2> QED
      BY <2>1, SameWords, SameCardinality DEF SDP!Counts, Count
  <1>4. Numbered(sd_signals)
    <2>1. SDP!DenseReferences
      BY DEF SDP!WInv, SDP!Inv
    <2>2. \A i \in DOMAIN sd_signals : sd_signals[i].type \in FmiTypes
      BY <1>1, VariableTypes
    <2> QED
      BY <1>1, <1>3, <2>1, <2>2, SameWords DEF Numbered, SDP!DenseReferences
  <1> QED
    BY <1>1, <1>2, <1>4 DEF Imported

\* A new mapper, as Instantiate and Free leave it.
LEMMA NewMapperInv ==
  ASSUME signal_mapping' \in Mapping,
         pc' \in Direction \union {"start", "ready", "failed"},
         element' = 1, node' = 0, m_potential_keys' = <<>>,
         m_offsets' = Empty, m_visitors' = [t \in FmiTypes |-> <<>>],
         m_data_store' = Empty
  PROVE  Inv'
  <1>1. TypeOK'
    BY DEF TypeOK, Empty, Visitor
  <1>. QED
    BY <1>1 DEF Inv, AddingOK, AddingIsStored, BoundBefore,
                VisitorsAreBound, OneReferencePerLeaf

\* At first there is neither a description nor an instance.
LEMMA SystemInitInv == SystemInit => SInv
  <1> SUFFICES ASSUME SystemInit PROVE SInv
    OBVIOUS
  <1>1. SDP!WInv
    <2>1. SDP!Init
      BY SameInit DEF SystemInit
    <2> QED
      BY <2>1, SameAssumption, SDP!InitInv, SDP!InitWalked DEF SDP!WInv
  <1>2. Inv
    BY InitInv DEF SystemInit
  <1> QED
    BY <1>1, <1>2 DEF SystemInit, SInv, ModelOK, InstanceOK

\* The repacker does not touch what the simulator has imported.
LEMMA RepackSInv ==
  ASSUME SInv, Repack
  PROVE  SInv'
  <1>1. SDP!WInv'
    BY SameNext, SameAssumption, SDP!StepWInv DEF Repack, SInv
  <1>2. Inv'
    BY StepInv DEF Repack, SInv
  <1> QED
    BY <1>1, <1>2 DEF Repack, SInv, ModelOK, InstanceOK

\* A step that leaves the repacker alone.
LEMMA RepackerRests ==
  ASSUME SDP!WInv, UNCHANGED sd_vars
  PROVE  SDP!WInv'
  BY SameAssumption, SDP!StepWInv DEF sd_vars, SDP!vars

\* What is imported is the description just written.
LEMMA ImportSInv ==
  ASSUME SInv, Import
  PROVE  SInv'
  <1>1. SDP!WInv'
    BY RepackerRests DEF Import, SInv
  <1>2. Inv'
    BY StepInv DEF Import, SInv
  <1>3. ModelOK'
    <2>1. /\ model'[1].guid = sd_mapping
          /\ model'[1].variables = sd_signals
      BY DEF Import
    <2> QED
      BY <2>1, WrittenIsImported DEF Import, SInv, ModelOK
  <1> QED
    BY <1>1, <1>2, <1>3 DEF Import, SInv, InstanceOK

\* A new instance begins its walk of the file it was compared with.
LEMMA InstantiateSInv ==
  ASSUME SInv, Instantiate
  PROVE  SInv'
  <1>1. SDP!WInv'
    BY RepackerRests DEF Instantiate, SInv
  <1>2. Imported(model[1].guid, model[1].variables)
    BY DEF Instantiate, SInv, ModelOK
  <1>3. Inv'
    BY <1>2, NewMapperInv DEF Instantiate, Imported, Direction
  <1>4. InstanceOK'
    <2>1. PICK m, W : m = model[1].guid /\ W = model[1].variables
      OBVIOUS
    <2>2. PICK mv : mv = m_visitors'
      OBVIOUS
    <2>3. \A t \in FmiTypes : mv[t] = <<>>
      BY <2>2 DEF Instantiate
    <2>4. Built(W, m, "Read", mv, 1, 0, <<>>)
      BY <1>2, <2>1, <2>3, NothingBuilt
    <2> QED
      BY <2>1, <2>2, <2>4 DEF Instantiate, InstanceOK
  <1> QED
    BY <1>1, <1>2, <1>3, <1>4 DEF Instantiate, SInv, ModelOK

\* A reset with an empty queue begins the walk anew.
LEMMA fmi2ResetSInv ==
  ASSUME SInv, fmi2Reset
  PROVE  SInv'
  <1>1. SDP!WInv'
    BY RepackerRests DEF fmi2Reset, SInv
  <1>2. Inv'
    BY StepInv DEF fmi2Reset, SInv, Next
  <1>3. Imported(model[1].guid, model[1].variables)
    BY DEF fmi2Reset, SInv, ModelOK
  <1>4. InstanceOK'
    <2> SUFFICES ASSUME ~stale'
                 PROVE  Built(model[1].variables, model[1].guid, pc',
                              m_visitors', element', node',
                              m_potential_keys')
      BY DEF InstanceOK, fmi2Reset
    <2>1. PICK m, W : m = model[1].guid /\ W = model[1].variables
      OBVIOUS
    <2>2. PICK mv : mv = m_visitors'
      OBVIOUS
    <2>3. \A t \in FmiTypes : mv[t] = <<>>
      BY <2>2 DEF fmi2Reset, Reset
    <2>4. /\ m_potential_keys' = <<>> /\ element' = 1 /\ node' = 0
          /\ pc' = "Read" \/ pc' = "failed"
      BY DEF fmi2Reset, Reset
    <2>5. /\ Built(W, m, "Read", mv, 1, 0, <<>>)
          /\ "failed" \notin Direction \union {"ready"} =>
               Built(W, m, "failed", mv, 1, 0, <<>>)
      BY <1>3, <2>1, <2>3, NothingBuilt
    <2> QED
      BY <2>1, <2>2, <2>4, <2>5 DEF Direction
  <1> QED
    BY <1>1, <1>2, <1>3, <1>4 DEF fmi2Reset, SInv, ModelOK

\* reset goes on with its walk.
LEMMA ResetStepSInv ==
  ASSUME SInv, ResetStep
  PROVE  SInv'
  <1>1. SDP!WInv'
    BY RepackerRests DEF ResetStep, SInv
  <1>2. Inv'
    BY StepInv DEF ResetStep, SInv, Next
  <1>3. UNCHANGED signal_mapping
    BY DEF ResetStep, Reject, Duplicate, BeginAdd, Visit, EndAdd, NextLoop
  <1>4. InstanceOK'
    <2> SUFFICES ASSUME ~stale, signal_mapping = model[1].guid
                 PROVE  Built(model[1].variables, model[1].guid, pc',
                              m_visitors', element', node',
                              m_potential_keys')
      BY <1>3 DEF InstanceOK, ResetStep
    <2>1. PICK m, W : m = model[1].guid /\ W = model[1].variables
      OBVIOUS
    <2>2. Imported(m, W)
      BY <2>1 DEF ResetStep, SInv, ModelOK
    <2>3. Built(W, m, pc, m_visitors, element, node, m_potential_keys)
      BY <2>1 DEF ResetStep, SInv, InstanceOK
    <2>4. /\ Inv /\ m = signal_mapping
          /\ Reject \/ Duplicate \/ BeginAdd \/ Visit \/ EndAdd \/ NextLoop
      BY <2>1 DEF ResetStep, SInv
    <2> QED
      BY <2>1, <2>2, <2>3, <2>4, ResetStepBuilt
  <1> QED
    BY <1>1, <1>2, <1>4 DEF ResetStep, SInv, ModelOK

\* Without an instance nothing is claimed of its vectors.
LEMMA FreeSInv ==
  ASSUME SInv, Free
  PROVE  SInv'
  <1>1. SDP!WInv'
    BY RepackerRests DEF Free, SInv
  <1>2. Imported(model[1].guid, model[1].variables)
    BY DEF Free, SInv, ModelOK
  <1>3. Inv'
    BY <1>2, NewMapperInv DEF Free, Imported, Direction
  <1> QED
    BY <1>1, <1>2, <1>3 DEF Free, SInv, ModelOK, InstanceOK

\* Every step of the two programs keeps SInv.
LEMMA SystemStepInv == SInv /\ [SystemNext]_system_vars => SInv'
  <1> SUFFICES ASSUME SInv, [SystemNext]_system_vars PROVE SInv'
    OBVIOUS
  <1>1. CASE UNCHANGED system_vars
    <2>1. SDP!WInv'
      BY <1>1, RepackerRests DEF system_vars, SInv
    <2>2. Inv'
      BY <1>1, StepInv DEF system_vars, SInv
    <2> QED
      BY <1>1, <2>1, <2>2
         DEF system_vars, vars, SInv, ModelOK, InstanceOK
  <1>2. CASE SystemNext
    BY <1>2, RepackSInv, ImportSInv, InstantiateSInv, fmi2ResetSInv,
       ResetStepSInv, FreeSInv DEF SystemNext
  <1> QED
    BY <1>1, <1>2

\* SInv holds in every reachable state.
LEMMA SystemInvariant == SystemSpec => []SInv
  BY SystemInitInv, SystemStepInv, PTL DEF SystemSpec

(***************************************************************************)
(* Also in an instance, whose reset never compares a GUID, the members     *)
(* keep their types, each visitor is bound to a leaf of the type of its    *)
(* vector, and no leaf to two references.                                  *)
(***************************************************************************)
THEOREM InstanceIsBound ==
  SystemSpec => [](TypeOK /\ VisitorsAreBound /\ OneReferencePerLeaf)
  <1>1. SInv => TypeOK /\ VisitorsAreBound /\ OneReferencePerLeaf
    BY DEF SInv, Inv
  <1> QED
    BY <1>1, SystemInvariant, PTL

(***************************************************************************)
(* In an instance that was built from the files its description was        *)
(* written from, every value reference of the description reaches the      *)
(* leaf its variable names, and no other leaf has a reference: for all     *)
(* IDL types, mapping files and histories of the two programs.             *)
(***************************************************************************)
THEOREM Agreement == SystemSpec => []ReferencesAgree
  <1>1. SInv => ReferencesAgree
    <2> SUFFICES ASSUME SInv, alive, pc = "ready", ~stale,
                        signal_mapping = model[1].guid
                 PROVE  ReferencesAgree
      BY DEF ReferencesAgree
    <2>1. PICK W : W = model[1].variables
      OBVIOUS
    <2>2. PICK m : m = model[1].guid
      OBVIOUS
    <2>3. PICK mv \in [FmiTypes -> Seq(Visitor)] : mv = m_visitors
      BY DEF SInv, Inv, TypeOK
    <2>4. Imported(m, W)
      BY <2>1, <2>2 DEF SInv, ModelOK
    <2>5. Agree(W, mv) /\ Follows(W, m, mv, 3, element, node, <<>>)
      BY <2>1, <2>2, <2>3, DirectionFacts DEF SInv, InstanceOK, Built
    <2>6. /\ \A i \in DOMAIN W :
               /\ W[i].vr + 1 \in DOMAIN mv[W[i].type]
               /\ mv[W[i].type][W[i].vr + 1] = LeafOf(W[i])
          /\ \A t \in FmiTypes : Len(mv[t]) = Count(W, t)
      BY <2>4, <2>5, FollowingEnds DEF Imported
    <2> QED
      BY <2>1, <2>3, <2>6 DEF ReferencesAgree, Count, SDP!OfType
  <1> QED
    BY <1>1, SystemInvariant, PTL

(***************************************************************************)
(* And wherever reset has thrown: what answers, answers for the leaf the   *)
(* description names.                                                      *)
(***************************************************************************)
THEOREM PartialAgreement == SystemSpec => []PartialResetAnswersAlike
  <1>1. SInv => PartialResetAnswersAlike
    BY DEF SInv, InstanceOK, Built, Agree, PartialResetAnswersAlike
  <1> QED
    BY <1>1, SystemInvariant, PTL
=============================================================================
