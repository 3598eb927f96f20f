----------------------- MODULE SignalDistributorProofs -----------------------
(***************************************************************************)
(* Proofs about SignalDistributor for any IDL types, topics and mapping    *)
(* files.                                                                  *)
(*                                                                         *)
(* Inv adds to the three invariants of the runs what makes them inductive: *)
(* inside add there is an element, or the front of the queue, to work on;  *)
(* and while the outputs are walked each variable so far is an output that *)
(* has been counted, so that the next one gets the next index.             *)
(*                                                                         *)
(* The second half is about the walk itself, which reset of DataMapper     *)
(* makes as well: places of a mapping file and their order, what a walk    *)
(* has passed, what its queue stands for, apart from the program.  WInv    *)
(* says that the variables so far are about the leaves passed so far.      *)
(***************************************************************************)
EXTENDS SignalDistributor, SequenceTheorems, FiniteSetTheorems, TLAPS

\* add has something to work on.
AddingOK ==
  node # 0 =>
    \/ /\ pc \in {"OUTPUT", "INPUT"}
       /\ element \in DOMAIN Elements
       /\ Readable(Elements[element])
    \/ /\ pc = "PARAMETER"
       /\ m_potential_keys # <<>>

\* The outputs are counted as they are listed, before all others.
OutputsFirst ==
  AllSupported(signal_mapping) =>
    /\ m_outputs <= Len(m_signal_mapping)
    /\ pc \in {"start", "OUTPUT"} => m_outputs = Len(m_signal_mapping)
    /\ \A i \in DOMAIN m_signal_mapping :
         (m_signal_mapping[i].causality = "OUTPUT") <=> (i <= m_outputs)

Inv == TypeOK /\ AddingOK /\ DenseReferences /\ OutputsFirst

-----------------------------------------------------------------------------
\* The FMI type of a kind is one of the four, or there is none.
LEMMA ResolvedTypes ==
  ASSUME NEW kind
  PROVE  resolve_type(kind) \in FmiTypes \union {"Unknown"}
  BY DEF resolve_type, FmiTypes

\* What add works on is a topic and a type of the IDL files.
LEMMA AddingIsKnown ==
  ASSUME TypeOK, AddingOK, node # 0
  PROVE  /\ pc \in Cardinal
         /\ Adding.topic \in Topics
         /\ Adding.type \in Types
         /\ Nodes[Adding.type] \in Seq(Node)
  <1>1. CASE pc = "PARAMETER"
    <2>1. Head(m_potential_keys) \in Couple
      BY <1>1 DEF TypeOK, AddingOK
    <2>. QED
      BY <1>1, <2>1, IdlAssumption DEF Adding, Couple, Cardinal
  <1>2. CASE pc # "PARAMETER"
    <2>1. Elements \in Seq(Element)
      BY DEF TypeOK, Mapping, Elements
    <2>2. /\ pc \in {"OUTPUT", "INPUT"}
          /\ Elements[element] \in Element
          /\ Readable(Elements[element])
      BY <1>2, <2>1 DEF AddingOK
    <2>. QED
      BY <2>2, IdlAssumption DEF Adding, Element, Readable, Cardinal
  <1>. QED  BY <1>1, <1>2

\* An element of a mapping file is one.
LEMMA ElementsAreElements ==
  ASSUME TypeOK
  PROVE  /\ Elements \in Seq(Element)
         /\ Len(Elements) \in Nat
         /\ DOMAIN Elements = 1 .. Len(Elements)
  BY DEF TypeOK, Mapping, Elements

-----------------------------------------------------------------------------
\* Before generate_xml there is no variable, reference or output.
LEMMA InitInv == Init => Inv
  <1>. SUFFICES ASSUME Init PROVE Inv
    OBVIOUS
  <1>1. TypeOK
    BY IdlAssumption DEF Init, TypeOK, Cardinal
  <1>. QED
    BY <1>1 DEF Init, Inv, AddingOK, DenseReferences, OutputsFirst, FmiTypes

\* A run of the repacker starts from nothing.
LEMMA GenerateInv ==
  ASSUME Generate
  PROVE  Inv'
  <1>1. TypeOK'
    BY IdlAssumption DEF Generate, TypeOK, Cardinal
  <1>. QED
    BY <1>1 DEF Generate, Inv, AddingOK, DenseReferences, OutputsFirst, FmiTypes

(***************************************************************************)
(* A step that emits no variable keeps what Inv says about the variables,  *)
(* unless it is back at the start or among the outputs.                    *)
(***************************************************************************)
LEMMA NothingEmitted ==
  ASSUME Inv, UNCHANGED <<signal_mapping, m_idx, m_outputs, m_signal_mapping>>,
         pc' \in {"start", "OUTPUT"} => pc' = pc
  PROVE  DenseReferences' /\ OutputsFirst'
  <1>1. DenseReferences'
    BY DEF Inv, DenseReferences
  <1>2. OutputsFirst'
    BY DEF Inv, OutputsFirst, AllSupported
  <1>. QED  BY <1>1, <1>2

\* An element that is rejected emits nothing.
LEMMA RejectInv ==
  ASSUME Inv, Reject
  PROVE  Inv'
  <1>. USE DEF Reject
  <1>1. TypeOK' /\ AddingOK'
    BY DEF Inv, TypeOK, AddingOK
  <1>. QED  BY <1>1, NothingEmitted DEF Inv

\* An element that add starts on has emitted nothing yet.
LEMMA BeginAddInv ==
  ASSUME Inv, BeginAdd
  PROVE  Inv'
  <1>. USE DEF BeginAdd
  <1>1. TypeOK' /\ AddingOK'
    BY DEF Inv, TypeOK, AddingOK, Elements
  <1>. QED  BY <1>1, NothingEmitted DEF Inv

\* The end of an add emits nothing and leads to the next element.
LEMMA EndAddInv ==
  ASSUME Inv, EndAdd
  PROVE  Inv'
  <1>. USE DEF EndAdd
  <1>1. TypeOK'
    <2>1. CASE pc = "PARAMETER"
      <3>1. m_potential_keys \in Seq(Couple) /\ m_potential_keys # <<>>
        BY <2>1 DEF Inv, TypeOK, AddingOK
      <3>2. Tail(m_potential_keys) \in Seq(Couple)
        BY <3>1, HeadTailProperties
      <3>. QED  BY <2>1, <3>2 DEF Inv, TypeOK
    <2>2. CASE pc \in {"OUTPUT", "INPUT"}
      <3>. DEFINE c == [topic |-> Adding.topic, type |-> Adding.type]
      <3>1. c \in Couple
        BY AddingIsKnown DEF Inv, Couple
      <3>. HIDE DEF c
      <3>2. Append(m_potential_keys, c) \in Seq(Couple)
        BY <3>1, AppendProperties DEF Inv, TypeOK
      <3>3. m_potential_keys' \in {m_potential_keys, Append(m_potential_keys, c)}
        BY <2>2 DEF c
      <3>4. m_potential_keys' \in Seq(Couple)
        BY <3>2, <3>3 DEF Inv, TypeOK
      <3>. QED  BY <2>2, <3>4 DEF Inv, TypeOK
    <2>. QED  BY <2>1, <2>2
  <1>2. AddingOK'
    BY DEF AddingOK
  <1>. QED  BY <1>1, <1>2, NothingEmitted DEF Inv

\* From the loop over the outputs to the one over the inputs: no change.
LEMMA NextLoopInv ==
  ASSUME Inv, NextLoop
  PROVE  Inv'
  <1>. USE DEF NextLoop
  <1>1. TypeOK' /\ AddingOK'
    BY DEF Inv, TypeOK, AddingOK, Cardinal
  <1>. QED  BY <1>1, NothingEmitted DEF Inv

(***************************************************************************)
(* A leaf that is emitted gets the next reference of its FMI type and, if  *)
(* it is an output, the index it is counted under.                         *)
(***************************************************************************)
LEMMA EmitInv ==
  ASSUME Inv, NEW type \in FmiTypes, node # 0, pc \in Cardinal,
         NEW topic \in Topics,
         m_signal_mapping' =
           Append(m_signal_mapping, [vr |-> m_idx[type], topic |-> topic,
                                     node |-> node, causality |-> pc,
                                     type |-> type]),
         m_idx' = [m_idx EXCEPT ![type] = @ + 1],
         m_outputs' = IF pc = "OUTPUT" THEN m_outputs + 1 ELSE m_outputs,
         node' = node + 1,
         UNCHANGED <<signal_mapping, pc, element, m_potential_keys>>
  PROVE  TypeOK' /\ DenseReferences' /\ OutputsFirst'
  <1>. DEFINE new == [vr |-> m_idx[type], topic |-> topic, node |-> node,
                      causality |-> pc, type |-> type]
              n == Len(m_signal_mapping)
  <1>1. /\ new \in SignalInfo
        /\ new.vr = m_idx[type] /\ new.type = type /\ new.causality = pc
    BY DEF Inv, TypeOK, SignalInfo
  <1>2. m_signal_mapping' = Append(m_signal_mapping, new)
    OBVIOUS
  <1>. HIDE DEF new
  <1>3. /\ m_signal_mapping \in Seq(SignalInfo)
        /\ n \in Nat /\ n = Len(m_signal_mapping)
        /\ DOMAIN m_signal_mapping = 1 .. n
        /\ m_idx \in [FmiTypes -> Nat]
    BY DEF Inv, TypeOK
  <1>4. /\ m_signal_mapping' \in Seq(SignalInfo)
        /\ DOMAIN m_signal_mapping' = 1 .. n + 1
        /\ Len(m_signal_mapping') = n + 1
        /\ \A i \in 1 .. n : m_signal_mapping'[i] = m_signal_mapping[i]
        /\ m_signal_mapping'[n + 1] = new
    BY <1>1, <1>2, <1>3, AppendProperties
  <1>. HIDE DEF n
  <1>5. /\ m_idx' \in [FmiTypes -> Nat]
        /\ m_idx'[type] = m_idx[type] + 1
        /\ \A t \in FmiTypes \ {type} : m_idx'[t] = m_idx[t]
    BY <1>3
  <1>6. TypeOK'
    BY <1>4, <1>5 DEF Inv, TypeOK
  <1>7. DenseReferences'
    <2>. DEFINE M == m_signal_mapping
    <2>1. /\ \A i \in 1 .. n : M[i] \in SignalInfo /\ M[i].vr < m_idx[M[i].type]
          /\ \A i, j \in 1 .. n : (i < j /\ M[i].type = M[j].type)
                                    => M[i].vr < M[j].vr
          /\ \A t \in FmiTypes : \A k \in 0 .. m_idx[t] - 1 :
               \E i \in 1 .. n : M[i].type = t /\ M[i].vr = k
      <3>1. DenseReferences /\ DOMAIN M = 1 .. n
        BY <1>3 DEF Inv
      <3>2. \A i \in 1 .. n : M[i] \in SignalInfo
        BY <1>3
      <3>. QED  BY ONLY <3>1, <3>2 DEF DenseReferences
    <2>2. ASSUME NEW i \in 1 .. n + 1
          PROVE  M'[i].vr < m_idx'[M'[i].type]
      <3>1. CASE i = n + 1
        BY <3>1, <1>1, <1>3, <1>4, <1>5
      <3>2. CASE i \in 1 .. n
        BY <3>2, <2>1, <1>3, <1>4, <1>5 DEF SignalInfo
      <3>. QED  BY <3>1, <3>2, <1>3
    <2>3. ASSUME NEW i \in 1 .. n + 1, NEW j \in 1 .. n + 1, i < j,
                 M'[i].type = M'[j].type
          PROVE  M'[i].vr < M'[j].vr
      <3>1. i \in 1 .. n
        BY <2>3, <1>3
      <3>2. CASE j = n + 1
        <4>1. M[i].type = type
          BY <2>3, <3>1, <3>2, <1>1, <1>4
        <4>. QED
          BY <4>1, <3>1, <3>2, <2>1, <1>1, <1>4
      <3>3. CASE j \in 1 .. n
        BY <2>3, <3>1, <3>3, <2>1, <1>4
      <3>. QED  BY <3>2, <3>3, <1>3
    <2>4. ASSUME NEW t \in FmiTypes, NEW k \in 0 .. m_idx'[t] - 1
          PROVE  \E i \in 1 .. n + 1 : M'[i].type = t /\ M'[i].vr = k
      <3>1. CASE t = type /\ k = m_idx[type]
        BY <3>1, <1>1, <1>3, <1>4
      <3>2. CASE ~(t = type /\ k = m_idx[type])
        <4>1. k \in 0 .. m_idx[t] - 1
          BY <2>4, <3>2, <1>3, <1>5
        <4>2. PICK i \in 1 .. n : M[i].type = t /\ M[i].vr = k
          BY <4>1, <2>1
        <4>3. i \in 1 .. n + 1 /\ M'[i] = M[i]
          BY <1>3, <1>4
        <4>. QED  BY <4>2, <4>3
      <3>. QED  BY <3>1, <3>2
    <2>5. DOMAIN M' = 1 .. n + 1
      BY <1>4
    <2>. QED  BY ONLY <2>2, <2>3, <2>4, <2>5 DEF DenseReferences
  <1>8. OutputsFirst'
    <2>. SUFFICES ASSUME AllSupported(signal_mapping) PROVE OutputsFirst'
      BY DEF OutputsFirst, AllSupported
    <2>1. /\ m_outputs \in Nat /\ m_outputs <= n
          /\ pc = "OUTPUT" => m_outputs = n
      BY <1>3 DEF Inv, TypeOK, OutputsFirst
    <2>2. \A i \in 1 .. n :
            (m_signal_mapping[i].causality = "OUTPUT") <=> (i <= m_outputs)
      BY <1>3 DEF Inv, TypeOK, OutputsFirst
    <2>3. /\ m_signal_mapping'[n + 1].causality = pc
          /\ \A i \in 1 .. n :
               m_signal_mapping'[i].causality = m_signal_mapping[i].causality
      BY <1>1, <1>4
    <2>4. m_outputs' \in Nat /\ m_outputs' <= Len(m_signal_mapping')
      BY <2>1, <1>3, <1>4
    <2>5. pc' \in {"start", "OUTPUT"} => m_outputs' = Len(m_signal_mapping')
      BY <2>1, <1>4 DEF Cardinal
    <2>6. ASSUME NEW i \in 1 .. n + 1
          PROVE  (m_signal_mapping'[i].causality = "OUTPUT")
                    <=> (i <= m_outputs')
      <3>1. CASE i = n + 1
        BY <3>1, <2>1, <2>3, <1>3
      <3>2. CASE i \in 1 .. n
        BY <3>2, <2>1, <2>2, <2>3, <1>3
      <3>. QED  BY <3>1, <3>2, <1>3
    <2>7. DOMAIN m_signal_mapping' = 1 .. n + 1
      BY <1>4
    <2>. QED  BY <2>4, <2>5, <2>6, <2>7 DEF OutputsFirst
  <1>. QED  BY <1>6, <1>7, <1>8

\* The for_each callback keeps Inv.
LEMMA VisitInv ==
  ASSUME Inv, Visit
  PROVE  Inv'
  <1>. DEFINE leaf == Nodes[Adding.type][node]
              type == resolve_type(leaf.kind)
              emitted == Selected(leaf, pc = "PARAMETER") /\ type \in FmiTypes
  <1>1. /\ pc \in Cardinal /\ Adding.topic \in Topics /\ Adding.type \in Types
        /\ Nodes[Adding.type] \in Seq(Node)
        /\ node # 0 /\ node \in DOMAIN Nodes[Adding.type]
    BY AddingIsKnown DEF Inv, TypeOK, Visit
  <1>2. AddingOK'
    BY DEF Inv, TypeOK, AddingOK, Elements, Visit
  <1>3. CASE emitted
    <2>1. Selected(leaf, FALSE)
      BY <1>3 DEF Selected
    <2>2. m_outputs' = IF pc = "OUTPUT" THEN m_outputs + 1 ELSE m_outputs
      BY <2>1 DEF Visit
    <2>. QED
      BY <1>1, <1>2, <1>3, <2>2, EmitInv DEF Visit, Inv
  <1>4. CASE ~emitted
    <2>1. /\ node' = node + 1
          /\ UNCHANGED <<signal_mapping, pc, element, m_potential_keys,
                         m_signal_mapping, m_idx>>
      BY <1>4 DEF Visit, Selected
    <2>2. m_outputs' \in Nat
      BY DEF Inv, TypeOK, Visit, Selected
    <2>3. TypeOK'
      BY <2>1, <2>2 DEF Inv, TypeOK
    <2>4. DenseReferences'
      BY <2>1 DEF Inv, DenseReferences
    <2>5. AllSupported(signal_mapping) => UNCHANGED m_outputs
      <3>. SUFFICES ASSUME AllSupported(signal_mapping), pc = "OUTPUT",
                           Selected(leaf, FALSE)
                    PROVE  FALSE
        BY DEF Visit
      <3>1. type \notin FmiTypes
        BY <1>4 DEF Selected
      <3>2. type = "Unknown"
        BY <3>1, ResolvedTypes
      <3>3. /\ Elements = signal_mapping.fmu_out
            /\ element \in DOMAIN Elements
            /\ Readable(Elements[element])
            /\ Adding = Elements[element]
        BY <1>1 DEF Inv, AddingOK, Elements, Adding
      <3>. QED
        BY <1>1, <3>2, <3>3 DEF AllSupported
    <2>6. OutputsFirst'
      BY <2>1, <2>5 DEF Inv, OutputsFirst, AllSupported
    <2>. QED  BY <1>2, <2>3, <2>4, <2>6 DEF Inv
  <1>. QED  BY <1>3, <1>4

-----------------------------------------------------------------------------
\* Every step of generate_xml keeps Inv.
LEMMA StepInv == Inv /\ [Next]_vars => Inv'
  <1>. SUFFICES ASSUME Inv, [Next]_vars PROVE Inv'
    OBVIOUS
  <1>1. CASE UNCHANGED vars
    <2>1. TypeOK' /\ AddingOK'
      BY <1>1 DEF vars, Inv, TypeOK, AddingOK, Elements
    <2>. QED  BY <1>1, <2>1, NothingEmitted DEF vars, Inv
  <1>2. CASE Next
    BY <1>2, GenerateInv, RejectInv, BeginAddInv, VisitInv, EndAddInv,
       NextLoopInv DEF Next
  <1>. QED  BY <1>1, <1>2

\* Inv holds in every reachable state.
LEMMA Invariant == Spec => []Inv
  BY InitInv, StepInv, PTL DEF Spec

(***************************************************************************)
(* The state of generate_xml keeps its types: every variable it writes is  *)
(* a node of a topic's type under one of the four FMI types.               *)
(***************************************************************************)
THEOREM TypeCorrect == Spec => []TypeOK
  BY Invariant, PTL DEF Inv

(***************************************************************************)
(* SignalDistributor::add hands out the value references of each FMI type  *)
(* densely and in order, for every mapping file and all IDL types.         *)
(***************************************************************************)
THEOREM References == Spec => []DenseReferences
  BY Invariant, PTL DEF Inv

(***************************************************************************)
(* For every mapping file whose outputs all have an FMI type, the first    *)
(* outputs() variables are the outputs and the only ones.                  *)
(***************************************************************************)
THEOREM ModelStructure == Spec => []StructureListsOutputs
  <1>1. Inv => StructureListsOutputs
    BY DEF Inv, OutputsFirst, StructureListsOutputs
  <1>. QED  BY <1>1, Invariant, PTL
-----------------------------------------------------------------------------
(***************************************************************************)
(* Which variables, and in which order: the walk of a mapping file, apart  *)
(* from the program that makes it.  A place is a loop (1 outputs, 2        *)
(* inputs, 3 key parameters), an element of the file and a node of its     *)
(* type; the queue of key parameters is known by the elements it stands    *)
(* for.                                                                    *)
(***************************************************************************)
Place == [phase : 1 .. 3, element : Nat \ {0}, node : Nat \ {0}]

\* A walk that is at node n of element e of loop phase has been at p.
Before(p, phase, e, n) ==
  \/ p.phase < phase
  \/ p.phase = phase /\ p.element < e
  \/ p.phase = phase /\ p.element = e /\ p.node < n

ElementsIn(m, phase) == IF phase = 2 THEN m.fmu_in ELSE m.fmu_out

ElementAt(m, p) == ElementsIn(m, p.phase)[p.element]

NodeAt(m, p) == Nodes[ElementAt(m, p).type][p.node]

\* The leaves of the file that become variables.
Leaves(m) ==
  {p \in Place :
     /\ p.element \in DOMAIN ElementsIn(m, p.phase)
     /\ Readable(ElementAt(m, p))
     /\ p.phase = 3 => ElementAt(m, p).key_filter
     /\ p.node \in DOMAIN Nodes[ElementAt(m, p).type]
     /\ Selected(NodeAt(m, p), p.phase = 3)
     /\ resolve_type(NodeAt(m, p).kind) \in FmiTypes}

Causality(phase) == IF phase = 1 THEN "OUTPUT"
                    ELSE IF phase = 2 THEN "INPUT" ELSE "PARAMETER"

\* The variables W are about the leaves P of file m, in the order of the walk.
Describes(W, P, m) ==
  /\ P \in [DOMAIN W -> Leaves(m)]
  /\ \A i \in DOMAIN W :
       /\ W[i].topic = ElementAt(m, P[i]).topic
       /\ W[i].node = P[i].node
       /\ W[i].causality = Causality(P[i].phase)
       /\ W[i].type = resolve_type(NodeAt(m, P[i]).kind)
  /\ \A i, j \in DOMAIN W :
       i < j => Before(P[i], P[j].phase, P[j].element, P[j].node)

\* The queue K stands for the elements q with key_filter: all those before e
\* while the outputs are walked, then all, at last all that are still to come.
QueueOK(m, q, K, phase, e) ==
  /\ q \in Seq(Nat \ {0}) /\ Len(q) = Len(K)
  /\ \A i \in DOMAIN q :
       /\ q[i] \in DOMAIN m.fmu_out
       /\ m.fmu_out[q[i]].key_filter
       /\ K[i] = [topic |-> m.fmu_out[q[i]].topic,
                  type  |-> m.fmu_out[q[i]].type]
  /\ \A i, j \in DOMAIN q : i < j => q[i] < q[j]
  /\ \A x \in DOMAIN m.fmu_out :
       m.fmu_out[x].key_filter =>
         /\ phase = 1 => (x < e <=> \E i \in DOMAIN q : q[i] = x)
         /\ phase = 2 => \E i \in DOMAIN q : q[i] = x
         /\ phase > 2 => \/ \E i \in DOMAIN q : q[i] = x
                         \/ q = <<>>
                         \/ x < q[1]

\* The queue is empty when the outputs begin.
LEMMA QueueBegins ==
  ASSUME NEW m \in Mapping
  PROVE  QueueOK(m, <<>>, <<>>, 1, 1)
  <1>1. \A x \in DOMAIN m.fmu_out : ~(x < 1)
    BY DEF Mapping
  <1> QED
    BY <1>1 DEF QueueOK

\* The next output joins the queue if it has key_filter.
LEMMA QueueGrows ==
  ASSUME NEW m \in Mapping, NEW q, NEW K \in Seq(Couple),
         NEW e \in DOMAIN m.fmu_out,
         QueueOK(m, q, K, 1, e), NEW c \in Couple,
         c = [topic |-> m.fmu_out[e].topic, type |-> m.fmu_out[e].type]
  PROVE  /\ m.fmu_out[e].key_filter =>
              QueueOK(m, Append(q, e), Append(K, c), 1, e + 1)
         /\ ~m.fmu_out[e].key_filter => QueueOK(m, q, K, 1, e + 1)
  <1>0. e \in Nat \ {0} /\ DOMAIN m.fmu_out \subseteq Nat \ {0}
    BY DEF Mapping
  <1>1. \A x \in DOMAIN m.fmu_out : x < e + 1 <=> x < e \/ x = e
    BY <1>0
  <1>2. CASE ~m.fmu_out[e].key_filter
    BY <1>1, <1>2 DEF QueueOK
  <1>3. CASE m.fmu_out[e].key_filter
    <2> DEFINE r == Append(q, e)
               L == Append(K, c)
               n == Len(q)
    <2>1. /\ q \in Seq(Nat \ {0}) /\ n \in Nat /\ Len(K) = n
          /\ DOMAIN q = 1 .. n /\ DOMAIN K = 1 .. n
      BY DEF QueueOK
    <2>2. /\ r \in Seq(Nat \ {0}) /\ Len(r) = n + 1
          /\ DOMAIN r = 1 .. n + 1
          /\ \A i \in 1 .. n : r[i] = q[i]
          /\ r[n + 1] = e
      BY <1>0, <2>1, AppendProperties
    <2>3. /\ Len(L) = n + 1
          /\ \A i \in 1 .. n : L[i] = K[i]
          /\ L[n + 1] = c
      BY <2>1, AppendProperties
    <2> HIDE DEF r, L, n
    <2>4. \A i \in DOMAIN r : i \in 1 .. n \/ i = n + 1
      BY <2>1, <2>2
    <2>5. \A i \in DOMAIN r :
            /\ r[i] \in DOMAIN m.fmu_out
            /\ m.fmu_out[r[i]].key_filter
            /\ L[i] = [topic |-> m.fmu_out[r[i]].topic,
                       type  |-> m.fmu_out[r[i]].type]
      BY <1>3, <2>1, <2>2, <2>3, <2>4 DEF QueueOK
    <2>6. \A i \in 1 .. n : q[i] < e
      BY <2>1 DEF QueueOK
    <2>7. ASSUME NEW i \in DOMAIN r, NEW j \in DOMAIN r, i < j
          PROVE  r[i] < r[j]
      <3>1. i \in 1 .. n
        BY <2>1, <2>2, <2>7
      <3>2. CASE j \in 1 .. n
        BY <2>1, <2>2, <2>7, <3>1, <3>2 DEF QueueOK
      <3>3. CASE j = n + 1
        BY <2>2, <2>6, <3>1, <3>3
      <3> QED
        BY <2>4, <3>2, <3>3
    <2>8. ASSUME NEW x \in DOMAIN m.fmu_out, m.fmu_out[x].key_filter
          PROVE  x < e + 1 <=> \E i \in DOMAIN r : r[i] = x
      <3>1. x < e <=> \E i \in 1 .. n : q[i] = x
        BY <2>1, <2>8 DEF QueueOK
      <3>2. (\E i \in DOMAIN r : r[i] = x)
              <=> (x = e \/ \E i \in 1 .. n : q[i] = x)
        <4>1. 1 .. n \subseteq DOMAIN r /\ n + 1 \in DOMAIN r
          BY <2>1, <2>2
        <4> QED
          BY <2>2, <2>4, <4>1
      <3> QED
        BY <1>1, <3>1, <3>2
    <2>9. QueueOK(m, r, L, 1, e + 1)
      BY <2>2, <2>3, <2>5, <2>7, <2>8 DEF QueueOK
    <2> QED
      BY <1>3, <2>9 DEF r, L
  <1> QED
    BY <1>2, <1>3

\* All outputs have been seen; later the number of the element is no matter.
LEMMA QueueGoesOn ==
  ASSUME NEW m \in Mapping, NEW q, NEW K, NEW phase \in 1 .. 2, NEW e \in Nat,
         QueueOK(m, q, K, phase, e), phase = 1 => e > Len(m.fmu_out),
         NEW f
  PROVE  \A next \in 2 .. 4 : QueueOK(m, q, K, next, f)
  <1>1. \A x \in DOMAIN m.fmu_out : phase = 1 => x < e
    BY DEF Mapping
  <1>2. \A x \in DOMAIN m.fmu_out :
          m.fmu_out[x].key_filter => \E i \in DOMAIN q : q[i] = x
    BY <1>1 DEF QueueOK
  <1>3. \A next \in 2 .. 4 : next # 1
    OBVIOUS
  <1> QED
    BY <1>2, <1>3 DEF QueueOK

\* What is popped is behind the walk, what stays is still to come.
LEMMA QueueShrinks ==
  ASSUME NEW m \in Mapping, NEW q, NEW K \in Seq(Couple), K # <<>>, NEW e,
         QueueOK(m, q, K, 3, e), NEW f
  PROVE  \A next \in 3 .. 4 : QueueOK(m, Tail(q), Tail(K), next, f)
  <1> DEFINE r == Tail(q)
             L == Tail(K)
             n == Len(q)
  <1>1. /\ q \in Seq(Nat \ {0}) /\ n \in Nat /\ n = Len(K) /\ n > 0
        /\ DOMAIN q = 1 .. n /\ q # <<>>
    <2>1. q \in Seq(Nat \ {0}) /\ Len(q) = Len(K)
      BY DEF QueueOK
    <2>2. Len(K) # 0 /\ Len(K) \in Nat
      BY EmptySeq, LenProperties
    <2>3. q # <<>>
      BY <2>1, <2>2, EmptySeq
    <2> QED
      BY <2>1, <2>2, <2>3, LenProperties
  <1>2. /\ r \in Seq(Nat \ {0}) /\ Len(r) = n - 1
        /\ DOMAIN r = 1 .. n - 1
        /\ \A i \in 1 .. n - 1 : r[i] = q[i + 1]
    BY <1>1, HeadTailProperties
  <1>3. /\ Len(L) = n - 1
        /\ \A i \in 1 .. n - 1 : L[i] = K[i + 1]
    BY <1>1, HeadTailProperties
  <1> HIDE DEF r, L, n
  <1>4. \A i \in DOMAIN r : i + 1 \in DOMAIN q /\ r[i] = q[i + 1]
    BY <1>1, <1>2
  <1>5. \A i \in DOMAIN r :
          /\ r[i] \in DOMAIN m.fmu_out
          /\ m.fmu_out[r[i]].key_filter
          /\ L[i] = [topic |-> m.fmu_out[r[i]].topic,
                     type  |-> m.fmu_out[r[i]].type]
    BY <1>2, <1>3, <1>4 DEF QueueOK
  <1>6. ASSUME NEW i \in DOMAIN r, NEW j \in DOMAIN r, i < j
        PROVE  r[i] < r[j]
    <2>1. i + 1 < j + 1
      BY <1>1, <1>2, <1>6
    <2> QED
      BY <1>4, <2>1 DEF QueueOK
  <1>7. ASSUME NEW x \in DOMAIN m.fmu_out, m.fmu_out[x].key_filter
        PROVE  \/ \E i \in DOMAIN r : r[i] = x
               \/ r = <<>>
               \/ x < r[1]
    <2>1. (\E i \in DOMAIN q : q[i] = x) \/ x < q[1]
      BY <1>1, <1>7 DEF QueueOK
    <2>2. ASSUME r # <<>> PROVE 1 \in DOMAIN r /\ r[1] = q[2] /\ 2 \in DOMAIN q
      <3>1. Len(r) # 0
        BY <1>2, <2>2, EmptySeq
      <3> QED
        BY <1>1, <1>2, <3>1
    <2>3. ASSUME r # <<>>, x <= q[1] PROVE x < r[1]
      <3>1. 1 \in DOMAIN q /\ q[1] < q[2]
        BY <1>1, <2>2, <2>3 DEF QueueOK
      <3>2. /\ x \in Int /\ q[1] \in Int /\ q[2] \in Int
        <4>1. q[1] \in Nat \ {0} /\ q[2] \in Nat \ {0}
          BY <1>1, <2>2, <2>3, <3>1
        <4>2. x \in Int
          BY DEF Mapping
        <4> QED
          BY <4>1, <4>2
      <3> QED
        BY <2>2, <2>3, <3>1, <3>2
    <2>4. ASSUME NEW i \in DOMAIN q, q[i] = x, i # 1
          PROVE  \E j \in DOMAIN r : r[j] = x
      <3>1. i - 1 \in 1 .. n - 1 /\ i - 1 + 1 = i
        BY <1>1, <2>4
      <3> QED
        BY <1>2, <2>4, <3>1
    <2>5. ASSUME r # <<>>, q[1] = x PROVE x < r[1]
      <3>1. x \in Int
        BY DEF Mapping
      <3> QED
        BY <2>3, <2>5, <3>1
    <2>6. ASSUME r # <<>>, x < q[1] PROVE x < r[1]
      <3>1. x \in Int /\ q[1] \in Int
        BY <1>1 DEF Mapping
      <3> QED
        BY <2>3, <2>6, <3>1
    <2> QED
      BY <2>1, <2>4, <2>5, <2>6
  <1>8. \A next \in 3 .. 4 : next # 1 /\ next # 2
    OBVIOUS
  <1>9. \A next \in 3 .. 4 : QueueOK(m, r, L, next, f)
    BY <1>2, <1>3, <1>5, <1>6, <1>7, <1>8 DEF QueueOK
  <1> QED
    BY <1>9 DEF r, L
-----------------------------------------------------------------------------
(* What a walk has been at, before and after its steps.                    *)

\* A leaf is a node of an element that can be read.
LEMMA LeafFacts ==
  ASSUME NEW m \in Mapping, NEW p \in Leaves(m)
  PROVE  /\ p \in Place
         /\ p.phase \in 1 .. 3 /\ p.element \in Nat \ {0}
         /\ p.node \in Nat \ {0}
         /\ p.element \in DOMAIN ElementsIn(m, p.phase)
         /\ ElementAt(m, p).type \in Types
         /\ Nodes[ElementAt(m, p).type] \in Seq(Node)
         /\ p.node \in DOMAIN Nodes[ElementAt(m, p).type]
  <1>1. /\ p \in Place
        /\ p.element \in DOMAIN ElementsIn(m, p.phase)
        /\ Readable(ElementAt(m, p))
        /\ p.node \in DOMAIN Nodes[ElementAt(m, p).type]
    BY DEF Leaves
  <1>2. ElementAt(m, p) \in Element
    BY <1>1 DEF ElementAt, ElementsIn, Mapping
  <1>3. ElementAt(m, p).type \in Types
    BY <1>1, <1>2 DEF Readable, Element
  <1> QED
    BY <1>1, <1>3, IdlAssumption DEF Place

\* A new add is at its first node: nothing has been passed by that.
LEMMA AddBegins ==
  ASSUME NEW m \in Mapping, NEW p \in Leaves(m), NEW phase, NEW e
  PROVE  Before(p, phase, e, 1) <=> Before(p, phase, e, 0)
  BY LeafFacts DEF Before

\* One node further.
LEMMA NodePassed ==
  ASSUME NEW m \in Mapping, NEW p \in Leaves(m), NEW c \in Place
  PROVE  Before(p, c.phase, c.element, c.node + 1)
           <=> Before(p, c.phase, c.element, c.node) \/ p = c
  <1>1. p \in Place /\ p.node \in Int /\ c.node \in Int
    BY LeafFacts DEF Place
  <1>2. p = c <=> p.phase = c.phase /\ p.element = c.element /\ p.node = c.node
    BY <1>1 DEF Place
  <1>3. p.node < c.node + 1 <=> p.node < c.node \/ p.node = c.node
    BY <1>1
  <1> QED
    BY <1>2, <1>3 DEF Before

\* All nodes of an element have been visited.
LEMMA ElementPassed ==
  ASSUME NEW m \in Mapping, NEW p \in Leaves(m), NEW phase \in 1 .. 2,
         NEW e \in Nat, NEW n \in Nat,
         n > Len(Nodes[ElementsIn(m, phase)[e].type])
  PROVE  Before(p, phase, e + 1, 0) <=> Before(p, phase, e, n)
  <1>1. /\ p.element \in Nat /\ p.node \in Nat
        /\ Nodes[ElementAt(m, p).type] \in Seq(Node)
        /\ p.node \in DOMAIN Nodes[ElementAt(m, p).type]
    BY LeafFacts
  <1>2. p.phase = phase /\ p.element = e => p.node < n
    BY <1>1, LenProperties DEF ElementAt
  <1>3. p.element < e + 1 <=> p.element < e \/ p.element = e
    BY <1>1
  <1>4. ~(p.node < 0)
    BY <1>1
  <1> QED
    BY <1>2, <1>3, <1>4 DEF Before

\* From the outputs to the inputs.
LEMMA OutputsPassed ==
  ASSUME NEW m \in Mapping, NEW p \in Leaves(m), NEW e \in Nat,
         e > Len(m.fmu_out)
  PROVE  Before(p, 2, 1, 0) <=> Before(p, 1, e, 0)
  <1>1. /\ p.phase \in 1 .. 3 /\ p.element \in Nat \ {0} /\ p.node \in Nat
        /\ p.element \in DOMAIN ElementsIn(m, p.phase)
    BY LeafFacts
  <1>2. p.phase = 1 => p.element < e
    BY <1>1 DEF ElementsIn, Mapping
  <1> QED
    BY <1>1, <1>2 DEF Before

\* From the inputs to the key parameters, or to the end.
LEMMA InputsPassed ==
  ASSUME NEW m \in Mapping, NEW p \in Leaves(m), NEW e \in Nat,
         e > Len(m.fmu_in), NEW q, NEW K, NEW f, QueueOK(m, q, K, 2, f)
  PROVE  Before(p, IF q = <<>> THEN 4 ELSE 3, q[1], 0) <=> Before(p, 2, e, 0)
  <1>1. /\ p.phase \in 1 .. 3 /\ p.element \in Nat \ {0} /\ p.node \in Nat
        /\ p.element \in DOMAIN ElementsIn(m, p.phase)
    BY LeafFacts
  <1>2. p.phase = 2 => p.element < e
    BY <1>1 DEF ElementsIn, Mapping
  <1>3. ASSUME p.phase = 3
        PROVE  q # <<>> /\ ~(p.element < q[1])
    <2>1. p.element \in DOMAIN m.fmu_out /\ m.fmu_out[p.element].key_filter
      BY <1>1, <1>3 DEF Leaves, ElementAt, ElementsIn
    <2>2. PICK i \in DOMAIN q : q[i] = p.element
      BY <2>1 DEF QueueOK
    <2>3. /\ q \in Seq(Nat \ {0}) /\ i \in 1 .. Len(q) /\ Len(q) \in Nat
          /\ DOMAIN q = 1 .. Len(q)
      BY LenProperties DEF QueueOK
    <2>4. 1 \in DOMAIN q
      BY <2>3
    <2>5. i = 1 \/ q[1] < q[i]
      BY <2>3, <2>4 DEF QueueOK
    <2>6. q[1] \in Nat \ {0} /\ q[i] \in Nat \ {0}
      BY <2>2, <2>3, <2>4
    <2> QED
      BY <2>2, <2>3, <2>4, <2>5, <2>6
  <1>4. CASE q = <<>>
    BY <1>1, <1>2, <1>3, <1>4 DEF Before
  <1>5. CASE q # <<>>
    BY <1>1, <1>2, <1>3, <1>5 DEF Before
  <1> QED
    BY <1>4, <1>5

\* One element of the queue has been walked.
LEMMA ParameterPassed ==
  ASSUME NEW m \in Mapping, NEW p \in Leaves(m), NEW n \in Nat, NEW q,
         NEW K \in Seq(Couple), K # <<>>, NEW f, QueueOK(m, q, K, 3, f),
         n > Len(Nodes[m.fmu_out[q[1]].type])
  PROVE  Before(p, IF Tail(q) = <<>> THEN 4 ELSE 3, Tail(q)[1], 0)
           <=> Before(p, 3, q[1], n)
  <1> DEFINE r == Tail(q)
  <1>1. /\ p.phase \in 1 .. 3 /\ p.element \in Nat \ {0} /\ p.node \in Nat
        /\ p.element \in DOMAIN ElementsIn(m, p.phase)
        /\ Nodes[ElementAt(m, p).type] \in Seq(Node)
        /\ p.node \in DOMAIN Nodes[ElementAt(m, p).type]
    BY LeafFacts
  <1>2. q \in Seq(Nat \ {0}) /\ Len(q) = Len(K)
    BY DEF QueueOK
  <1>3. q # <<>>
    BY <1>2, EmptySeq
  <1>4. /\ Len(q) \in Nat /\ Len(q) > 0 /\ DOMAIN q = 1 .. Len(q)
        /\ r \in Seq(Nat \ {0}) /\ Len(r) = Len(q) - 1
        /\ \A i \in 1 .. Len(q) - 1 : r[i] = q[i + 1]
    BY <1>2, <1>3, HeadTailProperties, LenProperties, EmptySeq
  <1>5. q[1] \in Nat \ {0}
    BY <1>2, <1>4
  <1>6. p.phase = 3 /\ p.element = q[1] => p.node < n
    BY <1>1, LenProperties DEF ElementAt, ElementsIn
  <1>7. ASSUME p.phase = 3, p.element > q[1]
        PROVE  r # <<>> /\ ~(p.element < r[1])
    <2>1. p.element \in DOMAIN m.fmu_out /\ m.fmu_out[p.element].key_filter
      BY <1>1, <1>7 DEF Leaves, ElementAt, ElementsIn
    <2>2. PICK i \in DOMAIN q : q[i] = p.element
      BY <1>1, <1>3, <1>5, <1>7, <2>1 DEF QueueOK
    <2>3. i \in 1 .. Len(q) /\ i # 1
      BY <1>4, <1>5, <1>7, <2>2
    <2>4. 2 \in DOMAIN q /\ Len(r) # 0 /\ r[1] = q[2]
      BY <1>4, <2>3
    <2>5. r # <<>>
      BY <1>4, <2>4, EmptySeq
    <2>6. i = 2 \/ q[2] < q[i]
      BY <1>4, <2>3, <2>4 DEF QueueOK
    <2>7. q[2] \in Nat \ {0} /\ q[i] \in Nat \ {0}
      BY <1>2, <1>4, <2>2, <2>4
    <2> QED
      BY <2>2, <2>4, <2>5, <2>6, <2>7
  <1>8. r # <<>> => q[1] < r[1] /\ r[1] \in Nat
    <2> SUFFICES ASSUME r # <<>> PROVE q[1] < r[1] /\ r[1] \in Nat
      OBVIOUS
    <2>1. Len(r) # 0
      BY <1>4, EmptySeq
    <2>2. 2 \in DOMAIN q /\ 1 \in DOMAIN q /\ r[1] = q[2]
      BY <1>4, <2>1
    <2>3. q[2] \in Nat \ {0}
      BY <1>2, <2>2
    <2> QED
      BY <2>2, <2>3 DEF QueueOK
  <1> HIDE DEF r
  <1>9. Before(p, IF r = <<>> THEN 4 ELSE 3, r[1], 0)
          <=> Before(p, 3, q[1], n)
    <2>1. CASE p.phase = 3
      <3>1. CASE p.element < q[1]
        BY <1>1, <1>5, <1>8, <2>1, <3>1 DEF Before
      <3>2. CASE p.element = q[1]
        BY <1>1, <1>5, <1>6, <1>8, <2>1, <3>2 DEF Before
      <3>3. CASE p.element > q[1]
        BY <1>1, <1>5, <1>7, <2>1, <3>3 DEF Before
      <3> QED
        BY <1>1, <1>5, <3>1, <3>2, <3>3
    <2>2. CASE p.phase # 3
      BY <1>1, <2>2 DEF Before
    <2> QED
      BY <2>1, <2>2
  <1> QED
    BY <1>9 DEF r

\* The walk comes to its end.
LEMMA AllPassed ==
  ASSUME NEW m \in Mapping, NEW p \in Leaves(m), NEW e, NEW n
  PROVE  Before(p, 4, e, n)
  BY LeafFacts DEF Before

\* A place is not before itself.
LEMMA NotBeforeItself ==
  ASSUME NEW p \in Place
  PROVE  ~Before(p, p.phase, p.element, p.node)
  BY DEF Before, Place
-----------------------------------------------------------------------------
(* The steps of a walk, whichever program makes it.  It is at node n, or   *)
(* before the first, of element e of loop 1 or 2, or of the front of the   *)
(* queue K in loop 3.                                                      *)

\* Once the queue has run out, all places are behind the walk.
Phase(loop, q) == IF loop = 3 /\ q = <<>> THEN 4 ELSE loop

Front(loop, e, q) == IF loop = 3 THEN q[1] ELSE e

Passed(p, loop, e, n, q) == Before(p, Phase(loop, q), Front(loop, e, q), n)

Queued(m, loop, e, q, K) == QueueOK(m, q, K, Phase(loop, q), e)

\* A queue that is not empty stands for elements, the first being the front.
LEMMA QueueFront ==
  ASSUME NEW m \in Mapping, NEW q, NEW K \in Seq(Couple), NEW phase, NEW e,
         QueueOK(m, q, K, phase, e)
  PROVE  /\ (q = <<>>) <=> (K = <<>>)
         /\ K # <<>> => /\ q[1] \in Nat \ {0}
                        /\ q[1] \in DOMAIN m.fmu_out
                        /\ m.fmu_out[q[1]].key_filter
                        /\ Head(K) = [topic |-> m.fmu_out[q[1]].topic,
                                      type  |-> m.fmu_out[q[1]].type]
  <1>1. q \in Seq(Nat \ {0}) /\ Len(q) = Len(K)
    BY DEF QueueOK
  <1>2. (q = <<>>) <=> (K = <<>>)
    BY <1>1, EmptySeq
  <1>3. ASSUME K # <<>>
        PROVE  1 \in DOMAIN q /\ q[1] \in Nat \ {0} /\ Head(K) = K[1]
    <2>1. Len(q) # 0 /\ Len(q) \in Nat /\ DOMAIN q = 1 .. Len(q)
      BY <1>1, <1>2, <1>3, EmptySeq, LenProperties
    <2>2. 1 \in DOMAIN q /\ 1 \in 1 .. Len(q)
      BY <2>1
    <2>3. Head(K) = K[1]
      BY <1>3, HeadTailProperties
    <2> QED
      BY <1>1, <2>2, <2>3
  <1> QED
    BY <1>2, <1>3 DEF QueueOK

\* At the start nothing is queued and nothing is passed.
LEMMA WalkBegins ==
  ASSUME NEW m \in Mapping
  PROVE  /\ Queued(m, 1, 1, <<>>, <<>>)
         /\ \A p \in Leaves(m) : ~Passed(p, 1, 1, 0, <<>>)
  <1>1. Phase(1, <<>>) = 1 /\ Front(1, 1, <<>>) = 1
    BY DEF Phase, Front
  <1>2. Queued(m, 1, 1, <<>>, <<>>)
    BY <1>1, QueueBegins DEF Queued
  <1>3. \A p \in Leaves(m) : ~Before(p, 1, 1, 0)
    BY LeafFacts DEF Before
  <1> QED
    BY <1>1, <1>2, <1>3 DEF Passed

\* A new add is at its first node: nothing has been passed by that.
LEMMA AddWalked ==
  ASSUME NEW m \in Mapping, NEW p \in Leaves(m), NEW loop, NEW e, NEW q
  PROVE  Passed(p, loop, e, 1, q) <=> Passed(p, loop, e, 0, q)
  BY AddBegins DEF Passed

\* What add works on in a loop.
Adds(m, loop, e, K) == IF loop = 3 THEN Head(K) ELSE ElementsIn(m, loop)[e]

\* There is something.
Busy(m, loop, e, K) ==
  IF loop = 3 THEN K # <<>>
              ELSE /\ e \in DOMAIN ElementsIn(m, loop)
                   /\ Readable(ElementsIn(m, loop)[e])

\* The place of a walk in the course of add, and what the next node passes.
Here(c, m, loop, e, n, q, K) ==
  /\ c.phase = loop /\ c.node = n
  /\ Phase(loop, q) = loop /\ Front(loop, e, q) = c.element
  /\ c.element \in DOMAIN ElementsIn(m, loop)
  /\ ElementAt(m, c).topic = Adds(m, loop, e, K).topic
  /\ ElementAt(m, c).type = Adds(m, loop, e, K).type
  /\ Readable(ElementAt(m, c))
  /\ loop = 3 => ElementAt(m, c).key_filter
  /\ ~Passed(c, loop, e, n, q)
  /\ \A p \in Leaves(m) :
       Passed(p, loop, e, n + 1, q) <=> Passed(p, loop, e, n, q) \/ p = c

\* Inside add the walk is at a place, and its next node passes just that.
LEMMA NodeWalked ==
  ASSUME NEW m \in Mapping, NEW loop \in 1 .. 3, NEW e \in Nat,
         NEW n \in Nat \ {0}, NEW q, NEW K \in Seq(Couple),
         Queued(m, loop, e, q, K), Busy(m, loop, e, K)
  PROVE  \E c \in Place : Here(c, m, loop, e, n, q, K)
  <1>1. QueueOK(m, q, K, Phase(loop, q), e)
    BY DEF Queued
  <1>2. \E x \in Nat \ {0} :
          /\ x = Front(loop, e, q) /\ Phase(loop, q) = loop
          /\ x \in DOMAIN ElementsIn(m, loop)
          /\ ElementsIn(m, loop)[x].topic = Adds(m, loop, e, K).topic
          /\ ElementsIn(m, loop)[x].type = Adds(m, loop, e, K).type
          /\ Readable(ElementsIn(m, loop)[x])
          /\ loop = 3 => ElementsIn(m, loop)[x].key_filter
    <2>1. CASE loop \in 1 .. 2
      <3>1. /\ Front(loop, e, q) = e /\ Phase(loop, q) = loop /\ loop # 3
            /\ e \in DOMAIN ElementsIn(m, loop)
            /\ Readable(ElementsIn(m, loop)[e])
            /\ Adds(m, loop, e, K) = ElementsIn(m, loop)[e]
        BY <2>1 DEF Front, Phase, Adds, Busy
      <3>2. e \in Nat \ {0}
        BY <3>1 DEF ElementsIn, Mapping
      <3> QED
        BY <3>1, <3>2
    <2>2. CASE loop = 3
      <3>1. K # <<>>
        BY <2>2 DEF Busy
      <3>2. /\ q # <<>> /\ q[1] \in Nat \ {0}
            /\ q[1] \in DOMAIN m.fmu_out
            /\ m.fmu_out[q[1]].key_filter
            /\ Head(K) = [topic |-> m.fmu_out[q[1]].topic,
                          type  |-> m.fmu_out[q[1]].type]
        BY <1>1, <3>1, QueueFront
      <3>3. Readable(m.fmu_out[q[1]])
        <4>1. Head(K) \in Couple
          BY <3>1, HeadTailProperties
        <4> QED
          BY <3>2, <4>1, IdlAssumption DEF Couple, Readable
      <3> QED
        BY <2>2, <3>2, <3>3 DEF Front, Phase, Adds, ElementsIn
    <2> QED
      BY <2>1, <2>2
  <1>3. PICK x \in Nat \ {0} :
          /\ x = Front(loop, e, q) /\ Phase(loop, q) = loop
          /\ x \in DOMAIN ElementsIn(m, loop)
          /\ ElementsIn(m, loop)[x].topic = Adds(m, loop, e, K).topic
          /\ ElementsIn(m, loop)[x].type = Adds(m, loop, e, K).type
          /\ Readable(ElementsIn(m, loop)[x])
          /\ loop = 3 => ElementsIn(m, loop)[x].key_filter
    BY <1>2
  <1>4. PICK c \in Place : c.phase = loop /\ c.element = x /\ c.node = n
    <2>1. [phase |-> loop, element |-> x, node |-> n] \in Place
      BY DEF Place
    <2> QED
      BY <2>1
  <1>5. ElementAt(m, c) = ElementsIn(m, loop)[x]
    BY <1>4 DEF ElementAt
  <1>6. ~Passed(c, loop, e, n, q)
    BY <1>3, <1>4, NotBeforeItself DEF Passed
  <1>7. \A p \in Leaves(m) :
          Passed(p, loop, e, n + 1, q) <=> Passed(p, loop, e, n, q) \/ p = c
    <2>1. \A p \in Leaves(m) :
            Before(p, loop, x, n + 1) <=> Before(p, loop, x, n) \/ p = c
      BY <1>4, NodePassed
    <2> QED
      BY <1>3, <2>1 DEF Passed
  <1> QED
    BY <1>3, <1>4, <1>5, <1>6, <1>7 DEF Here

\* The queue behind element e: one with key_filter has been added.
Enqueued(m, loop, e, K) ==
  IF loop = 1 /\ m.fmu_out[e].key_filter
  THEN Append(K, [topic |-> m.fmu_out[e].topic, type |-> m.fmu_out[e].type])
  ELSE K

\* The end of add in the loops over the file.
LEMMA ElementWalked ==
  ASSUME NEW m \in Mapping, NEW loop \in 1 .. 2, NEW e \in Nat,
         NEW n \in Nat, NEW q, NEW K \in Seq(Couple),
         Queued(m, loop, e, q, K), Busy(m, loop, e, K),
         n > Len(Nodes[ElementsIn(m, loop)[e].type]),
         NEW L, L = Enqueued(m, loop, e, K)
  PROVE  \E r : /\ Queued(m, loop, e + 1, r, L)
                /\ \A p \in Leaves(m) :
                     Passed(p, loop, e + 1, 0, r) <=> Passed(p, loop, e, n, q)
  <1>1. \A r : /\ Phase(loop, r) = loop
               /\ \A f : Front(loop, f, r) = f
    BY DEF Phase, Front
  <1>2. QueueOK(m, q, K, loop, e)
    BY <1>1 DEF Queued
  <1>3. \A r, p : p \in Leaves(m) =>
          (Passed(p, loop, e + 1, 0, r) <=> Passed(p, loop, e, n, q))
    <2>1. \A p \in Leaves(m) :
            Before(p, loop, e + 1, 0) <=> Before(p, loop, e, n)
      BY ElementPassed
    <2> QED
      BY <1>1, <2>1 DEF Passed
  <1>4. CASE loop = 1
    <2>1. e \in DOMAIN m.fmu_out /\ Readable(m.fmu_out[e])
      BY <1>4 DEF Busy, ElementsIn
    <2>2. PICK d : d = [topic |-> m.fmu_out[e].topic,
                        type  |-> m.fmu_out[e].type]
      OBVIOUS
    <2>3. m.fmu_out[e] \in Element
      BY <2>1 DEF Mapping
    <2>4. d \in Couple
      BY <2>1, <2>2, <2>3 DEF Couple, Element, Readable
    <2>5. QueueOK(m, q, K, 1, e)
      BY <1>2, <1>4
    <2>6. /\ m.fmu_out[e].key_filter =>
               QueueOK(m, Append(q, e), Append(K, d), 1, e + 1)
          /\ ~m.fmu_out[e].key_filter => QueueOK(m, q, K, 1, e + 1)
      BY ONLY m \in Mapping, K \in Seq(Couple), <2>1, <2>2, <2>4, <2>5,
              QueueGrows
    <2>7. CASE m.fmu_out[e].key_filter
      <3>1. Queued(m, loop, e + 1, Append(q, e), L)
        BY <1>1, <1>4, <2>2, <2>6, <2>7 DEF Queued, Enqueued
      <3> QED
        BY <1>3, <3>1
    <2>8. CASE ~m.fmu_out[e].key_filter
      <3>1. Queued(m, loop, e + 1, q, L)
        BY <1>1, <1>4, <2>6, <2>8 DEF Queued, Enqueued
      <3> QED
        BY <1>3, <3>1
    <2> QED
      BY <2>7, <2>8
  <1>5. CASE loop = 2
    <2>1. L = K
      BY <1>5 DEF Enqueued
    <2>2. QueueOK(m, q, K, loop, e + 1)
      BY <1>2, <1>5 DEF QueueOK
    <2>3. Queued(m, loop, e + 1, q, L)
      BY <1>1, <2>1, <2>2 DEF Queued
    <2> QED
      BY <1>3, <2>3
  <1> QED
    BY <1>4, <1>5

\* The end of add for the front of the queue.
LEMMA ParameterWalked ==
  ASSUME NEW m \in Mapping, NEW e, NEW n \in Nat, NEW q,
         NEW K \in Seq(Couple), K # <<>>,
         Queued(m, 3, e, q, K), n > Len(Nodes[Head(K).type])
  PROVE  \E r : /\ Queued(m, 3, e, r, Tail(K))
                /\ \A p \in Leaves(m) :
                     Passed(p, 3, e, 0, r) <=> Passed(p, 3, e, n, q)
  <1>1. QueueOK(m, q, K, Phase(3, q), e)
    BY DEF Queued
  <1>2. /\ q # <<>>
        /\ Head(K).type = m.fmu_out[q[1]].type
    BY <1>1, QueueFront
  <1>3. Phase(3, q) = 3 /\ Front(3, e, q) = q[1]
    BY <1>2 DEF Phase, Front
  <1>4. QueueOK(m, q, K, 3, e)
    BY <1>1, <1>3
  <1>5. PICK r : r = Tail(q)
    OBVIOUS
  <1>6. /\ Phase(3, r) = IF r = <<>> THEN 4 ELSE 3
        /\ Front(3, e, r) = r[1]
    BY DEF Phase, Front
  <1>7. \A next \in 3 .. 4 : QueueOK(m, r, Tail(K), next, e)
    BY <1>4, <1>5, QueueShrinks
  <1>8. Queued(m, 3, e, r, Tail(K))
    <2>1. Phase(3, r) \in 3 .. 4
      BY <1>6
    <2> QED
      BY <1>7, <2>1 DEF Queued
  <1>9. n > Len(Nodes[m.fmu_out[q[1]].type])
    BY <1>2
  <1>10. \A p \in Leaves(m) :
           Before(p, IF r = <<>> THEN 4 ELSE 3, r[1], 0)
             <=> Before(p, 3, q[1], n)
    BY <1>4, <1>5, <1>9, ParameterPassed
  <1>11. \A p \in Leaves(m) :
           Passed(p, 3, e, 0, r) <=> Passed(p, 3, e, n, q)
    BY <1>3, <1>6, <1>10 DEF Passed
  <1> QED
    BY <1>8, <1>11

\* From the outputs to the inputs, and from the inputs to the queue.
LEMMA LoopWalked ==
  ASSUME NEW m \in Mapping, NEW loop \in 1 .. 2, NEW e \in Nat, NEW q,
         NEW K \in Seq(Couple), Queued(m, loop, e, q, K),
         e > Len(ElementsIn(m, loop))
  PROVE  /\ Queued(m, loop + 1, 1, q, K)
         /\ \A p \in Leaves(m) :
              Passed(p, loop + 1, 1, 0, q) <=> Passed(p, loop, e, 0, q)
  <1>1. Phase(loop, q) = loop /\ Front(loop, e, q) = e
    BY DEF Phase, Front
  <1>2. QueueOK(m, q, K, loop, e)
    BY <1>1 DEF Queued
  <1>3. Phase(loop + 1, q) \in 2 .. 4
    BY DEF Phase
  <1>4. loop = 1 => e > Len(m.fmu_out)
    BY DEF ElementsIn
  <1>5. \A next \in 2 .. 4 : QueueOK(m, q, K, next, 1)
    BY <1>2, <1>4, QueueGoesOn
  <1>6. Queued(m, loop + 1, 1, q, K)
    BY <1>3, <1>5 DEF Queued
  <1>7. CASE loop = 1
    <2>1. Phase(loop + 1, q) = 2 /\ Front(loop + 1, 1, q) = 1
      BY <1>7 DEF Phase, Front
    <2>2. \A p \in Leaves(m) : Before(p, 2, 1, 0) <=> Before(p, 1, e, 0)
      BY <1>4, <1>7, OutputsPassed
    <2> QED
      BY <1>1, <1>6, <1>7, <2>1, <2>2 DEF Passed
  <1>8. CASE loop = 2
    <2>1. /\ Phase(loop + 1, q) = IF q = <<>> THEN 4 ELSE 3
          /\ Front(loop + 1, 1, q) = q[1]
      BY <1>8 DEF Phase, Front
    <2>2. QueueOK(m, q, K, 2, e) /\ e > Len(m.fmu_in)
      BY <1>2, <1>8 DEF ElementsIn
    <2>3. \A p \in Leaves(m) :
            Before(p, IF q = <<>> THEN 4 ELSE 3, q[1], 0)
              <=> Before(p, 2, e, 0)
      BY <2>2, InputsPassed
    <2> QED
      BY <1>1, <1>6, <1>8, <2>1, <2>3 DEF Passed
  <1> QED
    BY <1>7, <1>8

\* An empty queue is the end of the walk: it has been at every place.
LEMMA WalkEnds ==
  ASSUME NEW m \in Mapping, NEW e, NEW n, NEW q, Queued(m, 3, e, q, <<>>)
  PROVE  \A p \in Leaves(m) : Passed(p, 3, e, n, q)
  <1>1. PICK K \in Seq(Couple) : K = <<>>
    BY EmptySeq
  <1>2. q = <<>>
    <2>1. QueueOK(m, q, K, Phase(3, q), e)
      BY <1>1 DEF Queued
    <2> QED
      BY <1>1, <2>1, QueueFront
  <1>3. Phase(3, q) = 4
    BY <1>2 DEF Phase
  <1> QED
    BY <1>3, AllPassed DEF Passed
-----------------------------------------------------------------------------
(* generate_xml makes that walk.                                           *)

\* The variables W are about the leaves passed so far, all of them.
Walks(W, m, loop, e, n, K) ==
  \E P, q :
    /\ Describes(W, P, m)
    /\ Queued(m, loop, e, q, K)
    /\ \A i \in DOMAIN W : Passed(P[i], loop, e, n, q)
    /\ \A p \in Leaves(m) :
         Passed(p, loop, e, n, q) => \E i \in DOMAIN W : P[i] = p

Loop(c) == IF c = "OUTPUT" THEN 1 ELSE IF c = "INPUT" THEN 2 ELSE 3

Walked ==
  pc \in Cardinal \union {"written"} =>
    /\ Walks(m_signal_mapping, signal_mapping, Loop(pc), element, node,
             m_potential_keys)
    /\ pc = "written" => m_potential_keys = <<>>

\* The variables W are about the leaves of m, all of them, in their order.
Lists(W, m) ==
  \E P : /\ Describes(W, P, m)
         /\ \A p \in Leaves(m) : \E i \in DOMAIN W : P[i] = p

(***************************************************************************)
(* What the description promises: a variable for every leaf of the file    *)
(* that has an FMI type, in the order of the outputs, inputs and key       *)
(* parameters, and no other variable.                                      *)
(***************************************************************************)
DescribesTheFile == pc = "written" => Lists(m_signal_mapping, signal_mapping)

\* The next reference of a type is the number of the variables that have it.
OfType(W, t) == {i \in DOMAIN W : W[i].type = t}

Counts(W, idx) == \A t \in FmiTypes :
                    /\ IsFiniteSet(OfType(W, t))
                    /\ idx[t] = Cardinality(OfType(W, t))

WInv == Inv /\ Walked /\ Counts(m_signal_mapping, m_idx)

\* The loops are numbered in their order.
LEMMA LoopFacts ==
  /\ Loop("OUTPUT") = 1 /\ Loop("INPUT") = 2
  /\ Loop("PARAMETER") = 3 /\ Loop("written") = 3
  /\ \A c \in Cardinal : Loop(c) \in 1 .. 3 /\ Causality(Loop(c)) = c
  BY DEF Loop, Cardinal, Causality

\* A step that passes no leaf.
LEMMA NothingPassed ==
  ASSUME NEW W, NEW m, NEW loop, NEW e, NEW n, NEW K,
         Walks(W, m, loop, e, n, K),
         NEW loop2, NEW e2, NEW n2, NEW K2,
         \A q : Queued(m, loop, e, q, K) =>
           \E r : /\ Queued(m, loop2, e2, r, K2)
                  /\ \A p \in Leaves(m) :
                       Passed(p, loop2, e2, n2, r) <=> Passed(p, loop, e, n, q)
  PROVE  Walks(W, m, loop2, e2, n2, K2)
  <1>1. PICK P, q :
          /\ Describes(W, P, m)
          /\ Queued(m, loop, e, q, K)
          /\ \A i \in DOMAIN W : Passed(P[i], loop, e, n, q)
          /\ \A p \in Leaves(m) :
               Passed(p, loop, e, n, q) => \E i \in DOMAIN W : P[i] = p
    BY DEF Walks
  <1>2. PICK r :
          /\ Queued(m, loop2, e2, r, K2)
          /\ \A p \in Leaves(m) :
               Passed(p, loop2, e2, n2, r) <=> Passed(p, loop, e, n, q)
    BY <1>1
  <1>3. P \in [DOMAIN W -> Leaves(m)]
    BY <1>1 DEF Describes
  <1>4. \A i \in DOMAIN W : Passed(P[i], loop2, e2, n2, r)
    BY <1>1, <1>2, <1>3
  <1> QED
    BY <1>1, <1>2, <1>4 DEF Walks

\* A node that becomes a variable.
LEMMA LeafPassed ==
  ASSUME NEW W \in Seq(SignalInfo), NEW m \in Mapping, NEW loop \in 1 .. 3,
         NEW e \in Nat, NEW n \in Nat \ {0}, NEW K \in Seq(Couple),
         Walks(W, m, loop, e, n, K), Busy(m, loop, e, K),
         NEW leaf, leaf = Nodes[Adds(m, loop, e, K).type][n],
         n \in DOMAIN Nodes[Adds(m, loop, e, K).type],
         NEW v \in SignalInfo
  PROVE  /\ (/\ Selected(leaf, loop = 3)
             /\ resolve_type(leaf.kind) \in FmiTypes
             /\ v.topic = Adds(m, loop, e, K).topic /\ v.node = n
             /\ v.causality = Causality(loop)
             /\ v.type = resolve_type(leaf.kind))
              => Walks(Append(W, v), m, loop, e, n + 1, K)
         /\ ~(Selected(leaf, loop = 3) /\ resolve_type(leaf.kind) \in FmiTypes)
              => Walks(W, m, loop, e, n + 1, K)
  <1>1. PICK P, q :
          /\ Describes(W, P, m)
          /\ Queued(m, loop, e, q, K)
          /\ \A i \in DOMAIN W : Passed(P[i], loop, e, n, q)
          /\ \A p \in Leaves(m) :
               Passed(p, loop, e, n, q) => \E i \in DOMAIN W : P[i] = p
    BY DEF Walks
  <1>2. PICK c \in Place : Here(c, m, loop, e, n, q, K)
    BY <1>1, NodeWalked
  <1> USE DEF Here
  <1>3. NodeAt(m, c) = leaf
    BY <1>2 DEF NodeAt
  <1>4. c \in Leaves(m) <=>
          Selected(leaf, loop = 3) /\ resolve_type(leaf.kind) \in FmiTypes
    BY <1>2, <1>3 DEF Leaves
  <1>5. P \in [DOMAIN W -> Leaves(m)]
    BY <1>1 DEF Describes
  <1>6. CASE c \notin Leaves(m)
    <2>1. \A i \in DOMAIN W : Passed(P[i], loop, e, n + 1, q)
      BY <1>1, <1>2, <1>5
    <2>2. \A p \in Leaves(m) : p # c
      BY <1>6
    <2>3. \A p \in Leaves(m) :
            Passed(p, loop, e, n + 1, q) => \E i \in DOMAIN W : P[i] = p
      BY <1>1, <1>2, <2>2
    <2>4. Walks(W, m, loop, e, n + 1, K)
      BY <1>1, <2>1, <2>3 DEF Walks
    <2> QED
      BY <1>4, <1>6, <2>4
  <1>7. ASSUME c \in Leaves(m),
               v.topic = Adds(m, loop, e, K).topic, v.node = n,
               v.causality = Causality(loop),
               v.type = resolve_type(leaf.kind)
        PROVE  Walks(Append(W, v), m, loop, e, n + 1, K)
    <2> DEFINE V == Append(W, v)
               l == Len(W)
               Q == [i \in DOMAIN V |-> IF i = l + 1 THEN c ELSE P[i]]
    <2>1. /\ l \in Nat /\ DOMAIN W = 1 .. l /\ DOMAIN V = 1 .. l + 1
          /\ V[l + 1] = v /\ \A i \in 1 .. l : V[i] = W[i]
      BY AppendProperties, LenProperties
    <2>2. /\ \A i \in 1 .. l : i \in DOMAIN V /\ i # l + 1
          /\ l + 1 \in DOMAIN V
          /\ \A i \in DOMAIN V : i = l + 1 \/ i \in DOMAIN W
      BY <2>1
    <2>3. /\ Q[l + 1] = c /\ \A i \in DOMAIN W : Q[i] = P[i]
          /\ Q \in [DOMAIN V -> Leaves(m)]
      BY <1>5, <1>7, <2>1, <2>2
    <2> HIDE DEF V, Q, l
    <2>4. ASSUME NEW i \in DOMAIN V
          PROVE  /\ V[i].topic = ElementAt(m, Q[i]).topic
                 /\ V[i].node = Q[i].node
                 /\ V[i].causality = Causality(Q[i].phase)
                 /\ V[i].type = resolve_type(NodeAt(m, Q[i]).kind)
      <3>1. CASE i = l + 1
        BY <1>2, <1>3, <1>7, <2>1, <2>3, <3>1
      <3>2. CASE i \in DOMAIN W
        BY <1>1, <2>1, <2>3, <3>2 DEF Describes
      <3> QED
        BY <2>2, <3>1, <3>2
    <2>5. ASSUME NEW i \in DOMAIN V, NEW j \in DOMAIN V, i < j
          PROVE  Before(Q[i], Q[j].phase, Q[j].element, Q[j].node)
      <3>1. i \in DOMAIN W
        BY <2>1, <2>2, <2>5
      <3>2. CASE j \in DOMAIN W
        BY <1>1, <2>3, <2>5, <3>1, <3>2 DEF Describes
      <3>3. CASE j = l + 1
        <4>1. Passed(P[i], loop, e, n, q) /\ P[i] \in Leaves(m)
          BY <1>1, <1>5, <3>1
        <4> QED
          BY <1>2, <2>3, <3>1, <3>3, <4>1 DEF Passed
      <3> QED
        BY <2>2, <3>2, <3>3
    <2>6. Describes(V, Q, m)
      BY <2>3, <2>4, <2>5 DEF Describes
    <2>7. \A i \in DOMAIN V : Passed(Q[i], loop, e, n + 1, q)
      BY <1>1, <1>2, <1>5, <1>7, <2>2, <2>3
    <2>8. ASSUME NEW p \in Leaves(m), Passed(p, loop, e, n + 1, q)
          PROVE  \E i \in DOMAIN V : Q[i] = p
      <3>1. CASE p = c
        BY <2>2, <2>3, <3>1
      <3>2. CASE p # c
        <4>1. PICK i \in DOMAIN W : P[i] = p
          BY <1>1, <1>2, <2>8, <3>2
        <4>2. i \in DOMAIN V /\ Q[i] = p
          BY <2>1, <2>2, <2>3, <4>1
        <4> QED
          BY <4>2
      <3> QED
        BY <3>1, <3>2
    <2>9. Walks(V, m, loop, e, n + 1, K)
      BY <1>1, <2>6, <2>7, <2>8 DEF Walks
    <2> QED
      BY <2>9 DEF V
  <1> QED
    BY <1>4, <1>6, <1>7
\* A walk at its end, with the queue empty, has listed every leaf.
LEMMA WalkIsComplete ==
  ASSUME NEW W, NEW m \in Mapping, NEW e, NEW n,
         Walks(W, m, 3, e, n, <<>>)
  PROVE  Lists(W, m)
  <1>1. PICK P, q :
          /\ Describes(W, P, m)
          /\ Queued(m, 3, e, q, <<>>)
          /\ \A p \in Leaves(m) :
               Passed(p, 3, e, n, q) => \E i \in DOMAIN W : P[i] = p
    BY DEF Walks
  <1>2. \A p \in Leaves(m) : Passed(p, 3, e, n, q)
    BY <1>1, WalkEnds
  <1> QED
    BY <1>1, <1>2 DEF Lists

\* A variable more is one more of its type.
LEMMA CountsOne ==
  ASSUME NEW W \in Seq(SignalInfo), NEW v \in SignalInfo,
         NEW idx \in [FmiTypes -> Nat], Counts(W, idx),
         NEW type \in FmiTypes, v.type = type
  PROVE  Counts(Append(W, v), [idx EXCEPT ![type] = @ + 1])
  <1> DEFINE V == Append(W, v)
             l == Len(W)
             idx2 == [idx EXCEPT ![type] = @ + 1]
  <1>1. /\ l \in Nat /\ DOMAIN W = 1 .. l /\ DOMAIN V = 1 .. l + 1
        /\ V[l + 1] = v /\ \A i \in 1 .. l : V[i] = W[i]
    BY AppendProperties, LenProperties
  <1>2. /\ l + 1 \in DOMAIN V /\ l + 1 \notin DOMAIN W
        /\ \A i : i \in DOMAIN V <=> i \in DOMAIN W \/ i = l + 1
    BY <1>1
  <1>3. /\ idx2[type] = idx[type] + 1
        /\ \A t \in FmiTypes \ {type} : idx2[t] = idx[t]
    OBVIOUS
  <1> HIDE DEF V, l, idx2
  <1>4. ASSUME NEW t \in FmiTypes
        PROVE  IsFiniteSet(OfType(V, t)) /\ idx2[t] = Cardinality(OfType(V, t))
    <2>1. IsFiniteSet(OfType(W, t)) /\ idx[t] = Cardinality(OfType(W, t))
      BY DEF Counts
    <2>2. CASE t = type
      <3>1. OfType(V, t) = OfType(W, t) \union {l + 1}
        BY <1>1, <1>2, <2>2 DEF OfType
      <3>2. l + 1 \notin OfType(W, t)
        BY <1>2 DEF OfType
      <3>3. /\ IsFiniteSet(OfType(W, t) \union {l + 1})
            /\ Cardinality(OfType(W, t) \union {l + 1}) =
                 Cardinality(OfType(W, t)) + 1
        BY <2>1, <3>2, FS_AddElement
      <3> QED
        BY <1>3, <2>1, <2>2, <3>1, <3>3
    <2>3. CASE t # type
      <3>1. OfType(V, t) = OfType(W, t)
        BY <1>1, <1>2, <2>3 DEF OfType
      <3> QED
        BY <1>3, <2>1, <2>3, <3>1
    <2> QED
      BY <2>2, <2>3
  <1> QED
    BY <1>4 DEF Counts, V, idx2

-----------------------------------------------------------------------------
\* The walk begins with each run of the repacker.
LEMMA InitWalked == Init => Walked /\ Counts(m_signal_mapping, m_idx)
  <1> SUFFICES ASSUME Init PROVE Walked /\ Counts(m_signal_mapping, m_idx)
    OBVIOUS
  <1>1. Walked
    BY DEF Init, Walked, Cardinal
  <1>2. \A t \in FmiTypes : OfType(m_signal_mapping, t) = {}
    BY DEF Init, OfType
  <1> QED
    BY <1>1, <1>2, FS_EmptySet DEF Init, Counts

\* generate_xml starts its walk with no variable.
LEMMA GenerateWalked ==
  ASSUME Generate
  PROVE  Walked' /\ Counts(m_signal_mapping, m_idx)'
  <1>1. \A t \in FmiTypes : OfType(m_signal_mapping', t) = {}
    BY DEF Generate, OfType
  <1>2. Counts(m_signal_mapping', m_idx')
    BY <1>1, FS_EmptySet DEF Generate, Counts
  <1>3. CASE pc' = "OUTPUT"
    <2>1. PICK m \in Mapping : m = signal_mapping'
      BY IdlAssumption DEF Generate
    <2>2. Describes(<<>>, <<>>, m)
      BY DEF Describes
    <2>3. Walks(<<>>, m, 1, 1, 0, <<>>)
      BY <2>2, WalkBegins DEF Walks
    <2>4. Walks(m_signal_mapping', signal_mapping', Loop(pc'), element', node',
                m_potential_keys')
      BY <1>3, <2>1, <2>3, LoopFacts DEF Generate
    <2> QED
      BY <1>2, <1>3, <2>4 DEF Walked
  <1>4. CASE pc' = "failed"
    BY <1>2, <1>4 DEF Walked, Cardinal
  <1> QED
    BY <1>3, <1>4 DEF Generate

\* A walk that has failed has nothing more to say.
LEMMA RejectWalked ==
  ASSUME WInv, Reject
  PROVE  Walked' /\ Counts(m_signal_mapping, m_idx)'
  BY DEF WInv, Reject, Walked, Cardinal, Counts

\* The start of an add passes no leaf.
LEMMA BeginAddWalked ==
  ASSUME WInv, BeginAdd
  PROVE  Walked' /\ Counts(m_signal_mapping, m_idx)'
  <1>1. /\ signal_mapping \in Mapping /\ pc \in Cardinal /\ pc # "written"
        /\ node = 0 /\ node' = 1
        /\ UNCHANGED <<signal_mapping, pc, element, m_potential_keys,
                       m_idx, m_signal_mapping>>
    BY DEF BeginAdd, Cardinal, WInv, Inv, TypeOK
  <1>2. Walks(m_signal_mapping, signal_mapping, Loop(pc), element, 0,
              m_potential_keys)
    BY <1>1 DEF WInv, Walked
  <1>3. Walks(m_signal_mapping, signal_mapping, Loop(pc), element, 1,
              m_potential_keys)
    <2>1. \A q, p : p \in Leaves(signal_mapping) =>
            (Passed(p, Loop(pc), element, 1, q)
               <=> Passed(p, Loop(pc), element, 0, q))
      BY <1>1, AddWalked
    <2> QED
      BY <1>2, <2>1, NothingPassed
  <1>4. Walked'
    BY <1>1, <1>3 DEF Walked
  <1>5. Counts(m_signal_mapping', m_idx')
    BY <1>1 DEF WInv
  <1> QED
    BY <1>4, <1>5

\* What add works on, in the terms of the walk.
LEMMA AddingIsWalked ==
  ASSUME TypeOK, AddingOK, node # 0
  PROVE  /\ pc \in Cardinal
         /\ Adding = Adds(signal_mapping, Loop(pc), element, m_potential_keys)
         /\ Busy(signal_mapping, Loop(pc), element, m_potential_keys)
         /\ pc \in {"OUTPUT", "INPUT"} =>
              Elements = ElementsIn(signal_mapping, Loop(pc))
  <1>1. pc \in Cardinal
    BY AddingIsKnown
  <1>2. CASE pc \in {"OUTPUT", "INPUT"}
    <2>1. /\ Loop(pc) \in 1 .. 2 /\ Loop(pc) # 3
          /\ Elements = ElementsIn(signal_mapping, Loop(pc))
      BY <1>2 DEF Loop, Elements, ElementsIn
    <2>2. element \in DOMAIN Elements /\ Readable(Elements[element])
      BY <1>2 DEF AddingOK
    <2> QED
      BY <1>1, <1>2, <2>1, <2>2 DEF Adding, Adds, Busy
  <1>3. CASE pc = "PARAMETER"
    BY <1>1, <1>3, LoopFacts DEF AddingOK, Adding, Adds, Busy
  <1> QED
    BY <1>1, <1>2, <1>3 DEF Cardinal

\* The for_each callback emits a variable just when it passes a leaf.
LEMMA VisitWalked ==
  ASSUME WInv, Visit
  PROVE  Walked' /\ Counts(m_signal_mapping, m_idx)'
  <1> DEFINE leaf == Nodes[Adding.type][node]
             type == resolve_type(leaf.kind)
             emits == Selected(leaf, pc = "PARAMETER") /\ type \in FmiTypes
  <1>1. /\ TypeOK /\ AddingOK /\ node # 0 /\ node \in Nat \ {0}
        /\ node' = node + 1
        /\ node <= Len(Nodes[Adding.type])
        /\ UNCHANGED <<signal_mapping, pc, element, m_potential_keys>>
    BY DEF Visit, WInv, Inv, TypeOK
  <1>2. /\ pc \in Cardinal
        /\ Adding = Adds(signal_mapping, Loop(pc), element, m_potential_keys)
        /\ Busy(signal_mapping, Loop(pc), element, m_potential_keys)
    BY <1>1, AddingIsWalked
  <1>3. /\ Adding.topic \in Topics /\ Adding.type \in Types
        /\ Nodes[Adding.type] \in Seq(Node)
    BY <1>1, AddingIsKnown
  <1>4. node \in DOMAIN Nodes[Adding.type]
    BY <1>1, <1>3, LenProperties
  <1>5. Walks(m_signal_mapping, signal_mapping, Loop(pc), element, node,
              m_potential_keys)
    BY <1>2 DEF WInv, Walked
  <1>6. /\ Loop(pc) \in 1 .. 3 /\ Causality(Loop(pc)) = pc
        /\ Loop(pc) = 3 <=> pc = "PARAMETER"
        /\ pc # "written"
    BY <1>2, LoopFacts DEF Cardinal
  <1>7. PICK W \in Seq(SignalInfo), m \in Mapping, loop \in 1 .. 3, e \in Nat,
             n \in Nat \ {0}, K \in Seq(Couple) :
          /\ W = m_signal_mapping /\ m = signal_mapping /\ loop = Loop(pc)
          /\ e = element /\ n = node /\ K = m_potential_keys
    BY <1>1, <1>6 DEF TypeOK
  <1>8. PICK x : x = leaf
    OBVIOUS
  <1>9. /\ Walks(W, m, loop, e, n, K) /\ Busy(m, loop, e, K)
        /\ x = Nodes[Adds(m, loop, e, K).type][n]
        /\ n \in DOMAIN Nodes[Adds(m, loop, e, K).type]
    BY <1>2, <1>4, <1>5, <1>7, <1>8
  <1>10. CASE emits
    <2>1. type \in FmiTypes
      BY <1>10
    <2>2. PICK v \in SignalInfo :
            v = [vr |-> m_idx[type], topic |-> Adding.topic,
                 node |-> node, causality |-> pc, type |-> type]
      <3>1. m_idx[type] \in Nat
        BY <1>1, <2>1 DEF TypeOK
      <3> HIDE DEF type
      <3> QED
        BY <1>1, <1>2, <1>3, <2>1, <3>1 DEF SignalInfo
    <2>3. /\ m_signal_mapping' = Append(W, v)
          /\ m_idx' = [m_idx EXCEPT ![type] = @ + 1]
      BY <1>7, <1>10, <2>2 DEF Visit
    <2>4. /\ Selected(x, loop = 3)
          /\ resolve_type(x.kind) \in FmiTypes
          /\ v.topic = Adds(m, loop, e, K).topic /\ v.node = n
          /\ v.causality = Causality(loop)
          /\ v.type = resolve_type(x.kind)
      BY <1>2, <1>6, <1>7, <1>8, <1>10, <2>2
    <2>5. Walks(Append(W, v), m, loop, e, n + 1, K)
      BY ONLY <1>9, <2>4, LeafPassed, W \in Seq(SignalInfo), m \in Mapping,
              loop \in 1 .. 3, e \in Nat, n \in Nat \ {0}, K \in Seq(Couple),
              v \in SignalInfo
    <2>6. Walked'
      BY <1>1, <1>6, <1>7, <2>3, <2>5 DEF Walked
    <2>7. Counts(Append(W, v), [m_idx EXCEPT ![type] = @ + 1])
      <3>1. /\ m_idx \in [FmiTypes -> Nat] /\ Counts(W, m_idx)
            /\ v.type = type
        BY <1>1, <1>7, <2>2 DEF TypeOK, WInv
      <3> HIDE DEF type
      <3> QED
        BY <2>1, <3>1, CountsOne
    <2>8. Counts(m_signal_mapping', m_idx')
      BY <2>3, <2>7
    <2> QED
      BY <2>6, <2>8
  <1>11. CASE ~emits
    <2>1. UNCHANGED <<m_signal_mapping, m_idx>>
      BY <1>11 DEF Visit
    <2>2. ~(Selected(x, loop = 3) /\ resolve_type(x.kind) \in FmiTypes)
      BY <1>6, <1>7, <1>8, <1>11
    <2>3. SignalInfo # {}
      <3>1. [vr |-> 0, topic |-> Adding.topic, node |-> 1,
             causality |-> pc, type |-> "Real"] \in SignalInfo
        BY <1>2, <1>3 DEF SignalInfo, FmiTypes
      <3> QED
        BY <3>1
    <2>4. PICK v \in SignalInfo : TRUE
      BY <2>3
    <2>5. Walks(W, m, loop, e, n + 1, K)
      BY ONLY <1>9, <2>2, LeafPassed, W \in Seq(SignalInfo), m \in Mapping,
              loop \in 1 .. 3, e \in Nat, n \in Nat \ {0}, K \in Seq(Couple),
              v \in SignalInfo
    <2>6. Walked'
      BY <1>1, <1>6, <1>7, <2>1, <2>5 DEF Walked
    <2>7. Counts(m_signal_mapping', m_idx')
      BY <2>1 DEF WInv
    <2> QED
      BY <2>6, <2>7
  <1> QED
    BY <1>10, <1>11

\* The end of an add passes no leaf.
LEMMA EndAddWalked ==
  ASSUME WInv, EndAdd
  PROVE  Walked' /\ Counts(m_signal_mapping, m_idx)'
  <1>1. /\ TypeOK /\ AddingOK /\ node \in Nat /\ node # 0
        /\ signal_mapping \in Mapping /\ element \in Nat
        /\ m_signal_mapping \in Seq(SignalInfo)
        /\ m_potential_keys \in Seq(Couple)
        /\ node > Len(Nodes[Adding.type]) /\ node' = 0
        /\ UNCHANGED <<signal_mapping, pc, m_signal_mapping, m_idx>>
    BY DEF EndAdd, WInv, Inv, TypeOK
  <1>2. /\ pc \in Cardinal
        /\ Adding = Adds(signal_mapping, Loop(pc), element, m_potential_keys)
        /\ Busy(signal_mapping, Loop(pc), element, m_potential_keys)
        /\ pc \in {"OUTPUT", "INPUT"} =>
             Elements = ElementsIn(signal_mapping, Loop(pc))
    BY <1>1, AddingIsWalked
  <1>3. PICK W \in Seq(SignalInfo), m \in Mapping, e \in Nat, n \in Nat,
             K \in Seq(Couple) :
          /\ W = m_signal_mapping /\ m = signal_mapping
          /\ e = element /\ n = node /\ K = m_potential_keys
    BY <1>1
  <1>4. Walks(W, m, Loop(pc), e, n, K)
    BY <1>2, <1>3 DEF WInv, Walked
  <1>5. Walks(W, m, Loop(pc), element', 0, m_potential_keys')
    <2>1. CASE pc \in {"OUTPUT", "INPUT"}
      <3>1. PICK loop \in 1 .. 2 : loop = Loop(pc)
        BY <2>1, LoopFacts
      <3>2. /\ Adding = ElementsIn(m, loop)[e]
            /\ n > Len(Nodes[ElementsIn(m, loop)[e].type])
        <4>1. loop # 3
          OBVIOUS
        <4> QED
          BY <1>1, <1>2, <1>3, <3>1, <4>1 DEF Adds
      <3>3. /\ loop = 1 <=> pc = "OUTPUT"
            /\ loop = 1 => ElementsIn(m, loop) = m.fmu_out
        BY <2>1, <3>1, LoopFacts DEF ElementsIn
      <3>4. PICK L : L = m_potential_keys'
        OBVIOUS
      <3>5. /\ element' = e + 1
            /\ L = Enqueued(m, loop, e, K)
        BY <1>3, <2>1, <3>2, <3>3, <3>4 DEF EndAdd, Enqueued
      <3>6. Busy(m, loop, e, K) /\ Walks(W, m, loop, e, n, K)
        BY <1>2, <1>3, <1>4, <3>1
      <3>7. \A q : Queued(m, loop, e, q, K) =>
              \E r : /\ Queued(m, loop, e + 1, r, L)
                     /\ \A p \in Leaves(m) :
                          Passed(p, loop, e + 1, 0, r)
                            <=> Passed(p, loop, e, n, q)
        <4>1. /\ Busy(m, loop, e, K)
              /\ n > Len(Nodes[ElementsIn(m, loop)[e].type])
              /\ L = Enqueued(m, loop, e, K)
          BY <3>2, <3>5, <3>6
        <4> QED
          BY ONLY <4>1, ElementWalked, m \in Mapping,
                  loop \in 1 .. 2, e \in Nat, n \in Nat, K \in Seq(Couple)
      <3>8. Walks(W, m, loop, e + 1, 0, L)
        BY <3>6, <3>7, NothingPassed
      <3> QED
        BY <3>1, <3>4, <3>5, <3>8
    <2>2. CASE pc = "PARAMETER"
      <3>1. /\ K # <<>> /\ m_potential_keys' = Tail(K) /\ element' = e
            /\ Loop(pc) = 3
        BY <1>1, <1>3, <2>2, LoopFacts DEF AddingOK, EndAdd
      <3>2. n > Len(Nodes[Head(K).type])
        BY <1>1, <1>3, <2>2 DEF Adding
      <3>3. \A q : Queued(m, 3, e, q, K) =>
              \E r : /\ Queued(m, 3, e, r, Tail(K))
                     /\ \A p \in Leaves(m) :
                          Passed(p, 3, e, 0, r) <=> Passed(p, 3, e, n, q)
        BY <3>1, <3>2, ParameterWalked
      <3>4. Walks(W, m, 3, e, n, K)
        BY <1>4, <3>1
      <3>5. Walks(W, m, 3, e, 0, Tail(K))
        BY <3>3, <3>4, NothingPassed
      <3> QED
        BY <3>1, <3>5
    <2> QED
      BY <1>2, <2>1, <2>2 DEF Cardinal
  <1>6. pc # "written"
    BY <1>2 DEF Cardinal
  <1>7. Walked'
    BY <1>1, <1>3, <1>5, <1>6 DEF Walked
  <1>8. Counts(m_signal_mapping', m_idx')
    BY <1>1 DEF WInv
  <1> QED
    BY <1>7, <1>8

\* From one loop to the next no leaf is passed.
LEMMA NextLoopWalked ==
  ASSUME WInv, NextLoop
  PROVE  Walked' /\ Counts(m_signal_mapping, m_idx)'
  <1>1. /\ signal_mapping \in Mapping /\ element \in Nat
        /\ m_signal_mapping \in Seq(SignalInfo)
        /\ m_potential_keys \in Seq(Couple)
        /\ pc \in Cardinal /\ node = 0
        /\ UNCHANGED <<signal_mapping, node, m_potential_keys, m_idx,
                       m_signal_mapping>>
    BY DEF NextLoop, Cardinal, WInv, Inv, TypeOK
  <1>2. PICK W \in Seq(SignalInfo), m \in Mapping, e \in Nat,
             K \in Seq(Couple) :
          /\ W = m_signal_mapping /\ m = signal_mapping
          /\ e = element /\ K = m_potential_keys
    BY <1>1
  <1>3. Walks(W, m, Loop(pc), e, 0, K)
    BY <1>1, <1>2 DEF WInv, Walked
  <1>4. /\ Walks(W, m, Loop(pc'), element', 0, K)
        /\ pc' = "written" => K = <<>>
    <2>1. CASE pc \in {"OUTPUT", "INPUT"}
      <3>1. PICK loop \in 1 .. 2 : loop = Loop(pc)
        BY <2>1, LoopFacts
      <3>2. /\ Elements = ElementsIn(m, loop)
            /\ Loop(pc') = loop + 1
            /\ pc' # "written"
        BY <1>2, <2>1, <3>1 DEF NextLoop, Loop, Elements, ElementsIn
      <3>3. element' = 1 /\ e > Len(ElementsIn(m, loop))
        BY <1>2, <2>1, <3>2 DEF NextLoop
      <3>4. Walks(W, m, loop, e, 0, K)
        BY <1>3, <3>1
      <3>5. \A q : Queued(m, loop, e, q, K) =>
              /\ Queued(m, loop + 1, 1, q, K)
              /\ \A p \in Leaves(m) :
                   Passed(p, loop + 1, 1, 0, q) <=> Passed(p, loop, e, 0, q)
        BY <3>3, LoopWalked
      <3>6. Walks(W, m, loop + 1, 1, 0, K)
        BY <3>4, <3>5, NothingPassed
      <3> QED
        BY <3>2, <3>3, <3>6
    <2>2. CASE pc = "PARAMETER"
      <3>1. pc' = "written" /\ element' = e /\ K = <<>> /\ Loop(pc') = Loop(pc)
        BY <1>2, <2>2, LoopFacts DEF NextLoop
      <3> QED
        BY <1>3, <3>1
    <2> QED
      BY <1>1, <2>1, <2>2 DEF Cardinal
  <1>5. Walked'
    BY <1>1, <1>2, <1>4 DEF Walked
  <1>6. Counts(m_signal_mapping', m_idx')
    BY <1>1 DEF WInv
  <1> QED
    BY <1>5, <1>6

\* Every step of the repacker keeps WInv.
LEMMA StepWInv == WInv /\ [Next]_vars => WInv'
  <1> SUFFICES ASSUME WInv, [Next]_vars PROVE WInv'
    OBVIOUS
  <1>1. Inv'
    BY StepInv DEF WInv
  <1>2. CASE UNCHANGED vars
    <2>1. Walked' /\ Counts(m_signal_mapping, m_idx)'
      BY <1>2 DEF vars, WInv, Walked
    <2> QED
      BY <1>1, <2>1 DEF WInv
  <1>3. CASE Next
    BY <1>1, <1>3, GenerateWalked, RejectWalked, BeginAddWalked, VisitWalked,
       EndAddWalked, NextLoopWalked DEF Next, WInv
  <1> QED
    BY <1>2, <1>3

\* WInv holds in every reachable state.
LEMMA WalkInvariant == Spec => []WInv
  <1>1. Init => WInv
    BY InitInv, InitWalked DEF WInv
  <1> QED
    BY <1>1, StepWInv, PTL DEF Spec

(***************************************************************************)
(* A description that has been written has a variable for every leaf of    *)
(* the file with an FMI type, in the order of the file, and no other: no   *)
(* output, input or key parameter is left out or comes twice.              *)
(***************************************************************************)
THEOREM WholeFile == Spec => []DescribesTheFile
  <1>1. WInv => DescribesTheFile
    <2> SUFFICES ASSUME WInv, pc = "written"
                 PROVE  Lists(m_signal_mapping, signal_mapping)
      BY DEF DescribesTheFile
    <2>1. /\ signal_mapping \in Mapping
          /\ Walks(m_signal_mapping, signal_mapping, 3, element, node, <<>>)
      BY LoopFacts DEF WInv, Inv, TypeOK, Walked
    <2> QED
      BY <2>1, WalkIsComplete
  <1> QED
    BY <1>1, WalkInvariant, PTL
=============================================================================
