------------------------ MODULE DynamicPubSubProofs -------------------------
(***************************************************************************)
(* For any mapping files, profiles and addresses.  Between a reset of the  *)
(* DataMapper and the end of clear() no reference is alive but those that  *)
(* clear() throws away or that are known to dangle (Forgotten); from then  *)
(* on each signal adds an entity and the reference that goes with it       *)
(* (InStep).  An entry of m_filter_data that survived clear() is dead, so  *)
(* that one which is alive belongs to a filter of this reset.              *)
(***************************************************************************)
EXTENDS DynamicPubSub, SequenceTheorems, TLAPS

\* The entities of a participant.
Entities == [participant : BOOLEAN, publisher : BOOLEAN,
             subscriber : BOOLEAN, topics : SUBSET Topics,
             filters : SUBSET (Addresses \X Topics),
             writers : SUBSET Topics, readers : SUBSET Reader]

\* From the reset of the DataMapper to the participant.
Forgotten ==
  /\ pc \in {"clear", "create"} =>
       \A a \in DOMAIN m_filter_data : ~m_filter_data[a].alive
  /\ pc = "create" => /\ dds = NoEntities
                      /\ DOMAIN m_write_data = {}
                      /\ DOMAIN m_read_data = {}
                      /\ DOMAIN m_topic_to_type = {}
                      /\ m_reader_topic_filter = {}

\* From the participant to the end of reset: what the connections ...
ConnectionsInStep ==
  /\ DOMAIN m_write_data = dds.writers
  /\ DOMAIN m_read_data \subseteq dds.readers
  /\ \A w \in DOMAIN m_write_data : m_write_data[w].data = data_ref(w)
  /\ \A r \in DOMAIN m_read_data : m_read_data[r].data = data_ref(r.topic)

\* ... and the filters have.
FiltersInStep ==
  /\ \A f, g \in dds.filters : f[1] = g[1] => f = g
  /\ \A rf \in m_reader_topic_filter :
       /\ rf[2] \in DOMAIN m_filter_data
       /\ <<rf[2], rf[1].topic>> \in dds.filters
  /\ \A a \in DOMAIN m_filter_data :
       m_filter_data[a].alive
         => <<a, m_filter_data[a].topic>> \in dds.filters

InStep ==
  pc \in {"signals", "ready"} => ConnectionsInStep /\ FiltersInStep

\* While the loop of reset goes over the file DynamicPubSub has read, what
\* is left of it is in order, every other signal has its topic registered,
\* and each topic has the type the file gives it.
InFile ==
  /\ \A k \in DOMAIN fmu_signals :
       \E j \in DOMAIN listed : listed[j] = fmu_signals[k]
  /\ \A i, j \in DOMAIN fmu_signals :
       i < j /\ fmu_signals[j].publish => fmu_signals[i].publish
  /\ \A j \in DOMAIN listed :
       \/ listed[j].topic \in DOMAIN m_topic_to_type
       \/ \E k \in DOMAIN fmu_signals : fmu_signals[k] = listed[j]
  /\ \A t \in DOMAIN m_topic_to_type : m_topic_to_type[t] \in TopicTypes(t)

\* Where the types of the connections come from.
TypesFromFiles ==
  /\ \A w \in DOMAIN m_write_data :
       /\ m_write_data[w].type \in TopicTypes(w)
       /\ m_write_data[w].store_type \in TypesIn(mapped, w, TRUE)
  /\ \A r \in DOMAIN m_read_data :
       /\ m_read_data[r].type \in TopicTypes(r.topic)
       /\ m_read_data[r].store_type \in TypesIn(mapped, r.topic, FALSE)

TypesInv == /\ pc = "signals" => InFile
            /\ pc \in {"signals", "ready"} => TypesFromFiles

IInv == TypeOK /\ ParticipantIsDeleted /\ Forgotten /\ InStep

-----------------------------------------------------------------------------
(* What the helpers do.                                                    *)

LEMMA EmplaceFacts ==
  ASSUME NEW f, NEW k, NEW v
  PROVE  /\ DOMAIN Emplace(f, k, v) = DOMAIN f \union {k}
         /\ \A x \in DOMAIN f : Emplace(f, k, v)[x] = f[x]
         /\ k \notin DOMAIN f => Emplace(f, k, v)[k] = v
  BY DEF Emplace

LEMMA NoEntitiesType == NoEntities \in Entities
  BY DEF NoEntities, Entities

\* Whatever the maps know, delete_contained_entities leaves a participant
\* that can be deleted.
LEMMA ClearedType ==
  ASSUME dds \in Entities
  PROVE  /\ DeletesParticipant(Cleared(dds))
         /\ NoEntities.participant = FALSE
  <1>1. ASSUME NEW d PROVE DeletesParticipant(delete_contained_entities(d))
    BY DEF DeletesParticipant, delete_contained_entities, NoEntities
  <1> QED
    BY <1>1 DEF Cleared, NoEntities

LEMMA CreateTopicFacts ==
  ASSUME NEW d \in Entities, NEW t \in Topics
  PROVE  /\ create_topic(d, t) \in Entities
         /\ create_topic(d, t).filters = d.filters
         /\ create_topic(d, t).writers = d.writers
         /\ create_topic(d, t).readers = d.readers
  BY DEF Entities, create_topic

LEMMA CreateWriterFacts ==
  ASSUME NEW d \in Entities, NEW w \in Topics
  PROVE  /\ create_writer(d, w) \in Entities
         /\ create_writer(d, w).filters = d.filters
         /\ create_writer(d, w).writers = d.writers \union {w}
         /\ create_writer(d, w).readers = d.readers
  BY DEF Entities, create_writer

LEMMA CreateFilterFacts ==
  ASSUME NEW d \in Entities, NEW a \in Addresses, NEW t \in Topics
  PROVE  /\ create_filter(d, a, t) \in Entities
         /\ create_filter(d, a, t).filters = d.filters \union {<<a, t>>}
         /\ create_filter(d, a, t).writers = d.writers
         /\ create_filter(d, a, t).readers = d.readers
  BY DEF Entities, create_filter

LEMMA CreateReadersFacts ==
  ASSUME NEW d \in Entities, NEW rs \in SUBSET Reader
  PROVE  /\ create_readers(d, rs) \in Entities
         /\ create_readers(d, rs).filters = d.filters
         /\ create_readers(d, rs).writers = d.writers
         /\ create_readers(d, rs).readers = d.readers \union rs
  BY DEF Entities, create_readers

LEMMA CreateParticipantFacts ==
  ASSUME NEW p \in BOOLEAN, NEW s \in BOOLEAN
  PROVE  /\ create_participant(p, s) \in Entities
         /\ create_participant(p, s).filters = {}
         /\ create_participant(p, s).writers = {}
         /\ create_participant(p, s).readers = {}
  BY DEF Entities, create_participant

LEMMA ReadersFacts ==
  ASSUME NEW s \in Signal, NEW a \in Addresses \union {NoFilter}
  PROVE  /\ KeptReader(s, a) \in Reader
         /\ KeptReader(s, a).topic = s.topic
         /\ ReadersOf(s, a) \in SUBSET Reader
         /\ KeptReader(s, a) \in ReadersOf(s, a)
  <1>1. s.topic \in Topics
    BY DEF Signal
  <1>2. /\ KeptReader(s, a) \in Reader
        /\ KeptReader(s, a).topic = s.topic
    BY <1>1 DEF KeptReader, Reader
  <1>3. \A p \in BOOLEAN :
          [topic |-> s.topic, filter |-> a, profile |-> p] \in Reader
    BY <1>1 DEF Reader
  <1>4. {FALSE} \union {t \in {TRUE} : s.topic \in Profiled} \subseteq BOOLEAN
    OBVIOUS
  <1>5. ReadersOf(s, a) \in SUBSET Reader
    BY <1>3, <1>4 DEF ReadersOf
  <1>6. KeptReader(s, a) \in ReadersOf(s, a)
    BY DEF KeptReader, ReadersOf
  <1> QED
    BY <1>2, <1>5, <1>6

\* A topic has at most one type in a direction of a file.
LEMMA OneTypeIn ==
  ASSUME NEW l \in SignalLists \union {<<>>}, NEW t, NEW publish
  PROVE  /\ TypesIn(l, t, publish) \subseteq Types
         /\ \A x, y \in TypesIn(l, t, publish) : x = y
  <1>1. \A i \in DOMAIN l : l[i] \in Signal
    BY PubSubAssumption
  <1>2. \A i, j \in DOMAIN l :
          l[i].topic = l[j].topic /\ l[i].publish = l[j].publish => i = j
    BY PubSubAssumption
  <1> QED
    BY <1>1, <1>2 DEF TypesIn, Signal

\* The type of the data the DataMapper has is the one it has read.
LEMMA StoreTypeFacts ==
  ASSUME NEW t, NEW publish, InStore(t, publish)
  PROVE  StoreType(t, publish) \in TypesIn(mapped, t, publish)
  <1>1. \E y \in TypesIn(mapped, t, publish) : TRUE
    BY DEF InStore
  <1> QED
    BY <1>1 DEF StoreType

\* The signal of a step is one of those left, the others remain.
LEMMA HeadFacts ==
  ASSUME fmu_signals \in Seq(Signal), fmu_signals # <<>>
  PROVE  /\ Head(fmu_signals) \in Signal
         /\ Tail(fmu_signals) \in Seq(Signal)
         /\ 1 \in DOMAIN fmu_signals
         /\ Head(fmu_signals) = fmu_signals[1]
         /\ \A k \in DOMAIN Tail(fmu_signals) :
              /\ k + 1 \in DOMAIN fmu_signals
              /\ Tail(fmu_signals)[k] = fmu_signals[k + 1]
  <1>1. Len(fmu_signals) \in Nat /\ Len(fmu_signals) > 0
    BY EmptySeq, LenProperties
  <1>2. /\ DOMAIN fmu_signals = 1 .. Len(fmu_signals)
        /\ DOMAIN Tail(fmu_signals) = 1 .. (Len(fmu_signals) - 1)
    BY HeadTailProperties, LenProperties
  <1> QED
    BY <1>1, <1>2, HeadTailProperties

LEMMA RegisterTopicFacts ==
  ASSUME TypeOK, NEW s \in Signal, NEW ok \in BOOLEAN, RegisterTopic(s, ok)
  PROVE  /\ DOMAIN m_topic_to_type' = DOMAIN m_topic_to_type \union {s.topic}
         /\ \A t \in DOMAIN m_topic_to_type :
              m_topic_to_type'[t] = m_topic_to_type[t]
         /\ s.topic \notin DOMAIN m_topic_to_type
              => m_topic_to_type'[s.topic] = s.type
         /\ DOMAIN m_topic_to_type' \subseteq Topics
         /\ \A t \in DOMAIN m_topic_to_type' : m_topic_to_type'[t] \in m_types'
         /\ m_types' \subseteq Types
         /\ m_topic_name_ptr' \subseteq Topics
  <1>1. s.topic \in Topics /\ s.type \in Types
    BY DEF Signal
  <1>2. /\ DOMAIN m_topic_to_type' = DOMAIN m_topic_to_type \union {s.topic}
        /\ \A t \in DOMAIN m_topic_to_type :
              m_topic_to_type'[t] = m_topic_to_type[t]
        /\ s.topic \notin DOMAIN m_topic_to_type
              => m_topic_to_type'[s.topic] = s.type
    <2> DEFINE g == Emplace(m_topic_to_type, s.topic, s.type)
    <2>1. /\ DOMAIN g = DOMAIN m_topic_to_type \union {s.topic}
          /\ \A t \in DOMAIN m_topic_to_type : g[t] = m_topic_to_type[t]
          /\ s.topic \notin DOMAIN m_topic_to_type => g[s.topic] = s.type
      BY EmplaceFacts
    <2>2. m_topic_to_type' = g
      BY DEF RegisterTopic
    <2> HIDE DEF g
    <2> QED
      BY <2>1, <2>2
  <1>3. m_types' \subseteq Types /\ m_topic_name_ptr' \subseteq Topics
    BY <1>1 DEF RegisterTopic, TypeOK
  <1>4. m_types \subseteq m_types'
    BY DEF RegisterTopic
  <1>5. s.topic \notin DOMAIN m_topic_to_type => s.type \in m_types'
    BY DEF RegisterTopic
  <1>6. \A t \in DOMAIN m_topic_to_type' : m_topic_to_type'[t] \in m_types'
    BY <1>2, <1>4, <1>5 DEF TypeOK
  <1> QED
    BY <1>1, <1>2, <1>3, <1>6 DEF TypeOK

-----------------------------------------------------------------------------
(* What a signal adds.                                                     *)

Outcomes == {"ok", "entity", "data", "filter"}

\* The connection of signal s.
NewConnection(s, publish) ==
  [data |-> data_ref(s.topic), store_type |-> StoreType(s.topic, publish),
   type |-> m_topic_to_type'[s.topic]]

LEMMA NewConnectionType ==
  ASSUME TypeOK, NEW s \in Signal, NEW ok \in BOOLEAN, RegisterTopic(s, ok),
         NEW publish \in BOOLEAN
  PROVE  /\ InStore(s.topic, publish)
              => NewConnection(s, publish) \in Connection
         /\ NewConnection(s, publish).data = data_ref(s.topic)
         /\ data_ref(s.topic) \in Data
  <1>1. s.topic \in Topics
    BY DEF Signal
  <1>2. m_topic_to_type'[s.topic] \in Types
    BY RegisterTopicFacts
  <1>3. data_ref(s.topic) \in Data
    BY <1>1 DEF data_ref, Data
  <1>4. mapped \in SignalLists \union {<<>>}
    BY DEF TypeOK
  <1>5. InStore(s.topic, publish) => StoreType(s.topic, publish) \in Types
    BY <1>4, OneTypeIn, StoreTypeFacts
  <1> QED
    BY <1>1, <1>2, <1>3, <1>5 DEF NewConnection, Connection

LEMMA WriterFacts ==
  ASSUME TypeOK, NEW outcome \in Outcomes, AddWriter(outcome)
  PROVE  LET s == Head(fmu_signals) IN
         /\ pc = "signals" /\ fmu_signals # <<>>
         /\ s \in Signal
         /\ RegisterTopic(s, TRUE)
         /\ dds' \in Entities
         /\ dds'.filters = dds.filters /\ dds'.readers = dds.readers
         /\ \/ /\ pc' = "signals"
               /\ s.publish /\ InStore(s.topic, TRUE)
               /\ fmu_signals' = Tail(fmu_signals)
               /\ dds'.writers = dds.writers \union {s.topic}
               /\ m_write_data' =
                    Emplace(m_write_data, s.topic, NewConnection(s, TRUE))
            \/ /\ pc' = "failed"
               /\ UNCHANGED <<fmu_signals, m_write_data>>
         /\ UNCHANGED <<files, m_reader_topic_filter, m_filter_data,
                        m_read_data>>
  <1> DEFINE s == Head(fmu_signals)
             d == create_topic(dds, s.topic)
  <1>1. fmu_signals # <<>> /\ fmu_signals \in Seq(Signal)
    BY DEF AddWriter, TypeOK
  <1>2. s \in Signal /\ s.topic \in Topics
    BY <1>1, HeadFacts DEF Signal
  <1>3. dds \in Entities
    BY DEF TypeOK, Entities
  <1>4. /\ d \in Entities
        /\ d.filters = dds.filters
        /\ d.writers = dds.writers
        /\ d.readers = dds.readers
    BY <1>2, <1>3, CreateTopicFacts
  <1>5. /\ create_writer(d, s.topic) \in Entities
        /\ create_writer(d, s.topic).filters = dds.filters
        /\ create_writer(d, s.topic).writers = dds.writers \union {s.topic}
        /\ create_writer(d, s.topic).readers = dds.readers
    <2> HIDE DEF d
    <2> QED
      BY <1>2, <1>4, CreateWriterFacts
  <1>6. dds' = IF outcome = "entity" THEN d ELSE create_writer(d, s.topic)
    BY DEF AddWriter
  <1>7. /\ dds' \in Entities
        /\ dds'.filters = dds.filters /\ dds'.readers = dds.readers
        /\ outcome = "ok" => dds'.writers = dds.writers \union {s.topic}
    <2> HIDE DEF s, d
    <2> QED
      BY <1>4, <1>5, <1>6
  <1>8. /\ outcome = "ok" =>
             /\ pc' = "signals"
             /\ s.publish /\ InStore(s.topic, TRUE)
             /\ fmu_signals' = Tail(fmu_signals)
             /\ m_write_data' =
                  Emplace(m_write_data, s.topic, NewConnection(s, TRUE))
        /\ outcome # "ok" =>
             pc' = "failed" /\ UNCHANGED <<fmu_signals, m_write_data>>
    BY DEF AddWriter, NewConnection, dynamic_type
  <1>9. /\ pc = "signals"
        /\ RegisterTopic(s, TRUE)
        /\ UNCHANGED <<files, m_reader_topic_filter, m_filter_data,
                       m_read_data>>
    BY DEF AddWriter
  <1> QED
    BY <1>1, <1>2, <1>7, <1>8, <1>9

LEMMA ReaderFacts ==
  ASSUME TypeOK, NEW outcome \in Outcomes, fmu_signals # <<>>, pc = "signals",
         NEW a \in FilterAddresses(Head(fmu_signals)), AddReader(a, outcome)
  PROVE  LET s == Head(fmu_signals) IN
         /\ s \in Signal
         /\ a \in Addresses \union {NoFilter}
         /\ a # NoFilter =>
              a \in Addresses /\ \A f \in dds.filters : f[1] # a
         /\ RegisterTopic(s, TRUE)
         /\ dds' \in Entities
         /\ dds'.writers = dds.writers
         /\ \/ /\ pc' = "signals"
               /\ InStore(s.topic, FALSE)
               /\ fmu_signals' = Tail(fmu_signals)
               /\ dds'.readers = dds.readers \union ReadersOf(s, a)
               /\ dds'.filters =
                    dds.filters \union (IF a = NoFilter THEN {}
                                        ELSE {<<a, s.topic>>})
               /\ m_read_data' =
                    Emplace(m_read_data, KeptReader(s, a),
                            NewConnection(s, FALSE))
            \/ /\ pc' = "failed"
               /\ UNCHANGED <<fmu_signals, m_read_data>>
         /\ \/ /\ a # NoFilter
               /\ m_reader_topic_filter' =
                    m_reader_topic_filter \union {<<KeptReader(s, a), a>>}
               /\ m_filter_data' =
                    Emplace(m_filter_data, a, data_ref(s.topic))
            \/ /\ pc' = "signals" => a = NoFilter
               /\ UNCHANGED <<m_reader_topic_filter, m_filter_data>>
         /\ UNCHANGED <<files, m_write_data>>
  <1> DEFINE s == Head(fmu_signals)
             d1 == create_topic(dds, s.topic)
             d2 == IF a = NoFilter \/ outcome = "filter"
                   THEN d1
                   ELSE create_filter(d1, a, s.topic)
             attached == outcome \in {"ok", "data"}
             rs == ReadersOf(s, a)
             ks == rs \ {KeptReader(s, a)}
  <1>1. s \in Signal /\ s.topic \in Topics
    BY HeadFacts DEF Signal, TypeOK
  <1>2. /\ a \in Addresses \union {NoFilter}
        /\ a # NoFilter => a \in Addresses /\ \A f \in dds.filters : f[1] # a
    BY DEF FilterAddresses
  <1>3. dds \in Entities
    BY DEF TypeOK, Entities
  <1>4. rs \in SUBSET Reader /\ ks \in SUBSET Reader
    BY <1>1, <1>2, ReadersFacts
  <1>5. /\ d1 \in Entities
        /\ d1.filters = dds.filters
        /\ d1.writers = dds.writers
        /\ d1.readers = dds.readers
    BY <1>1, <1>3, CreateTopicFacts
  <1>6. /\ d2 \in Entities
        /\ d2.writers = dds.writers
        /\ d2.readers = dds.readers
        /\ outcome # "filter" =>
             d2.filters = dds.filters \union (IF a = NoFilter THEN {}
                                              ELSE {<<a, s.topic>>})
    <2>1. a # NoFilter =>
            /\ create_filter(d1, a, s.topic) \in Entities
            /\ create_filter(d1, a, s.topic).writers = dds.writers
            /\ create_filter(d1, a, s.topic).readers = dds.readers
            /\ create_filter(d1, a, s.topic).filters =
                 dds.filters \union {<<a, s.topic>>}
      <3> HIDE DEF d1
      <3> QED
        BY <1>1, <1>2, <1>5, CreateFilterFacts
    <2> HIDE DEF d1, s
    <2> QED
      BY <1>5, <2>1
  <1>7. /\ create_readers(d2, rs) \in Entities
        /\ create_readers(d2, rs).writers = dds.writers
        /\ create_readers(d2, rs).readers = dds.readers \union rs
        /\ create_readers(d2, rs).filters = d2.filters
        /\ create_readers(d2, ks) \in Entities
        /\ create_readers(d2, ks).writers = dds.writers
    <2> HIDE DEF d2, rs, ks
    <2> QED
      BY <1>4, <1>6, CreateReadersFacts
  <1>8. dds' = CASE attached -> create_readers(d2, rs)
                 [] outcome = "entity" -> create_readers(d2, ks)
                 [] OTHER -> d2
    BY DEF AddReader
  <1>9. /\ attached => dds' = create_readers(d2, rs)
        /\ outcome = "entity" => dds' = create_readers(d2, ks)
        /\ outcome = "filter" => dds' = d2
    <2> HIDE DEF d2, rs, ks
    <2> QED
      BY <1>8 DEF Outcomes
  <1>10. /\ dds' \in Entities
         /\ dds'.writers = dds.writers
         /\ outcome = "ok" =>
              /\ dds'.readers = dds.readers \union rs
              /\ dds'.filters =
                   dds.filters \union (IF a = NoFilter THEN {}
                                       ELSE {<<a, s.topic>>})
    <2>1. outcome \in {"ok", "data"} \/ outcome = "entity" \/ outcome = "filter"
      BY DEF Outcomes
    <2> HIDE DEF d2, rs, ks, s
    <2> QED
      BY <1>6, <1>7, <1>9, <2>1
  <1>11. /\ outcome = "ok" =>
              /\ pc' = "signals"
              /\ InStore(s.topic, FALSE)
              /\ fmu_signals' = Tail(fmu_signals)
              /\ m_read_data' =
                   Emplace(m_read_data, KeptReader(s, a),
                           NewConnection(s, FALSE))
         /\ outcome # "ok" =>
              pc' = "failed" /\ UNCHANGED <<fmu_signals, m_read_data>>
    BY DEF AddReader, NewConnection, dynamic_type
  <1>12. \/ /\ a # NoFilter
            /\ m_reader_topic_filter' =
                 m_reader_topic_filter \union {<<KeptReader(s, a), a>>}
            /\ m_filter_data' =
                 Emplace(m_filter_data, a, data_ref(s.topic))
         \/ /\ outcome = "ok" => a = NoFilter
            /\ UNCHANGED <<m_reader_topic_filter, m_filter_data>>
    BY DEF AddReader
  <1>13. RegisterTopic(s, TRUE) /\ UNCHANGED <<files, m_write_data>>
    BY DEF AddReader
  <1> QED
    <2>1. CASE outcome = "ok"
      BY <2>1, <1>1, <1>2, <1>10, <1>11, <1>12, <1>13
    <2>2. CASE outcome # "ok"
      BY <2>2, <1>1, <1>2, <1>10, <1>11, <1>12, <1>13
    <2> QED
      BY <2>1, <2>2

-----------------------------------------------------------------------------
(* Type correctness.                                                       *)

LEMMA EmplaceType ==
  ASSUME NEW f, NEW k, NEW v, NEW K, NEW V,
         DOMAIN f \subseteq K, \A x \in DOMAIN f : f[x] \in V,
         k \in K, v \in V
  PROVE  /\ DOMAIN Emplace(f, k, v) \subseteq K
         /\ \A x \in DOMAIN Emplace(f, k, v) : Emplace(f, k, v)[x] \in V
  <1> DEFINE g == Emplace(f, k, v)
  <1>1. /\ DOMAIN g = DOMAIN f \union {k}
        /\ \A x \in DOMAIN f : g[x] = f[x]
        /\ k \notin DOMAIN f => g[k] = v
    BY EmplaceFacts
  <1> HIDE DEF g
  <1>2. DOMAIN g \subseteq K /\ \A x \in DOMAIN g : g[x] \in V
    BY <1>1
  <1> QED
    BY <1>2 DEF g

LEMMA InitTypeOK == Init => TypeOK
  <1> SUFFICES ASSUME Init PROVE TypeOK
    OBVIOUS
  <1>1. dds \in Entities
    BY NoEntitiesType DEF Init
  <1>2. fmu_signals \in Seq(Signal)
    BY DEF Init
  <1> QED
    BY <1>1, <1>2 DEF Init, TypeOK, Entities, Empty

LEMMA MapperResetTypeOK ==
  ASSUME TypeOK, MapperReset
  PROVE  TypeOK'
  <1>1. \A d \in Data : Gone(d) \in Data
    BY DEF Gone, Data
  <1>2. \A c \in Connection : [c EXCEPT !.data = Gone(c.data)] \in Connection
    BY <1>1 DEF Connection
  <1>3. /\ DOMAIN m_write_data' = DOMAIN m_write_data
        /\ \A w \in DOMAIN m_write_data : m_write_data'[w] \in Connection
    BY <1>2 DEF MapperReset, Dangling, TypeOK
  <1>4. /\ DOMAIN m_read_data' = DOMAIN m_read_data
        /\ \A w \in DOMAIN m_read_data : m_read_data'[w] \in Connection
    BY <1>2 DEF MapperReset, Dangling, TypeOK
  <1>5. /\ DOMAIN m_filter_data' = DOMAIN m_filter_data
        /\ \A a \in DOMAIN m_filter_data : m_filter_data'[a] \in Data
    BY <1>1 DEF MapperReset, TypeOK
  <1>6. /\ pc' \in {"clear", "failed"}
        /\ UNCHANGED <<fmu_signals, dds, m_topic_to_type, m_types,
                       m_topic_name_ptr, m_reader_topic_filter>>
    BY DEF MapperReset
  <1>7. {mapped, listed}' \subseteq SignalLists \union {<<>>}
    BY DEF MapperReset
  <1> QED
    BY <1>3, <1>4, <1>5, <1>6, <1>7 DEF TypeOK

LEMMA ClearTypeOK ==
  ASSUME TypeOK, Clear
  PROVE  TypeOK' /\ pc' = "create" /\ dds' = NoEntities /\ ClearMembers
  <1>1. dds \in Entities
    BY DEF TypeOK, Entities
  <1>2. /\ pc' = "create" /\ dds' = NoEntities /\ ClearMembers
        /\ UNCHANGED <<files, fmu_signals>>
    BY <1>1, ClearedType DEF Clear
  <1>3. dds' \in Entities
    BY <1>2, NoEntitiesType
  <1> QED
    BY <1>2, <1>3 DEF TypeOK, Entities, ClearMembers, Empty, files

LEMMA CreateTypeOK ==
  ASSUME TypeOK, Create
  PROVE  TypeOK'
  <1>1. dds \in Entities
    BY DEF TypeOK, Entities
  <1>2. dds' \in Entities
    <2>1. \/ dds' = dds
          \/ \E p, s \in BOOLEAN : dds' = create_participant(p, s)
      BY DEF Create
    <2> QED
      BY <1>1, <2>1, CreateParticipantFacts
  <1>3. /\ fmu_signals' \in Seq(Signal)
        /\ {mapped, listed}' \subseteq SignalLists \union {<<>>}
    <2>1. SignalLists \subseteq Seq(Signal)
      BY PubSubAssumption
    <2>2. fmu_signals' \in SignalLists \/ fmu_signals' = fmu_signals
      BY DEF Create
    <2>3. listed' \in SignalLists \/ listed' = listed
      BY DEF Create
    <2>4. mapped' = mapped
      BY DEF Create
    <2> QED
      BY <2>1, <2>2, <2>3, <2>4 DEF TypeOK
  <1>4. pc' \in {"signals", "failed"} /\ UNCHANGED members
    BY DEF Create
  <1> QED
    BY <1>2, <1>3, <1>4 DEF TypeOK, Entities, members

LEMMA SignalFailsTypeOK ==
  ASSUME TypeOK, SignalFails
  PROVE  TypeOK'
  <1>1. Head(fmu_signals) \in Signal
    BY HeadFacts DEF SignalFails, TypeOK
  <1>2. /\ DOMAIN m_topic_to_type' \subseteq Topics
        /\ \A t \in DOMAIN m_topic_to_type' : m_topic_to_type'[t] \in m_types'
        /\ m_types' \subseteq Types
        /\ m_topic_name_ptr' \subseteq Topics
    <2>1. CASE UNCHANGED <<m_topic_to_type, m_types, m_topic_name_ptr>>
      BY <2>1 DEF TypeOK
    <2>2. CASE RegisterTopic(Head(fmu_signals), FALSE)
      BY <1>1, <2>2, RegisterTopicFacts
    <2> QED
      BY <2>1, <2>2 DEF SignalFails
  <1>3. /\ pc' = "failed"
        /\ UNCHANGED <<files, fmu_signals, dds, m_reader_topic_filter,
                       m_filter_data, m_write_data, m_read_data>>
    BY DEF SignalFails
  <1> QED
    BY <1>2, <1>3 DEF TypeOK, files

LEMMA AddWriterTypeOK ==
  ASSUME TypeOK, NEW outcome \in Outcomes, AddWriter(outcome)
  PROVE  TypeOK'
  <1> DEFINE s == Head(fmu_signals)
  <1>1. /\ s \in Signal /\ s.topic \in Topics
        /\ RegisterTopic(s, TRUE)
        /\ Tail(fmu_signals) \in Seq(Signal)
    BY WriterFacts, HeadFacts DEF Signal, TypeOK
  <1>2. /\ DOMAIN m_topic_to_type' \subseteq Topics
        /\ \A t \in DOMAIN m_topic_to_type' : m_topic_to_type'[t] \in m_types'
        /\ m_types' \subseteq Types
        /\ m_topic_name_ptr' \subseteq Topics
    BY <1>1, RegisterTopicFacts
  <1>3. InStore(s.topic, TRUE) => NewConnection(s, TRUE) \in Connection
    BY <1>1, NewConnectionType
  <1> HIDE DEF s
  <1>4. ASSUME InStore(s.topic, TRUE)
        PROVE  LET g == Emplace(m_write_data, s.topic, NewConnection(s, TRUE))
               IN  /\ DOMAIN g \subseteq Topics
                   /\ \A w \in DOMAIN g : g[w] \in Connection
    <2>1. /\ DOMAIN m_write_data \subseteq Topics
          /\ \A w \in DOMAIN m_write_data : m_write_data[w] \in Connection
      BY DEF TypeOK
    <2> QED
      BY <1>1, <1>3, <1>4, <2>1, EmplaceType
  <1>5. /\ dds' \in Entities
        /\ pc' \in {"signals", "failed"}
        /\ fmu_signals' \in {fmu_signals, Tail(fmu_signals)}
        /\ \/ /\ InStore(s.topic, TRUE)
              /\ m_write_data' =
                   Emplace(m_write_data, s.topic, NewConnection(s, TRUE))
           \/ m_write_data' = m_write_data
        /\ UNCHANGED <<files, m_reader_topic_filter, m_filter_data,
                       m_read_data>>
    BY WriterFacts DEF s
  <1>6. /\ DOMAIN m_write_data' \subseteq Topics
        /\ \A w \in DOMAIN m_write_data' : m_write_data'[w] \in Connection
    BY <1>4, <1>5 DEF TypeOK
  <1> QED
    BY <1>1, <1>2, <1>5, <1>6 DEF TypeOK, Entities, files

LEMMA SubscribeTypeOK ==
  ASSUME TypeOK, NEW outcome \in Outcomes, fmu_signals # <<>>, pc = "signals",
         NEW a \in FilterAddresses(Head(fmu_signals)), AddReader(a, outcome)
  PROVE  TypeOK'
  <1> DEFINE s == Head(fmu_signals)
  <1>1. /\ s \in Signal /\ s.topic \in Topics
        /\ RegisterTopic(s, TRUE)
        /\ Tail(fmu_signals) \in Seq(Signal)
    BY ReaderFacts, HeadFacts DEF Signal, TypeOK
  <1>2. /\ DOMAIN m_topic_to_type' \subseteq Topics
        /\ \A t \in DOMAIN m_topic_to_type' : m_topic_to_type'[t] \in m_types'
        /\ m_types' \subseteq Types
        /\ m_topic_name_ptr' \subseteq Topics
    BY <1>1, RegisterTopicFacts
  <1>3. /\ InStore(s.topic, FALSE) => NewConnection(s, FALSE) \in Connection
        /\ data_ref(s.topic) \in Data
    BY <1>1, NewConnectionType
  <1>4. /\ a \in Addresses \union {NoFilter}
        /\ a # NoFilter => a \in Addresses
        /\ dds' \in Entities
        /\ pc' \in {"signals", "failed"}
        /\ fmu_signals' \in {fmu_signals, Tail(fmu_signals)}
        /\ \/ /\ InStore(s.topic, FALSE)
              /\ m_read_data' = Emplace(m_read_data, KeptReader(s, a),
                                        NewConnection(s, FALSE))
           \/ m_read_data' = m_read_data
        /\ \/ /\ a # NoFilter
              /\ m_reader_topic_filter' =
                   m_reader_topic_filter \union {<<KeptReader(s, a), a>>}
              /\ m_filter_data' =
                   Emplace(m_filter_data, a, data_ref(s.topic))
           \/ UNCHANGED <<m_reader_topic_filter, m_filter_data>>
        /\ UNCHANGED <<files, m_write_data>>
    BY ReaderFacts
  <1>5. KeptReader(s, a) \in Reader
    BY <1>1, <1>4, ReadersFacts
  <1> HIDE DEF s
  <1>6. /\ DOMAIN m_read_data' \subseteq Reader
        /\ \A r \in DOMAIN m_read_data' : m_read_data'[r] \in Connection
    <2>1. /\ DOMAIN m_read_data \subseteq Reader
          /\ \A r \in DOMAIN m_read_data : m_read_data[r] \in Connection
      BY DEF TypeOK
    <2> DEFINE g == Emplace(m_read_data, KeptReader(s, a),
                            NewConnection(s, FALSE))
    <2>2. InStore(s.topic, FALSE) =>
            /\ DOMAIN g \subseteq Reader
            /\ \A r \in DOMAIN g : g[r] \in Connection
      BY <1>3, <1>5, <2>1, EmplaceType
    <2> HIDE DEF g
    <2>3. \/ m_read_data' = g /\ InStore(s.topic, FALSE)
          \/ m_read_data' = m_read_data
      BY <1>4 DEF g
    <2> QED
      BY <2>1, <2>2, <2>3
  <1>7. /\ DOMAIN m_filter_data' \subseteq Addresses
        /\ \A r \in DOMAIN m_filter_data' : m_filter_data'[r] \in Data
    <2>1. /\ DOMAIN m_filter_data \subseteq Addresses
          /\ \A r \in DOMAIN m_filter_data : m_filter_data[r] \in Data
      BY DEF TypeOK
    <2> DEFINE g == Emplace(m_filter_data, a, data_ref(s.topic))
    <2>2. a \in Addresses =>
            /\ DOMAIN g \subseteq Addresses
            /\ \A r \in DOMAIN g : g[r] \in Data
      BY <1>3, <2>1, EmplaceType
    <2> HIDE DEF g
    <2>3. (m_filter_data' = g /\ a \in Addresses)
            \/ m_filter_data' = m_filter_data
      BY <1>4 DEF g
    <2> QED
      BY <2>1, <2>2, <2>3
  <1>8. m_reader_topic_filter' \subseteq Reader \X Addresses
    BY <1>4, <1>5 DEF TypeOK
  <1> QED
    BY <1>1, <1>2, <1>4, <1>6, <1>7, <1>8 DEF TypeOK, Entities, files

\* The step of a signal to subscribe to, with its choices named.
LEMMA SubscribeChoices ==
  ASSUME Subscribe
  PROVE  /\ fmu_signals # <<>> /\ pc = "signals"
         /\ \E a \in FilterAddresses(Head(fmu_signals)), outcome \in Outcomes :
              AddReader(a, outcome)
  BY DEF Subscribe, Outcomes

LEMMA NextTypeOK == TypeOK /\ [Next]_vars => TypeOK'
  <1> SUFFICES ASSUME TypeOK, [Next]_vars PROVE TypeOK'
    OBVIOUS
  <1>1. CASE MapperReset
    BY <1>1, MapperResetTypeOK
  <1>2. CASE Clear
    BY <1>2, ClearTypeOK
  <1>3. CASE Create
    BY <1>3, CreateTypeOK
  <1>4. CASE SignalFails
    BY <1>4, SignalFailsTypeOK
  <1>5. ASSUME NEW outcome \in {"ok", "entity", "data"}, AddWriter(outcome)
        PROVE  TypeOK'
    BY <1>5, AddWriterTypeOK DEF Outcomes
  <1>6. CASE Subscribe
    BY <1>6, SubscribeChoices, SubscribeTypeOK
  <1>7. CASE AllSignals
    BY <1>7 DEF AllSignals, TypeOK, members, files
  <1>8. CASE UNCHANGED vars
    BY <1>8 DEF vars, TypeOK, members, files
  <1> QED
    BY <1>1, <1>2, <1>3, <1>4, <1>5, <1>6, <1>7, <1>8 DEF Next

\* The entities, the maps and the connections have their types.
THEOREM TypeCorrect == Spec => []TypeOK
  BY InitTypeOK, NextTypeOK, PTL DEF Spec

-----------------------------------------------------------------------------
(* The participant is deleted, and what reset builds is in step.           *)

LEMMA InitIInv == Init => IInv
  BY InitTypeOK DEF Init, IInv, ParticipantIsDeleted, Forgotten, InStep

\* Everything that refers to the DataMapper dangles after its reset.
LEMMA MapperResetIInv ==
  ASSUME IInv, MapperReset
  PROVE  IInv'
  <1>1. /\ DOMAIN m_filter_data' = DOMAIN m_filter_data
        /\ \A a \in DOMAIN m_filter_data : ~m_filter_data'[a].alive
    BY DEF MapperReset, Gone, IInv, TypeOK, Data
  <1>2. pc' \in {"clear", "failed"}
    BY DEF MapperReset
  <1> QED
    BY <1>1, <1>2, MapperResetTypeOK
    DEF IInv, ParticipantIsDeleted, Forgotten, InStep

LEMMA ClearIInv ==
  ASSUME IInv, Clear
  PROVE  IInv'
  <1>1. /\ TypeOK'
        /\ pc' = "create" /\ dds' = NoEntities /\ ClearMembers
        /\ pc = "clear"
    BY ClearTypeOK DEF IInv, Clear
  <1>2. \A a \in DOMAIN m_filter_data' : ~m_filter_data'[a].alive
    BY <1>1 DEF IInv, Forgotten, ClearMembers
  <1>3. /\ DOMAIN m_write_data' = {} /\ DOMAIN m_read_data' = {}
        /\ DOMAIN m_topic_to_type' = {} /\ m_reader_topic_filter' = {}
    BY <1>1 DEF ClearMembers, Empty
  <1> QED
    BY <1>1, <1>2, <1>3 DEF IInv, ParticipantIsDeleted, Forgotten, InStep

LEMMA CreateIInv ==
  ASSUME IInv, Create
  PROVE  IInv'
  <1>1. TypeOK' /\ pc = "create" /\ pc' \in {"signals", "failed"}
    BY CreateTypeOK DEF IInv, Create
  <1>2. UNCHANGED <<m_reader_topic_filter, m_filter_data, m_write_data,
                    m_read_data>>
    BY DEF Create, members
  <1>3. /\ DOMAIN m_write_data' = {} /\ DOMAIN m_read_data' = {}
        /\ m_reader_topic_filter' = {}
        /\ \A a \in DOMAIN m_filter_data' : ~m_filter_data'[a].alive
    BY <1>1, <1>2 DEF IInv, Forgotten
  <1>4. pc' = "signals" => dds'.writers = {} /\ dds'.filters = {}
    BY CreateParticipantFacts DEF Create
  <1>5. pc' = "signals" => ConnectionsInStep'
    BY <1>3, <1>4 DEF ConnectionsInStep
  <1>6. pc' = "signals" => FiltersInStep'
    BY <1>3, <1>4 DEF FiltersInStep
  <1> QED
    BY <1>1, <1>5, <1>6 DEF IInv, ParticipantIsDeleted, Forgotten, InStep

LEMMA AddWriterIInv ==
  ASSUME IInv, NEW outcome \in Outcomes, AddWriter(outcome)
  PROVE  IInv'
  <1> DEFINE s == Head(fmu_signals)
             g == Emplace(m_write_data, s.topic, NewConnection(s, TRUE))
  <1>1. TypeOK /\ TypeOK'
    BY AddWriterTypeOK DEF IInv
  <1>2. /\ pc = "signals"
        /\ s \in Signal
        /\ RegisterTopic(s, TRUE)
        /\ dds'.filters = dds.filters /\ dds'.readers = dds.readers
        /\ \/ /\ pc' = "signals"
              /\ dds'.writers = dds.writers \union {s.topic}
              /\ m_write_data' = g
           \/ pc' = "failed"
        /\ UNCHANGED <<m_reader_topic_filter, m_filter_data, m_read_data>>
    BY <1>1, WriterFacts
  <1>3. NewConnection(s, TRUE).data = data_ref(s.topic)
    BY <1>1, <1>2, NewConnectionType
  <1>4. ConnectionsInStep /\ FiltersInStep
    BY <1>2 DEF IInv, InStep
  <1>5. /\ DOMAIN g = DOMAIN m_write_data \union {s.topic}
        /\ \A w \in DOMAIN m_write_data : g[w] = m_write_data[w]
        /\ s.topic \notin DOMAIN m_write_data
             => g[s.topic] = NewConnection(s, TRUE)
    BY EmplaceFacts
  <1> HIDE DEF g, s
  <1>6. \A w \in DOMAIN g : g[w].data = data_ref(w)
    BY <1>3, <1>4, <1>5 DEF ConnectionsInStep
  <1>7. pc' = "signals" => ConnectionsInStep'
    BY <1>2, <1>4, <1>5, <1>6 DEF ConnectionsInStep
  <1>8. FiltersInStep'
    BY <1>2, <1>4 DEF FiltersInStep
  <1>9. pc' \in {"signals", "failed"}
    BY <1>2
  <1> QED
    BY <1>1, <1>7, <1>8, <1>9 DEF IInv, ParticipantIsDeleted, Forgotten, InStep

\* The filter of a signal is at an address no living one has; an entry that
\* address has in m_filter_data is dead, and stays.
LEMMA AddReaderIInv ==
  ASSUME IInv, NEW outcome \in Outcomes, fmu_signals # <<>>, pc = "signals",
         NEW a \in FilterAddresses(Head(fmu_signals)), AddReader(a, outcome)
  PROVE  IInv'
  <1> DEFINE s == Head(fmu_signals)
             k == KeptReader(s, a)
             g == Emplace(m_read_data, k, NewConnection(s, FALSE))
             h == Emplace(m_filter_data, a, data_ref(s.topic))
  <1>1. TypeOK /\ TypeOK'
    BY SubscribeTypeOK DEF IInv
  <1>2. /\ s \in Signal
        /\ a \in Addresses \union {NoFilter}
        /\ RegisterTopic(s, TRUE)
        /\ dds'.writers = dds.writers
        /\ UNCHANGED m_write_data
        /\ pc' \in {"signals", "failed"}
    BY <1>1, ReaderFacts
  <1>3. pc' = "signals" =>
          /\ dds'.readers = dds.readers \union ReadersOf(s, a)
          /\ m_read_data' = g
    BY <1>1, ReaderFacts
  <1>4. pc' = "signals" =>
          IF a = NoFilter
          THEN /\ dds'.filters = dds.filters
               /\ UNCHANGED <<m_reader_topic_filter, m_filter_data>>
          ELSE /\ dds'.filters = dds.filters \union {<<a, s.topic>>}
               /\ m_reader_topic_filter' =
                    m_reader_topic_filter \union {<<k, a>>}
               /\ m_filter_data' = h
               /\ \A f \in dds.filters : f[1] # a
    BY <1>1, ReaderFacts
  <1>5. /\ NewConnection(s, FALSE).data = data_ref(s.topic)
        /\ k.topic = s.topic /\ k \in ReadersOf(s, a)
    BY <1>1, <1>2, NewConnectionType, ReadersFacts
  <1>6. ConnectionsInStep /\ FiltersInStep
    BY DEF IInv, InStep
  <1>7. /\ DOMAIN g = DOMAIN m_read_data \union {k}
        /\ \A r \in DOMAIN m_read_data : g[r] = m_read_data[r]
        /\ k \notin DOMAIN m_read_data => g[k] = NewConnection(s, FALSE)
    BY EmplaceFacts
  <1>8. /\ DOMAIN h = DOMAIN m_filter_data \union {a}
        /\ \A x \in DOMAIN m_filter_data : h[x] = m_filter_data[x]
        /\ a \notin DOMAIN m_filter_data => h[a] = data_ref(s.topic)
    BY EmplaceFacts
  <1>9. data_ref(s.topic).topic = s.topic
    BY DEF data_ref
  <1> HIDE DEF g, h, k, s
  <1>10. pc' = "signals" => ConnectionsInStep'
    <2>1. \A r \in DOMAIN g : g[r].data = data_ref(r.topic)
      BY <1>5, <1>6, <1>7 DEF ConnectionsInStep
    <2> QED
      BY <1>2, <1>3, <1>5, <1>6, <1>7, <2>1 DEF ConnectionsInStep
  <1>11. pc' = "signals" => FiltersInStep'
    <2>1. CASE a = NoFilter
      BY <1>4, <1>6, <2>1 DEF FiltersInStep
    <2> SUFFICES ASSUME a # NoFilter, pc' = "signals" PROVE FiltersInStep'
      BY <2>1
    <2>2. /\ dds'.filters = dds.filters \union {<<a, s.topic>>}
          /\ m_reader_topic_filter' = m_reader_topic_filter \union {<<k, a>>}
          /\ m_filter_data' = h
          /\ \A f \in dds.filters : f[1] # a
      BY <1>4
    <2>3. \A f, f2 \in dds'.filters : f[1] = f2[1] => f = f2
      BY <1>6, <2>2 DEF FiltersInStep
    <2>4. \A rf \in m_reader_topic_filter' :
            /\ rf[2] \in DOMAIN m_filter_data'
            /\ <<rf[2], rf[1].topic>> \in dds'.filters
      <3>1. ASSUME NEW rf \in m_reader_topic_filter
            PROVE  /\ rf[2] \in DOMAIN m_filter_data'
                   /\ <<rf[2], rf[1].topic>> \in dds'.filters
        BY <1>6, <1>8, <2>2 DEF FiltersInStep
      <3>2. /\ <<k, a>>[2] \in DOMAIN m_filter_data'
            /\ <<<<k, a>>[2], <<k, a>>[1].topic>> \in dds'.filters
        BY <1>5, <1>8, <2>2
      <3> QED
        BY <2>2, <3>1, <3>2
    <2>5. \A x \in DOMAIN h :
            h[x].alive => <<x, h[x].topic>> \in dds'.filters
      <3> SUFFICES ASSUME NEW x \in DOMAIN h, h[x].alive
                   PROVE  <<x, h[x].topic>> \in dds'.filters
        OBVIOUS
      <3>1. CASE x \in DOMAIN m_filter_data
        <4>1. <<x, m_filter_data[x].topic>> \in dds.filters
          BY <1>6, <1>8, <3>1 DEF FiltersInStep
        <4> QED
          BY <1>8, <2>2, <3>1, <4>1
      <3>2. CASE x \notin DOMAIN m_filter_data
        <4>1. x = a /\ h[x] = data_ref(s.topic)
          BY <1>8, <3>2
        <4> QED
          BY <1>9, <2>2, <4>1
      <3> QED
        BY <3>1, <3>2
    <2> QED
      BY <2>2, <2>3, <2>4, <2>5 DEF FiltersInStep
  <1> QED
    BY <1>1, <1>2, <1>10, <1>11
    DEF IInv, ParticipantIsDeleted, Forgotten, InStep

LEMMA NextIInv == IInv /\ [Next]_vars => IInv'
  <1> SUFFICES ASSUME IInv, [Next]_vars PROVE IInv'
    OBVIOUS
  <1>1. CASE MapperReset
    BY <1>1, MapperResetIInv
  <1>2. CASE Clear
    BY <1>2, ClearIInv
  <1>3. CASE Create
    BY <1>3, CreateIInv
  <1>4. CASE SignalFails
    <2>1. TypeOK' /\ pc' = "failed"
      BY <1>4, SignalFailsTypeOK DEF IInv, SignalFails
    <2> QED
      BY <2>1 DEF IInv, ParticipantIsDeleted, Forgotten, InStep
  <1>5. ASSUME NEW outcome \in {"ok", "entity", "data"}, AddWriter(outcome)
        PROVE  IInv'
    BY <1>5, AddWriterIInv DEF Outcomes
  <1>6. CASE Subscribe
    BY <1>6, SubscribeChoices, AddReaderIInv
  <1>7. CASE AllSignals
    <2>1. /\ TypeOK' /\ pc = "signals" /\ pc' = "ready"
          /\ UNCHANGED <<dds, members>>
      BY <1>7, NextTypeOK DEF IInv, AllSignals, Next
    <2>2. ConnectionsInStep' /\ FiltersInStep'
      BY <2>1 DEF IInv, InStep, ConnectionsInStep, FiltersInStep, members
    <2> QED
      BY <2>1, <2>2 DEF IInv, ParticipantIsDeleted, Forgotten, InStep
  <1>8. CASE UNCHANGED vars
    BY <1>8, NextTypeOK DEF vars, members, IInv, ParticipantIsDeleted,
       Forgotten, InStep, ConnectionsInStep, FiltersInStep
  <1> QED
    BY <1>1, <1>2, <1>3, <1>4, <1>5, <1>6, <1>7, <1>8 DEF Next

LEMMA Invariance == Spec => []IInv
  BY InitIInv, NextIInv, PTL DEF Spec

\* clear() can delete the participant whatever an earlier reset left behind.
THEOREM Deleted == Spec => []ParticipantIsDeleted
  <1>1. IInv => ParticipantIsDeleted
    BY DEF IInv
  <1> QED
    BY <1>1, Invariance, PTL

\* A ready instance writes and takes living data, by living entities.
THEOREM Current == Spec => []ConnectionsAreCurrent
  <1>1. IInv => ConnectionsAreCurrent
    BY DEF IInv, InStep, ConnectionsInStep, ConnectionsAreCurrent
  <1> QED
    BY <1>1, Invariance, PTL

\* The filters of a ready instance have entries, and an entry that is alive
\* is the one of the filter's own topic.
THEOREM FilterEntries == Spec => []FiltersHaveData
  <1>1. IInv => FiltersHaveData
    <2> SUFFICES ASSUME IInv, pc = "ready",
                        NEW rf \in m_reader_topic_filter
                 PROVE  /\ rf[2] \in DOMAIN m_filter_data
                        /\ <<rf[2], rf[1].topic>> \in dds.filters
                        /\ m_filter_data[rf[2]].alive
                             => m_filter_data[rf[2]] = data_ref(rf[1].topic)
      BY DEF FiltersHaveData
    <2>1. /\ FiltersInStep
          /\ rf[2] \in DOMAIN m_filter_data
          /\ <<rf[2], rf[1].topic>> \in dds.filters
      BY DEF IInv, InStep, FiltersInStep
    <2>2. ASSUME m_filter_data[rf[2]].alive
          PROVE  m_filter_data[rf[2]] = data_ref(rf[1].topic)
      <3>1. <<rf[2], m_filter_data[rf[2]].topic>> \in dds.filters
        BY <2>1, <2>2 DEF FiltersInStep
      <3>2. <<rf[2], m_filter_data[rf[2]].topic>> = <<rf[2], rf[1].topic>>
        BY <2>1, <3>1 DEF FiltersInStep
      <3>3. m_filter_data[rf[2]].topic = rf[1].topic
        BY <3>2
      <3>4. m_filter_data[rf[2]] \in Data
        BY <2>1 DEF IInv, TypeOK
      <3> QED
        BY <2>2, <3>3, <3>4 DEF Data, data_ref
    <2> QED
      BY <2>1, <2>2
  <1> QED
    BY <1>1, Invariance, PTL

-----------------------------------------------------------------------------
(* Where the types come from.                                              *)

\* TopicTypes depends on the file alone, and is one type at most.
LEMMA TopicTypesFacts ==
  ASSUME TypeOK, NEW t
  PROVE  /\ \A x, y \in TopicTypes(t) : x = y
         /\ UNCHANGED listed => TopicTypes(t)' = TopicTypes(t)
         /\ \A w : UNCHANGED mapped =>
              TypesIn(mapped, t, w)' = TypesIn(mapped, t, w)
  <1>1. listed \in SignalLists \union {<<>>}
    BY DEF TypeOK
  <1>2. \A x, y \in TopicTypes(t) : x = y
    BY <1>1, OneTypeIn DEF TopicTypes
  <1>3. ASSUME UNCHANGED listed
        PROVE  TopicTypes(t)' = TopicTypes(t)
    BY <1>3 DEF TopicTypes, TypesIn
  <1>4. ASSUME UNCHANGED mapped, NEW w
        PROVE  TypesIn(mapped, t, w)' = TypesIn(mapped, t, w)
    BY <1>4 DEF TypesIn
  <1> QED
    BY <1>2, <1>3, <1>4

\* The loop registers the type the file gives the topic: the signals of
\* <fmu_in> come first, and a topic that has a type keeps it.
LEMMA RegisterInFile ==
  ASSUME TypeOK, InFile, fmu_signals # <<>>, NEW ok \in BOOLEAN,
         RegisterTopic(Head(fmu_signals), ok), UNCHANGED files
  PROVE  /\ m_topic_to_type'[Head(fmu_signals).topic]
              \in TopicTypes(Head(fmu_signals).topic)
         /\ fmu_signals' = Tail(fmu_signals) => InFile'
  <1> DEFINE s == Head(fmu_signals)
             n == Len(fmu_signals)
  <1>1. /\ s \in Signal
        /\ 1 \in DOMAIN fmu_signals
        /\ s = fmu_signals[1]
        /\ \A k \in DOMAIN Tail(fmu_signals) :
             /\ k + 1 \in DOMAIN fmu_signals
             /\ Tail(fmu_signals)[k] = fmu_signals[k + 1]
    BY HeadFacts DEF TypeOK
  <1>2. /\ n \in Nat \ {0}
        /\ DOMAIN fmu_signals = 1 .. n
        /\ DOMAIN Tail(fmu_signals) = 1 .. n - 1
    BY EmptySeq, LenProperties, HeadTailProperties DEF TypeOK
  <1>3. PICK p \in DOMAIN listed : listed[p] = s
    BY <1>1 DEF InFile
  <1>4. /\ DOMAIN m_topic_to_type' = DOMAIN m_topic_to_type \union {s.topic}
        /\ \A t \in DOMAIN m_topic_to_type :
             m_topic_to_type'[t] = m_topic_to_type[t]
        /\ s.topic \notin DOMAIN m_topic_to_type
             => m_topic_to_type'[s.topic] = s.type
    BY <1>1, RegisterTopicFacts
  <1>5. \A i \in DOMAIN fmu_signals : fmu_signals[i] \in Signal
    BY <1>2 DEF TypeOK
  <1> HIDE DEF s, n
  <1>6. m_topic_to_type'[s.topic] \in TopicTypes(s.topic)
    <2>1. CASE s.topic \in DOMAIN m_topic_to_type
      BY <1>4, <2>1 DEF InFile
    <2>2. CASE s.topic \notin DOMAIN m_topic_to_type
      <3>1. s.type \in TypesIn(listed, s.topic, s.publish)
        BY <1>3 DEF TypesIn
      <3>2. s.publish = TRUE \/ s.publish = FALSE
        BY <1>1 DEF Signal
      <3>3. CASE s.publish = TRUE
        BY <1>4, <2>2, <3>1, <3>3 DEF TopicTypes
      <3>4. CASE s.publish = FALSE
        <4>1. ASSUME NEW j \in DOMAIN listed, listed[j].topic = s.topic,
                     listed[j].publish = TRUE
              PROVE  FALSE
          <5>1. PICK k \in DOMAIN fmu_signals : fmu_signals[k] = listed[j]
            BY <2>2, <4>1 DEF InFile
          <5>2. k # 1
            BY <1>1, <3>4, <4>1, <5>1
          <5>3. 1 < k
            BY <1>2, <5>2
          <5>4. fmu_signals[1].publish
            BY <1>1, <4>1, <5>1, <5>3 DEF InFile
          <5> QED
            BY <1>1, <3>4, <5>4
        <4>2. TypesIn(listed, s.topic, TRUE) = {}
          BY <4>1 DEF TypesIn
        <4> QED
          BY <1>4, <2>2, <3>1, <3>4, <4>2 DEF TopicTypes
      <3> QED
        BY <3>2, <3>3, <3>4
    <2> QED
      BY <2>1, <2>2
  <1>7. ASSUME fmu_signals' = Tail(fmu_signals)
        PROVE  InFile'
    <2> DEFINE new == Tail(fmu_signals)
    <2>0. /\ DOMAIN new = 1 .. n - 1
          /\ \A k \in DOMAIN new : /\ k + 1 \in DOMAIN fmu_signals
                                   /\ new[k] = fmu_signals[k + 1]
      BY <1>1, <1>2
    <2> HIDE DEF new
    <2>1. \A k \in DOMAIN new : \E j \in DOMAIN listed : listed[j] = new[k]
      BY <2>0 DEF InFile
    <2>2. \A i, j \in DOMAIN new :
            i < j /\ new[j].publish => new[i].publish
      <3> SUFFICES ASSUME NEW i \in DOMAIN new, NEW j \in DOMAIN new,
                          i < j, new[j].publish
                   PROVE  new[i].publish
        OBVIOUS
      <3>1. i + 1 < j + 1
        BY <2>0
      <3> QED
        BY <2>0, <3>1 DEF InFile
    <2>3. \A j \in DOMAIN listed :
            \/ listed[j].topic \in DOMAIN m_topic_to_type'
            \/ \E k \in DOMAIN new : new[k] = listed[j]
      <3> SUFFICES ASSUME NEW j \in DOMAIN listed,
                          listed[j].topic \notin DOMAIN m_topic_to_type'
                   PROVE  \E k \in DOMAIN new : new[k] = listed[j]
        OBVIOUS
      <3>1. PICK k \in DOMAIN fmu_signals : fmu_signals[k] = listed[j]
        BY <1>4 DEF InFile
      <3>2. k # 1
        BY <1>1, <1>4, <3>1
      <3>3. k - 1 \in DOMAIN new
        BY <1>2, <2>0, <3>2
      <3>4. new[k - 1] = fmu_signals[(k - 1) + 1] /\ (k - 1) + 1 = k
        BY <1>2, <2>0, <3>3
      <3> QED
        BY <3>1, <3>3, <3>4
    <2>4. \A t \in DOMAIN m_topic_to_type' :
            m_topic_to_type'[t] \in TopicTypes(t)
      BY <1>4, <1>6 DEF InFile
    <2>5. \A t : TopicTypes(t)' = TopicTypes(t)
      BY TopicTypesFacts DEF files
    <2>6. listed' = listed /\ fmu_signals' = new
      BY <1>7 DEF files, new
    <2> QED
      BY <2>1, <2>2, <2>3, <2>4, <2>5, <2>6 DEF InFile
  <1> QED
    BY <1>6, <1>7 DEF s

\* A connection gets the type of its topic and that of the DataMapper's data.
LEMMA NewConnectionTypes ==
  ASSUME NEW s, NEW publish, InStore(s.topic, publish),
         m_topic_to_type'[s.topic] \in TopicTypes(s.topic)
  PROVE  /\ NewConnection(s, publish).type \in TopicTypes(s.topic)
         /\ NewConnection(s, publish).store_type
              \in TypesIn(mapped, s.topic, publish)
  BY StoreTypeFacts DEF NewConnection

LEMMA TypesAtWriter ==
  ASSUME TypeOK, TypesInv, NEW outcome \in Outcomes, AddWriter(outcome)
  PROVE  TypesInv'
  <1> DEFINE s == Head(fmu_signals)
             c == NewConnection(s, TRUE)
             g == Emplace(m_write_data, s.topic, c)
  <1>1. /\ pc = "signals" /\ fmu_signals # <<>>
        /\ RegisterTopic(s, TRUE)
        /\ UNCHANGED <<files, m_read_data>>
        /\ \/ /\ pc' = "signals"
              /\ InStore(s.topic, TRUE)
              /\ fmu_signals' = Tail(fmu_signals)
              /\ m_write_data' = g
           \/ pc' = "failed"
    BY WriterFacts
  <1> SUFFICES ASSUME pc' = "signals" PROVE InFile' /\ TypesFromFiles'
    BY <1>1 DEF TypesInv
  <1>2. /\ m_topic_to_type'[s.topic] \in TopicTypes(s.topic)
        /\ InFile'
    BY <1>1, RegisterInFile DEF TypesInv
  <1>3. /\ c.type \in TopicTypes(s.topic)
        /\ c.store_type \in TypesIn(mapped, s.topic, TRUE)
    BY <1>1, <1>2, NewConnectionTypes
  <1>4. /\ DOMAIN g = DOMAIN m_write_data \union {s.topic}
        /\ \A w \in DOMAIN m_write_data : g[w] = m_write_data[w]
        /\ s.topic \notin DOMAIN m_write_data => g[s.topic] = c
    BY EmplaceFacts
  <1>5. m_write_data' = g /\ m_read_data' = m_read_data
    BY <1>1
  <1>6. \A t : /\ TopicTypes(t)' = TopicTypes(t)
               /\ \A w : TypesIn(mapped, t, w)' = TypesIn(mapped, t, w)
    BY <1>1, TopicTypesFacts DEF files
  <1>7. TypesFromFiles
    BY <1>1 DEF TypesInv
  <1> HIDE DEF g, s, c
  <1>8. \A w \in DOMAIN g : /\ g[w].type \in TopicTypes(w)
                            /\ g[w].store_type \in TypesIn(mapped, w, TRUE)
    BY <1>3, <1>4, <1>7 DEF TypesFromFiles
  <1> QED
    BY <1>2, <1>5, <1>6, <1>7, <1>8 DEF TypesFromFiles

LEMMA TypesAtReader ==
  ASSUME TypeOK, TypesInv, NEW outcome \in Outcomes,
         fmu_signals # <<>>, pc = "signals",
         NEW a \in FilterAddresses(Head(fmu_signals)), AddReader(a, outcome)
  PROVE  TypesInv'
  <1> DEFINE s == Head(fmu_signals)
             k == KeptReader(s, a)
             c == NewConnection(s, FALSE)
             g == Emplace(m_read_data, k, c)
  <1>1. /\ s \in Signal /\ a \in Addresses \union {NoFilter}
        /\ RegisterTopic(s, TRUE)
        /\ UNCHANGED <<files, m_write_data>>
        /\ \/ /\ pc' = "signals"
              /\ InStore(s.topic, FALSE)
              /\ fmu_signals' = Tail(fmu_signals)
              /\ m_read_data' = g
           \/ pc' = "failed"
    BY ReaderFacts
  <1> SUFFICES ASSUME pc' = "signals" PROVE InFile' /\ TypesFromFiles'
    BY <1>1 DEF TypesInv
  <1>2. /\ m_topic_to_type'[s.topic] \in TopicTypes(s.topic)
        /\ InFile'
    BY <1>1, RegisterInFile DEF TypesInv
  <1>3. /\ c.type \in TopicTypes(s.topic)
        /\ c.store_type \in TypesIn(mapped, s.topic, FALSE)
        /\ k.topic = s.topic
    BY <1>1, <1>2, NewConnectionTypes, ReadersFacts
  <1>4. /\ DOMAIN g = DOMAIN m_read_data \union {k}
        /\ \A r \in DOMAIN m_read_data : g[r] = m_read_data[r]
        /\ k \notin DOMAIN m_read_data => g[k] = c
    BY EmplaceFacts
  <1>5. m_read_data' = g /\ m_write_data' = m_write_data
    BY <1>1
  <1>6. \A t : /\ TopicTypes(t)' = TopicTypes(t)
               /\ \A w : TypesIn(mapped, t, w)' = TypesIn(mapped, t, w)
    BY <1>1, TopicTypesFacts DEF files
  <1>7. TypesFromFiles
    BY DEF TypesInv
  <1> HIDE DEF g, k, s, c
  <1>8. \A r \in DOMAIN g :
          /\ g[r].type \in TopicTypes(r.topic)
          /\ g[r].store_type \in TypesIn(mapped, r.topic, FALSE)
    BY <1>3, <1>4, <1>7 DEF TypesFromFiles
  <1> QED
    BY <1>2, <1>5, <1>6, <1>7, <1>8 DEF TypesFromFiles

LEMMA InitTypes == Init => TypesInv
  BY DEF Init, TypesInv

LEMMA NextTypes == IInv /\ TypesInv /\ [Next]_vars => TypesInv'
  <1> SUFFICES ASSUME IInv, TypesInv, [Next]_vars PROVE TypesInv'
    OBVIOUS
  <1>0. TypeOK
    BY DEF IInv
  <1>1. CASE MapperReset
    BY <1>1 DEF MapperReset, TypesInv
  <1>2. CASE Clear
    BY <1>2 DEF Clear, TypesInv
  <1>3. CASE Create
    <2> SUFFICES ASSUME pc' = "signals" PROVE InFile' /\ TypesFromFiles'
      BY <1>3 DEF Create, TypesInv
    <2>1. /\ pc = "create" /\ UNCHANGED members
          /\ listed' \in SignalLists
          /\ fmu_signals' = listed'
      BY <1>3 DEF Create
    <2>2. /\ DOMAIN m_topic_to_type' = {}
          /\ DOMAIN m_write_data' = {}
          /\ DOMAIN m_read_data' = {}
      BY <2>1 DEF IInv, Forgotten, members
    <2>3. InFile'
      BY <2>1, <2>2, PubSubAssumption DEF InFile
    <2> QED
      BY <2>2, <2>3 DEF TypesFromFiles
  <1>4. CASE SignalFails
    BY <1>4 DEF SignalFails, TypesInv
  <1>5. ASSUME NEW outcome \in {"ok", "entity", "data"}, AddWriter(outcome)
        PROVE  TypesInv'
    BY <1>0, <1>5, TypesAtWriter DEF Outcomes
  <1>6. CASE Subscribe
    BY <1>0, <1>6, SubscribeChoices, TypesAtReader
  <1>7. CASE AllSignals
    BY <1>7 DEF AllSignals, files, members, TypesInv, TypesFromFiles,
                TopicTypes
  <1>8. CASE UNCHANGED vars
    BY <1>8 DEF vars, files, members, TypesInv, InFile, TypesFromFiles,
                TopicTypes
  <1> QED
    BY <1>1, <1>2, <1>3, <1>4, <1>5, <1>6, <1>7, <1>8 DEF Next

\* Two types that are each the only member of a set are equal if and only if
\* the sets are.
LEMMA SameMember ==
  ASSUME NEW S, NEW T, NEW x \in S, NEW y \in T,
         \A u, v \in S : u = v, \A u, v \in T : u = v
  PROVE  x = y <=> S = T
  OBVIOUS

\* The DynamicData Fast DDS reads or writes and that of the DataMapper are of
\* one type if and only if the two reads of the mapping file say so, so that
\* the Converter's copy by position is a copy by meaning in no other case.
THEOREM OneType == Spec => []ConnectionsAgreeOnType
  <1>1. IInv /\ TypesInv => ConnectionsAgreeOnType
    <2> SUFFICES ASSUME TypeOK, TypesFromFiles
                 PROVE  /\ \A w \in DOMAIN m_write_data :
                             m_write_data[w].type = m_write_data[w].store_type
                               <=> TopicTypes(w) = TypesIn(mapped, w, TRUE)
                        /\ \A r \in DOMAIN m_read_data :
                             m_read_data[r].type = m_read_data[r].store_type
                               <=> TopicTypes(r.topic)
                                     = TypesIn(mapped, r.topic, FALSE)
      BY DEF IInv, TypesInv, ConnectionsAgreeOnType
    <2>1. \A t : /\ \A x, y \in TopicTypes(t) : x = y
                 /\ \A p : \A x, y \in TypesIn(mapped, t, p) : x = y
      BY TopicTypesFacts, OneTypeIn DEF TypeOK
    <2>2. ASSUME NEW w \in DOMAIN m_write_data
          PROVE  m_write_data[w].type = m_write_data[w].store_type
                   <=> TopicTypes(w) = TypesIn(mapped, w, TRUE)
      <3> DEFINE S == TopicTypes(w)
                 T == TypesIn(mapped, w, TRUE)
                 x == m_write_data[w].type
                 y == m_write_data[w].store_type
      <3>1. x \in S /\ y \in T
        BY DEF TypesFromFiles
      <3>2. /\ \A u, z \in S : u = z
            /\ \A u, z \in T : u = z
        BY <2>1
      <3> HIDE DEF S, T, x, y
      <3>3. x = y <=> S = T
        BY <3>1, <3>2, SameMember
      <3> QED
        BY <3>3 DEF S, T, x, y
    <2>3. ASSUME NEW r \in DOMAIN m_read_data
          PROVE  m_read_data[r].type = m_read_data[r].store_type
                   <=> TopicTypes(r.topic) = TypesIn(mapped, r.topic, FALSE)
      <3> DEFINE S == TopicTypes(r.topic)
                 T == TypesIn(mapped, r.topic, FALSE)
                 x == m_read_data[r].type
                 y == m_read_data[r].store_type
      <3>1. x \in S /\ y \in T
        BY DEF TypesFromFiles
      <3>2. /\ \A u, z \in S : u = z
            /\ \A u, z \in T : u = z
        BY <2>1
      <3> HIDE DEF S, T, x, y
      <3>3. x = y <=> S = T
        BY <3>1, <3>2, SameMember
      <3> QED
        BY <3>3 DEF S, T, x, y
    <2> QED
      BY <2>2, <2>3
  <1> QED
    BY <1>1, Invariance, InitTypes, NextTypes, PTL DEF Spec
=============================================================================
