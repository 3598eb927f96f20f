---------------------------- MODULE DynamicPubSub ----------------------------
(***************************************************************************)
(* The DDS entities of an FMU instance and the members of DynamicPubSub    *)
(* that refer to them.  FmuInstance::Reset first resets the DataMapper,    *)
(* which replaces every DynamicData, and then DynamicPubSub, which deletes *)
(* all entities and creates new ones, topic by topic.  Each part may throw *)
(* and leave what it did so far; the simulator can then reset once more.   *)
(*                                                                         *)
(* Both read the mapping file, one after the other.  DynamicPubSub asks    *)
(* the DataMapper for its data by topic and direction only: what it gets   *)
(* is of the type the DataMapper has read, not of the one it has read      *)
(* itself.                                                                 *)
(*                                                                         *)
(* A step is clear(), the setup of participant, publisher and subscriber,  *)
(* or one signal of the mapping.  A ContentFilteredTopic is known by its   *)
(* address, the key of m_filter_data; an address may serve again when its  *)
(* filter is gone.  Key parameters that a failed reset leaves queued in    *)
(* the DataMapper are the matter of DataMapper.tla: here its parameters    *)
(* are those of the file it has read.                                      *)
(***************************************************************************)
EXTENDS Integers, Sequences, FiniteSets

CONSTANTS
  Topics, Types,
  SignalLists, \* the mapping files: <fmu_in> first, then <fmu_out>
  Profiled,    \* topics with a data_reader profile in dds_profile.xml
  Addresses,   \* where a ContentFilteredTopic may be allocated
  NoFilter     \* no ContentFilteredTopic

Signal == [topic : Topics, type : Types, publish : BOOLEAN, filter : BOOLEAN]

\* The list starts with <fmu_in>.  A topic comes once in a direction: the
\* DataMapper refuses others.  A file edited between the two reads so that
\* only DynamicPubSub meets a topic twice is left out.
ASSUME PubSubAssumption ==
  /\ SignalLists \subseteq Seq(Signal)
  /\ \A l \in SignalLists : \A i, j \in DOMAIN l :
       /\ l[i].topic = l[j].topic /\ l[i].publish = l[j].publish => i = j
       /\ i < j /\ l[j].publish => l[i].publish
  /\ Profiled \subseteq Topics
  /\ NoFilter \notin Addresses

VARIABLES
  pc,           \* where FmuInstance::Reset is, or how it ended
  mapped,       \* the file as m_mapper.reset has read it
  listed,       \* and as DynamicPubSub::reset has
  fmu_signals,  \* signals the loop of reset has still to set up
  dds,          \* the entities of the participant, as Fast DDS keeps them
  m_topic_to_type, m_types, m_topic_name_ptr, m_reader_topic_filter,
  m_filter_data, m_write_data, m_read_data

members == <<m_topic_to_type, m_types, m_topic_name_ptr,
             m_reader_topic_filter, m_filter_data, m_write_data, m_read_data>>
files == <<mapped, listed>>
vars == <<pc, files, fmu_signals, dds, members>>

\* A DataReader: its topic, the filter it is attached to, the QoS it got.
Reader == [topic : Topics, filter : Addresses \union {NoFilter},
           profile : BOOLEAN]

\* A reference to DynamicData of the DataMapper: for which topic, and whether
\* that DynamicData is still there.
Data == [topic : Topics, alive : BOOLEAN]

\* What data_ref returns.
data_ref(t) == [topic |-> t, alive |-> TRUE]

\* The types a file has for a topic in a direction: one, or none.
TypesIn(file, t, publish) ==
  {file[i].type : i \in {j \in DOMAIN file : /\ file[j].topic = t
                                           /\ file[j].publish = publish}}

\* The DataMapper has data for the topic: data_ref does not throw ...
InStore(t, publish) == TypesIn(mapped, t, publish) # {}

\* ... and the data is of this type.
StoreType(t, publish) == CHOOSE y \in TypesIn(mapped, t, publish) : TRUE

\* The DataMapper has key parameters of the output.
need_filter(t) ==
  \E i \in DOMAIN mapped :
    mapped[i].topic = t /\ ~mapped[i].publish /\ mapped[i].filter

\* A connection of m_write_data or m_read_data: the DynamicData of the
\* DataMapper, its type, and the type of the DynamicData of Fast DDS.
Connection == [data : Data, store_type : Types, type : Types]

NoEntities ==
  [participant |-> FALSE, publisher |-> FALSE, subscriber |-> FALSE,
   topics |-> {}, filters |-> {}, writers |-> {}, readers |-> {}]

Empty == [x \in {} |-> x]

\* std::map::emplace: an entry that is there stays as it is.
Emplace(f, k, v) ==
  IF k \in DOMAIN f
  THEN f
  ELSE [x \in DOMAIN f \union {k} |-> IF x = k THEN v ELSE f[x]]

-----------------------------------------------------------------------------
(* What Fast DDS does when asked to delete: an entity another one needs is *)
(* not deleted, and delete_participant refuses while anything is left.     *)

delete_writers(d, ws) == [d EXCEPT !.writers = @ \ ws]

delete_publisher(d) == IF d.writers = {} THEN [d EXCEPT !.publisher = FALSE]
                                         ELSE d

delete_readers(d, rs) == [d EXCEPT !.readers = @ \ rs]

delete_subscriber(d) == IF d.readers = {} THEN [d EXCEPT !.subscriber = FALSE]
                                          ELSE d

InUse(d, t) == \/ \E w \in d.writers : w = t
               \/ \E r \in d.readers : r.topic = t
               \/ \E f \in d.filters : f[2] = t

delete_topics(d, ts) ==
  [d EXCEPT !.topics = {t \in @ : t \in ts => InUse(d, t)}]

delete_filters(d, as) ==
  [d EXCEPT !.filters =
     {f \in @ : f[1] \in as => \E r \in d.readers : r.filter = f[1]}]

delete_contained_entities(d) ==
  [NoEntities EXCEPT !.participant = d.participant]

\* And what it adds when asked to create.
create_participant(p, s) ==
  [participant |-> TRUE, publisher |-> p, subscriber |-> s,
   topics |-> {}, filters |-> {}, writers |-> {}, readers |-> {}]

create_topic(d, t) == [d EXCEPT !.topics = @ \union {t}]

create_writer(d, w) == [d EXCEPT !.writers = @ \union {w}]

create_filter(d, a, t) == [d EXCEPT !.filters = @ \union {<<a, t>>}]

create_readers(d, rs) == [d EXCEPT !.readers = @ \union rs]

DeletesParticipant(d) ==
  /\ ~d.publisher /\ ~d.subscriber
  /\ d.topics = {} /\ d.filters = {}

-----------------------------------------------------------------------------
\* Mutant: no safety net.
ClearedByMaps(d) ==
  LET d1 == delete_publisher(delete_writers(d, DOMAIN m_write_data))
      d2 == delete_subscriber(delete_readers(d1, DOMAIN m_read_data))
      d3 == delete_topics(d2, m_topic_name_ptr)
  IN  delete_filters(d3, {rf[2] : rf \in m_reader_topic_filter})

\* The deletions of clear(), in their order.
Cleared(d) ==
  LET d1 == delete_publisher(delete_writers(d, DOMAIN m_write_data))
      d2 == delete_subscriber(delete_readers(d1, DOMAIN m_read_data))
      d3 == delete_topics(d2, m_topic_name_ptr)
      d4 == delete_filters(d3, {rf[2] : rf \in m_reader_topic_filter})
  IN  delete_contained_entities(d4)

Init ==
  /\ pc = "start"
  /\ mapped = <<>> /\ listed = <<>>
  /\ fmu_signals = <<>>
  /\ dds = NoEntities
  /\ m_topic_to_type = Empty
  /\ m_types = {}
  /\ m_topic_name_ptr = {}
  /\ m_reader_topic_filter = {}
  /\ m_filter_data = Empty
  /\ m_write_data = Empty
  /\ m_read_data = Empty

\* FmuInstance::Reset: m_mapper.reset destroys the data and makes new data,
\* then throws or not.  The DynamicPubSub keeps its references to the old.
Gone(data) == [data EXCEPT !.alive = FALSE]

Dangling(connections) ==
  [c \in DOMAIN connections |->
     [connections[c] EXCEPT !.data = Gone(connections[c].data)]]

MapperReset ==
  /\ pc \in {"start", "ready", "failed"}
  /\ \/ pc' = "clear" /\ mapped' \in SignalLists
     \/ pc' = "failed" /\ mapped' = <<>>
  /\ listed' = <<>>
  /\ m_write_data' = Dangling(m_write_data)
  /\ m_read_data' = Dangling(m_read_data)
  /\ m_filter_data' = [a \in DOMAIN m_filter_data |->
                         Gone(m_filter_data[a])]
  /\ UNCHANGED <<fmu_signals, dds, m_topic_to_type, m_types,
                 m_topic_name_ptr, m_reader_topic_filter>>

\* Mutants: a member is forgotten.
KeepReadData ==
  /\ m_topic_to_type' = Empty /\ m_write_data' = Empty
  /\ m_types' = {} /\ m_topic_name_ptr' = {} /\ m_reader_topic_filter' = {}
  /\ UNCHANGED <<m_read_data, m_filter_data>>

KeepTypes ==
  /\ m_write_data' = Empty /\ m_read_data' = Empty
  /\ m_topic_name_ptr' = {} /\ m_reader_topic_filter' = {}
  /\ UNCHANGED <<m_topic_to_type, m_types, m_filter_data>>

KeepReaderFilters ==
  /\ m_topic_to_type' = Empty /\ m_write_data' = Empty /\ m_read_data' = Empty
  /\ m_types' = {} /\ m_topic_name_ptr' = {}
  /\ UNCHANGED <<m_reader_topic_filter, m_filter_data>>

\* The members clear() clears; m_filter_data is not among them.
ClearMembers ==
  /\ m_topic_to_type' = Empty
  /\ m_types' = {}
  /\ m_topic_name_ptr' = {}
  /\ m_reader_topic_filter' = {}
  /\ m_write_data' = Empty
  /\ m_read_data' = Empty
  /\ UNCHANGED m_filter_data

\* clear(): it throws when the participant cannot be deleted.
Clear ==
  /\ pc = "clear"
  /\ IF DeletesParticipant(Cleared(dds))
     THEN /\ dds' = NoEntities
          /\ pc' = "create"
          /\ ClearMembers
     ELSE /\ dds' = Cleared(dds)
          /\ pc' = "undeleted"
          /\ UNCHANGED members
  /\ UNCHANGED <<files, fmu_signals>>

\* From the profiles to the list of signals: participant, publisher and
\* subscriber, the filter factory, and the mapping file.  It throws before
\* the participant is there, or after.
Create ==
  /\ pc = "create"
  /\ \/ /\ pc' = "failed"
        /\ UNCHANGED <<listed, fmu_signals, dds>>
     \/ /\ pc' = "failed"
        /\ \E p, s \in BOOLEAN : dds' = create_participant(p, s)
        /\ UNCHANGED <<listed, fmu_signals>>
     \/ /\ pc' = "signals"
        /\ dds' = create_participant(TRUE, TRUE)
        /\ listed' \in SignalLists
        /\ fmu_signals' = listed'
  /\ UNCHANGED <<mapped, members>>

\* Mutant: the type is not kept.
RegisterTopicOnly(s, topic_ok) ==
  /\ m_topic_to_type' = Emplace(m_topic_to_type, s.topic, s.type)
  /\ m_types' = m_types
  /\ m_topic_name_ptr' = IF topic_ok THEN m_topic_name_ptr \union {s.topic}
                                     ELSE m_topic_name_ptr

\* The first half of the loop body: the type is registered under the topic
\* unless the topic has one already, and the topic exists.  topic_ok is
\* false when create_topic fails and the body throws.
RegisterTopic(s, topic_ok) ==
  /\ m_topic_to_type' = Emplace(m_topic_to_type, s.topic, s.type)
  /\ m_types' = IF s.topic \in DOMAIN m_topic_to_type
                THEN m_types ELSE m_types \union {s.type}
  /\ m_topic_name_ptr' = IF topic_ok THEN m_topic_name_ptr \union {s.topic}
                                     ELSE m_topic_name_ptr

\* The type of the DynamicData Fast DDS reads or writes for a topic.
dynamic_type(t) == m_topic_to_type'[t]

\* The builder cannot be made, or the topic cannot.
SignalFails ==
  /\ pc = "signals"
  /\ fmu_signals # <<>>
  /\ pc' = "failed"
  /\ \/ UNCHANGED <<m_topic_to_type, m_types, m_topic_name_ptr>>
     \/ /\ Head(fmu_signals).topic \notin dds.topics
        /\ RegisterTopic(Head(fmu_signals), FALSE)
  /\ UNCHANGED <<files, fmu_signals, dds, m_reader_topic_filter,
                 m_filter_data, m_write_data, m_read_data>>

\* outcome: "ok"; "entity" when no DataWriter can be created; "data" when it
\* is there and data_ref has nothing for the topic, as the file has changed
\* since the DataMapper has read it.
AddWriter(outcome) ==
  LET s == Head(fmu_signals)
      d == create_topic(dds, s.topic)
  IN  /\ pc = "signals"
      /\ fmu_signals # <<>>
      /\ s.publish
      /\ outcome = "ok" => InStore(s.topic, TRUE)
      /\ outcome = "data" => ~InStore(s.topic, TRUE)
      /\ RegisterTopic(s, TRUE)
      /\ dds' = IF outcome = "entity" THEN d ELSE create_writer(d, s.topic)
      /\ IF outcome = "ok"
         THEN /\ m_write_data' = Emplace(m_write_data, s.topic,
                   [data |-> data_ref(s.topic),
                    store_type |-> StoreType(s.topic, TRUE),
                    type |-> dynamic_type(s.topic)])
              /\ fmu_signals' = Tail(fmu_signals)
              /\ UNCHANGED pc
         ELSE /\ pc' = "failed"
              /\ UNCHANGED <<fmu_signals, m_write_data>>
      /\ UNCHANGED <<files, m_reader_topic_filter, m_filter_data,
                     m_read_data>>

\* create_datareader_with_profile attaches a reader when the topic has a
\* profile, but its result is dropped: the reader the FMU uses is always the
\* second one, with the default QoS.
ReadersOf(s, a) ==
  {[topic |-> s.topic, filter |-> a, profile |-> p] :
     p \in {FALSE} \union {t \in {TRUE} : s.topic \in Profiled}}

KeptReader(s, a) == [topic |-> s.topic, filter |-> a, profile |-> FALSE]

\* An address no living ContentFilteredTopic has, when one is needed.
FilterAddresses(s) ==
  IF need_filter(s.topic) THEN Addresses \ {f[1] : f \in dds.filters}
                          ELSE {NoFilter}

\* outcome: "ok"; "filter" when the ContentFilteredTopic cannot be created,
\* "entity" when no DataReader can, "data" as above.
AddReader(a, outcome) ==
  LET s == Head(fmu_signals)
      attached == outcome \in {"ok", "data"}
      d1 == create_topic(dds, s.topic)
      d2 == IF a = NoFilter \/ outcome = "filter"
            THEN d1
            ELSE create_filter(d1, a, s.topic)
  IN  /\ outcome = "ok" => InStore(s.topic, FALSE)
      /\ outcome = "data" => ~InStore(s.topic, FALSE)
      /\ RegisterTopic(s, TRUE)
      /\ dds' =
           CASE attached -> create_readers(d2, ReadersOf(s, a))
             [] outcome = "entity" ->
                  create_readers(d2, ReadersOf(s, a) \ {KeptReader(s, a)})
             [] OTHER -> d2
      /\ IF attached /\ a # NoFilter
         THEN /\ m_reader_topic_filter' =
                   m_reader_topic_filter \union {<<KeptReader(s, a), a>>}
              /\ m_filter_data' = Emplace(m_filter_data, a, data_ref(s.topic))
         ELSE UNCHANGED <<m_reader_topic_filter, m_filter_data>>
      /\ IF outcome = "ok"
         THEN /\ m_read_data' = Emplace(m_read_data, KeptReader(s, a),
                   [data |-> data_ref(s.topic),
                    store_type |-> StoreType(s.topic, FALSE),
                    type |-> dynamic_type(s.topic)])
              /\ fmu_signals' = Tail(fmu_signals)
              /\ UNCHANGED pc
         ELSE /\ pc' = "failed"
              /\ UNCHANGED <<fmu_signals, m_read_data>>
      /\ UNCHANGED <<files, m_write_data>>

Subscribe ==
  /\ pc = "signals"
  /\ fmu_signals # <<>>
  /\ ~Head(fmu_signals).publish
  /\ \E a \in FilterAddresses(Head(fmu_signals)) :
       \/ \E outcome \in {"ok", "entity", "data"} : AddReader(a, outcome)
       \/ a # NoFilter /\ AddReader(a, "filter")

AllSignals ==
  /\ pc = "signals"
  /\ fmu_signals = <<>>
  /\ pc' = "ready"
  /\ UNCHANGED <<files, fmu_signals, dds, members>>

Next ==
  \/ MapperReset \/ Clear \/ Create \/ SignalFails
  \/ \E outcome \in {"ok", "entity", "data"} : AddWriter(outcome)
  \/ Subscribe \/ AllSignals

Spec == Init /\ [][Next]_vars

-----------------------------------------------------------------------------
TypeOK ==
  /\ pc \in {"start", "clear", "create", "signals", "ready", "failed",
             "undeleted"}
  /\ {mapped, listed} \subseteq SignalLists \union {<<>>}
  /\ fmu_signals \in Seq(Signal)
  /\ dds \in [participant : BOOLEAN, publisher : BOOLEAN,
              subscriber : BOOLEAN, topics : SUBSET Topics,
              filters : SUBSET (Addresses \X Topics),
              writers : SUBSET Topics, readers : SUBSET Reader]
  /\ DOMAIN m_topic_to_type \subseteq Topics
  /\ \A t \in DOMAIN m_topic_to_type : m_topic_to_type[t] \in m_types
  /\ m_types \subseteq Types
  /\ m_topic_name_ptr \subseteq Topics
  /\ m_reader_topic_filter \subseteq Reader \X Addresses
  /\ DOMAIN m_filter_data \subseteq Addresses
  /\ \A a \in DOMAIN m_filter_data : m_filter_data[a] \in Data
  /\ DOMAIN m_write_data \subseteq Topics
  /\ \A w \in DOMAIN m_write_data : m_write_data[w] \in Connection
  /\ DOMAIN m_read_data \subseteq Reader
  /\ \A r \in DOMAIN m_read_data : m_read_data[r] \in Connection

(***************************************************************************)
(* clear() deletes the entities it has in its maps; readers that are in no *)
(* map keep the subscriber, and filters keep their topics, which it        *)
(* deletes first.  Whatever a reset left behind, the participant goes: the *)
(* next reset does not end in "Could not successfully delete DDS domain    *)
(* participant".                                                           *)
(***************************************************************************)
ParticipantIsDeleted == pc # "undeleted"

(***************************************************************************)
(* When reset returns, write and take go over references that are alive:   *)
(* every connection has an entity of the new participant and the data the  *)
(* DataMapper holds now, not the data of the mapper before its reset.      *)
(***************************************************************************)
ConnectionsAreCurrent ==
  pc = "ready" =>
    /\ DOMAIN m_write_data = dds.writers
    /\ DOMAIN m_read_data \subseteq dds.readers
    /\ \A w \in DOMAIN m_write_data :
         m_write_data[w].data = data_ref(w)
    /\ \A r \in DOMAIN m_read_data :
         m_read_data[r].data = data_ref(r.topic)

\* The type a topic has in Fast DDS by the file DynamicPubSub has read: that
\* of <fmu_in>, and that of <fmu_out> for a topic which is not in <fmu_in>.
TopicTypes(t) == IF TypesIn(listed, t, TRUE) # {} THEN TypesIn(listed, t, TRUE)
                                                  ELSE TypesIn(listed, t, FALSE)

(***************************************************************************)
(* The Converter copies between the DynamicData of Fast DDS and that of    *)
(* the DataMapper member by member, by position.  Both are of the same     *)
(* type exactly if the file the DataMapper has read has the topic, in that *)
(* direction, with the type of the topic in the file DynamicPubSub has     *)
(* read.  docs/index.md:88 ("Each topic is associated with a data *type*") *)
(* expects it; nothing checks it.  It fails for an output that is also an  *)
(* input of another type, and for a file that changes between the reads;   *)
(* nothing else, no reset before, makes the types differ.                  *)
(***************************************************************************)
ConnectionsAgreeOnType ==
  pc \in {"signals", "ready"} =>
    /\ \A w \in DOMAIN m_write_data :
         m_write_data[w].type = m_write_data[w].store_type
           <=> TopicTypes(w) = TypesIn(mapped, w, TRUE)
    /\ \A r \in DOMAIN m_read_data :
         m_read_data[r].type = m_read_data[r].store_type
           <=> TopicTypes(r.topic) = TypesIn(mapped, r.topic, FALSE)

(***************************************************************************)
(* init_key_filters looks each filter up with at(), which would throw in   *)
(* ExitInitializationMode; every filter of a ready instance is alive and   *)
(* has its entry.  Addresses are used again and clear() forgets            *)
(* m_filter_data: the entry may be that of an earlier filter, whose data   *)
(* is gone, but never that of another living one.                          *)
(***************************************************************************)
FiltersHaveData ==
  pc = "ready" =>
    \A rf \in m_reader_topic_filter :
      /\ rf[2] \in DOMAIN m_filter_data
      /\ <<rf[2], rf[1].topic>> \in dds.filters
      /\ m_filter_data[rf[2]].alive
           => m_filter_data[rf[2]] = data_ref(rf[1].topic)
=============================================================================
