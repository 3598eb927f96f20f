-------------------------- MODULE FmuInstanceProofs --------------------------
(***************************************************************************)
(* For any topics, peers and history depths.  Three arguments: samples of  *)
(* one writer keep their order from the writer to the output (InOrder);    *)
(* a topic the FMU alone publishes has nothing in flight where delivery is *)
(* intraprocess, and nothing unread between steps (QuietTopics); and each  *)
(* step of the instance is a step of SampleHold or leaves what SampleHold  *)
(* sees alone.                                                             *)
(***************************************************************************)
EXTENDS FmuInstance, SequenceTheorems, TLAPS

\* The inner loop of take is at a reader only while take runs, and has made
\* the output from a sample.
ReadingOK ==
  reading # None => /\ pc = "take"
                    /\ reading \in todo
                    /\ output[reading] \in Received

TodoOK == pc = "write" => todo \subseteq Published

-----------------------------------------------------------------------------
(* Sequences.                                                              *)

LEMMA AppendFacts ==
  ASSUME NEW S, NEW q \in Seq(S), NEW s \in S
  PROVE  /\ Append(q, s) \in Seq(S)
         /\ Len(q) \in Nat
         /\ Len(Append(q, s)) = Len(q) + 1
         /\ DOMAIN Append(q, s) = 1 .. Len(q) + 1
         /\ DOMAIN q = 1 .. Len(q)
         /\ \A i \in 1 .. Len(q) : Append(q, s)[i] = q[i]
         /\ Append(q, s)[Len(q) + 1] = s
  BY AppendProperties, LenProperties

LEMMA TailFacts ==
  ASSUME NEW S, NEW q \in Seq(S), q # <<>>
  PROVE  /\ Tail(q) \in Seq(S)
         /\ Head(q) \in S
         /\ Len(q) \in Nat /\ Len(q) > 0
         /\ Len(Tail(q)) = Len(q) - 1
         /\ DOMAIN Tail(q) = 1 .. Len(q) - 1
         /\ DOMAIN q = 1 .. Len(q)
         /\ \A i \in 1 .. Len(q) - 1 : Tail(q)[i] = q[i + 1]
         /\ Head(q) = q[1]
  <1>1. Len(q) \in Nat /\ Len(q) > 0
    BY EmptySeq, LenProperties
  <1>2. /\ DOMAIN q = 1 .. Len(q)
        /\ DOMAIN Tail(q) = 1 .. Len(q) - 1
    BY HeadTailProperties, LenProperties
  <1> QED
    BY <1>1, <1>2, HeadTailProperties

\* The history of a reader: the new sample is the last one, the others have
\* moved by d.
LEMMA KeepFacts ==
  ASSUME NEW h \in Seq(Received), NEW s \in Received, Len(h) <= Depth
  PROVE  LET k == Keep(h, s) IN
         /\ k \in Seq(Received)
         /\ Len(k) \in Nat \ {0} /\ Len(k) <= Depth
         /\ DOMAIN k = 1 .. Len(k)
         /\ k # <<>> /\ Last(k) = s /\ k[Len(k)] = s
         /\ \E d \in {0, 1} : \A i \in 1 .. Len(k) - 1 :
              i + d \in DOMAIN h /\ k[i] = h[i + d]
  <1>0. Depth \in Nat \ {0}
    BY InstanceAssumption
  <1>1. CASE Len(h) < Depth
    <2> DEFINE k == Append(h, s)
    <2>1. Keep(h, s) = k
      BY <1>1 DEF Keep
    <2>2. /\ k \in Seq(Received)
          /\ Len(h) \in Nat /\ Len(k) = Len(h) + 1
          /\ DOMAIN k = 1 .. Len(h) + 1 /\ DOMAIN h = 1 .. Len(h)
          /\ \A i \in 1 .. Len(h) : k[i] = h[i]
          /\ k[Len(h) + 1] = s
      BY AppendFacts
    <2> HIDE DEF k
    <2>3. \A i \in 1 .. Len(k) - 1 : i + 0 \in DOMAIN h /\ k[i] = h[i + 0]
      BY <2>2
    <2>4. k # <<>>
      BY <2>2, EmptySeq
    <2> QED
      BY <1>0, <1>1, <2>1, <2>2, <2>3, <2>4 DEF Last
  <1>2. CASE ~(Len(h) < Depth)
    <2> DEFINE l == Tail(h)
               k == Append(l, s)
    <2>1. Keep(h, s) = k
      BY <1>2 DEF Keep
    <2>2. Len(h) \in Nat /\ Len(h) = Depth /\ h # <<>>
      BY <1>0, <1>2, LenProperties, EmptySeq
    <2>3. /\ l \in Seq(Received)
          /\ Len(l) = Len(h) - 1
          /\ DOMAIN h = 1 .. Len(h)
          /\ \A i \in 1 .. Len(h) - 1 : l[i] = h[i + 1]
      BY <2>2, TailFacts
    <2> HIDE DEF l
    <2>4. /\ k \in Seq(Received)
          /\ Len(l) \in Nat /\ Len(k) = Len(l) + 1
          /\ DOMAIN k = 1 .. Len(l) + 1
          /\ \A i \in 1 .. Len(l) : k[i] = l[i]
          /\ k[Len(l) + 1] = s
      BY <2>3, AppendFacts
    <2> HIDE DEF k
    <2>5. \A i \in 1 .. Len(k) - 1 : i + 1 \in DOMAIN h /\ k[i] = h[i + 1]
      BY <2>2, <2>3, <2>4
    <2>6. k # <<>>
      BY <2>4, EmptySeq
    <2> QED
      BY <1>0, <2>1, <2>2, <2>3, <2>4, <2>5, <2>6 DEF Last
  <1> QED
    BY <1>1, <1>2

-----------------------------------------------------------------------------
(* What the steps of Fast DDS do, topic by topic and writer by writer.     *)

LEMMA DeliverFacts ==
  ASSUME TypeOK, NEW t \in Subscribed, NEW s \in Received, Deliver(t, s)
  PROVE  /\ history' \in [Subscribed -> Seq(Received)]
         /\ \A u \in Subscribed : Len(history'[u]) <= Depth
         /\ latest' \in [Subscribed -> Received \union {None}]
         /\ history'[t] = Keep(history[t], s) /\ latest'[t] = s
         /\ \A u \in Subscribed \ {t} :
              history'[u] = history[u] /\ latest'[u] = latest[u]
  <1>1. /\ Keep(history[t], s) \in Seq(Received)
        /\ Len(Keep(history[t], s)) <= Depth
    BY KeepFacts DEF TypeOK
  <1>2. /\ history' = [history EXCEPT ![t] = Keep(history[t], s)]
        /\ latest' = [latest EXCEPT ![t] = s]
    BY DEF Deliver
  <1> QED
    BY <1>1, <1>2 DEF TypeOK

LEMMA SendFacts ==
  ASSUME TypeOK, NEW t \in Subscribed, NEW s \in Received, Send(t, s)
  PROVE  /\ in_flight' \in [Subscribed -> [Writers -> Seq(Received)]]
         /\ \A u \in Subscribed, w \in Writers :
              \/ in_flight'[u][w] = in_flight[u][w]
              \/ /\ u = t /\ w = s.from
                 /\ in_flight'[u][w] = Append(in_flight[u][w], s)
  <1>0. s.from \in Writers
    BY DEF Received
  <1>1. CASE UNCHANGED in_flight
    BY <1>1 DEF TypeOK
  <1>2. CASE in_flight' = [in_flight EXCEPT ![t] =
               [in_flight[t] EXCEPT ![s.from] =
                  Append(in_flight[t][s.from], s)]]
    <2> DEFINE f == [in_flight[t] EXCEPT ![s.from] =
                       Append(in_flight[t][s.from], s)]
    <2>1. in_flight[t] \in [Writers -> Seq(Received)]
      BY DEF TypeOK
    <2>2. Append(in_flight[t][s.from], s) \in Seq(Received)
      BY <1>0, <2>1, AppendFacts
    <2>3. /\ f \in [Writers -> Seq(Received)]
          /\ f[s.from] = Append(in_flight[t][s.from], s)
          /\ \A w \in Writers \ {s.from} : f[w] = in_flight[t][w]
      BY <1>0, <2>1, <2>2
    <2> HIDE DEF f
    <2>4. /\ in_flight' \in [Subscribed -> [Writers -> Seq(Received)]]
          /\ in_flight'[t] = f
          /\ \A u \in Subscribed \ {t} : in_flight'[u] = in_flight[u]
      BY <1>2, <2>3 DEF TypeOK, f
    <2> QED
      BY <2>3, <2>4
  <1> QED
    BY <1>1, <1>2 DEF Send

LEMMA ArriveFacts ==
  ASSUME TypeOK, NEW t \in Subscribed, NEW w \in Writers, Arrive(t, w)
  PROVE  LET s == Head(in_flight[t][w]) IN
         /\ in_flight[t][w] # <<>>
         /\ s \in Received
         /\ Deliver(t, s)
         /\ in_flight' \in [Subscribed -> [Writers -> Seq(Received)]]
         /\ in_flight'[t][w] = Tail(in_flight[t][w])
         /\ \A u \in Subscribed, v \in Writers :
              u # t \/ v # w => in_flight'[u][v] = in_flight[u][v]
         /\ UNCHANGED <<pc, todo, reading, input, output, sent, before>>
  <1> DEFINE f == [in_flight[t] EXCEPT ![w] = Tail(in_flight[t][w])]
  <1>1. /\ in_flight[t] \in [Writers -> Seq(Received)]
        /\ in_flight[t][w] \in Seq(Received)
        /\ in_flight[t][w] # <<>>
    BY DEF TypeOK, Arrive
  <1>2. /\ Head(in_flight[t][w]) \in Received
        /\ Tail(in_flight[t][w]) \in Seq(Received)
    BY <1>1, TailFacts
  <1>3. /\ f \in [Writers -> Seq(Received)]
        /\ f[w] = Tail(in_flight[t][w])
        /\ \A v \in Writers \ {w} : f[v] = in_flight[t][v]
    BY <1>1, <1>2
  <1>4. in_flight' = [in_flight EXCEPT ![t] = f]
    BY DEF Arrive
  <1> HIDE DEF f
  <1>5. /\ in_flight' \in [Subscribed -> [Writers -> Seq(Received)]]
        /\ in_flight'[t] = f
        /\ \A u \in Subscribed \ {t} : in_flight'[u] = in_flight[u]
    BY <1>3, <1>4 DEF TypeOK
  <1>6. /\ Deliver(t, Head(in_flight[t][w]))
        /\ UNCHANGED <<pc, todo, reading, input, output, sent, before>>
    BY DEF Arrive
  <1> QED
    BY <1>1, <1>2, <1>3, <1>5, <1>6

\* The sample a writer of the FMU sends.
LEMMA OwnSample ==
  ASSUME TypeOK, NEW t \in Published
  PROVE  [from |-> Own, value |-> input[t]] \in Received
  <1>1. Own \in Writers
    BY DEF Writers
  <1>2. input[t] \in 0 .. MaxSets /\ MaxSets \in Nat /\ MaxSamples \in Nat
    BY InstanceAssumption DEF TypeOK
  <1>3. input[t] \in 0 .. MaxSets + MaxSamples
    BY <1>2
  <1> QED
    BY <1>1, <1>3 DEF Received

\* And that of a peer.
LEMMA PeerWritesFacts ==
  ASSUME TypeOK, NEW p \in Peers, NEW t \in PeerTopics[p], PeerWrites(p, t)
  PROVE  LET s == [from |-> p, value |-> sent[p][t] + 1] IN
         /\ t \in Subscribed
         /\ s \in Received
         /\ Send(t, s)
         /\ sent' \in [Peers -> [Subscribed -> 0 .. MaxSamples]]
         /\ sent'[p][t] = sent[p][t] + 1
         /\ \A q \in Peers, u \in Subscribed : sent[q][u] <= sent'[q][u]
         /\ UNCHANGED <<pc, todo, reading, input, output, history, before,
                        latest>>
  <1> DEFINE n == sent[p][t]
             f == [sent[p] EXCEPT ![t] = n + 1]
  <1>1. t \in Subscribed /\ MaxSets \in Nat /\ MaxSamples \in Nat
    BY InstanceAssumption
  <1>2. sent[p] \in [Subscribed -> 0 .. MaxSamples]
    BY DEF TypeOK
  <1>3. n \in 0 .. MaxSamples /\ n < MaxSamples
    BY <1>1, <1>2 DEF PeerWrites
  <1>4. /\ n + 1 \in 0 .. MaxSamples
        /\ n + 1 \in 0 .. MaxSets + MaxSamples
    BY <1>1, <1>3
  <1>5. sent' = [sent EXCEPT ![p] = f]
    BY DEF PeerWrites
  <1>6. /\ f \in [Subscribed -> 0 .. MaxSamples]
        /\ f[t] = n + 1
        /\ \A u \in Subscribed \ {t} : f[u] = sent[p][u]
    BY <1>1, <1>2, <1>4
  <1> HIDE DEF f
  <1>7. /\ sent' \in [Peers -> [Subscribed -> 0 .. MaxSamples]]
        /\ sent'[p] = f
        /\ \A q \in Peers \ {p} : sent'[q] = sent[q]
    BY <1>5, <1>6 DEF TypeOK
  <1>8. \A q \in Peers, u \in Subscribed : sent[q][u] <= sent'[q][u]
    <2> SUFFICES ASSUME NEW q \in Peers, NEW u \in Subscribed
                 PROVE  sent[q][u] <= sent'[q][u]
      OBVIOUS
    <2>1. sent[q][u] \in 0 .. MaxSamples
      BY DEF TypeOK
    <2>2. CASE q = p /\ u = t
      BY <1>3, <1>6, <1>7, <2>2
    <2>3. CASE q # p \/ u # t
      BY <1>6, <1>7, <2>1, <2>3
    <2> QED
      BY <2>2, <2>3
  <1>9. [from |-> p, value |-> n + 1] \in Received
    BY <1>4 DEF Received, Writers
  <1>10. Send(t, [from |-> p, value |-> n + 1])
    BY <1>6, <1>7 DEF PeerWrites
  <1>11. UNCHANGED <<pc, todo, reading, input, output, history, before,
                     latest>>
    BY DEF PeerWrites
  <1> QED
    BY <1>1, <1>6, <1>7, <1>8, <1>9, <1>10, <1>11

-----------------------------------------------------------------------------
(* Type correctness, with the bookkeeping of the loops.                    *)

LoopsOK == TypeOK /\ ReadingOK /\ TodoOK

LEMMA InitialFacts ==
  /\ Initial.from = None /\ Initial.value = 0
  /\ Initial \notin Received
  <1>1. Initial.from = None /\ Initial.value = 0
    BY DEF Initial
  <1>2. None \notin Writers
    BY InstanceAssumption DEF Writers
  <1> QED
    BY <1>1, <1>2 DEF Received

LEMMA EmptyTypes ==
  /\ [t \in Subscribed |-> <<>>] \in [Subscribed -> Seq(Received)]
  /\ \A t \in Subscribed : Len([u \in Subscribed |-> <<>>][t]) <= Depth
  /\ [t \in Subscribed |-> [w \in Writers |-> <<>>]]
       \in [Subscribed -> [Writers -> Seq(Received)]]
  <1>1. <<>> \in Seq(Received) /\ Len(<<>>) = 0 /\ Depth \in Nat
    BY EmptySeq, InstanceAssumption
  <1> QED
    BY <1>1

LEMMA InitLoopsOK == Init => LoopsOK
  <1> SUFFICES ASSUME Init PROVE LoopsOK
    OBVIOUS
  <1>1. {MaxSets, MaxSamples} \subseteq Nat
    BY InstanceAssumption
  <1>2. /\ history \in [Subscribed -> Seq(Received)]
        /\ \A t \in Subscribed : Len(history[t]) <= Depth
        /\ in_flight \in [Subscribed -> [Writers -> Seq(Received)]]
    BY EmptyTypes DEF Init
  <1>3. /\ input \in [Published -> 0 .. MaxSets]
        /\ sent \in [Peers -> [Subscribed -> 0 .. MaxSamples]]
    BY <1>1 DEF Init
  <1>4. /\ output \in [Subscribed -> Received \union {Initial}]
        /\ before \in [Subscribed -> Received \union {Initial}]
        /\ latest \in [Subscribed -> Received \union {None}]
    BY DEF Init
  <1> QED
    BY <1>2, <1>3, <1>4 DEF Init, LoopsOK, TypeOK, ReadingOK, TodoOK

LEMMA SetLoopsOK ==
  ASSUME LoopsOK, NEW ts \in SUBSET Changing, NEW ok \in BOOLEAN, Set(ts, ok),
         UNCHANGED intraprocess
  PROVE  LoopsOK'
  <1>1. MaxSets \in Nat /\ ts \subseteq Published
    BY InstanceAssumption
  <1>2. \A t \in Published : input[t] \in 0 .. MaxSets
    BY DEF LoopsOK, TypeOK
  <1>3. \A t \in ts : input[t] + 1 \in 0 .. MaxSets
    BY <1>1, <1>2 DEF Set
  <1>4. input' \in [Published -> 0 .. MaxSets]
    BY <1>2, <1>3 DEF Set
  <1>5. /\ pc = "idle" /\ pc' \in {"idle", "error"}
        /\ UNCHANGED <<todo, reading, output, history, in_flight, sent, before,
                       latest>>
    BY DEF Set
  <1> QED
    BY <1>4, <1>5 DEF LoopsOK, TypeOK, ReadingOK, TodoOK

LEMMA WriteLoopsOK ==
  ASSUME LoopsOK, NEW t \in Published, Write(t), UNCHANGED intraprocess
  PROVE  LoopsOK'
  <1> DEFINE s == [from |-> Own, value |-> input[t]]
  <1>1. TypeOK /\ s \in Received
    BY OwnSample DEF LoopsOK
  <1>2. /\ pc = "write" /\ reading = None /\ todo' = todo \ {t}
        /\ UNCHANGED <<pc, reading, input, output, sent, before>>
    BY DEF Write, LoopsOK, ReadingOK
  <1>3. \/ UNCHANGED <<history, in_flight, latest>>
        \/ t \in Subscribed /\ Deliver(t, s) /\ UNCHANGED in_flight
        \/ t \in Subscribed /\ Send(t, s) /\ UNCHANGED <<history, latest>>
    BY DEF Write
  <1> HIDE DEF s
  <1>4. /\ history' \in [Subscribed -> Seq(Received)]
        /\ \A u \in Subscribed : Len(history'[u]) <= Depth
        /\ latest' \in [Subscribed -> Received \union {None}]
    BY <1>1, <1>3, DeliverFacts DEF TypeOK
  <1>5. in_flight' \in [Subscribed -> [Writers -> Seq(Received)]]
    BY <1>1, <1>3, SendFacts DEF TypeOK
  <1> QED
    BY <1>2, <1>4, <1>5 DEF LoopsOK, TypeOK, ReadingOK, TodoOK

LEMMA TakeSampleLoopsOK ==
  ASSUME LoopsOK, NEW t \in Subscribed, TakeSample(t), UNCHANGED intraprocess
  PROVE  LoopsOK'
  <1> DEFINE h == history[t]
  <1>1. h \in Seq(Received) /\ h # <<>> /\ Len(h) <= Depth
    BY DEF LoopsOK, TypeOK, TakeSample
  <1>2. /\ Tail(h) \in Seq(Received) /\ Head(h) \in Received
        /\ Len(Tail(h)) <= Depth
    BY <1>1, TailFacts, InstanceAssumption
  <1>3. /\ output' = [output EXCEPT ![t] = Head(h)]
        /\ history' = [history EXCEPT ![t] = Tail(h)]
        /\ before' \in {output, before}
        /\ pc = "take" /\ t \in todo /\ reading' = t
        /\ UNCHANGED <<pc, todo, input, in_flight, sent, latest>>
    BY DEF TakeSample
  <1> HIDE DEF h
  <1>4. /\ output' \in [Subscribed -> Received \union {Initial}]
        /\ output'[t] = Head(h)
        /\ before' \in [Subscribed -> Received \union {Initial}]
    BY <1>2, <1>3 DEF LoopsOK, TypeOK
  <1>5. /\ history' \in [Subscribed -> Seq(Received)]
        /\ \A u \in Subscribed : Len(history'[u]) <= Depth
    BY <1>2, <1>3 DEF LoopsOK, TypeOK
  <1> QED
    BY <1>2, <1>3, <1>4, <1>5 DEF LoopsOK, TypeOK, ReadingOK, TodoOK

LEMMA ResetLoopsOK ==
  ASSUME LoopsOK, Reset, UNCHANGED intraprocess
  PROVE  LoopsOK'
  <1>1. /\ history' \in [Subscribed -> Seq(Received)]
        /\ \A u \in Subscribed : Len(history'[u]) <= Depth
        /\ in_flight' \in [Subscribed -> [Writers -> Seq(Received)]]
    BY EmptyTypes DEF Reset
  <1>2. input' \in [Published -> 0 .. MaxSets]
    BY InstanceAssumption DEF Reset
  <1>3. /\ output' \in [Subscribed -> Received \union {Initial}]
        /\ before' \in [Subscribed -> Received \union {Initial}]
        /\ latest' \in [Subscribed -> Received \union {None}]
    BY DEF Reset
  <1>4. /\ pc \in {"idle", "error"} /\ pc' = "idle"
        /\ UNCHANGED <<todo, reading, sent>>
    BY DEF Reset
  <1> QED
    BY <1>1, <1>2, <1>3, <1>4 DEF LoopsOK, TypeOK, ReadingOK, TodoOK

LEMMA PeerWritesLoopsOK ==
  ASSUME LoopsOK, NEW p \in Peers, NEW t \in PeerTopics[p], PeerWrites(p, t),
         UNCHANGED intraprocess
  PROVE  LoopsOK'
  <1> DEFINE s == [from |-> p, value |-> sent[p][t] + 1]
  <1>1. TypeOK
    BY DEF LoopsOK
  <1>2. /\ t \in Subscribed /\ s \in Received /\ Send(t, s)
        /\ sent' \in [Peers -> [Subscribed -> 0 .. MaxSamples]]
        /\ UNCHANGED <<pc, todo, reading, input, output, history, before,
                       latest>>
    BY <1>1, PeerWritesFacts
  <1> HIDE DEF s
  <1>3. in_flight' \in [Subscribed -> [Writers -> Seq(Received)]]
    BY <1>1, <1>2, SendFacts
  <1> QED
    BY <1>2, <1>3 DEF LoopsOK, TypeOK, ReadingOK, TodoOK

LEMMA ArriveLoopsOK ==
  ASSUME LoopsOK, NEW t \in Subscribed, NEW w \in Writers, Arrive(t, w),
         UNCHANGED intraprocess
  PROVE  LoopsOK'
  <1> DEFINE s == Head(in_flight[t][w])
  <1>1. TypeOK
    BY DEF LoopsOK
  <1>2. /\ s \in Received /\ Deliver(t, s)
        /\ in_flight' \in [Subscribed -> [Writers -> Seq(Received)]]
        /\ UNCHANGED <<pc, todo, reading, input, output, sent, before>>
    BY <1>1, ArriveFacts
  <1> HIDE DEF s
  <1>3. /\ history' \in [Subscribed -> Seq(Received)]
        /\ \A u \in Subscribed : Len(history'[u]) <= Depth
        /\ latest' \in [Subscribed -> Received \union {None}]
    BY <1>1, <1>2, DeliverFacts
  <1> QED
    BY <1>2, <1>3 DEF LoopsOK, TypeOK, ReadingOK, TodoOK

LEMMA NextLoopsOK == LoopsOK /\ [Next]_vars => LoopsOK'
  <1> SUFFICES ASSUME LoopsOK, [Next]_vars PROVE LoopsOK'
    OBVIOUS
  <1>1. CASE UNCHANGED vars
    BY <1>1 DEF vars, LoopsOK, TypeOK, ReadingOK, TodoOK
  <1> SUFFICES ASSUME Next PROVE LoopsOK'
    BY <1>1
  <1>2. UNCHANGED intraprocess
    BY DEF Next
  <1>3. ASSUME NEW ts \in SUBSET Changing, NEW ok \in BOOLEAN, Set(ts, ok)
        PROVE  LoopsOK'
    BY <1>2, <1>3, SetLoopsOK
  <1>4. CASE DoStep
    BY <1>2, <1>4 DEF DoStep, LoopsOK, TypeOK, ReadingOK, TodoOK
  <1>5. ASSUME NEW t \in Published, Write(t) PROVE LoopsOK'
    BY <1>2, <1>5, WriteLoopsOK
  <1>6. CASE WriteReturns
    BY <1>2, <1>6 DEF WriteReturns, LoopsOK, TypeOK, ReadingOK, TodoOK
  <1>7. ASSUME NEW t \in Subscribed, TakeSample(t) PROVE LoopsOK'
    BY <1>2, <1>7, TakeSampleLoopsOK
  <1>8. ASSUME NEW t \in Subscribed, NoData(t) PROVE LoopsOK'
    BY <1>2, <1>8 DEF NoData, LoopsOK, TypeOK, ReadingOK, TodoOK
  <1>9. CASE TakeReturns
    BY <1>2, <1>9 DEF TakeReturns, LoopsOK, TypeOK, ReadingOK, TodoOK
  <1>10. CASE Reset
    BY <1>2, <1>10, ResetLoopsOK
  <1>11. ASSUME NEW p \in Peers, NEW t \in PeerTopics[p], PeerWrites(p, t)
         PROVE  LoopsOK'
    BY <1>2, <1>11, PeerWritesLoopsOK
  <1>12. ASSUME NEW t \in Subscribed, NEW w \in Writers, Arrive(t, w)
         PROVE  LoopsOK'
    BY <1>2, <1>12, ArriveLoopsOK
  <1> QED
    BY <1>3, <1>4, <1>5, <1>6, <1>7, <1>8, <1>9, <1>10, <1>11, <1>12
    DEF Next, InDoStep

LEMMA Loops == Spec => []LoopsOK
  BY InitLoopsOK, NextLoopsOK, PTL DEF Spec

\* Values, outputs, histories and queues have their types and limits.
THEOREM TypeCorrect == Spec => []TypeOK
  <1>1. LoopsOK => TypeOK
    BY DEF LoopsOK
  <1> QED
    BY <1>1, Loops, PTL

-----------------------------------------------------------------------------
(* Samples of one writer stay in their order on their way to the output.   *)

Older(a, b) == a.from = b.from => a.value <= b.value

\* What an output shows, its history and what is in flight to it, in order.
Ordered(o, h, f) ==
  /\ \A i \in DOMAIN h : Older(o, h[i])
  /\ \A i, j \in DOMAIN h : i <= j => Older(h[i], h[j])
  /\ \A w \in Writers : \A i \in DOMAIN f[w] :
       /\ f[w][i].from = w
       /\ Older(o, f[w][i])
       /\ \A j \in DOMAIN h : Older(h[j], f[w][i])
       /\ \A j \in DOMAIN f[w] : i <= j => Older(f[w][i], f[w][j])

\* No sample is newer than the last one its writer has made.
Behind(t, s) ==
  /\ s.from = Own => t \in Published /\ s.value <= input[t]
  /\ s.from \in Peers => s.value <= sent[s.from][t]

AllBehind(t) ==
  /\ Behind(t, output[t])
  /\ \A i \in DOMAIN history[t] : Behind(t, history[t][i])
  /\ \A w \in Writers : \A i \in DOMAIN in_flight[t][w] :
       Behind(t, in_flight[t][w][i])

OwnQueue(t) == intraprocess => in_flight[t][Own] = <<>>

InOrderAt(t) ==
  /\ Ordered(output[t], history[t], in_flight[t])
  /\ AllBehind(t)
  /\ OwnQueue(t)

InOrder == \A t \in Subscribed : InOrderAt(t)

LEMMA EmptyOrdered ==
  ASSUME NEW o, NEW f, \A w \in Writers : f[w] = <<>>
  PROVE  Ordered(o, <<>>, f)
  BY DEF Ordered

LEMMA KeepOrdered ==
  ASSUME NEW o, NEW h \in Seq(Received), NEW f, NEW s \in Received,
         Len(h) <= Depth, Ordered(o, h, f), Older(o, s),
         \A j \in DOMAIN h : Older(h[j], s),
         \A w \in Writers : \A i \in DOMAIN f[w] : Older(s, f[w][i])
  PROVE  /\ Ordered(o, Keep(h, s), f)
         /\ \A i \in DOMAIN Keep(h, s) :
              Keep(h, s)[i] = s \/ \E j \in DOMAIN h : Keep(h, s)[i] = h[j]
  <1> DEFINE k == Keep(h, s)
             n == Len(k)
  <1>1. n \in Nat \ {0} /\ DOMAIN k = 1 .. n /\ k[n] = s
    BY KeepFacts
  <1>2. PICK d \in {0, 1} : \A i \in 1 .. n - 1 :
               i + d \in DOMAIN h /\ k[i] = h[i + d]
    BY KeepFacts
  <1> HIDE DEF k, n
  <1>3. \A i \in DOMAIN k : i = n \/ i \in 1 .. n - 1
    BY <1>1
  <1>4. \A i \in DOMAIN k : Older(o, k[i])
    BY <1>1, <1>2, <1>3 DEF Ordered
  <1>5. ASSUME NEW i \in DOMAIN k, NEW j \in DOMAIN k, i <= j
        PROVE  Older(k[i], k[j])
    <2>0. i \in Int /\ j \in Int /\ d \in Int
      BY <1>1
    <2>1. CASE i = n
      <3>1. j = n
        BY <1>1, <1>5, <2>1
      <3>2. s.value \in Int
        BY DEF Received
      <3> QED
        BY <1>1, <2>1, <3>1, <3>2 DEF Older
    <2>2. CASE i \in 1 .. n - 1 /\ j = n
      BY <1>1, <1>2, <2>2
    <2>3. CASE i \in 1 .. n - 1 /\ j \in 1 .. n - 1
      <3>1. i + d <= j + d
        BY <1>5, <2>0
      <3> QED
        BY <1>2, <2>3, <3>1 DEF Ordered
    <2> QED
      BY <1>3, <2>1, <2>2, <2>3
  <1>6. ASSUME NEW w \in Writers, NEW i \in DOMAIN f[w], NEW j \in DOMAIN k
        PROVE  Older(k[j], f[w][i])
    BY <1>1, <1>2, <1>3 DEF Ordered
  <1>7. Ordered(o, k, f)
    BY <1>4, <1>5, <1>6 DEF Ordered
  <1>8. \A i \in DOMAIN k : k[i] = s \/ \E j \in DOMAIN h : k[i] = h[j]
    BY <1>1, <1>2, <1>3
  <1> QED
    BY <1>7, <1>8 DEF k

LEMMA TailOrdered ==
  ASSUME NEW o, NEW h, NEW f, NEW g, NEW w \in Writers,
         f[w] \in Seq(Received), f[w] # <<>>,
         g[w] = Tail(f[w]), \A v \in Writers : v # w => g[v] = f[v],
         Ordered(o, h, f)
  PROVE  /\ Ordered(o, h, g)
         /\ Older(o, Head(f[w]))
         /\ \A j \in DOMAIN h : Older(h[j], Head(f[w]))
         /\ \A v \in Writers : \A i \in DOMAIN g[v] : Older(Head(f[w]), g[v][i])
         /\ 1 \in DOMAIN f[w] /\ Head(f[w]) = f[w][1]
         /\ \A v \in Writers : \A i \in DOMAIN g[v] :
              \E j \in DOMAIN f[v] : g[v][i] = f[v][j]
  <1> DEFINE q == f[w]
             s == Head(q)
  <1>1. /\ Len(q) \in Nat /\ Len(q) > 0
        /\ DOMAIN g[w] = 1 .. Len(q) - 1 /\ DOMAIN q = 1 .. Len(q)
        /\ \A i \in 1 .. Len(q) - 1 : g[w][i] = q[i + 1]
        /\ s = q[1]
    BY TailFacts
  <1>2. /\ 1 \in DOMAIN q
        /\ \A i \in DOMAIN g[w] :
             i + 1 \in DOMAIN q /\ g[w][i] = q[i + 1] /\ i \in Int /\ 1 <= i + 1
    BY <1>1
  <1>3. s.from = w
    BY <1>1, <1>2 DEF Ordered
  <1>4. Older(o, s) /\ \A j \in DOMAIN h : Older(h[j], s)
    BY <1>1, <1>2 DEF Ordered
  <1>5. ASSUME NEW v \in Writers, NEW i \in DOMAIN g[v]
        PROVE  /\ g[v][i].from = v
               /\ Older(o, g[v][i])
               /\ \A j \in DOMAIN h : Older(h[j], g[v][i])
               /\ \A j \in DOMAIN g[v] : i <= j => Older(g[v][i], g[v][j])
               /\ Older(s, g[v][i])
               /\ \E j \in DOMAIN f[v] : g[v][i] = f[v][j]
    <2>1. CASE v = w
      <3>1. ASSUME NEW j \in DOMAIN g[w], i <= j
            PROVE  Older(g[w][i], g[w][j])
        <4>1. i + 1 <= j + 1
          BY <1>2, <2>1, <3>1
        <4> QED
          BY <1>2, <2>1, <4>1 DEF Ordered
      <3>2. Older(s, g[w][i])
        BY <1>1, <1>2, <2>1 DEF Ordered
      <3> QED
        BY <1>2, <2>1, <3>1, <3>2 DEF Ordered
    <2>2. CASE v # w
      <3>1. g[v] = f[v] /\ g[v][i].from = v
        BY <2>2 DEF Ordered
      <3>2. Older(s, g[v][i])
        BY <1>3, <2>2, <3>1 DEF Older
      <3> QED
        BY <3>1, <3>2 DEF Ordered
    <2> QED
      BY <2>1, <2>2
  <1>6. Ordered(o, h, g)
    BY <1>5 DEF Ordered
  <1> QED
    BY <1>1, <1>2, <1>4, <1>5, <1>6

LEMMA AppendOrdered ==
  ASSUME NEW o, NEW h, NEW f, NEW g, NEW s \in Received,
         f[s.from] \in Seq(Received),
         \A v \in Writers : \/ g[v] = f[v]
                            \/ v = s.from /\ g[v] = Append(f[v], s),
         Ordered(o, h, f), Older(o, s),
         \A j \in DOMAIN h : Older(h[j], s),
         \A j \in DOMAIN f[s.from] : Older(f[s.from][j], s)
  PROVE  /\ Ordered(o, h, g)
         /\ \A v \in Writers : \A i \in DOMAIN g[v] :
              g[v][i] = s \/ \E j \in DOMAIN f[v] : g[v][i] = f[v][j]
  <1> DEFINE w == s.from
             q == f[w]
             n == Len(q) + 1
  <1>1. /\ Len(q) \in Nat
        /\ DOMAIN Append(q, s) = 1 .. n
        /\ DOMAIN q = 1 .. Len(q)
        /\ \A i \in 1 .. Len(q) : Append(q, s)[i] = q[i]
        /\ Append(q, s)[n] = s
    BY AppendFacts
  <1>2. \A i \in 1 .. n : i = n \/ i \in 1 .. Len(q)
    BY <1>1
  <1>3. s.value \in Int
    BY DEF Received
  <1>4. ASSUME NEW v \in Writers, NEW i \in DOMAIN g[v]
        PROVE  /\ g[v][i].from = v
               /\ Older(o, g[v][i])
               /\ \A j \in DOMAIN h : Older(h[j], g[v][i])
               /\ \A j \in DOMAIN g[v] : i <= j => Older(g[v][i], g[v][j])
               /\ g[v][i] = s \/ \E j \in DOMAIN f[v] : g[v][i] = f[v][j]
    <2>1. CASE g[v] = f[v]
      BY <2>1 DEF Ordered
    <2>2. CASE v = w /\ g[v] = Append(q, s) /\ i = n
      <3>1. g[v][i] = s /\ Older(s, s)
        BY <1>1, <1>3, <2>2 DEF Older
      <3>2. \A j \in DOMAIN g[v] : i <= j => j = n
        BY <1>1, <2>2
      <3> QED
        BY <2>2, <3>1, <3>2
    <2>3. CASE v = w /\ g[v] = Append(q, s) /\ i \in 1 .. Len(q)
      <3>1. g[v][i] = q[i] /\ i \in DOMAIN q
        BY <1>1, <2>3
      <3>2. ASSUME NEW j \in DOMAIN g[v], i <= j PROVE Older(g[v][i], g[v][j])
        <4>1. CASE j = n
          BY <1>1, <2>3, <3>1, <4>1
        <4>2. CASE j \in 1 .. Len(q)
          BY <1>1, <2>3, <3>1, <3>2, <4>2 DEF Ordered
        <4> QED
          BY <1>1, <1>2, <2>3, <4>1, <4>2
      <3> QED
        BY <2>3, <3>1, <3>2 DEF Ordered
    <2> QED
      BY <1>1, <1>2, <2>1, <2>2, <2>3
  <1>5. Ordered(o, h, g)
    BY <1>4 DEF Ordered
  <1> QED
    BY <1>4, <1>5

LEMMA TakeOrdered ==
  ASSUME NEW o, NEW h \in Seq(Received), NEW f, h # <<>>, Ordered(o, h, f)
  PROVE  /\ Ordered(Head(h), Tail(h), f)
         /\ Older(o, Head(h))
         /\ 1 \in DOMAIN h /\ Head(h) = h[1]
         /\ \A i \in DOMAIN Tail(h) : \E j \in DOMAIN h : Tail(h)[i] = h[j]
  <1> DEFINE q == Tail(h)
  <1>1. /\ 1 \in DOMAIN h /\ Head(h) = h[1]
        /\ \A i \in DOMAIN q :
             i + 1 \in DOMAIN h /\ q[i] = h[i + 1] /\ i \in Int /\ 1 <= i + 1
    BY TailFacts
  <1> HIDE DEF q
  <1>2. \A i \in DOMAIN q : Older(h[1], q[i])
    BY <1>1 DEF Ordered
  <1>3. ASSUME NEW i \in DOMAIN q, NEW j \in DOMAIN q, i <= j
        PROVE  Older(q[i], q[j])
    <2>1. i + 1 <= j + 1
      BY <1>1, <1>3
    <2> QED
      BY <1>1, <2>1 DEF Ordered
  <1>4. ASSUME NEW w \in Writers, NEW i \in DOMAIN f[w]
        PROVE  /\ f[w][i].from = w
               /\ Older(h[1], f[w][i])
               /\ \A j \in DOMAIN q : Older(q[j], f[w][i])
               /\ \A j \in DOMAIN f[w] : i <= j => Older(f[w][i], f[w][j])
    BY <1>1 DEF Ordered
  <1>5. Ordered(h[1], q, f)
    BY <1>2, <1>3, <1>4 DEF Ordered
  <1>6. Older(o, h[1])
    BY <1>1 DEF Ordered
  <1>7. \A i \in DOMAIN q : \E j \in DOMAIN h : q[i] = h[j]
    BY <1>1
  <1> QED
    BY <1>1, <1>5, <1>6, <1>7 DEF q

\* Writers only count up, but for Reset, which leaves none of their samples.
LEMMA BehindGrows ==
  ASSUME LoopsOK, LoopsOK', NEW t \in Subscribed, NEW s, Behind(t, s),
         s.from \in Writers => s.value \in Int,
         \A u \in Published : input[u] <= input'[u],
         \A p \in Peers, u \in Subscribed : sent[p][u] <= sent'[p][u]
  PROVE  Behind(t, s)'
  <1>1. ASSUME s.from = Own
        PROVE  t \in Published /\ s.value <= input'[t]
    <2>1. t \in Published /\ s.value <= input[t] /\ input[t] <= input'[t]
      BY <1>1 DEF Behind
    <2>2. s.value \in Int /\ input[t] \in Int /\ input'[t] \in Int
      BY <1>1, <2>1 DEF Writers, LoopsOK, TypeOK
    <2> QED
      BY <2>1, <2>2
  <1>2. ASSUME s.from \in Peers
        PROVE  s.value <= sent'[s.from][t]
    <2>1. s.value <= sent[s.from][t] /\ sent[s.from][t] <= sent'[s.from][t]
      BY <1>2 DEF Behind
    <2>2. /\ s.value \in Int
          /\ sent[s.from][t] \in Int /\ sent'[s.from][t] \in Int
      BY <1>2 DEF Writers, LoopsOK, TypeOK
    <2> QED
      BY <2>1, <2>2
  <1> QED
    BY <1>1, <1>2 DEF Behind

\* What comes after lies behind, if each sample was there before or does.
LEMMA AllBehindFrom ==
  ASSUME LoopsOK, LoopsOK', NEW t \in Subscribed, AllBehind(t),
         \A u \in Published : input[u] <= input'[u],
         \A p \in Peers, u \in Subscribed : sent[p][u] <= sent'[p][u],
         NEW Fresh, \A s \in Fresh : Behind(t, s)',
         \/ output'[t] = output[t]
         \/ \E j \in DOMAIN history[t] : output'[t] = history[t][j],
         \A i \in DOMAIN history'[t] :
           \/ history'[t][i] \in Fresh
           \/ \E j \in DOMAIN history[t] : history'[t][i] = history[t][j]
           \/ \E w \in Writers : \E j \in DOMAIN in_flight[t][w] :
                history'[t][i] = in_flight[t][w][j],
         \A w \in Writers : \A i \in DOMAIN in_flight'[t][w] :
           \/ in_flight'[t][w][i] \in Fresh
           \/ \E j \in DOMAIN in_flight[t][w] :
                in_flight'[t][w][i] = in_flight[t][w][j]
  PROVE  AllBehind(t)'
  <1>1. output[t].from \in Writers => output[t].value \in Int
    BY InstanceAssumption DEF LoopsOK, TypeOK, Received, Initial
  <1>2. \A j \in DOMAIN history[t] : history[t][j] \in Received
    BY ElementOfSeq, LenProperties DEF LoopsOK, TypeOK
  <1>3. \A w \in Writers : \A j \in DOMAIN in_flight[t][w] :
          in_flight[t][w][j] \in Received
    BY ElementOfSeq, LenProperties DEF LoopsOK, TypeOK
  <1>4. \A s \in Received : s.value \in Int
    BY DEF Received
  <1>5. Behind(t, output[t])'
    <2>1. \A j \in DOMAIN history[t] : Behind(t, history[t][j])
      BY DEF AllBehind
    <2>2. Behind(t, output[t])
      BY DEF AllBehind
    <2>3. PICK s : s = output'[t]
      OBVIOUS
    <2>4. Behind(t, s) /\ (s.from \in Writers => s.value \in Int)
      BY <1>1, <1>2, <1>4, <2>1, <2>2, <2>3
    <2>5. Behind(t, s)'
      BY <2>4, BehindGrows
    <2> QED
      BY <2>3, <2>5 DEF Behind
  <1>6. ASSUME NEW s \in Received, Behind(t, s) PROVE Behind(t, s)'
    BY <1>4, <1>6, BehindGrows
  <1>7. ASSUME NEW i \in DOMAIN history'[t]
        PROVE  /\ history'[t][i].from = Own =>
                    t \in Published /\ history'[t][i].value <= input'[t]
               /\ history'[t][i].from \in Peers =>
                    history'[t][i].value <= sent'[history'[t][i].from][t]
    <2>1. PICK s : s = history'[t][i]
      OBVIOUS
    <2>2. \/ s \in Fresh
          \/ \E j \in DOMAIN history[t] : s = history[t][j]
          \/ \E w \in Writers : \E j \in DOMAIN in_flight[t][w] :
               s = in_flight[t][w][j]
      BY <2>1
    <2>3. Behind(t, s)'
      <3>1. CASE s \in Fresh
        BY <3>1
      <3>2. CASE s \notin Fresh
        BY <1>2, <1>3, <1>6, <2>2, <3>2 DEF AllBehind
      <3> QED
        BY <3>1, <3>2
    <2> QED
      BY <2>1, <2>3 DEF Behind
  <1>8. ASSUME NEW w \in Writers, NEW i \in DOMAIN in_flight'[t][w]
        PROVE  /\ in_flight'[t][w][i].from = Own =>
                    t \in Published /\ in_flight'[t][w][i].value <= input'[t]
               /\ in_flight'[t][w][i].from \in Peers =>
                    in_flight'[t][w][i].value
                      <= sent'[in_flight'[t][w][i].from][t]
    <2>1. PICK s : s = in_flight'[t][w][i]
      OBVIOUS
    <2>2. s \in Fresh \/ \E j \in DOMAIN in_flight[t][w] :
                           s = in_flight[t][w][j]
      BY <2>1
    <2>3. Behind(t, s)'
      <3>1. CASE s \in Fresh
        BY <3>1
      <3>2. CASE s \notin Fresh
        BY <1>3, <1>6, <2>2, <3>2 DEF AllBehind
      <3> QED
        BY <3>1, <3>2
    <2> QED
      BY <2>1, <2>3 DEF Behind
  <1> QED
    BY <1>5, <1>7, <1>8 DEF AllBehind, Behind

\* Nothing has happened at topic t.
LEMMA SameAt ==
  ASSUME LoopsOK, LoopsOK', NEW t \in Subscribed, InOrderAt(t),
         UNCHANGED intraprocess,
         \A u \in Published : input[u] <= input'[u],
         \A p \in Peers, u \in Subscribed : sent[p][u] <= sent'[p][u],
         output'[t] = output[t], history'[t] = history[t],
         \A w \in Writers : in_flight'[t][w] = in_flight[t][w]
  PROVE  InOrderAt(t)'
  <1>1. Ordered(output'[t], history'[t], in_flight'[t])
    BY DEF InOrderAt, Ordered
  <1>2. AllBehind(t)'
    <2> DEFINE Fresh == {}
    <2>1. AllBehind(t)
      BY DEF InOrderAt
    <2>2. \A s \in Fresh : Behind(t, s)'
      OBVIOUS
    <2>3. \A i \in DOMAIN history'[t] :
            \E j \in DOMAIN history[t] : history'[t][i] = history[t][j]
      OBVIOUS
    <2>4. \A w \in Writers : \A i \in DOMAIN in_flight'[t][w] :
            \E j \in DOMAIN in_flight[t][w] :
              in_flight'[t][w][i] = in_flight[t][w][j]
      OBVIOUS
    <2> HIDE DEF Fresh
    <2> QED
      BY <2>1, <2>2, <2>3, <2>4, AllBehindFrom
  <1>3. OwnQueue(t)'
    BY DEF InOrderAt, OwnQueue, Writers
  <1> QED
    BY <1>1, <1>2, <1>3 DEF InOrderAt

\* The reader of t receives s, the last of its writer so far.
LEMMA DeliverAt ==
  ASSUME LoopsOK, LoopsOK', NEW t \in Subscribed, NEW s \in Received,
         NEW f, Ordered(output[t], history[t], f), AllBehind(t),
         UNCHANGED intraprocess,
         \A u \in Published : input[u] <= input'[u],
         \A p \in Peers, u \in Subscribed : sent[p][u] <= sent'[p][u],
         output'[t] = output[t], Deliver(t, s), Behind(t, s)',
         Older(output[t], s),
         \A j \in DOMAIN history[t] : Older(history[t][j], s),
         \A w \in Writers : \A i \in DOMAIN f[w] : Older(s, f[w][i]),
         in_flight'[t] = f,
         \A w \in Writers : \A i \in DOMAIN f[w] :
           \E j \in DOMAIN in_flight[t][w] : f[w][i] = in_flight[t][w][j],
         OwnQueue(t)'
  PROVE  InOrderAt(t)'
  <1>1. /\ TypeOK
        /\ history[t] \in Seq(Received) /\ Len(history[t]) <= Depth
    BY DEF LoopsOK, TypeOK
  <1>2. history'[t] = Keep(history[t], s)
    BY <1>1, DeliverFacts
  <1>3. /\ Ordered(output[t], Keep(history[t], s), f)
        /\ \A i \in DOMAIN Keep(history[t], s) :
             \/ Keep(history[t], s)[i] = s
             \/ \E j \in DOMAIN history[t] :
                  Keep(history[t], s)[i] = history[t][j]
    BY <1>1, KeepOrdered
  <1>4. Ordered(output[t], history[t], in_flight[t])'
    BY <1>2, <1>3
  <1>5. AllBehind(t)'
    <2> DEFINE Fresh == {s}
    <2>1. \A x \in Fresh : Behind(t, x)'
      OBVIOUS
    <2>2. \A i \in DOMAIN history'[t] :
            \/ history'[t][i] \in Fresh
            \/ \E j \in DOMAIN history[t] : history'[t][i] = history[t][j]
      BY <1>2, <1>3
    <2>3. \A w \in Writers : \A i \in DOMAIN in_flight'[t][w] :
            \E j \in DOMAIN in_flight[t][w] :
              in_flight'[t][w][i] = in_flight[t][w][j]
      OBVIOUS
    <2> HIDE DEF Fresh
    <2> QED
      BY <2>1, <2>2, <2>3, AllBehindFrom
  <1> QED
    BY <1>4, <1>5 DEF InOrderAt

\* A writer sends s, its last one so far.
LEMMA SendAt ==
  ASSUME LoopsOK, LoopsOK', NEW t \in Subscribed, NEW s \in Received,
         InOrderAt(t), UNCHANGED intraprocess,
         \A u \in Published : input[u] <= input'[u],
         \A p \in Peers, u \in Subscribed : sent[p][u] <= sent'[p][u],
         output'[t] = output[t], history'[t] = history[t],
         Send(t, s), Behind(t, s)',
         s.from = Own => ~intraprocess,
         \A x \in Received \union {Initial} : Behind(t, x) => Older(x, s)
  PROVE  InOrderAt(t)'
  <1>1. /\ TypeOK /\ s.from \in Writers /\ Own \in Writers
        /\ in_flight[t] \in [Writers -> Seq(Received)]
        /\ in_flight[t][s.from] \in Seq(Received)
    BY DEF LoopsOK, TypeOK, Received, Writers
  <1>2. \A w \in Writers :
          \/ in_flight'[t][w] = in_flight[t][w]
          \/ w = s.from /\ in_flight'[t][w] = Append(in_flight[t][w], s)
    BY <1>1, SendFacts
  <1>3. Older(output[t], s)
    BY DEF LoopsOK, TypeOK, InOrderAt, AllBehind
  <1>4. \A j \in DOMAIN history[t] : Older(history[t][j], s)
    <2>1. \A j \in DOMAIN history[t] : history[t][j] \in Received
      BY ElementOfSeq, LenProperties DEF LoopsOK, TypeOK
    <2> QED
      BY <2>1 DEF InOrderAt, AllBehind
  <1>5. \A j \in DOMAIN in_flight[t][s.from] :
          Older(in_flight[t][s.from][j], s)
    <2>1. \A j \in DOMAIN in_flight[t][s.from] :
            in_flight[t][s.from][j] \in Received
      BY <1>1, ElementOfSeq, LenProperties
    <2> QED
      BY <1>1, <2>1 DEF InOrderAt, AllBehind
  <1>6. Ordered(output[t], history[t], in_flight[t])
    BY DEF InOrderAt
  <1>7. /\ Ordered(output[t], history[t], in_flight'[t])
        /\ \A w \in Writers : \A i \in DOMAIN in_flight'[t][w] :
             \/ in_flight'[t][w][i] = s
             \/ \E j \in DOMAIN in_flight[t][w] :
                  in_flight'[t][w][i] = in_flight[t][w][j]
    <2> DEFINE o == output[t]
               h == history[t]
               f == in_flight[t]
               g == in_flight'[t]
    <2>1. /\ f[s.from] \in Seq(Received)
          /\ \A w \in Writers : \/ g[w] = f[w]
                                \/ w = s.from /\ g[w] = Append(f[w], s)
          /\ Older(o, s)
          /\ \A j \in DOMAIN h : Older(h[j], s)
          /\ \A j \in DOMAIN f[s.from] : Older(f[s.from][j], s)
          /\ Ordered(o, h, f)
      BY <1>1, <1>2, <1>3, <1>4, <1>5, <1>6
    <2> HIDE DEF o, h, f, g
    <2>2. /\ Ordered(o, h, g)
          /\ \A w \in Writers : \A i \in DOMAIN g[w] :
               g[w][i] = s \/ \E j \in DOMAIN f[w] : g[w][i] = f[w][j]
      BY <2>1, AppendOrdered
    <2> QED
      BY <2>2 DEF o, h, f, g
  <1>8. AllBehind(t)'
    <2> DEFINE Fresh == {s}
    <2>1. \A x \in Fresh : Behind(t, x)'
      OBVIOUS
    <2>2. \A i \in DOMAIN history'[t] :
            \E j \in DOMAIN history[t] : history'[t][i] = history[t][j]
      OBVIOUS
    <2>3. \A w \in Writers : \A i \in DOMAIN in_flight'[t][w] :
            \/ in_flight'[t][w][i] \in Fresh
            \/ \E j \in DOMAIN in_flight[t][w] :
                 in_flight'[t][w][i] = in_flight[t][w][j]
      BY <1>7
    <2>4. AllBehind(t)
      BY DEF InOrderAt
    <2> HIDE DEF Fresh
    <2> QED
      BY <2>1, <2>2, <2>3, <2>4, AllBehindFrom
  <1>9. OwnQueue(t)'
    BY <1>1, <1>2 DEF InOrderAt, OwnQueue
  <1> QED
    BY <1>7, <1>8, <1>9 DEF InOrderAt

LEMMA InitInOrder == Init => InOrder
  <1> SUFFICES ASSUME Init, NEW t \in Subscribed
               PROVE  InOrderAt(t)
    BY DEF InOrder
  <1>1. /\ output[t] = Initial /\ history[t] = <<>>
        /\ \A w \in Writers : in_flight[t][w] = <<>>
    BY DEF Init
  <1>2. Initial.from \notin Writers
    BY InitialFacts, InstanceAssumption DEF Writers
  <1>3. Behind(t, Initial)
    BY <1>2 DEF Behind, Writers
  <1> QED
    BY <1>1, <1>3, EmptyOrdered DEF InOrderAt, AllBehind, OwnQueue, Writers
LEMMA WriteInOrder ==
  ASSUME LoopsOK, LoopsOK', InOrder, NEW t \in Published, Write(t),
         UNCHANGED intraprocess
  PROVE  InOrder'
  <1> SUFFICES ASSUME NEW u \in Subscribed PROVE InOrderAt(u)'
    BY DEF InOrder
  <1>0. PICK s \in Received : s = [from |-> Own, value |-> input[t]]
    BY OwnSample DEF LoopsOK
  <1>1. /\ TypeOK /\ InOrderAt(u)
        /\ s.from = Own /\ s.value = input[t]
        /\ input[t] \in Int
    BY <1>0 DEF LoopsOK, TypeOK, InOrder
  <1>2. /\ UNCHANGED <<input, output, sent>>
        /\ \A v \in Published : input[v] <= input'[v]
        /\ \A p \in Peers, v \in Subscribed : sent[p][v] <= sent'[p][v]
    BY DEF Write, LoopsOK, TypeOK
  <1>3. \/ UNCHANGED <<history, in_flight>>
        \/ /\ t \in Subscribed /\ intraprocess
           /\ Deliver(t, s) /\ UNCHANGED in_flight
        \/ /\ t \in Subscribed /\ ~intraprocess
           /\ Send(t, s) /\ UNCHANGED history
    BY <1>0 DEF Write
  <1>4. \A x \in Received \union {Initial} : Behind(t, x) => Older(x, s)
    BY <1>1 DEF Behind, Older
  <1>5. Behind(t, s)'
    BY <1>1, <1>2, InstanceAssumption DEF Behind, Writers
  <1>6. CASE UNCHANGED <<history, in_flight>>
    BY <1>1, <1>2, <1>6, SameAt
  <1>7. CASE t \in Subscribed /\ Deliver(t, s) /\ UNCHANGED in_flight
             /\ intraprocess
    <2>1. CASE u = t
      <3> DEFINE f == in_flight[t]
      <3>1. /\ Ordered(output[t], history[t], f) /\ AllBehind(t)
            /\ f[Own] = <<>>
        BY <1>1, <1>7, <2>1 DEF InOrderAt, OwnQueue
      <3>2. Older(output[t], s)
        BY <1>4, <1>7, <3>1 DEF AllBehind, LoopsOK, TypeOK
      <3>3. \A j \in DOMAIN history[t] : Older(history[t][j], s)
        <4>1. \A j \in DOMAIN history[t] : history[t][j] \in Received
          BY <1>7, ElementOfSeq, LenProperties DEF LoopsOK, TypeOK
        <4> QED
          BY <1>4, <3>1, <4>1 DEF AllBehind
      <3>4. \A w \in Writers : \A i \in DOMAIN f[w] : Older(s, f[w][i])
        <4> SUFFICES ASSUME NEW w \in Writers, NEW i \in DOMAIN f[w]
                     PROVE  Older(s, f[w][i])
          OBVIOUS
        <4>1. f[w][i].from = w
          BY <3>1 DEF Ordered
        <4>2. w # Own
          BY <3>1
        <4> QED
          BY <1>1, <4>1, <4>2 DEF Older
      <3>5. /\ output'[t] = output[t]
            /\ in_flight'[t] = f
            /\ OwnQueue(t)'
            /\ \A w \in Writers : \A i \in DOMAIN f[w] :
                 \E j \in DOMAIN in_flight[t][w] : f[w][i] = in_flight[t][w][j]
        BY <1>2, <1>7, <3>1 DEF OwnQueue
      <3> HIDE DEF f
      <3> QED
        BY <1>1, <1>2, <1>5, <1>7, <2>1, <3>1, <3>2, <3>3, <3>4, <3>5,
           DeliverAt
    <2>2. CASE u # t
      <3>1. history'[u] = history[u]
        BY <1>1, <1>7, <2>2, DeliverFacts
      <3> QED
        BY <1>1, <1>2, <1>7, <3>1, SameAt
    <2> QED
      BY <2>1, <2>2
  <1>8. CASE t \in Subscribed /\ ~intraprocess /\ Send(t, s)
             /\ UNCHANGED history
    <2>1. CASE u = t
      BY <1>1, <1>2, <1>4, <1>5, <1>8, <2>1, SendAt
    <2>2. CASE u # t
      <3>1. \A w \in Writers : in_flight'[u][w] = in_flight[u][w]
        BY <1>1, <1>8, <2>2, SendFacts
      <3> QED
        BY <1>1, <1>2, <1>8, <3>1, SameAt
    <2> QED
      BY <2>1, <2>2
  <1> QED
    BY <1>3, <1>6, <1>7, <1>8

LEMMA PeerWritesInOrder ==
  ASSUME LoopsOK, LoopsOK', InOrder, NEW p \in Peers, NEW t \in PeerTopics[p],
         PeerWrites(p, t), UNCHANGED intraprocess
  PROVE  InOrder'
  <1> SUFFICES ASSUME NEW u \in Subscribed PROVE InOrderAt(u)'
    BY DEF InOrder
  <1>1. TypeOK /\ InOrderAt(u)
    BY DEF LoopsOK, InOrder
  <1>0. PICK s \in Received : s = [from |-> p, value |-> sent[p][t] + 1]
    BY <1>1, PeerWritesFacts
  <1>2. /\ t \in Subscribed /\ Send(t, s)
        /\ sent'[p][t] = sent[p][t] + 1
        /\ \A q \in Peers, v \in Subscribed : sent[q][v] <= sent'[q][v]
        /\ UNCHANGED <<input, output, history>>
    BY <1>0, <1>1, PeerWritesFacts
  <1>3. /\ p # Own /\ s.from = p /\ s.value = sent[p][t] + 1
        /\ sent[p][t] \in Int
    BY <1>0, <1>2, InstanceAssumption DEF LoopsOK, TypeOK, Writers
  <1>4. \A v \in Published : input[v] <= input'[v]
    BY <1>2 DEF LoopsOK, TypeOK
  <1>5. \A x \in Received \union {Initial} : Behind(t, x) => Older(x, s)
    <2> SUFFICES ASSUME NEW x \in Received \union {Initial}, Behind(t, x),
                        x.from = s.from
                 PROVE  x.value <= s.value
      BY DEF Older
    <2>1. x.value <= sent[p][t]
      BY <1>3 DEF Behind
    <2>2. x.value \in Int
      BY InitialFacts DEF Received
    <2> QED
      BY <1>3, <2>1, <2>2
  <1>6. Behind(t, s)'
    BY <1>2, <1>3 DEF Behind
  <1>7. CASE u = t
    BY <1>1, <1>2, <1>3, <1>4, <1>5, <1>6, <1>7, SendAt
  <1>8. CASE u # t
    <2>1. \A w \in Writers : in_flight'[u][w] = in_flight[u][w]
      BY <1>1, <1>2, <1>8, SendFacts
    <2> QED
      BY <1>1, <1>2, <1>4, <2>1, SameAt
  <1> QED
    BY <1>7, <1>8

LEMMA ArriveInOrder ==
  ASSUME LoopsOK, LoopsOK', InOrder, NEW t \in Subscribed, NEW w \in Writers,
         Arrive(t, w), UNCHANGED intraprocess
  PROVE  InOrder'
  <1> SUFFICES ASSUME NEW u \in Subscribed PROVE InOrderAt(u)'
    BY DEF InOrder
  <1>1. TypeOK /\ InOrderAt(u)
    BY DEF LoopsOK, InOrder
  <1>2. PICK s \in Received : s = Head(in_flight[t][w])
    BY <1>1, ArriveFacts
  <1>3. /\ in_flight[t][w] # <<>>
        /\ in_flight[t][w] \in Seq(Received)
        /\ Deliver(t, s)
        /\ in_flight'[t][w] = Tail(in_flight[t][w])
        /\ \A v \in Subscribed, x \in Writers :
             v # t \/ x # w => in_flight'[v][x] = in_flight[v][x]
        /\ UNCHANGED <<input, output, sent>>
    BY <1>1, <1>2, ArriveFacts DEF TypeOK
  <1>4. /\ \A v \in Published : input[v] <= input'[v]
        /\ \A p \in Peers, v \in Subscribed : sent[p][v] <= sent'[p][v]
    BY <1>3 DEF LoopsOK, TypeOK
  <1>5. CASE u = t
    <2> DEFINE f == in_flight[t]
               g == in_flight'[t]
    <2>1. /\ Ordered(output[t], history[t], f) /\ AllBehind(t)
          /\ OwnQueue(t)
      BY <1>1, <1>5 DEF InOrderAt
    <2>2. /\ f[w] \in Seq(Received) /\ f[w] # <<>>
          /\ g[w] = Tail(f[w])
          /\ \A x \in Writers : x # w => g[x] = f[x]
          /\ s = Head(f[w])
      BY <1>2, <1>3
    <2>3. /\ Ordered(output[t], history[t], g)
          /\ Older(output[t], s)
          /\ \A j \in DOMAIN history[t] : Older(history[t][j], s)
          /\ \A x \in Writers : \A i \in DOMAIN g[x] : Older(s, g[x][i])
          /\ 1 \in DOMAIN f[w] /\ s = f[w][1]
          /\ \A x \in Writers : \A i \in DOMAIN g[x] :
               \E j \in DOMAIN f[x] : g[x][i] = f[x][j]
      <3>1. PICK o, h, a, b :
              o = output[t] /\ h = history[t] /\ a = f /\ b = g
        OBVIOUS
      <3>2. /\ a[w] \in Seq(Received) /\ a[w] # <<>>
            /\ b[w] = Tail(a[w])
            /\ \A x \in Writers : x # w => b[x] = a[x]
            /\ Ordered(o, h, a)
        BY <2>1, <2>2, <3>1
      <3>3. /\ Ordered(o, h, b)
            /\ Older(o, Head(a[w]))
            /\ \A j \in DOMAIN h : Older(h[j], Head(a[w]))
            /\ \A x \in Writers : \A i \in DOMAIN b[x] :
                 Older(Head(a[w]), b[x][i])
            /\ 1 \in DOMAIN a[w] /\ Head(a[w]) = a[w][1]
            /\ \A x \in Writers : \A i \in DOMAIN b[x] :
                 \E j \in DOMAIN a[x] : b[x][i] = a[x][j]
        <4>1. \A v \in Writers : v # w => b[v] = a[v]
          BY <3>2
        <4>2. Ordered(o, h, b)
          BY <3>2, <4>1, TailOrdered
        <4>3. \A v \in Writers : \A i \in DOMAIN b[v] :
                 Older(Head(a[w]), b[v][i])
          BY <3>2, <4>1, TailOrdered
        <4>4. 1 \in DOMAIN a[w] /\ Head(a[w]) = a[w][1]
          BY <3>2, <4>1, TailOrdered
        <4>5. /\ Older(o, a[w][1])
              /\ \A j \in DOMAIN h : Older(h[j], a[w][1])
          BY <3>2, <4>4 DEF Ordered
        <4>6. \A i \in DOMAIN b[w] :
                i + 1 \in DOMAIN a[w] /\ b[w][i] = a[w][i + 1]
          BY <3>2, TailFacts
        <4>7. \A v \in Writers : \A i \in DOMAIN b[v] :
                 \E j \in DOMAIN a[v] : b[v][i] = a[v][j]
          BY <4>1, <4>6
        <4> QED
          BY <4>2, <4>3, <4>4, <4>5, <4>7
      <3> QED
        BY <2>2, <3>1, <3>3
    <2>4. Behind(t, s)
      BY <2>1, <2>3 DEF AllBehind
    <2>5. Behind(t, s)'
      <3>1. s.value \in Int
        BY DEF Received
      <3> QED
        BY <1>4, <2>4, <3>1, BehindGrows
    <2>6. OwnQueue(t)'
      <3>1. ASSUME intraprocess PROVE w # Own /\ f[Own] = <<>>
        BY <2>1, <2>2, <3>1 DEF OwnQueue
      <3> QED
        BY <2>2, <3>1 DEF OwnQueue, Writers
    <2>7. PICK k : k = g
      OBVIOUS
    <2> QED
      <3>1. /\ Ordered(output[t], history[t], k)
            /\ \A x \in Writers : \A i \in DOMAIN k[x] : Older(s, k[x][i])
            /\ \A x \in Writers : \A i \in DOMAIN k[x] :
                 \E j \in DOMAIN in_flight[t][x] :
                   k[x][i] = in_flight[t][x][j]
            /\ in_flight'[t] = k
        BY <2>3, <2>7
      <3>2. output'[t] = output[t]
        BY <1>3
      <3>3. /\ AllBehind(t) /\ Older(output[t], s)
            /\ \A j \in DOMAIN history[t] : Older(history[t][j], s)
        BY <2>1, <2>3
      <3> HIDE DEF f, g
      <3>4. InOrderAt(t)'
        BY <1>3, <1>4, <2>5, <2>6, <3>1, <3>2, <3>3, DeliverAt, SMTT(60)
      <3> QED
        BY <1>5, <3>4
  <1>6. CASE u # t
    <2>1. history'[u] = history[u]
      BY <1>1, <1>3, <1>6, DeliverFacts
    <2> QED
      BY <1>1, <1>3, <1>4, <1>6, <2>1, SameAt
  <1> QED
    BY <1>5, <1>6

LEMMA TakeSampleInOrder ==
  ASSUME LoopsOK, LoopsOK', InOrder, NEW t \in Subscribed, TakeSample(t),
         UNCHANGED intraprocess
  PROVE  /\ InOrder'
         /\ Older(output[t], output'[t])
         /\ \A u \in Subscribed : u # t => output'[u] = output[u]
  <1>1. /\ history[t] \in Seq(Received) /\ history[t] # <<>>
        /\ output'[t] = Head(history[t]) /\ history'[t] = Tail(history[t])
        /\ \A u \in Subscribed : u # t =>
             output'[u] = output[u] /\ history'[u] = history[u]
        /\ UNCHANGED <<input, in_flight, sent>>
    BY DEF LoopsOK, TypeOK, TakeSample
  <1>2. /\ \A v \in Published : input[v] <= input'[v]
        /\ \A p \in Peers, v \in Subscribed : sent[p][v] <= sent'[p][v]
    BY <1>1 DEF LoopsOK, TypeOK
  <1>3. /\ Ordered(output[t], history[t], in_flight[t]) /\ AllBehind(t)
        /\ OwnQueue(t)
    BY DEF InOrder, InOrderAt
  <1>4. /\ Ordered(Head(history[t]), Tail(history[t]), in_flight[t])
        /\ Older(output[t], Head(history[t]))
        /\ 1 \in DOMAIN history[t] /\ Head(history[t]) = history[t][1]
        /\ \A i \in DOMAIN Tail(history[t]) :
             \E j \in DOMAIN history[t] :
               Tail(history[t])[i] = history[t][j]
    <2> DEFINE h == history[t]
               f == in_flight[t]
    <2>1. h \in Seq(Received) /\ h # <<>> /\ Ordered(output[t], h, f)
      BY <1>1, <1>3
    <2> HIDE DEF h, f
    <2>2. /\ Ordered(Head(h), Tail(h), f)
          /\ Older(output[t], Head(h))
          /\ 1 \in DOMAIN h /\ Head(h) = h[1]
          /\ \A i \in DOMAIN Tail(h) : \E j \in DOMAIN h : Tail(h)[i] = h[j]
      BY <2>1, TakeOrdered
    <2> QED
      BY <2>2 DEF h, f
  <1>5. InOrderAt(t)'
    <2>1. Ordered(output[t], history[t], in_flight[t])'
      BY <1>1, <1>4
    <2>2. AllBehind(t)'
      <3> DEFINE Fresh == {}
      <3>1. \A s \in Fresh : Behind(t, s)'
        OBVIOUS
      <3>2. \E j \in DOMAIN history[t] : output'[t] = history[t][j]
        BY <1>1, <1>4
      <3>3. \A i \in DOMAIN history'[t] :
              \E j \in DOMAIN history[t] : history'[t][i] = history[t][j]
        BY <1>1, <1>4
      <3>4. \A w \in Writers : \A i \in DOMAIN in_flight'[t][w] :
              \E j \in DOMAIN in_flight[t][w] :
                in_flight'[t][w][i] = in_flight[t][w][j]
        BY <1>1
      <3> HIDE DEF Fresh
      <3> QED
        <4>1. \/ output'[t] = output[t]
              \/ \E j \in DOMAIN history[t] : output'[t] = history[t][j]
          BY <3>2
        <4>2. \A i \in DOMAIN history'[t] :
                \/ history'[t][i] \in Fresh
                \/ \E j \in DOMAIN history[t] : history'[t][i] = history[t][j]
                \/ \E w \in Writers : \E j \in DOMAIN in_flight[t][w] :
                     history'[t][i] = in_flight[t][w][j]
          BY <3>3
        <4>3. \A w \in Writers : \A i \in DOMAIN in_flight'[t][w] :
                \/ in_flight'[t][w][i] \in Fresh
                \/ \E j \in DOMAIN in_flight[t][w] :
                     in_flight'[t][w][i] = in_flight[t][w][j]
          BY <3>4
        <4> QED
          BY <1>2, <1>3, <3>1, <4>1, <4>2, <4>3, AllBehindFrom, ZenonT(60)
    <2>3. OwnQueue(t)'
      BY <1>1, <1>3 DEF OwnQueue
    <2> QED
      BY <2>1, <2>2, <2>3 DEF InOrderAt
  <1>6. ASSUME NEW u \in Subscribed, u # t PROVE InOrderAt(u)'
    BY <1>1, <1>2, <1>6, SameAt DEF InOrder
  <1>7. InOrder'
    BY <1>5, <1>6 DEF InOrder
  <1>8. Older(output[t], output'[t])
    BY <1>1, <1>4
  <1> QED
    BY <1>1, <1>7, <1>8

LEMMA ResetInOrder ==
  ASSUME Reset
  PROVE  InOrder'
  <1> SUFFICES ASSUME NEW t \in Subscribed PROVE InOrderAt(t)'
    BY DEF InOrder
  <1>1. /\ output'[t] = Initial /\ history'[t] = <<>>
        /\ \A w \in Writers : in_flight'[t][w] = <<>>
    BY DEF Reset
  <1>2. Initial.from \notin Writers
    BY InitialFacts, InstanceAssumption DEF Writers
  <1>3. Behind(t, output[t])'
    BY <1>1, <1>2 DEF Behind, Writers
  <1>4. Ordered(output'[t], <<>>, in_flight'[t])
    BY <1>1, EmptyOrdered
  <1> QED
    BY <1>1, <1>3, <1>4 DEF InOrderAt, AllBehind, OwnQueue, Writers

\* The other steps leave the samples and their way alone.
LEMMA OtherInOrder ==
  ASSUME LoopsOK, LoopsOK', InOrder,
         UNCHANGED <<intraprocess, output, history, in_flight, sent>>,
         \A v \in Published : input[v] <= input'[v]
  PROVE  InOrder'
  <1>1. \A p \in Peers, v \in Subscribed : sent[p][v] <= sent'[p][v]
    BY DEF LoopsOK, TypeOK
  <1> QED
    BY <1>1, SameAt DEF InOrder

LEMMA NextInOrder ==
  ASSUME LoopsOK, LoopsOK', InOrder, [Next]_vars
  PROVE  InOrder'
  <1>0. ASSUME UNCHANGED input
        PROVE  \A v \in Published : input[v] <= input'[v]
    BY <1>0 DEF LoopsOK, TypeOK
  <1>1. CASE UNCHANGED vars
    BY <1>0, <1>1, OtherInOrder DEF vars
  <1> SUFFICES ASSUME Next PROVE InOrder'
    BY <1>1
  <1>2. UNCHANGED intraprocess
    BY DEF Next
  <1>3. ASSUME NEW ts \in SUBSET Changing, NEW ok \in BOOLEAN, Set(ts, ok)
        PROVE  InOrder'
    <2>1. \A v \in Published : input[v] \in Int /\ input'[v] \in
                                 {input[v], input[v] + 1}
      BY <1>3 DEF Set, LoopsOK, TypeOK
    <2>2. \A v \in Published : input[v] <= input'[v]
      BY <2>1
    <2> QED
      BY <1>2, <1>3, <2>2, OtherInOrder DEF Set
  <1>4. CASE DoStep
    BY <1>0, <1>2, <1>4, OtherInOrder DEF DoStep
  <1>5. ASSUME NEW t \in Published, Write(t) PROVE InOrder'
    BY <1>2, <1>5, WriteInOrder
  <1>6. CASE WriteReturns
    BY <1>0, <1>2, <1>6, OtherInOrder DEF WriteReturns
  <1>7. ASSUME NEW t \in Subscribed, TakeSample(t) PROVE InOrder'
    BY <1>2, <1>7, TakeSampleInOrder
  <1>8. ASSUME NEW t \in Subscribed, NoData(t) PROVE InOrder'
    BY <1>0, <1>2, <1>8, OtherInOrder DEF NoData
  <1>9. CASE TakeReturns
    BY <1>0, <1>2, <1>9, OtherInOrder DEF TakeReturns
  <1>10. CASE Reset
    BY <1>10, ResetInOrder
  <1>11. ASSUME NEW p \in Peers, NEW t \in PeerTopics[p], PeerWrites(p, t)
         PROVE  InOrder'
    BY <1>2, <1>11, PeerWritesInOrder
  <1>12. ASSUME NEW t \in Subscribed, NEW w \in Writers, Arrive(t, w)
         PROVE  InOrder'
    BY <1>2, <1>12, ArriveInOrder
  <1> QED
    BY <1>3, <1>4, <1>5, <1>6, <1>7, <1>8, <1>9, <1>10, <1>11, <1>12
    DEF Next, InDoStep

LEMMA OrderKept == Spec => []InOrder
  BY Loops, InitInOrder, NextInOrder, PTL DEF Spec

\* No output goes back to an earlier sample of the writer it shows.
LEMMA StepNotBack ==
  ASSUME LoopsOK, LoopsOK', InOrder, [Next]_vars, NEW t \in Subscribed,
         output'[t].from = output[t].from
  PROVE  output'[t].value >= output[t].value
  <1>0. /\ output[t] \in Received \union {Initial}
        /\ output[t].value \in Int
    BY InitialFacts DEF LoopsOK, TypeOK, Received
  <1>1. CASE output'[t] = output[t]
    BY <1>0, <1>1
  <1> SUFFICES ASSUME output'[t] # output[t]
               PROVE  output'[t].value >= output[t].value
    BY <1>1
  <1>2. Next /\ UNCHANGED intraprocess
    BY DEF vars, Next
  <1>3. CASE Reset
    <2>1. output'[t] = Initial
      BY <1>3 DEF Reset
    <2>2. output[t].from \notin Writers
      BY <2>1, InitialFacts, InstanceAssumption DEF Writers
    <2>3. output[t] = Initial
      BY <1>0, <2>2 DEF Received
    <2> QED
      BY <2>1, <2>3
  <1>4. ASSUME NEW u \in Subscribed, TakeSample(u)
        PROVE  output'[t].value >= output[t].value
    <2>1. u = t /\ Older(output[u], output'[u])
      BY <1>2, <1>4, TakeSampleInOrder
    <2>2. output'[t].value \in Int
      BY InitialFacts DEF LoopsOK, TypeOK, Received
    <2> QED
      BY <1>0, <2>1, <2>2 DEF Older
  <1>5. ASSUME NEW p \in Peers, NEW u \in PeerTopics[p], PeerWrites(p, u)
        PROVE  UNCHANGED output
    BY <1>5 DEF PeerWrites
  <1>6. ASSUME NEW u \in Subscribed, NEW w \in Writers, Arrive(u, w)
        PROVE  UNCHANGED output
    BY <1>6 DEF Arrive
  <1>7. ASSUME NEW u \in Published, Write(u) PROVE UNCHANGED output
    BY <1>7 DEF Write
  <1> QED
    BY <1>2, <1>3, <1>4, <1>5, <1>6, <1>7
    DEF Next, InDoStep, Set, DoStep, WriteReturns, NoData, TakeReturns

\* Samples are not shown out of order, whatever the depth of the histories
\* and wherever DDS delivers between two steps of take.
THEOREM OutputsGoForward == Spec => NeverBack
  <1>1. ASSUME LoopsOK, LoopsOK', InOrder, [Next]_vars
        PROVE  [\A t \in Subscribed :
                  output'[t].from = output[t].from
                    => output'[t].value >= output[t].value]_vars
    BY <1>1, StepNotBack
  <1> QED
    BY <1>1, Loops, OrderKept, PTL DEF Spec, NeverBack
-----------------------------------------------------------------------------
(* What a step has written is read in that step.                           *)

\* The newest sample is unread, or it is the one the output shows.
NewestAt(t) ==
  latest[t] # None =>
    IF history[t] = <<>> THEN output[t] = latest[t]
                         ELSE Last(history[t]) = latest[t]

\* Topics that only the FMU publishes.
Alone == Subscribed \ UNION {PeerTopics[p] : p \in Peers}

\* When take is past a reader that is not fed from elsewhere, it is empty.
QuietAt(t) ==
  intraprocess =>
    /\ \A w \in Writers : in_flight[t][w] = <<>>
    /\ \/ pc \in {"idle", "error"}
       \/ pc = "take" /\ t \notin todo
       => history[t] = <<>>

Newest == \A t \in Subscribed : NewestAt(t)

QuietTopics == \A t \in Alone : QuietAt(t)

EchoInv == Newest /\ QuietTopics

LEMMA LastTail ==
  ASSUME NEW h \in Seq(Received), h # <<>>
  PROVE  /\ Tail(h) = <<>> => Last(h) = Head(h)
         /\ Tail(h) # <<>> => Last(Tail(h)) = Last(h)
  <1>1. /\ Tail(h) \in Seq(Received)
        /\ Len(h) \in Nat /\ Len(h) > 0 /\ Len(Tail(h)) = Len(h) - 1
        /\ \A i \in 1 .. Len(h) - 1 : Tail(h)[i] = h[i + 1]
        /\ Head(h) = h[1]
    BY TailFacts
  <1>2. ASSUME Tail(h) = <<>> PROVE Last(h) = Head(h)
    <2>0. PICK k \in Seq(Received) : k = Tail(h)
      BY <1>1
    <2>1. Len(k) = 0
      BY <1>2, <2>0, EmptySeq
    <2>2. Len(h) = 1
      BY <1>1, <2>0, <2>1
    <2> QED
      BY <1>1, <2>2 DEF Last
  <1>3. ASSUME Tail(h) # <<>> PROVE Last(Tail(h)) = Last(h)
    <2>1. Len(Tail(h)) # 0
      BY <1>1, <1>3, EmptySeq
    <2>2. Len(Tail(h)) \in 1 .. Len(h) - 1
      BY <1>1, <2>1
    <2>3. Tail(h)[Len(Tail(h))] = h[Len(h)]
      BY <1>1, <2>2
    <2> QED
      BY <2>3 DEF Last
  <1> QED
    BY <1>2, <1>3

LEMMA DeliverNewest ==
  ASSUME LoopsOK, Newest, NEW t \in Subscribed, NEW s \in Received,
         Deliver(t, s), UNCHANGED output
  PROVE  Newest'
  <1> SUFFICES ASSUME NEW u \in Subscribed PROVE NewestAt(u)'
    BY DEF Newest
  <1>1. /\ history'[t] = Keep(history[t], s) /\ latest'[t] = s
        /\ u # t => history'[u] = history[u] /\ latest'[u] = latest[u]
    BY DeliverFacts DEF LoopsOK
  <1>2. history[t] \in Seq(Received) /\ Len(history[t]) <= Depth
    BY DEF LoopsOK, TypeOK
  <1>3. Keep(history[t], s) # <<>> /\ Last(Keep(history[t], s)) = s
    BY <1>2, KeepFacts
  <1> QED
    BY <1>1, <1>3 DEF Newest, NewestAt

LEMMA NewestKept ==
  ASSUME LoopsOK, Newest, [Next]_vars
  PROVE  Newest'
  <1>1. CASE UNCHANGED <<output, history, latest>>
    BY <1>1 DEF Newest, NewestAt
  <1>2. ASSUME NEW t \in Published, Write(t) PROVE Newest'
    <2> DEFINE s == [from |-> Own, value |-> input[t]]
    <2>1. \/ UNCHANGED <<output, history, latest>>
          \/ t \in Subscribed /\ Deliver(t, s) /\ UNCHANGED output
      BY <1>2 DEF Write
    <2>2. s \in Received
      BY OwnSample DEF LoopsOK
    <2> HIDE DEF s
    <2> QED
      BY <1>1, <2>1, <2>2, DeliverNewest
  <1>3. ASSUME NEW t \in Subscribed, TakeSample(t) PROVE Newest'
    <2> SUFFICES ASSUME NEW u \in Subscribed PROVE NewestAt(u)'
      BY DEF Newest
    <2>1. /\ history[t] \in Seq(Received) /\ history[t] # <<>>
          /\ output'[t] = Head(history[t]) /\ history'[t] = Tail(history[t])
          /\ u # t => output'[u] = output[u] /\ history'[u] = history[u]
          /\ UNCHANGED latest
      BY <1>3 DEF LoopsOK, TypeOK, TakeSample
    <2>2. /\ Tail(history[t]) = <<>> => Last(history[t]) = Head(history[t])
          /\ Tail(history[t]) # <<>> =>
               Last(Tail(history[t])) = Last(history[t])
      BY <2>1, LastTail
    <2> QED
      BY <2>1, <2>2 DEF Newest, NewestAt
  <1>4. CASE Reset
    <2>1. \A t \in Subscribed : latest'[t] = None
      BY <1>4 DEF Reset
    <2> QED
      BY <2>1 DEF Newest, NewestAt
  <1>5. ASSUME NEW t \in Subscribed, NEW w \in Writers, Arrive(t, w)
        PROVE  Newest'
    <2> DEFINE s == Head(in_flight[t][w])
    <2>1. s \in Received /\ Deliver(t, s) /\ UNCHANGED output
      BY <1>5, ArriveFacts DEF LoopsOK
    <2> HIDE DEF s
    <2> QED
      BY <2>1, DeliverNewest
  <1>6. ASSUME NEW p \in Peers, NEW t \in PeerTopics[p], PeerWrites(p, t)
        PROVE  UNCHANGED <<output, history, latest>>
    BY <1>6 DEF PeerWrites
  <1> QED
    BY <1>1, <1>2, <1>3, <1>4, <1>5, <1>6
    DEF Next, InDoStep, vars, Set, DoStep, WriteReturns, NoData, TakeReturns

LEMMA QuietKept ==
  ASSUME LoopsOK, QuietTopics, [Next]_vars
  PROVE  QuietTopics'
  <1> SUFFICES ASSUME NEW t \in Alone, intraprocess' PROVE QuietAt(t)'
    BY DEF QuietTopics, QuietAt
  <1>0. intraprocess /\ t \in Subscribed
    BY DEF Next, vars, Alone
  <1>1. /\ TypeOK
        /\ \A w \in Writers : in_flight[t][w] = <<>>
        /\ pc \in {"idle", "error"} \/ (pc = "take" /\ t \notin todo)
             => history[t] = <<>>
    BY <1>0 DEF LoopsOK, QuietTopics, QuietAt
  <1>2. CASE UNCHANGED vars
    BY <1>1, <1>2 DEF QuietAt, vars
  <1>3. ASSUME NEW ts \in SUBSET Changing, NEW ok \in BOOLEAN, Set(ts, ok)
        PROVE  QuietAt(t)'
    BY <1>1, <1>3 DEF Set, QuietAt
  <1>4. CASE DoStep
    BY <1>1, <1>4 DEF DoStep, QuietAt
  <1>5. ASSUME NEW u \in Published, Write(u) PROVE QuietAt(t)'
    <2>1. UNCHANGED in_flight /\ pc' = "write"
      BY <1>0, <1>5 DEF Write
    <2> QED
      BY <1>1, <2>1 DEF QuietAt
  <1>6. CASE WriteReturns
    BY <1>0, <1>1, <1>6 DEF WriteReturns, QuietAt
  <1>7. ASSUME NEW u \in Subscribed, TakeSample(u) PROVE QuietAt(t)'
    <2>1. /\ pc = "take" /\ u \in todo /\ UNCHANGED <<pc, todo, in_flight>>
          /\ u # t => history'[t] = history[t]
      BY <1>0, <1>1, <1>7 DEF TakeSample, TypeOK
    <2> QED
      BY <1>1, <2>1 DEF QuietAt
  <1>8. ASSUME NEW u \in Subscribed, NoData(u) PROVE QuietAt(t)'
    <2>1. /\ pc = "take" /\ todo' = todo \ {u} /\ history[u] = <<>>
          /\ UNCHANGED <<pc, history, in_flight>>
      BY <1>8 DEF NoData
    <2> QED
      BY <1>1, <2>1 DEF QuietAt
  <1>9. CASE TakeReturns
    BY <1>1, <1>9 DEF TakeReturns, QuietAt
  <1>10. CASE Reset
    BY <1>0, <1>10 DEF Reset, QuietAt
  <1>11. ASSUME NEW p \in Peers, NEW u \in PeerTopics[p], PeerWrites(p, u)
         PROVE  QuietAt(t)'
    <2>0. PICK s \in Received : s = [from |-> p, value |-> sent[p][u] + 1]
      BY <1>1, <1>11, PeerWritesFacts
    <2>1. /\ u \in Subscribed /\ Send(u, s)
          /\ UNCHANGED <<pc, todo, history>>
      BY <1>1, <1>11, <2>0, PeerWritesFacts
    <2>2. u # t
      BY DEF Alone
    <2>3. \A w \in Writers : in_flight'[t][w] = in_flight[t][w]
      BY <1>0, <1>1, <2>1, <2>2, SendFacts
    <2> QED
      BY <1>1, <2>1, <2>3 DEF QuietAt
  <1>12. ASSUME NEW u \in Subscribed, NEW w \in Writers, Arrive(u, w)
         PROVE  QuietAt(t)'
    <2>0. PICK s \in Received : s = Head(in_flight[u][w])
      BY <1>1, <1>12, ArriveFacts
    <2>1. /\ in_flight[u][w] # <<>> /\ Deliver(u, s)
          /\ \A x \in Subscribed, v \in Writers :
               x # u => in_flight'[x][v] = in_flight[x][v]
          /\ UNCHANGED <<pc, todo>>
      BY <1>1, <1>12, <2>0, ArriveFacts
    <2>2. u # t
      BY <1>1, <2>1
    <2>3. history'[t] = history[t]
      BY <1>0, <1>1, <2>1, <2>2, DeliverFacts
    <2> QED
      BY <1>0, <1>1, <2>1, <2>2, <2>3 DEF QuietAt
  <1> QED
    BY <1>2, <1>3, <1>4, <1>5, <1>6, <1>7, <1>8, <1>9, <1>10, <1>11, <1>12
    DEF Next, InDoStep

\* docs/index.md, "Sending to itself is possible ... there will be a sample
\* lag": an output with a sample of the FMU itself is never ahead of the input;
\* where the library delivers intraprocess, a step that returns has read what
\* it has written.
THEOREM OwnWritesLag == Spec => []OwnSampleLags
  <1>1. Init => EchoInv
    BY DEF Init, EchoInv, Newest, NewestAt, QuietTopics, QuietAt, Alone
  <1>2. ASSUME LoopsOK, EchoInv, [Next]_vars PROVE EchoInv'
    BY <1>2, NewestKept, QuietKept DEF EchoInv
  <1>3. ASSUME EchoInv, InOrder PROVE OwnSampleLags
    <2>1. \A t \in Subscribed :
            output[t].from = Own => output[t].value <= input[t]
      BY <1>3 DEF InOrder, InOrderAt, AllBehind, Behind
    <2>2. (pc = "idle" /\ intraprocess) =>
            \A t \in Subscribed \ UNION {PeerTopics[p] : p \in Peers} :
              latest[t] # None => output[t] = latest[t]
      BY <1>3
      DEF EchoInv, Newest, NewestAt, QuietTopics, QuietAt, Alone
    <2> QED
      BY <2>1, <2>2 DEF OwnSampleLags
  <1> QED
    BY <1>1, <1>2, <1>3, Loops, OrderKept, PTL DEF Spec
-----------------------------------------------------------------------------
(* What the simulator sees is a sample and hold.                           *)

\* The variables of SampleHold, as FmuInstance implements them.
Hold == [t \in Subscribed |-> IF reading = t THEN before[t] ELSE output[t]]

Pending == [t \in Subscribed |-> Unread(t)]

Unwritten == IF pc = "write" THEN todo ELSE {}

ToRead == CASE pc = "write" -> Subscribed
            [] pc = "take"  -> todo
            [] OTHER        -> {}

Seen == <<Hold, Pending, Unwritten, ToRead>>

LEMMA InitSampleHold == Init => SH!Init
  <1> SUFFICES ASSUME Init PROVE SH!Init
    OBVIOUS
  <1>1. /\ reading = None /\ None \notin Subscribed /\ pc = "idle"
        /\ \A t \in Subscribed : history[t] = <<>> /\ output[t] = Initial
    BY InstanceAssumption DEF Init
  <1>2. /\ Hold = [t \in Subscribed |-> Initial]
        /\ Pending = [t \in Subscribed |-> None]
        /\ Unwritten = {} /\ ToRead = {}
    BY <1>1 DEF Hold, Pending, Unread, Unwritten, ToRead
  <1> QED
    BY <1>2 DEF SH!Init, Hold, Pending, Unwritten, ToRead

\* A reader that gets a sample: what is pending is that sample.
LEMMA DeliverSeen ==
  ASSUME LoopsOK, NEW t \in Subscribed, NEW s \in Received, Deliver(t, s),
         UNCHANGED <<reading, output, before>>
  PROVE  /\ Hold' = Hold
         /\ Pending' = [Pending EXCEPT ![t] = s]
  <1>1. /\ history'[t] = Keep(history[t], s)
        /\ \A u \in Subscribed : u # t => history'[u] = history[u]
    BY DeliverFacts DEF LoopsOK
  <1>2. history[t] \in Seq(Received) /\ Len(history[t]) <= Depth
    BY DEF LoopsOK, TypeOK
  <1>3. Keep(history[t], s) # <<>> /\ Last(Keep(history[t], s)) = s
    BY <1>2, KeepFacts
  <1>4. Unread(t)' = s /\ \A u \in Subscribed : u # t => Unread(u)' = Unread(u)
    BY <1>1, <1>3 DEF Unread
  <1>5. Hold' = Hold
    BY DEF Hold
  <1> QED
    BY <1>4, <1>5 DEF Pending

LEMMA WriteSeen ==
  ASSUME LoopsOK, NEW t \in Published, Write(t)
  PROVE  SH!Publish(t)
  <1> DEFINE s == [from |-> Own, value |-> input[t]]
  <1>1. /\ pc = "write" /\ t \in todo /\ todo' = todo \ {t}
        /\ UNCHANGED <<pc, reading, output, before>>
    BY DEF Write
  <1>2. \/ UNCHANGED history
        \/ t \in Subscribed /\ Deliver(t, s)
    BY DEF Write
  <1>3. s \in Received
    BY OwnSample DEF LoopsOK
  <1> HIDE DEF s
  <1>4. /\ t \in Unwritten /\ Unwritten' = Unwritten \ {t}
        /\ ToRead' = ToRead
    BY <1>1 DEF Unwritten, ToRead
  <1>5. CASE UNCHANGED history
    <2>1. Hold' = Hold /\ Pending' = Pending
      BY <1>1, <1>5 DEF Hold, Pending, Unread
    <2> QED
      BY <1>4, <2>1 DEF SH!Publish, Hold, Pending, Unwritten, ToRead
  <1>6. CASE t \in Subscribed /\ Deliver(t, s)
    <2>1. Hold' = Hold /\ Pending' = [Pending EXCEPT ![t] = s]
      BY <1>1, <1>3, <1>6, DeliverSeen
    <2> QED
      BY <1>3, <1>4, <1>6, <2>1
      DEF SH!Publish, Hold, Pending, Unwritten, ToRead
  <1> QED
    BY <1>2, <1>5, <1>6

LEMMA ArriveSeen ==
  ASSUME LoopsOK, NEW t \in Subscribed, NEW w \in Writers, Arrive(t, w)
  PROVE  \E s \in Received : SH!Receive(t, s)
  <1> DEFINE s == Head(in_flight[t][w])
  <1>1. /\ s \in Received /\ Deliver(t, s)
        /\ UNCHANGED <<pc, todo, reading, output, before>>
    BY ArriveFacts DEF LoopsOK
  <1> HIDE DEF s
  <1>2. Hold' = Hold /\ Pending' = [Pending EXCEPT ![t] = s]
    BY <1>1, DeliverSeen
  <1>3. Unwritten' = Unwritten /\ ToRead' = ToRead
    BY <1>1 DEF Unwritten, ToRead
  <1>4. SH!Receive(t, s)
    BY <1>2, <1>3 DEF SH!Receive, Hold, Pending, Unwritten, ToRead
  <1> QED
    BY <1>1, <1>4

\* A sample that is taken is the newest, or the newest stays unread.
LEMMA TakeSampleSeen ==
  ASSUME LoopsOK, NEW t \in Subscribed, TakeSample(t)
  PROVE  UNCHANGED Seen
  <1>1. /\ history[t] \in Seq(Received) /\ history[t] # <<>>
        /\ output'[t] = Head(history[t]) /\ history'[t] = Tail(history[t])
        /\ \A u \in Subscribed : u # t =>
             output'[u] = output[u] /\ history'[u] = history[u]
        /\ reading \in {None, t} /\ reading' = t
        /\ before' = IF reading = None THEN output ELSE before
        /\ UNCHANGED <<pc, todo>>
    BY DEF LoopsOK, TypeOK, TakeSample
  <1>2. None \notin Subscribed
    BY InstanceAssumption
  <1>3. /\ Tail(history[t]) = <<>> => Last(history[t]) = Head(history[t])
        /\ Tail(history[t]) # <<>> =>
             Last(Tail(history[t])) = Last(history[t])
    BY <1>1, LastTail
  <1>4. \A u \in Subscribed : Unread(u)' = Unread(u)
    <2>1. Unread(t)' = Unread(t)
      BY <1>1, <1>3 DEF Unread
    <2>2. ASSUME NEW u \in Subscribed, u # t PROVE Unread(u)' = Unread(u)
      BY <1>1, <1>2, <2>2 DEF Unread
    <2> QED
      BY <2>1, <2>2
  <1>5. Pending' = Pending
    BY <1>4 DEF Pending
  <1>6. Hold' = Hold
    <2>1. ASSUME NEW u \in Subscribed
          PROVE  (IF reading' = u THEN before'[u] ELSE output'[u])
                   = (IF reading = u THEN before[u] ELSE output[u])
      BY <1>1, <1>2
    <2> QED
      BY <2>1 DEF Hold
  <1>7. Unwritten' = Unwritten /\ ToRead' = ToRead
    BY <1>1 DEF Unwritten, ToRead
  <1> QED
    BY <1>5, <1>6, <1>7 DEF Seen

LEMMA NoDataSeen ==
  ASSUME LoopsOK, NEW t \in Subscribed, NoData(t)
  PROVE  SH!Take(t)
  <1>1. /\ pc = "take" /\ t \in todo /\ todo' = todo \ {t}
        /\ history[t] = <<>> /\ reading \in {None, t} /\ reading' = None
        /\ UNCHANGED <<pc, output, history, before>>
    BY DEF NoData
  <1>2. /\ None \notin Subscribed /\ None \notin Received
        /\ reading = t => output[t] \in Received
    BY <1>1, InstanceAssumption DEF LoopsOK, ReadingOK
  <1>3. /\ Unwritten = {} /\ Unwritten' = {}
        /\ t \in ToRead /\ ToRead' = ToRead \ {t}
    BY <1>1 DEF Unwritten, ToRead
  <1>4. /\ Unread(t) = (IF reading = t THEN output[t] ELSE None)
        /\ Unread(t)' = None
        /\ \A u \in Subscribed : u # t => Unread(u)' = Unread(u)
    BY <1>1, <1>2 DEF Unread
  <1>5. Pending' = [Pending EXCEPT ![t] = None]
    BY <1>4 DEF Pending
  <1>6. Hold' = [Hold EXCEPT ![t] = IF Pending[t] = None THEN Hold[t]
                                                         ELSE Pending[t]]
    <2>1. Pending[t] = Unread(t)
      BY DEF Pending
    <2>2. Hold'[t] = IF Pending[t] = None THEN Hold[t] ELSE Pending[t]
      BY <1>1, <1>2, <1>4, <2>1 DEF Hold
    <2>3. \A u \in Subscribed : u # t => Hold'[u] = Hold[u]
      BY <1>1, <1>2 DEF Hold
    <2>4. /\ Hold = [u \in Subscribed |-> Hold[u]]
          /\ Hold' = [u \in Subscribed |-> Hold'[u]]
      BY DEF Hold
    <2> QED
      BY <2>2, <2>3, <2>4
  <1> QED
    BY <1>3, <1>5, <1>6 DEF SH!Take, Hold, Pending, Unwritten, ToRead

LEMMA ResetSeen ==
  ASSUME LoopsOK, Reset
  PROVE  SH!Reset
  <1>1. /\ pc \in {"idle", "error"} /\ pc' = "idle"
        /\ reading = None /\ reading' = None /\ None \notin Subscribed
        /\ \A t \in Subscribed :
             output'[t] = Initial /\ history'[t] = <<>>
    BY InstanceAssumption DEF Reset, LoopsOK, ReadingOK
  <1>2. /\ Unwritten = {} /\ Unwritten' = {}
        /\ ToRead = {} /\ ToRead' = {}
    BY <1>1 DEF Unwritten, ToRead
  <1>3. /\ Hold' = [t \in Subscribed |-> Initial]
        /\ Pending' = [t \in Subscribed |-> None]
    BY <1>1 DEF Hold, Pending, Unread
  <1> QED
    BY <1>2, <1>3 DEF SH!Reset, Hold, Pending, Unwritten, ToRead

LEMMA DoStepSeen ==
  ASSUME DoStep
  PROVE  SH!Step
  <1>1. Hold' = Hold /\ Pending' = Pending
    BY DEF DoStep, Hold, Pending, Unread
  <1>2. /\ Unwritten = {} /\ ToRead = {}
        /\ Unwritten' = Published /\ ToRead' = Subscribed
    BY DEF DoStep, Unwritten, ToRead
  <1> QED
    BY <1>1, <1>2 DEF SH!Step, Hold, Pending, Unwritten, ToRead

LEMMA NextSampleHold ==
  ASSUME LoopsOK, [Next]_vars
  PROVE  [SH!Next]_SH!vars
  <1>0. ASSUME UNCHANGED Seen PROVE UNCHANGED SH!vars
    BY <1>0 DEF Seen, SH!vars, Hold, Pending, Unwritten, ToRead
  <1>1. ASSUME UNCHANGED <<reading, output, history, before>>,
               Unwritten' = Unwritten, ToRead' = ToRead
        PROVE  UNCHANGED Seen
    BY <1>1 DEF Seen, Hold, Pending, Unread
  <1>2. CASE UNCHANGED vars
    <2>1. Unwritten' = Unwritten /\ ToRead' = ToRead
      BY <1>2 DEF vars, Unwritten, ToRead
    <2> QED
      BY <1>0, <1>1, <1>2, <2>1 DEF vars
  <1>3. ASSUME NEW ts \in SUBSET Changing, NEW ok \in BOOLEAN, Set(ts, ok)
        PROVE  UNCHANGED SH!vars
    <2>1. Unwritten' = Unwritten /\ ToRead' = ToRead
      BY <1>3 DEF Set, Unwritten, ToRead
    <2> QED
      BY <1>0, <1>1, <1>3, <2>1 DEF Set
  <1>4. CASE DoStep
    BY <1>4, DoStepSeen DEF SH!Next
  <1>5. ASSUME NEW t \in Published, Write(t) PROVE SH!Next
    BY <1>5, WriteSeen DEF SH!Next
  <1>6. CASE WriteReturns
    <2>1. Unwritten' = Unwritten /\ ToRead' = ToRead
      BY <1>6 DEF WriteReturns, Unwritten, ToRead
    <2> QED
      BY <1>0, <1>1, <1>6, <2>1 DEF WriteReturns
  <1>7. ASSUME NEW t \in Subscribed, TakeSample(t) PROVE UNCHANGED SH!vars
    BY <1>0, <1>7, TakeSampleSeen
  <1>8. ASSUME NEW t \in Subscribed, NoData(t) PROVE SH!Next
    BY <1>8, NoDataSeen DEF SH!Next
  <1>9. CASE TakeReturns
    <2>1. Unwritten' = Unwritten /\ ToRead' = ToRead
      BY <1>9 DEF TakeReturns, Unwritten, ToRead
    <2> QED
      BY <1>0, <1>1, <1>9, <2>1 DEF TakeReturns
  <1>10. CASE Reset
    BY <1>10, ResetSeen DEF SH!Next
  <1>11. ASSUME NEW p \in Peers, NEW t \in PeerTopics[p], PeerWrites(p, t)
         PROVE  UNCHANGED SH!vars
    <2>1. Unwritten' = Unwritten /\ ToRead' = ToRead
      BY <1>11 DEF PeerWrites, Unwritten, ToRead
    <2> QED
      BY <1>0, <1>1, <1>11, <2>1 DEF PeerWrites
  <1>12. ASSUME NEW t \in Subscribed, NEW w \in Writers, Arrive(t, w)
         PROVE  SH!Next
    BY <1>12, ArriveSeen DEF SH!Next
  <1> QED
    BY <1>2, <1>3, <1>4, <1>5, <1>6, <1>7, <1>8, <1>9, <1>10, <1>11, <1>12
    DEF Next, InDoStep

\* docs/index.md, "Effectively, this approach is a sample and hold": the loop
\* of take, with samples arriving at any point of it, amounts to one moment
\* per topic and step at which the latest sample is taken over.
THEOREM IsSampleAndHold == Spec => SampleAndHold
  BY InitSampleHold, NextSampleHold, Loops, PTL
  DEF Spec, SampleAndHold, SH!Spec
=============================================================================
