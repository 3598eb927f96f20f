----------------------------- MODULE FmuInstance -----------------------------
(***************************************************************************)
(* An FMU instance that has been set up, between a simulator, which sets   *)
(* inputs, steps and reads outputs, and DDS, which keeps delivering while  *)
(* a step runs.  DoStep writes one sample of each fmu_in topic, then takes *)
(* reader by reader until it is told that there is no data.  Each write    *)
(* and each take_next_sample is a step of its own: samples arrive in       *)
(* between on the threads of Fast DDS.                                     *)
(*                                                                         *)
(* A sample is its writer and the value, a number that counts up with the  *)
(* changes of the value.                                                   *)
(***************************************************************************)
EXTENDS Integers, Sequences, SequencesExt

CONSTANTS
  Published,    \* topics of fmu_in: m_write_data
  Subscribed,   \* topics of fmu_out: m_read_data
  Peers,        \* other DataWriters
  PeerTopics,   \* PeerTopics[p]: the subscribed topics p publishes
  Own,          \* the FMU's own DataWriter of a topic
  None,         \* nobody, nothing
  Depth,        \* history depth of the readers (KEEP_LAST)
  Changing,     \* bound: the inputs whose value the simulator changes
  MaxSets,      \* bound: changes of an input between two resets
  MaxSamples,   \* bound: samples of a peer per topic
  MaxInFlight   \* bound: samples of a writer on their way

Writers == Peers \union {Own}

Received == [from : Writers, value : 0 .. MaxSets + MaxSamples]

\* The value of DynamicData that nothing has been converted into.
Initial == [from |-> None, value |-> 0]

ASSUME InstanceAssumption ==
  /\ Changing \subseteq Published
  /\ PeerTopics \in [Peers -> SUBSET Subscribed]
  /\ Own \notin Peers /\ None \notin Peers \union {Own}
  /\ None \notin Subscribed \union Received
  /\ Depth \in Nat \ {0}
  /\ {MaxSets, MaxSamples, MaxInFlight} \subseteq Nat

VARIABLES
  intraprocess, \* a write runs the FMU's own reader before it returns; a
             \* setting of the library, the same for the whole run
  pc,        \* "idle" between the simulator's calls
  todo,      \* what the loop of write, or of take, has not finished
  reading,   \* the reader whose inner loop in take has taken a sample
  input,     \* values of the fmu_in topics in the DataMapper
  output,    \* samples the fmu_out data of the DataMapper were made from
  history,   \* samples the readers keep for take_next_sample
  in_flight, \* per topic and writer: samples on their way to the reader
  sent,      \* per peer and topic: samples written
  before,    \* history: the outputs when the loop of take came to reading
  latest     \* history: per topic, the sample its reader received last

vars == <<intraprocess, pc, todo, reading, input, output, history, in_flight,
          sent, before, latest>>

-----------------------------------------------------------------------------
Init ==
  /\ intraprocess \in BOOLEAN
  /\ pc = "idle"
  /\ todo = {}
  /\ reading = None
  /\ input = [t \in Published |-> 0]
  /\ output = [t \in Subscribed |-> Initial]
  /\ history = [t \in Subscribed |-> <<>>]
  /\ in_flight = [t \in Subscribed |-> [w \in Writers |-> <<>>]]
  /\ sent = [p \in Peers |-> [t \in Subscribed |-> 0]]
  /\ before = output
  /\ latest = [t \in Subscribed |-> None]

\* SetReal, SetInteger, SetBoolean, SetString: a loop over value references.
\* At the first one the mapper does not have, vector::at throws; what came
\* before it stays set, and of a failed instance FMI allows only the reset.
Set(ts, ok) ==
  /\ pc = "idle"
  /\ \A t \in ts : input[t] < MaxSets
  /\ input' = [t \in Published |-> IF t \in ts THEN input[t] + 1 ELSE input[t]]
  /\ pc' = IF ok THEN "idle" ELSE "error"
  /\ UNCHANGED <<todo, reading, output, history, in_flight, sent, before,
                 latest>>

DoStep ==
  /\ pc = "idle"
  /\ pc' = "write"
  /\ todo' = Published
  /\ UNCHANGED <<reading, input, output, history, in_flight, sent, before,
                 latest>>

\* Mutant: the history has no limit.
KeepAll(h, s) == Append(h, s)

\* KEEP_LAST: at its limit the history gives up its oldest sample.
Keep(h, s) == IF Len(h) < Depth THEN Append(h, s) ELSE Append(Tail(h), s)

\* The reader of t receives s.
Deliver(t, s) ==
  /\ history' = [history EXCEPT ![t] = Keep(@, s)]
  /\ latest' = [latest EXCEPT ![t] = s]

\* s leaves its writer; best effort, it may get lost.
Send(t, s) ==
  \/ UNCHANGED in_flight
  \/ /\ Len(in_flight[t][s.from]) < MaxInFlight
     /\ in_flight' =
          [in_flight EXCEPT
             ![t] = [in_flight[t] EXCEPT ![s.from] = Append(@, s)]]

\* One round of the loop in write.
Write(t) ==
  LET s == [from |-> Own, value |-> input[t]]
  IN  /\ pc = "write"
      /\ t \in todo
      /\ todo' = todo \ {t}
      /\ CASE t \notin Subscribed -> UNCHANGED <<history, in_flight, latest>>
           [] t \in Subscribed /\ intraprocess
                -> Deliver(t, s) /\ UNCHANGED in_flight
           [] OTHER -> Send(t, s) /\ UNCHANGED <<history, latest>>
      /\ UNCHANGED <<pc, reading, input, output, sent, before>>

WriteReturns ==
  /\ pc = "write"
  /\ todo = {}
  /\ pc' = "take"
  /\ todo' = Subscribed
  /\ UNCHANGED <<reading, input, output, history, in_flight, sent, before,
                 latest>>

\* Mutant: the newest sample comes first.
TakeNewest(t) ==
  /\ pc = "take"
  /\ t \in todo
  /\ reading \in {None, t}
  /\ history[t] # <<>>
  /\ reading' = t
  /\ output' = [output EXCEPT ![t] = Last(history[t])]
  /\ history' = [history EXCEPT ![t] = Front(@)]
  /\ before' = IF reading = None THEN output ELSE before
  /\ UNCHANGED <<pc, todo, input, in_flight, sent, latest>>

\* take_next_sample has a sample: it is converted and the loop goes on.
TakeSample(t) ==
  /\ pc = "take"
  /\ t \in todo
  /\ reading \in {None, t}
  /\ history[t] # <<>>
  /\ reading' = t
  /\ output' = [output EXCEPT ![t] = Head(history[t])]
  /\ history' = [history EXCEPT ![t] = Tail(@)]
  /\ before' = IF reading = None THEN output ELSE before
  /\ UNCHANGED <<pc, todo, input, in_flight, sent, latest>>

\* Mutants: the inner loop ends after one sample; it ends though there are
\* samples; the outer loop stays at its reader.
NoDataAfterOne(t) ==
  /\ pc = "take"
  /\ t \in todo
  /\ reading = t \/ (reading = None /\ history[t] = <<>>)
  /\ reading' = None
  /\ todo' = todo \ {t}
  /\ UNCHANGED <<pc, input, output, history, in_flight, sent, before, latest>>

NoDataAnyway(t) ==
  /\ pc = "take"
  /\ t \in todo
  /\ reading \in {None, t}
  /\ reading' = None
  /\ todo' = todo \ {t}
  /\ UNCHANGED <<pc, input, output, history, in_flight, sent, before, latest>>

NoDataStays(t) ==
  /\ pc = "take"
  /\ t \in todo
  /\ reading \in {None, t}
  /\ history[t] = <<>>
  /\ reading' = None
  /\ UNCHANGED <<pc, todo, input, output, history, in_flight, sent, before,
                 latest>>

\* take_next_sample has none: on to the next reader.
NoData(t) ==
  /\ pc = "take"
  /\ t \in todo
  /\ reading \in {None, t}
  /\ history[t] = <<>>
  /\ reading' = None
  /\ todo' = todo \ {t}
  /\ UNCHANGED <<pc, input, output, history, in_flight, sent, before, latest>>

\* DoStep returns.
TakeReturns ==
  /\ pc = "take"
  /\ todo = {}
  /\ pc' = "idle"
  /\ UNCHANGED <<todo, reading, input, output, history, in_flight, sent,
                 before, latest>>

\* Reset, all of it: new data, new readers, new writers.  What the old ones
\* had received, or had on its way, is not for the new ones.
Reset ==
  /\ pc \in {"idle", "error"}
  /\ pc' = "idle"
  /\ input' = [t \in Published |-> 0]
  /\ output' = [t \in Subscribed |-> Initial]
  /\ history' = [t \in Subscribed |-> <<>>]
  /\ in_flight' = [t \in Subscribed |-> [w \in Writers |-> <<>>]]
  /\ before' = output'
  /\ latest' = [t \in Subscribed |-> None]
  /\ UNCHANGED <<todo, reading, sent>>

PeerWrites(p, t) ==
  /\ sent[p][t] < MaxSamples
  /\ sent' = [sent EXCEPT ![p] = [sent[p] EXCEPT ![t] = @ + 1]]
  /\ Send(t, [from |-> p, value |-> sent'[p][t]])
  /\ UNCHANGED <<pc, todo, reading, input, output, history, before, latest>>

Arrive(t, w) ==
  /\ in_flight[t][w] # <<>>
  /\ Deliver(t, Head(in_flight[t][w]))
  /\ in_flight' =
       [in_flight EXCEPT ![t] = [in_flight[t] EXCEPT ![w] = Tail(@)]]
  /\ UNCHANGED <<pc, todo, reading, input, output, sent, before>>

\* What the thread of the simulator does inside DoStep.
InDoStep ==
  \/ \E t \in Published : Write(t)
  \/ WriteReturns
  \/ \E t \in Subscribed : TakeSample(t) \/ NoData(t)
  \/ TakeReturns

Next ==
  /\ \/ \E ts \in SUBSET Changing : \E ok \in BOOLEAN : Set(ts, ok)
     \/ DoStep
     \/ InDoStep
     \/ Reset
     \/ \E p \in Peers : \E t \in PeerTopics[p] : PeerWrites(p, t)
     \/ \E t \in Subscribed : \E w \in Writers : Arrive(t, w)
  /\ UNCHANGED intraprocess

Spec == Init /\ [][Next]_vars

\* DoStep is sequential code that waits for nobody, and a simulation is a
\* simulator that goes on stepping.
Fairness ==
  /\ WF_vars(InDoStep /\ UNCHANGED intraprocess)
  /\ WF_vars(DoStep /\ UNCHANGED intraprocess)

FairSpec == Spec /\ Fairness

-----------------------------------------------------------------------------
TypeOK ==
  /\ intraprocess \in BOOLEAN
  /\ pc \in {"idle", "write", "take", "error"}
  /\ todo \subseteq Published \union Subscribed
  /\ reading \in Subscribed \union {None}
  /\ input \in [Published -> 0 .. MaxSets]
  /\ {output, before} \subseteq [Subscribed -> Received \union {Initial}]
  /\ history \in [Subscribed -> Seq(Received)]
  /\ \A t \in Subscribed : Len(history[t]) <= Depth
  /\ in_flight \in [Subscribed -> [Writers -> Seq(Received)]]
  /\ sent \in [Peers -> [Subscribed -> 0 .. MaxSamples]]
  /\ latest \in [Subscribed -> Received \union {None}]

(***************************************************************************)
(* docs/index.md, Data flow.  Though take hands over sample after sample   *)
(* while new ones arrive, what the simulator can see is a sample and hold: *)
(* the output changes once a step, to the latest sample received.          *)
(***************************************************************************)
Unread(t) ==
  IF history[t] # <<>> THEN Last(history[t])
  ELSE IF reading = t THEN output[t] ELSE None

SH == INSTANCE SampleHold WITH
        Sample <- Received,
        hold <- [t \in Subscribed |-> IF reading = t THEN before[t]
                                                     ELSE output[t]],
        pending <- [t \in Subscribed |-> Unread(t)],
        unwritten <- IF pc = "write" THEN todo ELSE {},
        unread <- CASE pc = "write" -> Subscribed
                    [] pc = "take"  -> todo
                    [] OTHER        -> {}

SampleAndHold == SH!Spec

(***************************************************************************)
(* An output never goes back from a sample to an earlier one of the same   *)
(* writer, however deep the history is and whatever arrives in between;    *)
(* only a reset starts over.                                               *)
(***************************************************************************)
NeverBack ==
  [][\A t \in Subscribed :
       output'[t].from = output[t].from
         => output'[t].value >= output[t].value]_vars

(***************************************************************************)
(* docs/index.md, Limitations and caveats: "Sending to itself is possible: *)
(* The data flow is implemented so that write occurs before read; there    *)
(* will be a sample lag."  What the lag is depends on the library.  An     *)
(* output that shows a sample of the FMU itself may lag behind the input   *)
(* by any number of steps, and is never ahead of it.  Where the library    *)
(* delivers within the process, and nobody else publishes the topic, the   *)
(* lag is the step itself: the input set before a step is what the output  *)
(* shows when that step returns, since write comes before take, and not a  *)
(* step later as the quote may be read.                                    *)
(***************************************************************************)
OwnSampleLags ==
  /\ \A t \in Subscribed \intersect Published :
       output[t].from = Own => output[t].value <= input[t]
  /\ (pc = "idle" /\ intraprocess) =>
       \A t \in Subscribed \ UNION {PeerTopics[p] : p \in Peers} :
         latest[t] # None => output[t] = latest[t]

(***************************************************************************)
(* A step comes to its end, unless the peers publish faster than take      *)
(* takes for ever: MaxSamples is that assumption.                          *)
(***************************************************************************)
StepReturns == (pc \in {"write", "take"}) ~> (pc = "idle")

(***************************************************************************)
(* The last sample a reader received does reach the output, whether it     *)
(* came before, within or after the loop of take for its topic.            *)
(***************************************************************************)
LatestIsHeld ==
  \A t \in Subscribed :
    []<>(pc = "error" \/ latest[t] = None \/ output[t] = latest[t])
=============================================================================
