----------------------------- MODULE SampleHold -----------------------------
(***************************************************************************)
(* What docs/index.md promises under "Data flow", without readers, loops   *)
(* and buffers: "Writing DDS data is done before reading", "only the       *)
(* latest sample is kept", "Effectively, this approach is a sample and     *)
(* hold".  In each step every writer publishes once, then every output     *)
(* takes over the latest sample that has come in for it since it last did, *)
(* at one moment, or holds what it has.                                    *)
(***************************************************************************)
CONSTANTS
  Published,  \* topics of fmu_in
  Subscribed, \* topics of fmu_out
  Sample,     \* what may be received
  Initial,    \* what an output holds before the first sample
  None        \* nothing received

VARIABLES
  hold,       \* per subscribed topic: what the simulator reads
  pending,    \* per subscribed topic: the latest sample since the last Take
  unwritten,  \* writers that have still to publish in this step
  unread      \* outputs that have still to be sampled in this step

vars == <<hold, pending, unwritten, unread>>

Init ==
  /\ hold = [t \in Subscribed |-> Initial]
  /\ pending = [t \in Subscribed |-> None]
  /\ unwritten = {}
  /\ unread = {}

Receive(t, s) ==
  /\ pending' = [pending EXCEPT ![t] = s]
  /\ UNCHANGED <<hold, unwritten, unread>>

Step ==
  /\ unwritten = {} /\ unread = {}
  /\ unwritten' = Published
  /\ unread' = Subscribed
  /\ UNCHANGED <<hold, pending>>

\* A writer of the FMU may have its own topic among its subscriptions.
Publish(t) ==
  /\ t \in unwritten
  /\ unwritten' = unwritten \ {t}
  /\ \/ UNCHANGED pending
     \/ /\ t \in Subscribed
        /\ \E s \in Sample : pending' = [pending EXCEPT ![t] = s]
  /\ UNCHANGED <<hold, unread>>

Take(t) ==
  /\ unwritten = {}
  /\ t \in unread
  /\ unread' = unread \ {t}
  /\ hold' = [hold EXCEPT ![t] = IF pending[t] = None THEN @ ELSE pending[t]]
  /\ pending' = [pending EXCEPT ![t] = None]
  /\ UNCHANGED unwritten

Reset ==
  /\ unwritten = {} /\ unread = {}
  /\ hold' = [t \in Subscribed |-> Initial]
  /\ pending' = [t \in Subscribed |-> None]
  /\ UNCHANGED <<unwritten, unread>>

Next ==
  \/ \E t \in Subscribed, s \in Sample : Receive(t, s)
  \/ Step
  \/ \E t \in Published : Publish(t)
  \/ \E t \in Subscribed : Take(t)
  \/ Reset

Spec == Init /\ [][Next]_vars
=============================================================================
