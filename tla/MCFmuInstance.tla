---------------------------- MODULE MCFmuInstance ----------------------------
EXTENDS FmuInstance, TLC

CONSTANTS loop, mixed, out, p1

\* The FMU publishes three topics and subscribes two of them; the peer
\* publishes one of these as well.
ThreeTopics == {loop, mixed, out}
TwoTopics   == {loop, mixed}
OnePeer     == {p1}
PeerOnMixed == p1 :> {mixed}

\* Nobody in the model looks at the value published on out.
LoopAndMixed == {loop, mixed}
=============================================================================
