SPECIFICATION FairSpec
CONSTANTS
  loop = loop
  mixed = mixed
  out = out
  p1 = p1
  Own = Own
  None = None
  Published <- ThreeTopics
  Subscribed <- TwoTopics
  Peers <- OnePeer
  PeerTopics <- PeerOnMixed
  Changing <- LoopAndMixed
  Depth = 2
  MaxSets = 1
  MaxSamples = 2
  MaxInFlight = 1
INVARIANTS TypeOK OwnSampleLags
PROPERTIES SampleAndHold NeverBack StepReturns LatestIsHeld
