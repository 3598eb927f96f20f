SPECIFICATION Spec
CONSTANTS
  ta = ta
  tb = tb
  A = A
  B = B
  a1 = a1
  a2 = a2
  NoFilter = NoFilter
  Topics <- TwoTopics
  Types <- TwoTypes
  Addresses <- TwoAddresses
  Profiled <- TwoTopics
  SignalLists <- Lists
INVARIANTS TypeOK ParticipantIsDeleted ConnectionsAreCurrent ConnectionsAgreeOnType FiltersHaveData
