SPECIFICATION SystemSpec
CONSTANTS
  Types <- MCTypes
  Topics <- MCTopics
  Nodes <- MCNodes
  Missing <- MCMissing
  Mappings <- FewMappings
  MaxStaleKeys = 2
INVARIANTS TypeOK VisitorsAreBound OneReferencePerLeaf ReferencesAgree
           PartialResetAnswersAlike
