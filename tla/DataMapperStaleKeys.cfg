SPECIFICATION Spec
CONSTANTS
  Types <- MCTypes
  Topics <- MCTopics
  Nodes <- MCNodes
  Missing <- MCMissing
  Mappings <- BrokenMappings
  MaxStaleKeys = 2
INVARIANTS Repopulated
