SPECIFICATION RepackerSpec
CONSTANTS
  Types <- MCTypes
  Topics <- MCTopics
  Nodes <- MCNodes
  Missing <- MCMissing
  Mappings <- MCMappings
  t1 = t1
  None = None
  Truncated = Truncated
  Templates <- MCTemplates
  Digest <- MCDigest
  MaxEdits = 2
INVARIANTS
  TypeOK
  DenseReferences
  StructureListsOutputs
  RepackerTypeOK
  AcceptedMeansDescribed
  CreateDelivers
PROPERTIES
  ArchivesSurvive
