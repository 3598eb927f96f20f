SPECIFICATION ConverterSpec
CONSTANTS
  RootTypes <- MCRootTypes
  AllTypes <- MCAllTypes
  Depth <- MCDepth
  Values <- MCValues
  MaxTakes = 3
  get_array_specs <- MCget_array_specs
  create_data <- MCcreate_data
  DynamicData <- MCDynamicData
  set_value <- MCset_value
  set_array_data <- MCset_array_data
  get_value <- MCget_value
  get_array_data <- MCget_array_data
  IsValue <- MCIsValue
  IsData <- MCIsData
  Size <- MCSize
  Holds <- MCHolds
  HoldsArray <- MCHoldsArray
  Shows <- MCShows
INVARIANTS ConverterTypeOK PublishesWhatIsSet OutputShowsLatest
