SPECIFICATION Spec
CONSTANTS
  out = out
  in1 = in1
  in2 = in2
  Outputs <- MCOutputs
  Inputs <- MCInputs
  Unknown = Unknown
  Size8 = 2
  Size16 = 4
  Size32 = 8
  Size64 = 32
  FloatPrecision = 4
  DoublePrecision = 16
  Units = {1, 2, 4, 8, 16, 32, 64}
  Infinity = 1024
  Chars <- MCChars
  NUL = 0
  Layouts <- MCLayouts
  Samples <- MCSamples
  Choices <- MCChoices
  References <- MCReferences
  None = None
INVARIANTS
  TypeOK
  CallsArePrefixes
PROPERTIES
  RelayIsExact
