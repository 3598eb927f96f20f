SPECIFICATION Spec
CONSTANTS
  i1 = i1
  i2 = i2
  i3 = i3
  n1 = n1
  n2 = n2
  Instances <- MCInstances
  Types <- MCTypes
  Filtered <- MCFiltered
  None = None
SYMMETRY Symmetry
INVARIANT
  SteppingHasFilters
