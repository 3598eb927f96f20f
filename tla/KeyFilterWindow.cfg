SPECIFICATION Spec
CONSTANTS
  r1 = r1
  r2 = r2
  a1 = a1
  a2 = a2
  a3 = a3
  None = None
  Readers <- TwoReaders
  Addresses <- ThreeAddresses
  KeyFiles <- PlainFiles
  Domain <- MCDomain
  Default <- MCDefault
SYMMETRY Symmetry
INVARIANTS OutputHasGivenKeys
