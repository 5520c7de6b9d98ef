SPECIFICATION Spec
CONSTANTS
  K = 6
  DenseLimit = 3
  WordBits = 4
INVARIANTS
  SingleExact
PROPERTIES
  Refines
