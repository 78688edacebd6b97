CONSTANTS
  Machines <- I386Further
  Sizes <- SomeSizes
  Word = 128
  TransitAt = 25
SPECIFICATION Spec
CHECK_DEADLOCK FALSE
INVARIANTS
  FitsBuffers
