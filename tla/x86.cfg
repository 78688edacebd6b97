CONSTANTS
  Machines <- EveryMachine
  Sizes <- SomeSizes
  Word = 128
  TransitAt = 25
SPECIFICATION Spec
CHECK_DEADLOCK FALSE
INVARIANTS
  FitsBuffers
  NoLaterJumpIntoPatch
  JumpBackSet
  RelocationExact
