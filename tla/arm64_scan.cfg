CONSTANTS
  Refs <- ScanRefs
  Regs <- TwoRegs
  RegSets <- NoRegs
  CheckSize = 4
  PageWords = 4
  ImmHi = 4
  Func = 38
  PagesAt <- NearAndFar
SPECIFICATION Spec
CHECK_DEADLOCK FALSE
INVARIANTS
  NoLaterJumpIntoPatch
