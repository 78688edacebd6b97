CONSTANTS
  Refs <- MoveRefs
  Regs <- TwoRegs
  RegSets <- AnyRegs
  CheckSize = 3
  PageWords = 4
  ImmHi = 4
  Func = 38
  PagesAt <- NearAndFar
SPECIFICATION Spec
CHECK_DEADLOCK FALSE
INVARIANTS
  FitsTrampoline
  TrampolineExact
  ScratchIsFree
  PatchReaches
