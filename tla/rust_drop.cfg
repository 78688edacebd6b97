CONSTANTS
  a = a
  b = b
  h1 = h1
  h2 = h2
  Threads <- OneThread
  Handles <- TwoHandles
  MaxCalls = 4
  PrepareErrors = {"DISASSEMBLY"}
SPECIFICATION Spec
CHECK_DEADLOCK FALSE
INVARIANTS
  PatchedRetained
