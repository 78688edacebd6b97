CONSTANTS
  a = a
  b = b
  h1 = h1
  h2 = h2
  Threads <- TwoThreads
  Handles <- TwoHandles
  MaxCalls = 4
  PrepareErrors = {"DISASSEMBLY", "NO_SPACE_NEAR_TARGET_ADDR"}
SPECIFICATION FairSpec
CHECK_DEADLOCK FALSE
INVARIANTS
  OneNativeCall
  FlagsAgree
PROPERTIES
  CallsReturn
