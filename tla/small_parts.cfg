CONSTANTS
  LogHandles = {h1, h2}
  LogFiles = {f1, f2}
  NULL = NULL
  Abis = {"sysv", "ms", "i686", "arm64"}
  StackTop = {110, 111}
  StackArgs = {0, 1}
  CallerFrame = 12
  MaxCalls = 2
  MaxChanges = 1
  Bytes = {0, 1}
  Shapes <- SomeShapes
  Disassemblers = {"capstone", "distorm", "Zydis"}
  Programs <- SomePrograms
  Images <- SomeImages
  NoFunc = 0
  ImagePage = 16
  AdrpPages = 16
SPECIFICATION MCSpec
CHECK_DEADLOCK FALSE
INVARIANTS
  StreamsClosed
  PrehookSeesArguments
  HookGetsCall
  OperandFound
  ResolvedRuns
