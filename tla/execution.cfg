CONSTANTS
  h1 = h1
  h2 = h2
  t1 = t1
  t2 = t2
  p1 = p1
  p2 = p2
  a = a
  NoHandle = NoHandle
  NoPage = NoPage
  Handles <- TwoHandles
  Targets <- TwoTargets
  Pages <- TwoPages
  Near <- NearAll
  Capacity = 1
  PrepareFaults = {}
  InstallFaults = {"page_protect", "unprotect_begin", "unprotect_end"}
  UninstallFaults = {"unprotect_begin", "unprotect_end", "page_unprotect"}
  WinEndFails = FALSE
  Systems = {"unix"}
  page_size = 8
  PatchSize = 3
  Memory = {0}
  addr <- Addresses
  Discipline = {"lifo", "finish_install"}
  Threads <- OneThread
  Prehooked <- OnlyH1
  Direct <- H2OnT1
  MaxDepth = 2
  Rules = {"stop", "drain", "page", "finish"}
SPECIFICATION ExecFairSpec
CHECK_DEADLOCK FALSE
INVARIANTS
  NoThreadFaults
  CallbacksWhileEngaged
PROPERTIES
  ThreadsReturn
  CallsReturn
