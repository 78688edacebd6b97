CONSTANTS
  h1 = h1
  h2 = h2
  t1 = t1
  t2 = t2
  p1 = p1
  p2 = p2
  NoHandle = NoHandle
  NoPage = NoPage
  Handles <- TwoHandles
  Targets <- TwoTargets
  Pages <- TwoPages
  Near <- NearBut
  Capacity = 2
  PrepareFaults = {"trampoline", "page_alloc"}
  InstallFaults = {"page_protect", "unprotect_begin", "unprotect_end"}
  UninstallFaults = {"unprotect_begin", "unprotect_end"}
  WinEndFails = FALSE
  Systems = {"unix", "windows"}
  page_size = 8
  PatchSize = 3
  Memory = {0, 1}
  addr <- Addresses
  Discipline = {"lifo", "finish_install"}
SPECIFICATION Spec
INVARIANTS
  TypeOK
  JumpsLand
  TrampolinesLand
  PristineWhenUninstalled
  TargetsReprotected
  PatchWritable
  PagesOwnedOnce
  PrepareNeverCrashes
PROPERTIES
  InstallComplete
  UninstallComplete
  ImplementsHookSpec
