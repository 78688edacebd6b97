CONSTANTS
  NumUnits = 5
  max_num_pages = 2
  Funcs <- TwoFuncs
  Near <- SomeNear
  OsFaults = {"reserve", "control", "commit", "decommit", "release"}
SPECIFICATION Spec
INVARIANTS
  TypeOK
  Bookkeeping
  HeldPagesStay
  HandedOutOnce
  ReleasedWhenUnused
