CONSTANTS
  NumPages = 10
  PageSize = 2
  Top = 64
  Int32Max = 7
  Func = 10
  Fixed <- FixedPages
  Layouts <- AllLayouts
  Others = 3
  OsFails = TRUE
SPECIFICATION FairSpec
CHECK_DEADLOCK FALSE
INVARIANTS
  KeepsWhatItReturns
  WithinReach
  QuietSucceeds
PROPERTIES
  AllocReturns
