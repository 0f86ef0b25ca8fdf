SPECIFICATION FairSpec
CONSTANTS
  Wd = 2
  Ht = 2
  MaxSlices = 9
  KeepModes = {TRUE, FALSE}
  MayLower = FALSE
  MaxCalls = 2
  MaxSkips <- SkipsAtLast
INVARIANTS
  Quiescent
  DeblockLags
  ParsedUnlessSkipped
PROPERTIES
  FrameDone
  CallReturns
CHECK_DEADLOCK FALSE
