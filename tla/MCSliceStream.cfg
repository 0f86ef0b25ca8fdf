CONSTANTS
  StrmSizes = {12, 24}
  WordSize = 32
  CtxState = {0, 35, 62}
  RangeLps <- McRangeLps
  Headers <- McHeaders
  Elements <- McElements
  BypassBins <- McBypassBins
  MaxElements = 5
  MaxBins = 4
  MinStreamSizeMb = 14
  ReadAhead = 8
SPECIFICATION Spec
INVARIANTS RoundTrip Escaped EndInSight
PROPERTIES CarryContained
CHECK_DEADLOCK FALSE
