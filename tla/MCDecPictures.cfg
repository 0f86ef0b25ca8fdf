SPECIFICATION FairSpec
CONSTANTS
  Configs <- SoundConfigs
  MaxFrameNum = 4
  MaxIdx = 1
  NumNodes = 4
  Slots = 3
  MaxPics = 8
  MinShared = 3
  PocSpan = 64
  NoBuf = NoBuf
  None = None
CHECK_DEADLOCK FALSE
INVARIANTS
  InStep
  HeldForReason
  BuffersSuffice
  DisplayOrder
  SamplesKept
PROPERTIES
  EventuallyShown
