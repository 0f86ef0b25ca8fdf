\* Threads created per frame, intra pictures, the bitstream may overflow.
SPECIFICATION FairSpawnSpec
CONSTANTS
  m = m  w1 = w1  w2 = w2  nobody = nobody
  Main = m
  Workers <- TwoWorkers
  NoThread = nobody
  Ht = 3  Wd = 2
  Inter = FALSE  MayOverflow = TRUE
  MaxFrames = 2
CHECK_DEADLOCK FALSE
INVARIANTS SuccessIsComplete
PROPERTY FrameReturns
