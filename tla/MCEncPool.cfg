\* Two workers, inter pictures of four rows, two frames.
SPECIFICATION Spec
CONSTANTS
  m = m  w1 = w1  w2 = w2  nobody = nobody
  Main = m
  Workers <- TwoWorkers
  NoThread = nobody
  Ht = 4  Wd = 3
  Inter = TRUE  MayOverflow = FALSE
  MaxFrames = 2
  SpuriousWakeups = TRUE
INVARIANTS Quiescent NoLostWakeup EntropyExclusive FrameDone DeblockLags
PROPERTIES ImplementsFrameCoder
