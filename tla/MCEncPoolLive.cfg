\* One worker: frames and shutdowns end, with and without an overflow.
SPECIFICATION FairSpec
CONSTANTS
  m = m  w1 = w1  w2 = w2  nobody = nobody
  Main = m
  Workers <- OneWorker
  NoThread = nobody
  Ht = 3  Wd = 3
  Inter = TRUE  MayOverflow = TRUE
  MaxFrames = 2
  SpuriousWakeups = FALSE
PROPERTIES CallReturns
