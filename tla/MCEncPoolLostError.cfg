\* Two workers, an overflow: is it always reported?
SPECIFICATION Spec
CONSTANTS
  m = m  w1 = w1  w2 = w2  nobody = nobody
  Main = m
  Workers <- TwoWorkers
  NoThread = nobody
  Ht = 2  Wd = 1
  Inter = FALSE  MayOverflow = TRUE
  MaxFrames = 1
  SpuriousWakeups = FALSE
SYMMETRY Symmetry
INVARIANTS SuccessIsComplete
