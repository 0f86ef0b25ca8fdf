SPECIFICATION Spec
CONSTANTS
  Modes = {"CBR", "VBR"}
  Intervals = {1, 2, 3}
  BitRates = {100, 140}
  PeakRate = 160
  FrameRates = {2000, 3000}
  First <- MCFirst
  Delay = 2000
  MaxBuffer = 240
  Estimates = {30, 500}
  Misses = {0, 25}
  TicksPerSecond = 6000
  Corners = {}
  MaxPics = 4
  MaxChanges = 2
INVARIANTS GopInPhase BudgetBalanced SecondsPaid BufferHolds
CHECK_DEADLOCK FALSE
