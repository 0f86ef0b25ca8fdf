SPECIFICATION Spec
CONSTANTS
  s1 = s1
  s2 = s2
  r1 = r1
  r2 = r2
  Slots = 2
  Sizes = {s1, s2}
  Rates = {r1, r2}
  Types = {"IDR"}
  Intra = 2
  IdrInterval = 4
  LastStamp = 2
  MaxRequests = 3
SYMMETRY SizeSymmetry
INVARIANTS RequestsHeld
PROPERTIES TakesEffect SequenceStarts
CHECK_DEADLOCK FALSE
