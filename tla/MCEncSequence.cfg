SPECIFICATION Spec
CONSTANTS
  Configs <- Sound
  MaxInp = 4
  MaxFlush = 6
INVARIANTS
  CodedOnce
  NoGaps
  DisplayOrder
  RefsFit
  BuffersSuffice
  IdrHonoured
CHECK_DEADLOCK FALSE
