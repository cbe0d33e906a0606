SPECIFICATION Spec
CONSTANTS
  NbFiles = 2
  Direct = 1
  Indirect = 2
  IndirectCnt = 2
  DataSize = 2
  MaxLength = 11
INVARIANTS
  Readable
  SizesAgree
  Dense
PROPERTIES
  WriteOnce
CHECK_DEADLOCK FALSE
