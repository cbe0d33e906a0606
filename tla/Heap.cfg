SPECIFICATION Spec
CONSTANTS
  Word = 4096
  SqrtWord = 64
  Granularity = 64
  MinLarge = 64
  TrimThreshold = 96
  BrkStart = 100
  MaxBrk = 380
  Requests = {20, 70}
  Products <- SomeProducts
  Alignments = {32}
  Pads = {0}
  Limits = {192}
  Arrays <- SomeArrays
  MaxHeld = 3
  Moves = {20}
INVARIANTS
  CheckMallocState
  BlocksApart
  CheckMalloced
  FailsOnlyWhenRefused
PROPERTIES
  LimitRespected
  ImplementsAllocator
CHECK_DEADLOCK FALSE
