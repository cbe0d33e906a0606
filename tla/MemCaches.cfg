SPECIFICATION Spec
CONSTANTS
  Word = 64
  Zones <- SmallZones
  LowSize = 4
  KernelBase = 8
  KernelEnd = 9
  ModEnds <- OneModule
  CacheSize = 1
  MapSize = 1
  Nmemb = 4
  ExtNmemb = 3
  Requests <- OneRequest
  UserCaches = {"inode"}
  UserNmemb = 1
  UserBsize = 1
  MaxSlabs = 3
  MaxDepth = 12
INVARIANTS
  TypeOK
  MapSound
  UsedNotAvailable
  DepthBound
PROPERTIES
  StarvesOnlyWhen
CHECK_DEADLOCK FALSE
