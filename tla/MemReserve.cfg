SPECIFICATION FairSpec
CONSTANTS
  Word = 64
  Zones <- PcZones
  LowSize = 4
  KernelBase = 8
  KernelEnd = 9
  ModEnds <- OneModule
  CacheSize = 1
  MapSize = 1
  Nmemb = 3
  ExtNmemb = 3
  Requests <- SomeRequests
  UserCaches = {}
  UserNmemb = 1
  UserBsize = 1
  MaxSlabs = 3
  MaxDepth = 12
INVARIANTS
  UsersDisjoint
  SpareDescriptor
  SplitsSound
PROPERTIES
  ImplementsPhysicalMemory
  CallReturns
CHECK_DEADLOCK FALSE
