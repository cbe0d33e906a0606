SPECIFICATION Spec
CONSTANTS
  Root = 4
  Bases = {0, 8, 10}
  Nmemb = 2
  Bsize = 2
  MaxSlabs = 3
INVARIANTS
  TypeOK
  FreelistsExact
  RemainingTest
PROPERTIES
  ImplementsPool
CHECK_DEADLOCK FALSE
