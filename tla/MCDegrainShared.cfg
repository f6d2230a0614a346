CONSTANTS
  Delta = 1
  Tr0 = 1
  Depth = 2
  CacheSize = 7
  Shared = {TRUE}
  MaxIn = 10
  MaxFails = 0
SPECIFICATION Spec
INVARIANTS VectorsOfTheFrame
CHECK_DEADLOCK FALSE
