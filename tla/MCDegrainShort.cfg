CONSTANTS
  Delta = 1
  Tr0 = 1
  Depth = 2
  CacheSize = 7
  Shared = {FALSE}
  MaxIn = 10
  MaxFails = 0
SPECIFICATION Spec
INVARIANTS DrainReleasesAll
CHECK_DEADLOCK FALSE
