CONSTANTS
  Subjects = {"stage", "chain"}
  Delta = 1
  Tr0 = 1
  Depth = 2
  TestDepth = 2
  CacheSize = 7
  Shared = {TRUE, FALSE}
  MaxIn = 10
  MaxFails = 2
  MaxFailures = 2
  Settings <- MCSettings
  OutBufs = 2
  MaxReturn = 2
  SourceCache = 6
  CompCache = 8
  MaxInputs = 16
SPECIFICATION MCSpec
INVARIANTS
  TypeOK MadeRight ConstantLag OwnVectors
  ChainTypeOK SourceAtHand EnvelopeWhole OwnLimitVectors NothingPending LedgerAsDocumented
PROPERTIES ImplementsPass ChainImplementsPass
CHECK_DEADLOCK FALSE
