CONSTANTS
  Pool = 2
  MinLag = 3
  Splits = {TRUE}
  Cleans = {FALSE}
  Faults = FALSE
  MaxIn = 3
  MaxInits = 1
SPECIFICATION Spec
INVARIANTS PairsAlwaysMatch
CHECK_DEADLOCK FALSE
