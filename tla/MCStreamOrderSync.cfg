CONSTANTS
  Ring = 3
  Lag = 2
  Pool = 3
  Owns = {FALSE}
  MaxHanded = 5
  MaxReads = 3
SPECIFICATION OrderSpec
INVARIANTS SuppliedStreamNeverAwaited
CHECK_DEADLOCK FALSE
