CONSTANTS
  Pool = 4
  MinLag = 1
  Splits = {TRUE, FALSE}
  Cleans = {TRUE, FALSE}
  Faults = TRUE
  MaxIn = 3
  MaxInits = 1
SPECIFICATION Spec
INVARIANTS TypeOK SlotsPartitioned BatchHoldsItsFrames PairsMatch NoSilentLoss NeverOutOfStep ReadLedger
PROPERTIES EveryCallReturns ImplementsStream
CHECK_DEADLOCK FALSE
