CONSTANTS
  Pool = 4
  MinLag = 1
  Splits = {TRUE, FALSE}
  Cleans = {TRUE, FALSE}
  Faults = FALSE
  MaxIn = 2
  MaxInits = 2
SPECIFICATION Spec
PROPERTIES InitStartsOver
CHECK_DEADLOCK FALSE
