CONSTANTS
  Subjects = {"chain"}
  Count = 3
  MaxPool = 5
  Timestamps = {0, 1, 2, 3}
  None = None
  Settings <- MCNoRepair
  RefPool = 24
  CompPool = 6
  Depth = 2
  MaxIn = 27
  MaxFails = 0
SPECIFICATION MCSpec
INVARIANTS LimitNeedsNoRepair
CHECK_DEADLOCK FALSE
