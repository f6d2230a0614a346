CONSTANTS
  Subjects = {"yadif", "rows"}
  Size = 4
  MaxIn = 7
  MaxFails = 2
  Configs <- MCConfigs
  Margin = 16
  Reach = 4
  Heights = {0, 2, 37, 38, 40}
  Outside = 2
SPECIFICATION MCSpec
INVARIANTS
  TypeOK MadeRight NoFramePassedOver
  BandsCompose
PROPERTIES ImplementsBob
CHECK_DEADLOCK FALSE
