CONSTANTS
  Configs <- MCConfigs
  Margin = 16
  Reach = 4
SPECIFICATION BandsSpec
INVARIANTS FieldsKept
CHECK_DEADLOCK FALSE
