CONSTANTS
  Subjects = {"bwdif", "order"}
  CacheSize = 3
  MaxIn = 7
  Ring = 3
  Lag = 2
  Pool = 3
  Owns = {TRUE, FALSE}
  MaxHanded = 5
  MaxReads = 3
SPECIFICATION MCSpec
INVARIANTS TypeOK MadeRight OrderTypeOK ReceivedAsAsked
PROPERTIES ImplementsBob
CHECK_DEADLOCK FALSE
