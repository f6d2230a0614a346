CONSTANTS
  Subjects = {"ring", "chain"}
  Count = 3
  MaxPool = 5
  Timestamps = {0, 1, 2, 3}
  None = None
  Settings <- MCSettings
  RefPool = 24
  CompPool = 6
  Depth = 2
  MaxIn = 27
  MaxFails = 2
SPECIFICATION MCSpec
INVARIANTS
  TypeOK FindReturnsTheFrame NoEarlyLoss PeakTellsOverflow
  ChainTypeOK ReferenceAtHand EnvelopeAtHand PeakIsBacklog
PROPERTIES ImplementsPass
CHECK_DEADLOCK FALSE
