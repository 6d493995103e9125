SPECIFICATION FairSpec
CONSTANTS
  Offsets <- MCOffsets
  MaxLatency = 4
  Samples = 3
  RetryDelay = 5
  NextDelay = 1
  FinishDelay = 2
INVARIANTS
  TypeOK
  EstimateIsBounded
PROPERTIES
  SyncEnds
CHECK_DEADLOCK FALSE
