SPECIFICATION FairSpec
CONSTANTS
  Ids <- MCIds
  MaxEntities = 3
  FirstEntities = 1
  Capacity = 2
  MaxVisits = 2
  MaxSnapshots = 3
  MaxInFlight = 3
INVARIANTS
  TypeOK
  FaultsComeFromJoining
  ClientFollows
PROPERTIES
  SnapshotsNeverGoBack
  ClientConverges
CHECK_DEADLOCK FALSE
