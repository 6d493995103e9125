SPECIFICATION Spec
CONSTANTS
  Ids <- MCIds
  MaxEntities = 3
  FirstEntities = 1
  Capacity = 2
  MaxVisits = 1
  MaxSnapshots = 1
  MaxInFlight = 3
INVARIANT
  AssertionsHold
CHECK_DEADLOCK FALSE
