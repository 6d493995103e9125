SPECIFICATION FairSpec
CONSTANTS
  Ahead = 1
  Late = 3
  ShootDelay = 3
  MaxInputs = 3
INVARIANTS
  TypeOK
  InputsInOrder
  RefusedAfterAHandOver
  ShotsAreSpaced

  
CHECK_DEADLOCK FALSE
