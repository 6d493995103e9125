SPECIFICATION Spec
CONSTANTS
  Ahead = 0
  Late = 2
  ShootDelay = 2
  MaxInputs = 3
INVARIANTS
  InputsAreAccepted
CHECK_DEADLOCK FALSE
