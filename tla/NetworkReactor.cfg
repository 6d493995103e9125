SPECIFICATION FairSpec
CONSTANTS
  Slots <- MCSlots
  ClientSlot = 0
  MaxConns = 2
  MaxPackets = 1
  MaxCommands = 2
INVARIANTS
  TypeOK
PROPERTIES
  ImplementsSessions
  PollMeetsItsSession
  DisconnectionReported
  ConnectToReturns
CHECK_DEADLOCK FALSE
