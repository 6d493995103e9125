SPECIFICATION FairSpec
CONSTANTS
  Objects = {o1, o2}
  TickPeriod = 2
  MaxEvents = 3
INVARIANTS
  TypeOK
  UniqueEventsAreOnce
  StartComesFirst
PROPERTIES
  EventsAreTold
CHECK_DEADLOCK FALSE
