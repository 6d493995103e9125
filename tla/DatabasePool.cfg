SPECIFICATION FairSpec
CONSTANTS
  s1 = s1
  t1 = t1
  q1 = q1
  NumWorkers = 2
  Requests <- MCRequests
  Stores <- MCStores
  Transactions <- MCTransactions
  NoRequest = NoRequest
  MaxStatements = 2
  MaxLosses = 1
INVARIANTS
  TypeOK
  NothingLost
  HonestAnswers
  NoTransactionLeftOpen
PROPERTIES
  ImplementsService
  EveryRequestAnswered
  MainThreadWaitsEnd
CHECK_DEADLOCK FALSE
