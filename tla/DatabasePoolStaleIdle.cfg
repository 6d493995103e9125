SPECIFICATION Spec
CONSTANTS
  s1 = s1
  t1 = t1
  q1 = q1
  NumWorkers = 2
  Requests <- MCTwoRequests
  Stores <- MCStores
  Transactions <- MCTransactions
  NoRequest = NoRequest
  MaxStatements = 1
  MaxLosses = 1
INVARIANT
  MissingResultMeansFailure
CHECK_DEADLOCK FALSE
