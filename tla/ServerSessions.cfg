SPECIFICATION FairSpec
CONSTANTS
  p1 = p1
  p2 = p2
  a1 = a1
  a2 = a2
  Peers <- MCPeers
  Accounts <- MCAccounts
  NoPeer = NoPeer
  NoSession = NoSession
  NoAccount = NoAccount
  MaxSessions = 2
  MaxRequests = 2
INVARIANTS
  TypeOK
  AnswersReachTheAsker
  IdentityIsProved
  IdentityIsOne
PROPERTIES
  ImplementsSessions
  EveryRequestAnswered
CHECK_DEADLOCK FALSE
