SPECIFICATION Spec
CONSTANTS
  c1 = c1
  c2 = c2
  a1 = a1
  a2 = a2
  n1 = n1
  n2 = n2
  Clients <- MCOneClient
  Accounts <- MCAccounts
  AccountOf <- MCOneAccountOf
  Names <- MCNames
  Default = n1
  Crews <- MCCrews
  Changes <- MCChanges
  FirstTables <- MCFirstTables
  NoClient = NoClient
  NoName = NoName
  MaxRequests = 2
PROPERTY
  LastShipStays
CHECK_DEADLOCK FALSE
