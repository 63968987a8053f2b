SPECIFICATION FairSpec
CONSTANTS
  tabA = tabA
  fallback = fallback
  w1 = w1
  w2 = w2
  ca = ca
  cb = cb
  None = None
  Clients = {tabA}
  Fallback = fallback
  Conns <- OneTabConns
  ConnClient <- OneTabConnClient
  Calls <- MCCalls
  CallClient <- MCCallClient
  Cancellable = {ca}
  MaxRetries = 1
CHECK_DEADLOCK FALSE
INVARIANTS
  TypeOK
  RequestHasItsPlace
  NoMissedConnection
PROPERTIES
  EveryCallReturns
