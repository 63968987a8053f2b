SPECIFICATION FairSpec
CONSTANTS
  alice = alice
  bob = bob
  none = none
  q1 = q1
  q2 = q2
  m1 = m1
  l1 = l1
  ka = ka
  kb = kb
  d1 = d1
  d2 = d2
  NoCall = NoCall
  Users <- MCUsers
  Anonymous = bob
  Blank = none
  RawNames <- MCUsers
  TrimSpace <- MCTrimSpace
  Keys = {ka, kb}
  Calls <- SharedCalls
  CallerName <- SharedCallerName
  Kind <- SharedKind
  Key <- SharedKey
  DispatcherOf <- SharedDispatcherOf
  Dispatchers = {d1, d2}
  Drains = {1, 2, 3}
  PoolSize = 1
  Cancellable = {q1}
  Unencodable = {}
  Expires = FALSE
  ShutsDown = TRUE
CHECK_DEADLOCK FALSE
INVARIANTS
  SomeoneWillDrain
  JobIsInOnePlace
PROPERTIES
  EveryCallReturns
