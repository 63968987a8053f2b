SPECIFICATION Spec
CONSTANTS
  alice = alice
  bob = bob
  none = none
  q1 = q1
  q2 = q2
  m1 = m1
  l1 = l1
  ka = ka
  kb = kb
  d1 = d1
  d2 = d2
  NoCall = NoCall
  Users <- MCUsers
  Anonymous = bob
  Blank = none
  RawNames <- MCUsers
  TrimSpace <- MCTrimSpace
  Keys = {ka, kb}
  Calls <- QueryCalls
  CallerName <- QueryCallerName
  Kind <- QueryKind
  Key <- QueryKey
  DispatcherOf <- QueryDispatcherOf
  Dispatchers = {d1}
  Drains = {1, 2}
  PoolSize = 2
  Cancellable = {q1}
  Unencodable = {q2}
  Expires = TRUE
  ShutsDown = TRUE
CHECK_DEADLOCK FALSE
INVARIANTS
  TypeOK
  OneLoadPerKey
  StaleOnlyByOverlap
PROPERTIES
  KeepsItsPromise
