SPECIFICATION FairSpec
CONSTANTS
  alice = alice
  bob = bob
  anon = anon
  none = none
  padded = padded
  empty = empty
  j1 = j1
  j2 = j2
  Users <- MCUsers
  Anonymous = anon
  Blank = none
  RawNames <- MCRawNames
  TrimSpace <- MCTrimSpace
  Jobs <- MCJobs
  MaxWaiting = 2
INVARIANTS
  TypeOK
  QueueIsExact
PROPERTIES
  RoundRobinPromise
  EveryWaiterIsServed
