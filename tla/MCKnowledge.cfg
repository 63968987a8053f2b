SPECIFICATION FairSpec
CONSTANTS
  import1 = import1
  import2 = import2
  import3 = import3
  reprocess = reprocess
  index = index
  delete1 = delete1
  Requests <- MCRequests
  RequestKind <- MCKind
  MaxProcs = 3
  MaxCrashes = 1
  MaxCut = 2
  Patient = TRUE
CHECK_DEADLOCK FALSE
INVARIANTS
  TypeOK
  ReadyIsSearchable
  NothingLeftBehind
PROPERTIES
  ProcessingEnds
