SPECIFICATION Spec
CONSTANTS
  start = start
  pause = pause
  resume = resume
  poll = poll
  Stage = "draft"
  Requests <- Unwatched
  RequestKind <- UnwatchedKinds
  MaxEvidence = 2
  MaxLaunches = 2
  MaxCalls = 1
  MaxCrashes = 0
  MaxManual = 0
  DbFails = FALSE
  Patient = TRUE
CHECK_DEADLOCK FALSE
INVARIANTS
  NeverReplaysCommit
