SPECIFICATION Spec
CONSTANTS
  start = start
  pause = pause
  resume = resume
  poll = poll
  Stage = "draft"
  Requests <- Resumed
  RequestKind <- ResumedKinds
  MaxEvidence = 2
  MaxLaunches = 2
  MaxCalls = 2
  MaxCrashes = 0
  MaxManual = 1
  DbFails = FALSE
  Patient = FALSE
CHECK_DEADLOCK FALSE
INVARIANTS
  ActiveIsLive
  VersionsAreGrounded
