SPECIFICATION Spec
CONSTANTS
  start = start
  pause = pause
  resume = resume
  poll = poll
  Stage = "draft"
  Requests <- Unwatched
  RequestKind <- UnwatchedKinds
  MaxEvidence = 2
  MaxLaunches = 2
  MaxCalls = 2
  MaxCrashes = 1
  MaxManual = 0
  DbFails = TRUE
  Patient = TRUE
CHECK_DEADLOCK FALSE
INVARIANTS
  TypeOK
  CheckpointBacked
PROPERTIES
  FollowsWorkflow
