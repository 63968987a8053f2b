SPECIFICATION FairSpec
CONSTANTS
  start = start
  pause = pause
  resume = resume
  poll = poll
  Stage = "draft"
  Requests <- Paused
  RequestKind <- PausedKinds
  MaxEvidence = 2
  MaxLaunches = 1
  MaxCalls = 2
  MaxCrashes = 1
  MaxManual = 0
  DbFails = FALSE
  Patient = FALSE
CHECK_DEADLOCK FALSE
INVARIANTS
  OneVersionPerLaunch
PROPERTIES
  Settles
