SPECIFICATION FairSpec
CONSTANTS
  search = search  save = save  judge = judge  commit = commit  a = a
  Tools <- MCTools
  Args = {a}
  Kind <- MCKind
  RunOnce <- MCRunOnce
  MaxCalls <- MCMaxCalls
  MaxAttempts <- MCMaxAttempts
  MaxRetries <- MCMaxRetries
  MaxTries = 2
  StopOnError <- MCStopOnError
  Terminal <- MCTerminal
  Cached <- MCCached
  NoArgument <- MCNoArgument
  RewriteTool = judge
  Configs <- MCConfigs
  MaxRounds = 2
  MaxModelRetries = 1
  MaxLLMTools = 1
  MaxMutations = 2
  MaxIsolatedRounds = 2
  MaxInvalid = 2
  MaxRecoverable = 2
  MaxBatch = 2
INVARIANTS TypeOK EveryCallIsAnswered StaleReuseOnlyAfterFailure
PROPERTIES KeepsToolBudget RunEnds
CHECK_DEADLOCK FALSE
