SPECIFICATION Spec
CONSTANTS
  Jobs = {j1, j2}
  CrossJobs = {j1}
  NoJob = NoJob
  System = System
  Threads = {t1, t2}
  MaxAttempts = 2
  MaxMints = 3
  MaxTokens = 3
  MaxScans = 0
  MaxReclaims = 0
  MaxRetries = 0
  MaxExpiries = 0
  Dependencies = TRUE
SYMMETRY Symmetric
CHECK_DEADLOCK FALSE
INVARIANT RunningHoldsLocks
INVARIANT SingleWriter
INVARIANT DispatchResolvable
INVARIANT DependencyRespected
PROPERTY FsmRespected
