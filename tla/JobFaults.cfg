SPECIFICATION Spec
CONSTANTS
  Jobs = {j1, j2}
  CrossJobs = {}
  NoJob = NoJob
  System = System
  Threads = {t1}
  MaxAttempts = 2
  MaxMints = 3
  MaxTokens = 3
  MaxScans = 1
  MaxReclaims = 1
  MaxRetries = 1
  MaxExpiries = 1
  Dependencies = FALSE
SYMMETRY Symmetric
CHECK_DEADLOCK FALSE
INVARIANT FencedWriter
INVARIANT LocksFreed
PROPERTY ReleasedIsFinal
