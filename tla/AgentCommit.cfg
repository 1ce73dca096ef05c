SPECIFICATION Spec
CONSTANTS
  w1 = w1
  w2 = w2
  w3 = w3
  j1 = j1
  j2 = j2
  t1 = t1
  t2 = t2
  Workers = {w1, w2, w3}
  Jobs = {j1, j2}
  JobOf <- MCJobOf
  Tokens = {t1, t2}
  TokenOf <- MCTokenOf
  Original = Original
  Partial = Partial
  None = None
  RequireFencing = TRUE
  MaxFaults = 2
CHECK_DEADLOCK FALSE
INVARIANT BackupRetained
INVARIANT WholeTreeLive
PROPERTY RollbackRestores
PROPERTY CommitFenced
