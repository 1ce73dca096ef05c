SPECIFICATION FairSpec
CONSTANTS
  w1 = w1
  w2 = w2
  w3 = w3
  j1 = j1
  j2 = j2
  t1 = t1
  t2 = t2
  Workers = {w1}
  Jobs = {j1}
  JobOf <- MCJobOf
  Tokens = {t1}
  TokenOf <- MCTokenOf
  Original = Original
  Partial = Partial
  None = None
  RequireFencing = TRUE
  MaxFaults = 1
CHECK_DEADLOCK FALSE
PROPERTY TargetReturns
