SPECIFICATION Spec
CONSTANTS
  Jobs = {j1}
  MaxAttempts = 2
  MaxKeys = 1
  MaxSessions = 2
  MaxFaults = 1
  Workers = {w1, w2}
CHECK_DEADLOCK FALSE
INVARIANT SecretOnce
INVARIANT KeyInstalled
INVARIANT RefusedForCause
INVARIANT CeilingHeldAlone
INVARIANT NoForgottenKey
PROPERTY ExpiredKeysGo
