SPECIFICATION Spec
CONSTANTS
  Logins = {l1}
  Passwords = {secret, guess}
  Bootstrap = secret
  Tokens = {t1}
  Requests = {r1, r2}
  LoginLimit = 1
  MaxFaults = 1
CHECK_DEADLOCK FALSE
INVARIANT RefusedOnceEnded
PROPERTY DeniedForGood
