SPECIFICATION Spec
CONSTANTS
  Contacts <- MCContacts
  Admin <- MCAdmin
  StartTls = TRUE
  Login = TRUE
  MaxTroubles = 2
  RunTimes = {10, 30, 196, 199}
  Jobs = {j1}
  MaxBurials = 2
  MaxFaults = 1
CHECK_DEADLOCK FALSE
INVARIANT SentIsTaken
INVARIANT EscalatedOnce
PROPERTY FirstBurialHeard
PROPERTY ScansGoOn
PROPERTY TierReturns
