SPECIFICATION Spec
CONSTANTS
  Paths = {p1, p2}
  Jobs = {j1, j2}
  NoJob = NoJob
  Uids = {u}
  Recs = {r1, r2}
  MaxCommits = 3
  MaxNew = 3
  MaxFaults = 1
CHECK_DEADLOCK FALSE
INVARIANT ReservationExclusive
PROPERTY DuplicatesVanish
PROPERTY OverridesKept
PROPERTY CanonicalStays
