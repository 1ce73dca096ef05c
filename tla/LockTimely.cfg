SPECIFICATION Spec
CONSTANTS
  c1 = c1
  c2 = c2
  p1 = p1
  Keys = {k1}
  Owners = {o1, o2}
  System = System
  Sentinel = Sentinel
  NoOwner = NoOwner
  NoKey = NoKey
  Procs = {p1}
  Calls = {c1, c2}
  ProcOf <- MCProcOf
  MaxCounter = 2
  MaxTxns = 2
  MaxIds = 3
  MaxPromotions = 1
  MaxLosses = 0
  MaxFaults = 1
SYMMETRY Symmetric
CHECK_DEADLOCK FALSE
INVARIANT TokenOwnerUnique
INVARIANT AcceptedIsNewest
PROPERTY LedgerIsRegister
