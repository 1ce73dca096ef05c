SPECIFICATION FairSpec
CONSTANTS
  c1 = c1
  c2 = c2
  p1 = p1
  Keys = {k1}
  Owners = {o1}
  System = System
  Sentinel = Sentinel
  NoOwner = NoOwner
  NoKey = NoKey
  Procs = {p1}
  Calls = {c1, c2}
  ProcOf <- MCProcOf
  MaxCounter = 1
  MaxTxns = 1
  MaxIds = 8
  MaxPromotions = 1
  MaxLosses = 1
  MaxFaults = 1
CHECK_DEADLOCK FALSE
PROPERTY InstanceIdConverges
