SPECIFICATION Spec
CONSTANTS
  Base <- MCBase
  Patches <- MCPatches
  OddKeys = {"a.b"}
  MaxMerges = 2
CHECK_DEADLOCK FALSE
INVARIANT RedoChangesNothing
PROPERTY PortsAgree
