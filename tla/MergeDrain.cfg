SPECIFICATION Spec
CONSTANTS
  Overrides = {move, spawn}
  Scripts = {spawn}
  MaybePlain = {move}
  Drains = {d1, d2}
  Runs = {r1}
  NoOne = NoOne
  BatchLimit = 2
  MaxFaults = 1
CHECK_DEADLOCK FALSE
INVARIANT AppliedHasLanded
INVARIANT LostOnlyByOverlap
PROPERTY PendingSettles
