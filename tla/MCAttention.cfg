SPECIFICATION Spec
CONSTANTS
  MaxWakes = 4
  MaxRows = 9
  MaxFaults = 1
  RoundLimit = 2
  Size <- MCSize
  Usual = 2
  GroundSize <- MCGroundSize
  CallList <- MCCallList
  RetainedToolPairs = 1
  FoldTailUnits = 1
  TrailSignLimit = 1
  HighWater = 16
  LowWater = 12
  RefuseBytes = 22
  FoldBytes = 3
  SignBytes = 1
CHECK_DEADLOCK FALSE
INVARIANTS
  AbsentIsRecoverable
  CausalTailStands
  RefusesOnlyWhenExhausted
PROPERTY
  LeavesForGood
