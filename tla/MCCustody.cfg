SPECIFICATION Spec
CONSTANTS
  w1 = w1
  w2 = w2
  Wake = {w1, w2}
  Autonomous = {w2}
  NoCode = NoCode
  Idle = Idle
  Nothing = Nothing
  Refused = Refused
  MaxFaults = 1
  MaxStarts = 3
  MaxScripts = 1
INVARIANTS ForestTellsTheSource WriterAndVerifierAgree CheckpointIsTheFullProof
PROPERTIES ReadyCustodyIsWhole
CHECK_DEADLOCK FALSE
