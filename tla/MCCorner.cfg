CONSTANTS
  Wake = {w1, w2}
  BufferSize = 1
  PageLimit = 1
  MaxPages = 2
  MaxJournal = 4
  MaxBreaks = 1
  MaxStops = 1
  NoWake = NoWake
  NoCursor = NoCursor
SPECIFICATION FairSpec
INVARIANTS
  NothingMissedSilently
PROPERTIES
  DeliversInOrder
  FollowerCatchesUp
CHECK_DEADLOCK FALSE
