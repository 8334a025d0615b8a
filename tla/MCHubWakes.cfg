CONSTANTS
  Session = {s1, s2}
  Wake = {w1, w2}
  Plan <- MCNone
  Seat = {house}
  HomeSeat = house
  MaxToolRounds = 2
  AutonomousMaxToolRounds = 1
  MaxCalls = 2
  MaxFaults = 2
  HearthInterval = 0
  MaxTime = 0
  ForestInstalled = TRUE
  NoPlan = NoPlan
  NoWake = NoWake
  NoSession = NoSession
  NoTime = NoTime
  SessionZero = SessionZero
SPECIFICATION Spec
SYMMETRY Symmetric
INVARIANTS
  TurnsAreWhole
  AnnouncementsHold
PROPERTIES
  SettledTurnIsSealed
CHECK_DEADLOCK FALSE
