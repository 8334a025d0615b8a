CONSTANTS
  Session = {s1, s2}
  Wake = {w1, w2}
  Plan <- MCPlan1
  Seat = {house}
  HomeSeat = house
  MaxToolRounds = 1
  AutonomousMaxToolRounds = 0
  MaxCalls = 1
  MaxFaults = 0
  HearthInterval = 0
  MaxTime = 1
  ForestInstalled = TRUE
  NoPlan = NoPlan
  NoWake = NoWake
  NoSession = NoSession
  NoTime = NoTime
  SessionZero = SessionZero
SPECIFICATION FairSpec
PROPERTIES
  HubComesToRest
  PromiseIsKept
CHECK_DEADLOCK FALSE
