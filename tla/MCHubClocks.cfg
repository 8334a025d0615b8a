CONSTANTS
  Session = {s1, s2}
  Wake = {w1, w2}
  Plan <- MCPlan2
  Seat = {house, garden}
  HomeSeat = house
  MaxToolRounds = 1
  AutonomousMaxToolRounds = 0
  MaxCalls = 1
  MaxFaults = 0
  HearthInterval = 1
  MaxTime = 1
  ForestInstalled = TRUE
  NoPlan = NoPlan
  NoWake = NoWake
  NoSession = NoSession
  NoTime = NoTime
  SessionZero = SessionZero
SPECIFICATION Spec
SYMMETRY Symmetric
INVARIANTS
  TypeOK
  LifespansHold
  PromisesAreHonoured
  ClaimIsHeldByItsDispatch
  ClocksAreNeverLost
PROPERTIES
  HearthBreaksNoPromise
  KeepsBenchPromise
CHECK_DEADLOCK FALSE
