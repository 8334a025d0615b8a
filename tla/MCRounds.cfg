SPECIFICATION Spec
CONSTANTS
  NoFixture = NoFixture
  MaxTurns = 1
  MaxJourneys = 2
  MaxEvents = 4
  QuietLimit = 1
  RoundLimit = 2
  MaxCalls = 2
  MaxWakes = 2
  MaxLives = 2
INVARIANTS
  ResidentIsAtHome WalkIsSound QuietHorizon
CHECK_DEADLOCK FALSE
