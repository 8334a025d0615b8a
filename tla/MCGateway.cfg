SPECIFICATION FairSpec
CONSTANTS
  Approval = {a1}
  NoApproval = NoApproval
  MaxLives = 3
  Run = {1, 2}
  NoRun = 0
  MaxCrashes = 1
INVARIANTS GatewayTypeOK  ApplyingIsAttended
PROPERTIES KeepsConsent 
CHECK_DEADLOCK FALSE
