SPECIFICATION FairSpec
CONSTANTS
  Request = {r1, r2}
  NoRequest = NoRequest
  NoCode = NoCode
  Channel = {text, call}
  MaxFragments = 2
  MaxOffered <- MCOffered
  r1 = r1
  r2 = r2
  MaxFaults = 1
  MaxCrashes = 1
INVARIANTS RecordsAgree ReadyWasWhole SpineReadsBack
PROPERTIES ReturnedPhaseIsSealed ClosingEndsThePhase
CHECK_DEADLOCK FALSE
