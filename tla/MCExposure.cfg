SPECIFICATION Spec
CONSTANTS
  Request = {r1, r2}
  NoRequest = NoRequest
  NoCode = NoCode
  Channel = {text, call}
  MaxFragments = 2
  MaxOffered <- MCOffered
  r1 = r1
  r2 = r2
  MaxFaults = 1
  MaxCrashes = 0
INVARIANTS PreparedExposureIsClosed
CHECK_DEADLOCK FALSE
