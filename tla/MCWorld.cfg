SPECIFICATION Spec
CONSTANTS
  Top = 4
  Package = 2
  Approval = {a1}
  Refused = Refused
  Hub = hub
  s1 = s1
  s2 = s2
  Script <- MCScript
  MaxEvents = 8
  Nobody = Nobody
  Nothing = Nothing
SYMMETRY Symmetric
INVARIANTS
  CommittedWorldHolds
  LawfulWorkVerifies
  NeverStranded
PROPERTY ChronicleIsKept
CHECK_DEADLOCK FALSE
