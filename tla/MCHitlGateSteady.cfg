SPECIFICATION FairSpec
CONSTANTS
  a = a
  b = b
  Console = {a}
  Tiers = {1, 2}
  None = None
  HttpFaults = FALSE
  AuditFaults = FALSE
  Crashes = FALSE
  MaxCycles = 3
INVARIANT EffectorAsRecorded
INVARIANT TimeoutStops
PROPERTY TimeoutReachesEffector
CHECK_DEADLOCK FALSE
