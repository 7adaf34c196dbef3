SPECIFICATION FairSpec
CONSTANTS
  a = a
  b = b
  Console = {a, b}
  Tiers = {0, 1}
  None = None
  HttpFaults = TRUE
  AuditFaults = TRUE
  Crashes = TRUE
  MaxCycles = 2
INVARIANT TypeOK
INVARIANT NavigatesOnApproval
INVARIANT ApprovedInTime
PROPERTY CycleEnds
CHECK_DEADLOCK FALSE
