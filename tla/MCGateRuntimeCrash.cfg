CONSTANTS
  c1 = c1
  c2 = c2
  c3 = c3
  k1 = k1
  k2 = k2
  u1 = u1
  u2 = u2
  CoaId = {c1, c2}
  Key = {k1}
  Unit = {u1, u2}
  None = None
  Resubmitted = {c1, c2}
  StoreFaults = FALSE
  AuditFaults = TRUE
  MaxLog = 5
  MaxSerial = 2
  MaxRestarts = 1
SPECIFICATION Spec
SYMMETRY Symmetry
INVARIANTS
  TaskingBacked
  DecidedOnce
  IssuedOncePerApproval
  WriteThrough
PROPERTIES
  ImplementsAuthority
