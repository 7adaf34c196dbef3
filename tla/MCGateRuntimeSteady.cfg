CONSTANTS
  c1 = c1
  c2 = c2
  c3 = c3
  k1 = k1
  k2 = k2
  u1 = u1
  u2 = u2
  CoaId = {c1, c2, c3}
  Key = {k1}
  Unit = {u1, u2}
  None = None
  Resubmitted = {}
  StoreFaults = FALSE
  AuditFaults = FALSE
  MaxLog = 5
  MaxSerial = 2
  MaxRestarts = 0
SPECIFICATION FairSpec

PROPERTIES
  ApprovalReachesInbox
INVARIANTS
  TypeOK
  ApprovalCarriedOut
  TaskingSealed
  AckSealed
  PendingIsListed
  OutstandingIsActive
