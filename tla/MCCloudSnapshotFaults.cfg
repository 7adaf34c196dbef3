SPECIFICATION Spec
CONSTANTS
  Traffic <- SealAndPut
  Puts <- BrokenTrails
  Client = {c1, c2}
  None = None
  TokenSet = TRUE
  StopFaults = TRUE
  RestoreFaults = TRUE
  SaveFaults = TRUE
  Reordering = TRUE
  Evictions = TRUE
  ColdStarts = TRUE
  MaxRecords = 2
  MaxSaves = 2
  c1 = c1
  c2 = c2
SYMMETRY Symmetry
INVARIANT TypeOK
INVARIANT ChainsLinked
INVARIANT NothingLost
INVARIANT HydratedHolds
INVARIANT Vouched
PROPERTY SnapshotGrows
