SPECIFICATION FairSpec
CONSTANTS
  Traffic <- Calls
  Puts = {}
  Client = {c1, c2}
  None = None
  TokenSet = TRUE
  StopFaults = FALSE
  RestoreFaults = TRUE
  SaveFaults = FALSE
  Reordering = FALSE
  Evictions = FALSE
  ColdStarts = FALSE
  MaxRecords = 2
  MaxSaves = 2
  c1 = c1
  c2 = c2
PROPERTY ChainSurvives
