SPECIFICATION FairSpec
CONSTANTS
  Traffic <- Calls
  Puts = {}
  Client = {c1, c2}
  None = None
  TokenSet = TRUE
  StopFaults = FALSE
  RestoreFaults = TRUE
  SaveFaults = TRUE
  Reordering = TRUE
  Evictions = TRUE
  ColdStarts = TRUE
  MaxRecords = 1
  MaxSaves = 2
  c1 = c1
  c2 = c2
PROPERTY SavedAtLast
PROPERTY AnswersAll
