SPECIFICATION Spec
CONSTANTS
  None = None
  Bad = Bad
  Name <- Names
  Feed <- MCFeed
  Posts <- MCPosts
  Scenario <- MCScenario
  Events <- MCEvents
  Evidence <- MCEvidence
  Radius = 1
  Drift <- MCDrift
  MaxAge = 4
  Envelope <- MCEnvelope
  MaxObservations = 4
  MaxFaults = 2
INVARIANTS
  TypeOK
  
  
  AlertHasEvidence

  
