CONSTANTS
  server = server
  console = console
  Server = server
  Writer = {server}
  None = None
  Eds = TRUE
  DemoTamper = TRUE
  SignFaults = TRUE
  IoFaults = TRUE
  HeadLoss = TRUE
  MaxEvents = 3
  MaxStarts = 3
SPECIFICATION Spec
CHECK_DEADLOCK FALSE
INVARIANTS
  TypeOK
  ChainLinked
  TamperEvident
  SidecarEvident
PROPERTIES
  AppendOnly
