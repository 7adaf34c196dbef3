CONSTANTS
  server = server
  console = console
  Server = server
  Writer = {server, console}
  None = None
  Eds = FALSE
  DemoTamper = FALSE
  SignFaults = FALSE
  IoFaults = FALSE
  HeadLoss = FALSE
  MaxEvents = 3
  MaxStarts = 2
SPECIFICATION Spec
CHECK_DEADLOCK FALSE
INVARIANTS
  ChainLinked
