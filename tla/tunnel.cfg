CONSTANTS
  Http = {h1}
  Ws = {w1}
  Agent = {a1}
  None = None
  MaxPending = 1
  MaxGen = 2
  MaxInputs = 3
SPECIFICATION Spec
INVARIANTS TypeOK BusyIsKnown NewestServes SandboxWorksForSomeone OpenSocketsHaveATunnel EventsInOrder NobodyWaitsForNothing
PROPERTIES ImplementsStreams
CHECK_DEADLOCK FALSE
