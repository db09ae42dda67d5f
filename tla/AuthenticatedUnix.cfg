\* Two connections of a client; the kernel holds three units each way.
SPECIFICATION Spec
CONSTANTS
  MaxAttempts = 2
  Capacity = 3
  Payload = 1
  Scenarios <- MCScenarios
INVARIANTS
  MutualAcceptance
  PayloadIntact
PROPERTIES
  HandshakeEnds
  PayloadArrives
CHECK_DEADLOCK FALSE
