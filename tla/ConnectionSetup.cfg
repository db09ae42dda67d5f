CONSTANTS
  a1 = a1
  p1 = p1
  p2 = p2
  Attempts = {a1}
  Peers = {p1, p2}
  NAddresses = 2
  MaxFailures = 1
  Scenarios <- MCScenarios
SPECIFICATION Spec
PROPERTIES
  NoCallAfterStop
  AnswersStand
  ConnectCompletes
  HandOverCompletes
  ListenEnds
CHECK_DEADLOCK FALSE
