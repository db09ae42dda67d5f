SPECIFICATION Spec
CONSTANTS
  OutboundCap = 2
  MaxSendDepth = 2
  InboundSize = 4
  QueueCapacity = 2
  HoldSize = 2
  SendMost = 2
  SegmentMost = 2
  ReceiveWindow = 3
  Delivery = {1, 2}
  Scenarios <- MCScenarios
INVARIANTS
  SealOrderKept
  CreditedWhenDrained
  PlaintextInOrder
  AcceptedAsConfigured
PROPERTIES
  InputDelivered
  OutputReachesWire
CHECK_DEADLOCK FALSE
