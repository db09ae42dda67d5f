SPECIFICATION FairSpec
CONSTANTS
  Kinds = {"PlainStream", "TlsReadiness"}
  Checks = {"None", "Sniffing"}
  Timers = {"Registering"}
  BufferUnits = 1
  Limit = 1
  Unsubscribes = FALSE
  MaxData = 1
  MaxOutput = 1
PROPERTIES
  FinishSettles
  PeerCloseNoticed
  LingerCompletes
CHECK_DEADLOCK FALSE
