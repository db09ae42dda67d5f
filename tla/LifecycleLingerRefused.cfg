SPECIFICATION Spec
CONSTANTS
  Kinds = {"PlainReadiness", "PlainStream", "TlsReadiness", "TlsStream"}
  Checks = {"None", "Sniffing"}
  Timers = {"Off"}
  BufferUnits = 2
  Limit = 3
  Unsubscribes = TRUE
  MaxData = 2
  MaxOutput = 1
PROPERTIES
  LingerDrains
CHECK_DEADLOCK FALSE
