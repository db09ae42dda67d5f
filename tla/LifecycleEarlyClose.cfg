SPECIFICATION Spec
CONSTANTS
  Kinds = {"PlainStream"}
  Checks = {"None", "Sniffing"}
  Timers = {"Off"}
  BufferUnits = 2
  Limit = 3
  Unsubscribes = TRUE
  MaxData = 2
  MaxOutput = 1
PROPERTIES
  NothingLostBeforeClose
CHECK_DEADLOCK FALSE
