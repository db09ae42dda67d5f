\* The plain transport and the TLS transport with a receive stream.
SPECIFICATION Spec
CONSTANTS
  Transports = {"Plain", "TlsStream"}
  Depth = 3
  Window = 3
  Pool = 3
  StagedReservations = 2
  MaxGather = 2
  MinMessage = 1
  MaxMessage = 3
  MaxBytes = 5
  MaxPromises = 3
  MaxUmint = 9
INVARIANTS
  TypeOK
  GatherContinues
  ReservationsOwned
  OpsCounted
  TransferStateReleased
  OutputDrained
  WindowAccounting
PROPERTIES
  ImplementsStream
