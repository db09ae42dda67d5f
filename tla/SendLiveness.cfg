\* Progress, on the three kinds of transport.
SPECIFICATION FairSpec
CONSTANTS
  Transports = {"Plain", "TlsStream", "TlsReadiness"}
  Depth = 2
  Window = 2
  Pool = 3
  StagedReservations = 2
  MaxGather = 2
  MinMessage = 1
  MaxMessage = 2
  MaxBytes = 3
  MaxPromises = 2
  MaxUmint = 9
PROPERTIES
  SendsSettle
  CloseCompletes
  DestroyCompletes
