\* Messages without bytes.
SPECIFICATION Spec
CONSTANTS
  Transports = {"Plain"}
  Depth = 2
  Window = 3
  Pool = 3
  StagedReservations = 2
  MaxGather = 2
  MinMessage = 0
  MaxMessage = 1
  MaxBytes = 1
  MaxPromises = 2
  MaxUmint = 9
INVARIANTS
  PromisesAhead
