\* Two chains at once, on a TLS transport whose receives stay on readiness.
SPECIFICATION Spec
CONSTANTS
  Transports = {"TlsReadiness"}
  Depth = 3
  Window = 3
  Pool = 3
  StagedReservations = 2
  MaxGather = 2
  MinMessage = 1
  MaxMessage = 2
  MaxBytes = 4
  MaxPromises = 2
  MaxUmint = 9
INVARIANTS
  GatherContinues
