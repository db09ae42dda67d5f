SPECIFICATION FairSpec
CONSTANTS
  Address = address
  Host = host
  Lookups = {address, host}
  InitJob = Initialization
  MaxConcurrent = 1
  Handles = {h1}
  Generations = 2
  Asks <- MCAsks
INVARIANTS
  NativeCallsBounded
  WaitsAreServed
  WatchedOpen
PROPERTIES
  AnswersOnce
  LookupsAnswered
  DestroyEnds
CHECK_DEADLOCK FALSE
