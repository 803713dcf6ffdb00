SPECIFICATION FairSpec
CONSTANTS
  factory = factory
  pool = pool
  other = other
  NumEvents = 4
  None = None
  Contracts = {factory, pool, other}
  Factories = {factory}
  InitiallyWatched = {factory}
  ServerWatches = {other}
  Watchers <- AllWatchers
  MaxFaults = 2
  MaxRestarts = 1
  MaxRequeues = 1
INVARIANTS
  TypeOK
  DueEventsStored
  CompleteAfterAll
  CreatedContractsLast
  AppliedOnce
PROPERTIES
  AppliesInLogOrder
  JobGetsDone
  RowStaysComplete
CHECK_DEADLOCK FALSE
