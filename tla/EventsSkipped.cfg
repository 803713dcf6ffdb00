SPECIFICATION Spec
CONSTANTS
  factory = factory
  pool = pool
  other = other
  NumEvents = 4
  None = None
  Contracts = {factory, pool, other}
  Factories = {factory}
  InitiallyWatched = {factory}
  ServerWatches = {other}
  Watchers <- OneWatcher
  MaxFaults = 1
  MaxRestarts = 0
  MaxRequeues = 0
INVARIANTS
  CreatedEventsProcessed
CHECK_DEADLOCK FALSE
