SPECIFICATION Spec
CONSTANTS
  g = g  a1 = a1  a2 = a2  a3 = a3  b1 = b1
  x = x  hot = hot  gone = gone
  alice = alice  bob = bob
  poolA = poolA  poolB = poolB
  Blocks <- AllBlocks
  NoBlock = NoBlock
  Number <- Heights
  Parent <- ParentHash
  StartBlock = g
  MaxReorgDepth = 1
  clearEntitiesCacheInterval = 2
  Ids <- AllIds
  NoEntity = NoEntity
  MaxIncidents = 1
  Tokens <- AllTokens
  Events <- Logs
  PoolAt <- Pools
  NoPool = NoPool
  HotFixPool = HotFixPool
  FirstGraftBlock = 1
  AddressZero = AddressZero
INVARIANTS
  TypeOK
  PositionsAgree
  EveryEventApplied
  SnapshotsAgree
  CacheCoherent
PROPERTY
  KeepsHistory
CHECK_DEADLOCK FALSE
