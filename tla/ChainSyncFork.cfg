SPECIFICATION Spec
CONSTANTS
  g = g
  a1 = a1
  a2 = a2
  a3 = a3
  a4 = a4
  b2 = b2
  Blocks = {g, a1, a2, a3, a4, b2}
  MaxHeight = 4
  Number <- TreeNumber
  Parent <- TreeParent
  AncestorAt <- TreeAncestor
  NoBlock = NoBlock
  EmptyBlocks = {a3, b2}
  StartNumber = 1
  MaxReorgDepth = 1
  FaultKinds = {}
  MaxFaults = 0
  MaxRestarts = 0
  MaxServerStarts = 1
  MaxCopies = 1
  MaxStray = 1
INVARIANTS
  TypeOK
  ParentsFirst
  CanonicalUnpruned
  CanonicalDeep
PROPERTIES
  CanonicalChain
CHECK_DEADLOCK FALSE
