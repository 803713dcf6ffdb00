SPECIFICATION Spec
CONSTANTS
  g = g
  a1 = a1
  a2 = a2
  a3 = a3
  a4 = a4
  b2 = b2
  Blocks = {g, a1, a2, a3}
  MaxHeight = 3
  Number <- TreeNumber
  Parent <- TreeParent
  AncestorAt <- TreeAncestor
  NoBlock = NoBlock
  EmptyBlocks = {a2}
  StartNumber = 1
  MaxReorgDepth = 1
  FaultKinds = {"upstream", "handler", "saveEvents", "updateBlockProgress"}
  MaxFaults = 2
  MaxRestarts = 1
  MaxServerStarts = 2
  MaxCopies = 1
  MaxStray = 1
INVARIANTS
  ParentsFirst
  CanonicalDeep
CHECK_DEADLOCK FALSE
