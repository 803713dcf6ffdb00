SPECIFICATION FairSpec
CONSTANTS
  g = g
  a1 = a1
  a2 = a2
  a3 = a3
  a4 = a4
  b2 = b2
  Blocks = {g, a1, a2, a3, a4}
  MaxHeight = 4
  Number <- TreeNumber
  Parent <- TreeParent
  AncestorAt <- TreeAncestor
  NoBlock = NoBlock
  EmptyBlocks = {a3}
  StartNumber = 1
  MaxReorgDepth = 1
  FaultKinds = {"upstream", "handler", "saveEvents"}
  MaxFaults = 2
  MaxRestarts = 0
  MaxServerStarts = 1
  MaxCopies = 1
  MaxStray = 1
PROPERTIES
  TipReached
  PrunedInTime
CHECK_DEADLOCK FALSE
