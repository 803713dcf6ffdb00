SPECIFICATION FairSpec
CONSTANTS
  g = g
  a1 = a1
  a2 = a2
  a3 = a3
  a4 = a4
  b2 = b2
  Blocks = {g, a1, a2, a3, b2}
  MaxHeight = 3
  Number <- TreeNumber
  Parent <- TreeParent
  AncestorAt <- TreeAncestor
  NoBlock = NoBlock
  EmptyBlocks = {}
  StartNumber = 1
  MaxReorgDepth = 1
  FaultKinds = {}
  MaxFaults = 0
  MaxRestarts = 0
  MaxServerStarts = 1
  MaxCopies = 1
  MaxStray = 1
PROPERTIES
  AbortedBlockIsProcessed
CHECK_DEADLOCK FALSE
