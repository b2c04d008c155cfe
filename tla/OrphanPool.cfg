SPECIFICATION Spec
CONSTANTS
  x1 = x1
  x2 = x2
  x3 = x3
  x4 = x4
  y1 = y1
  y2 = y2
  y3 = y3
  Root = Root
  Blocks <- MCBlocks
  Previous <- MCPrevious
  MaxOrphanBlocks = 2
  Lifetime = 4
  MaxTime = 8
INVARIANTS
  IndexMatchesPool
  PoolBound
  RootIsMissing
PROPERTIES
  EvictsOldest
SYMMETRY ChildrenOfX1
