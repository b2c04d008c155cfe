SPECIFICATION Spec
CONSTANTS
  g = g
  a1 = a1
  a2 = a2
  a3 = a3
  b1 = b1
  b2 = b2
  b3 = b3
  b4 = b4
  c2 = c2
  c3 = c3
  NoBlock = NoBlock
  Blocks <- MCBlocks
  Genesis = g
  Previous <- MCPrevious
  Height <- MCHeight
  Work <- MCWork
  TotalWork <- MCTotalWork
  MinMemoryNodes = 5
  ContextOK <- AllContextOK
  CheckResult <- AllValid
  MaxCrashes = 1
  MaxStoreFailures = 0
INVARIANTS
  TypeOK
  CanRestart
  OrphansResolved
PROPERTIES
  ImplementsChainSelection
