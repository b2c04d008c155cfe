SPECIFICATION FairSpec
CONSTANTS
  Conns = {c1, c2}
  Peers = {p1}
  Self = self
  None = none
  Seeds <- MCSeeds
  QueueCap = 1
  DefaultMaxPeers = 0
  MinConnectionCount = 1
  MaxOutBoundCount = 2
  numRetries = 1
CHECK_DEADLOCK FALSE
INVARIANTS TokensCoverQueue EstablishedAlive EstablishedIsNeighbour
PROPERTY HandshakeEnds
