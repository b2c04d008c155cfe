SPECIFICATION FairSpec
CONSTANTS
  g = g
  a1 = a1
  a2 = a2
  a3 = a3
  c2 = c2
  c3 = c3
  EmptyHash = empty
  DenseLocators = 10
  MaxBlockLocatorsPerMsg = 500
  MaxBlocksPerMsg = 2
  Peers = {p1}
  NoPeer = nopeer
  Blocks <- MCBlocks
  Genesis = g
  Previous <- MCPrevious
  BlockHeight <- MCBlockHeight
  LocalChain <- JustGenesis
  PeerChains <- Two
  Growth = 1
  MaxCloses = 1
  Backlog = 1
CHECK_DEADLOCK FALSE
INVARIANTS RequestedInFlight
PROPERTY CatchesUp
