SPECIFICATION FairSpec
CONSTANTS
  Peers = {p1, p2}
  NoPeer = nobody
  Timers = {"t1", "t2"}
  Channels = {c1, c2, c3, c4}
  NoChan = nil
INVARIANTS SyncModeWatched
PROPERTY SyncModeEnds
CHECK_DEADLOCK FALSE
