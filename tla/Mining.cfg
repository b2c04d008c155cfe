SPECIFICATION FairSpec
CONSTANTS
  Miners = {m1, m2}
  Counts = {0, 1, 2}
  MergedMiner = FALSE
  MaxTip = 2
  NoTip = NoTip
INVARIANTS
  QuitIsOpen
PROPERTIES
  HaltCompletes
CHECK_DEADLOCK FALSE
