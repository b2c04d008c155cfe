SPECIFICATION FairSpec
CONSTANTS
  Miners = {m1}
  Counts = {}
  MergedMiner = TRUE
  MaxTip = 2
  NoTip = NoTip
PROPERTIES
  TemplateCatchesUp
CHECK_DEADLOCK FALSE
