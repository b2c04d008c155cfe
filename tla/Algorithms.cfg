SPECIFICATION Spec
CONSTANTS
  Base = 4
  TimeRange = 64
  PowLimit = 2047
  PowLimitBits = 340
  GenesisBits = 330
  targetTimespan = 6
  targetTimePerBlock = 2
  AdjustmentFactor = 2
  medianTimeBlocks = 3
  MaxTimeOffsetSeconds = 2
  GenesisTime = 1
  MaxHeight = 7
  MaxNow = 7
  Chains <- MCChains
  Watched = {"mine"}
  HashBits <- MCHashBits
  MaxTxs = 9
  EmptyHash = empty
  DenseLocators = 3
  MaxBlockLocatorsPerMsg = 20
  MaxBlocksPerMsg = 8
  MaxShared = 14
  MaxOwn = 9
CHECK_DEADLOCK FALSE
INVARIANTS TemplateAccepted RetargetBounded ProofsVerify NothingMissed LocatorFindsFork
PROPERTY MedianNeverFalls
