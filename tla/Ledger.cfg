SPECIFICATION Spec
CONSTANTS
  Txs <- MCTxs
  CoinbaseIds <- MCCoinbaseIds
  MaxTxs = 1
  Rewards = {0, 1, 10, 30}
  Foundation = "foundation"
  Miner = "miner"
  Nobody = "nobody"
  RegisterId = "id"
  Proven = {"m"}
  ExchangeRate = 1
  MinCrossChainTxFee = 1
  MinTxFee = 1
  SpendCoinbaseSpan = 1
INVARIANTS
  IndicesMatchChain
  ConnectedBlockPersists
  
  OnlyOwnersSpend
  OutputLockHonoured
CHECK_DEADLOCK FALSE
