SPECIFICATION Spec
CONSTANTS
  t1 = t1
  t2 = t2
  r1 = r1
  r2 = r2
  i1 = i1
  i2 = i2
  o1 = o1
  m = m
  p1 = p1
  p2 = p2
  NoTx = NoTx
  NoMainTx = NoMainTx
  Txs = {t1, t2, r1, r2}
  Outputs = {i1, i2, o1}
  MainTxs = {m}
  Inputs <- MCInputs
  Creator <- MCCreator
  MainTx <- MCMainTx
  Procs = {p1, p2}
  MaxChanges = 2
INVARIANTS
  PoolGuarded
  NoConflictInPool
  ConfirmedLeavesPool
  ClaimsOwned
SYMMETRY Swaps
