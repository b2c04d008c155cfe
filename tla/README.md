# A TLA+ model of the Elastos side chain node

The repository is a proof-of-work node for an Elastos side chain: it accepts
blocks, keeps the chain with the most work in LevelDB, keeps a pool of
transactions, mines, and talks to peers and RPC clients. This directory models
the parts of it whose correctness depends on order, interleaving or failure,
checks them with TLC on small instances, and proves the main results with TLAPS
for every block tree, every limit and every number of crashes.

## Inventory

| Component | State | Operations | Interacts with |
|---|---|---|---|
| Block acceptance (`blockchain/blockchain.go`) | `Index`, `BestChain`, `BlockCache`, `BlockHeight`, node flags and work sums | `AddBlock` → `ProcessBlock`, `maybeAcceptBlock`, `ConnectBestChain`, `ReorganizeChain`, `ProcessOrphans`; `Init` | calls the store and the validators under `bc.mutex`; called by peers, the miner and RPC |
| Orphan pool (same file) | `Orphans`, `PrevOrphans`, `OldestOrphan` | `AddOrphanBlock`, `RemoveOrphanBlock`, `ProcessOrphans`, `GetOrphanRoot` | filled and emptied by block acceptance; its root tells the peers' handler what to request |
| Chain store (`blockchain/chainstore.go`, `chaindata.go`) | LevelDB keys, `currentBlockHeight` | `SaveBlock`, `RollbackBlock`, `InitWithGenesisBlock`, queries | one goroutine writes; every batch ends with an event |
| Transaction pool (`blockchain/txpool.go`) | `txnList`, `inputUTXOList`, `mainchainTxList` | `AppendToTxnPool`, `CleanSubmittedTransactions`, `MaybeAcceptTransaction`, `RemoveTransaction` | goroutines of peers and RPC append; event goroutines clean and return transactions |
| Event bus (`events/event.go`) | subscribers | `Notify`: one goroutine per subscriber | store → miner's handlers → pool |
| Validation (`txvalidator.go`, `blockvalidator.go`, `validation.go`) | none | checks of a block or transaction against the ledger | store, SPV, script engine |
| Miner (`pow/pow.go`, the mining calls of `servers/interfaces.go`) | `started`, `manualMining`, `quit`; the templates of merged mining | `Start`, `Halt`, `cpuMining`, `DiscreteMining`, `GenerateBlock`, `CreateAuxBlock`, `SubmitSideAuxBlock` | pool, block acceptance, peers |
| Header rules (`difficulty.go`, `mediantime.go`, parts of `blockchain.go`) | `MedianTimePast` | `CalcNextRequiredDifficulty`, `CalcPastMedianTime`, `MedianAdjustedTime` | block acceptance checks with them, the miner builds templates with them |
| Connections (`node/link.go`, `handshakequeue.go`, `nodemap.go`, `knowaddrlist.go`) | node objects, neighbour map, handshake queue, known and connecting addresses | dial, accept, version and verack handlers, timeout, heartbeat, `NodeDisconnect` | readers of several connections share the maps |
| Block synchronisation (`node/infoupdate.go`, `msghandler.go`) | sync flags, `RequestedBlockList`, `StartHash`, `StopHash`, `continueHash`, the sync timer | `SyncBlocks`, `stopSyncing`, handlers of getblocks, inv, getdata, block | block acceptance; the same program on the other side |
| Filtered blocks (`bloom/`) | the filter of a connection | `MatchTxAndUpdate`, `NewMerkleBlock`, `CheckMerkleBlock` | light clients |
| SPV, script engine, other server calls, core types, configuration, log | little or none | library code, formatting, I/O | all of the above |

What is hard about it:

* **Failure in the middle.** A reorganisation is one LevelDB batch per block. The
  process may die between two of them, a block may be refused half way, and a
  batch may be refused by LevelDB.
* **Order.** Blocks of competing chains arrive in any order, also as orphans;
  events are handled by goroutines in any order.
* **Interleaving.** The pool locks one map access at a time; the ledger changes
  between the check of a transaction and its entry into the pool.
* **State kept twice.** The tip and the heights are in LevelDB, in `ChainStore` and
  in `Blockchain`; orphans are in two maps and a pointer; a pool transaction is in
  a list and in two maps of claims.
* **Limits and time.** The orphan pool and the handshake queue are bounded; orphans
  expire; synchronisation has a timer whose stop signal can reach the timer of
  another synchronisation; the timespan of a retarget is a `uint32`.
* **Lost messages.** A connection breaks with requests and blocks under way, while
  lists say that they were asked for.

`PROJECT.json` lists the places one by one under `hazards`.

## Modules

| Module | Models | Checked by |
|---|---|---|
| `Blockchain` | block acceptance over the block data of the store, start-up, crashes, failing batches | `MCBlockchain` with three configurations, `Blockchain_proofs` |
| `ChainSelection` | abstract: a set of accepted blocks and a tip with the most work, the first among equals | refinement, `Blockchain_proofs` |
| `ChainSelectionRefinement` | the mapping from `Blockchain` to `ChainSelection` | `MCBlockchain`, `Blockchain_proofs` |
| `OrphanPool` | orphans, their index, expiry and eviction | `MCOrphanPool`, `OrphanPool_proofs` |
| `TxPool` | the transaction pool, the goroutines that use it, the events of the ledger | `MCTxPool`, `TxPool_proofs` |
| `TxIndex` | the indices of transactions and outputs, as operators on a database: persist, rollback, queries | through `Ledger` |
| `Ledger` | the rules for transactions and blocks over `TxIndex`; blocks arrive, are connected and disconnected | `MCLedger`, `Ledger_proofs` |
| `Peers` | connections from the dial to the disconnect | `MCPeers`, `Peers_proofs` |
| `BlockSync` | both sides of the synchronisation of blocks | `MCBlockSync`, `BlockSync_proofs` |
| `SyncTimer` | how sync mode ends | itself, `SyncTimer_proofs` |
| `Mining` | mining goroutines, `DiscreteMining`, merged mining | itself with two configurations, `Mining_proofs` |
| `Locator` | block locators and their answers, as operators | through `BlockSync` and `LocatorExchange` |
| `LocatorExchange` | one getblocks between any two chains | `MCAlgorithms`, `BlockSync_proofs` |
| `HeaderChain` | difficulty, median time and the header of a template | `MCAlgorithms`, `Mining_proofs` |
| `FilteredBlocks` | bloom filters and partial Merkle trees | `MCAlgorithms` |

`Blockchain`, `Ledger`, `HeaderChain` and `TxPool` look at the same chain from four
sides: which block becomes the tip, what its transactions may do, when it may have
been made, and what the pool does about it. Each leaves open what the others decide
(`CheckResult` in `Blockchain`, the order of connecting in `Ledger`), so that it allows
more than the program does. `BlockSync` composes the local node with its peers;
`SyncTimer` says when sync mode ends and when a `stopSyncing` blocks for ever, and `BlockSync`
leaves both open.

Operators called *Mutant* in a comment are wrong versions of the definition that
follows them. They are used by no specification; each one shows that a property
would notice the mistake it makes.

### Blockchain

`AddBlock` holds `bc.mutex`, so there is one caller; `pc` says where it is. A step is
what happens between two points at which the process can die with a different
store: one batch, or one iteration of a loop around batches. `memVars` are the
fields of `Blockchain`, `dbVars` the LevelDB keys, and `node`, `ancestor`,
`attachNodes`, `processHashes` and `loadHeight` the local variables of the functions
on the stack. Detach nodes need no variable: they are the nodes from `BestChain`
down to the fork point, so the next one is always `BestChain`.

A block is its hash. Parent, height, work and the verdicts of the validators are
constant functions. `CheckResult` may hold both answers, because
`CheckTransactionContext` asks the SPV service for recharges.

| Code | Definition |
|---|---|
| `persist`, `rollback` and the `chaindata.go` functions they call | `PersistBatch`, `RollbackBatch` |
| `SaveBlock`, `handlePersistBlockTask`, `persistBlock` | `SaveBlock` (an error reaches nobody) |
| `RollbackBlock`, `handleRollbackBlockTask`, `rollback` | `RollbackBlock` |
| `InitWithGenesisBlock`, `Init` | `WipeStore`, `PersistGenesis`, `PutVersion`, `StartLoad`, `LoadStored`, `FinishLoad` |
| `maybeAcceptBlock`, `ConnectBestChain` | `RejectBlock`, `ExtendBestChain`, `AddSideBlock` |
| `GetReorganizeNodes`, `ReorganizeChain`, `DisconnectBlock` | `WalkToFork`, `CheckBlockCache`, `DisconnectBlock`, `DisconnectDone`, `AttachBlock`, `ReorganizeDone`, `ReorganizeFails` |
| `ProcessBlock`, `ProcessOrphans` | `ProcessBlock`, `RefuseKnownBlock`, `ProcessOrphan`, `NextProcessHash` |

Left out: `PruneBlockNodes`, which does nothing until the chain is longer than
`MinMemoryNodes` (`HeightAssumption`); the median time and the difficulty, which are
inside `ContextOK`; a block other than the genesis block whose `Previous` is the empty
hash (`HeaderAssumption`); readers of the store in other goroutines.

### OrphanPool

The pool with its three structures and a clock. `Blockchain` leaves open which
orphans `AddOrphanBlock` drops; this module decides it as the code does and leaves
open what the chain answers: a block is accepted, is refused, or gets a node and then
fails to become the tip because its reorganisation fails (`ReorganisationFails`, and the same
outcome in `ProcessOrphan`). In the last case the node stays (`blockchain.go:942`), the call
ends with an error and `ProcessOrphans` is not run for it: the block is in `accepted` and in
`refused`. An orphan is told from another by its expiration, as by its address in the code.

### TxPool

`proc` holds the goroutines that are inside the pool at the same time. Each read of
the ledger and each access to a map under the lock is a step; the three loops of
`CleanSubmittedTransactions` are a step each, and so is one `removeTransaction`. The ledger is the sequence of
its blocks, from which the indices of the store follow. `PersistBlock` and
`RollbackBlock` put an event into `events`, and any free goroutine may take any
event. A recharge may have inputs. Nobody looks at them before the pool does
(`txvalidator.go:79`), but it claims and frees them like those of other transactions.

Nothing serialises the callers, so some statements about the pool have exceptions. Three
history variables say exactly which: `overlapped` holds the pairs of conflicting
transactions for which `AppendToTxnPool` ran at the same time, `overtaken` the transactions
that a block brought while they were being appended, and `undone` those of blocks that were
rolled back. Fees are not modelled.

### TxIndex and Ledger

A database is a record of functions, one per key prefix. `Persist` and `Rollback` are
one batch each, read from the database as it was before. The loops over the outputs and
inputs of a block are `BlockBatch`: transaction by transaction it goes through the
entries created and then those spent, reads each list from the batch or else from the
database (`Listed`) and edits it as the code does (`Edit`: persist appends and `Take`s,
moving the last element into the gap; rollback cuts out and appends). `WriteBatch`
deletes the lists that are empty and puts the others. Queries and checks are named after the functions
they model. `ReceiveBlock` is `ProcessBlock` up to the point where the block has a
node: it compares the reward with the fees on the main chain of that moment.
`ConnectBlock` and `DisconnectBlock` follow in any order the tree allows. An owner
stands for a program hash, a set of owners for the programs of a transaction;
`VerifySignature` assumes that a program succeeds exactly for its owner. Amounts
are small numbers: overflow of `Fixed64` is not modelled. No asset is registered after the
genesis block (`TxAssumption`): such a transaction would count as spending nothing and be
refused for its fee.

A recharge may have any inputs: nothing in the code asks for anything of them, while
persist spends them. So persist may find that an input is of no transaction, or spent, and
give up (`PersistFails`), or that there is no such output and panic (`PersistPanics`: the process ends,
no step). A block that could not be written is on the main chain in memory without being in
the store, as `SaveBlock` drops the error; `unwritten` holds these blocks, and
`currentBlockHeight`, which the checks of coinbases compare with, stays where it was. A
reorganisation cannot go below such a block, because it reads the blocks to roll back from
the store (`DisconnectBlock`).

### Peers

A node object, with the goroutines that serve it: `phase` is where `Connect` or
`listenConnections` is with it, `reader` where its reader is. What a goroutine does under
one lock is one step. A peer is known by its id, and an address stands for who
listens there; one of the addresses is the node's own.

### BlockSync, Locator and SyncTimer

The ledger is a main chain, the set of blocks that have a node, and the orphans.
Messages of a connection arrive in order, and are lost when it breaks. A
reorganisation is two steps, in between of which `GetCurrentBlockHash` may answer the
empty hash (`chainstore.go:290`). Peers mine and reorganise, too (`PeerMines`,
`PeerReorganises`; at once, as seen from this node), so that a peer may be asked for a block
that its store no longer has: `onGetData` then returns, and what the message asked
for after it is not sent either (`msghandler.go:355`). The history variable `lost` holds the
requested blocks that went down with a connection or were not sent for this reason.

The loop takes one step per critical section: `SyncTick` (`needSync`), `SyncNeeded`,
`GetBestHeightNoder`, `SyncHash`, `SyncAsk`, and for `stopSyncing` `LoopStops` and
`LoopStopsPeer`. When the last neighbour leaves between `needSync` and `GetBestHeightNoder`, the
sync peer is nil and the process panics (`infoupdate.go:88`). A timer may call `stopSyncing` at
any time (`TimerStops`, `TimerStopsPeer`).

When it does is the subject of `SyncTimer`. Channels are apart from the timers that make them,
since a stop or a select may hold one that is no longer in the field. `stop` reads `t.quit`
twice (`infoupdate.go:57-58`): `StopCheck` compares it with nil, `StopLoad` evaluates it for the
send, and `StopSend` sends to what was found, which blocks for ever where that is nil and as
long as the channel is full. The loop has the same states as in `BlockSync`, `needSync` may
answer either way at any time, and in sync mode the loop just returns where it is needed.

### Mining

A template is known by the tip it extends. The chain appears as a tip with a height,
and `AddBlock` with the answers its callers see. A `hard` template is one that no nonce solves:
`maxNonce` is the greatest `uint32`, so the condition `i <= maxNonce` of the loop in `SolveBlock`
(`pow.go:260`) is always true, and only a solution or a changed tip ends it. The subscriber of a
new tip is a goroutine that reads the best height in one step and sets the node's height in
another (`BlockPersistCompleted`, `SetHeight`), so that an older one may come last. `old` says
that `AUXBLOCK_GENERATED_INTERVAL_SECONDS` have passed.

### HeaderChain, FilteredBlocks, LocatorExchange

Pure algorithms with just enough state around them. `HeaderChain` writes numbers
with digits of base `Base` instead of bytes and lets timestamps wrap at `TimeRange`.
`FilteredBlocks` takes the bits of an entry from a constant, in which entries may
collide; `CheckMerkleBlock` keeps the stack and the positions of the code, and is
checked against the tree that `NewMerkleBlock` builds.

## Runs

| Run | Configuration | What it shows |
|---|---|---|
| `chain_valid` | 10 blocks in a tree with two forks, all good, one crash | `TypeOK`, `CanRestart`, `OrphansResolved`; block acceptance implements `ChainSelection` |
| `chain_faulty` | the same tree with one block refused by its context, one always refused by its transactions and one sometimes, one crash, one batch that LevelDB refuses | `DurableChain`, `MemoryMatchesStore`, `SideBlocksCached`, `AttachExtendsBestChain`, `MostWork` as long as LevelDB took every batch; `CallReturns`: every call ends, whether it did or not |
| `orphan_pool` | 7 blocks, a limit of 2 orphans, a lifetime of 4 ticks, 8 ticks | index and pool agree, `PoolBound`, `EvictsOldest`, `RootIsMissing` |
| `pool` | 2 transfers and 2 recharges, one with inputs, 2 goroutines, 2 changes of the ledger | `PoolGuarded`, `NoConflictInPool`, `ConfirmedLeavesPool` and `ClaimsOwned` in every interleaving, with blocks persisted and rolled back and events in any order |
| `ledger` | 8 transactions that keep and break the rules, among them a recharge that spends an output, there or not, and pays an address twice; 4 blocks with one of them each, every order of connecting and disconnecting | `IndicesMatchChain`, `ConnectedBlockPersists`, `NoMoneyCreated`, `OnlyOwnersSpend`, `OutputLockHonoured` |
| `peers` | 2 connections, 1 peer, a seed that is the node itself, room for one in the queue | `TokensCoverQueue`, `EstablishedAlive`, `EstablishedIsNeighbour`; every handshake that was dialled ends (`HandshakeEnds`; an accepted connection is taken off the queue at once, `link.go:87`) |
| `block_sync` | a new node, a peer that mines a block or changes to a longer branch while it is asked, one connection that breaks, 2 hashes per message, a loop and a timer that may block or panic | `RequestedInFlight`; a node whose loop goes on catches up (`CatchesUp`) |
| `sync_timer` | 2 peers, 2 timers alive at once, 4 channels | `SyncModeWatched`; sync mode ends (`SyncModeEnds`), both unless a timer blocks on nil in its own stop |
| `mining` | 2 mining goroutines, also with templates that cannot be solved, `DiscreteMining` with counts 0 to 2, a tip that changes twice | `QuitIsOpen`; `HaltCompletes`, unless a goroutine searches for ever on an unchanged tip |
| `merged_mining` | a merged miner, a mining goroutine, a tip that changes twice with a subscriber each | `TemplateCatchesUp` |
| `algorithms` | branches of 8 headers with a retarget every 3; blocks of up to 9 transactions; chains of up to 23 blocks | `TemplateAccepted`, `RetargetBounded`, `MedianNeverFalls`; `ProofsVerify`, `NothingMissed`; `LocatorFindsFork` |

One more run is expected to fail. `failed_reorganisation` checks a statement of a
comment that the code does not keep: the check that "catches these issues before
ever modifying the chain" is commented out, and a block refused while attaching
leaves the node on the part of the new branch that was attached before it. In the trace
that is `b1`, which came later than the tip `a1` that it displaced and has no more work.

### Known divergences

The models also have these behaviours, which a reader of the comments would not
expect. No run is about them; the properties are stated so that they do not depend
on them.

* `blockchain.go:239`: one refused orphan ends `ProcessOrphans`; the others stay orphans of
  an accepted block and are refused as known when they come again. `OrphansResolved`
  is checked where every block is good.
* `chainstore.go:598`: `SaveBlock` returns nil whatever happened, so after a refused batch the
  best chain ends in a block the database does not have. The properties of
  `chain_faulty` hold until LevelDB refuses a batch. `ConnectedBlockPersists` shows that but for
  the inputs of recharges persist has no other reason to fail.
* `txvalidator.go:79`: a recharge passes before its inputs are looked at, and its programs are
  not run (`validation.go:17`), but its inputs are spent. `OnlyOwnersSpend` and
  `OutputLockHonoured` are about the other transactions; that what a recharge spends exists and
  is spent once holds for it as well. Where it does not exist the block is not written:
  this is the one reason that `ConnectedBlockPersists` leaves for persist to fail.
* `txpool.go:394`: `GetTxFeeMap` counts a deposit once for every output of its address, so a
  recharge that pays an address twice (an output may be zero) has a fee that its deposit
  does not cover. `NoMoneyCreated` counts such a recharge as bringing what the code makes of
  it (`Brought`) and says of all others that they bring their deposits.
* `txpool.go:142`: two conflicting transactions that are appended at the same time may both
  enter the pool: the exception `overlapped` of `NoConflictInPool`.
* `txpool.go:45`: a transaction that a block brings while it is being appended may stay in the
  pool: the exception `overtaken` of `ConfirmedLeavesPool`.
* `txpool.go:181`: a recharge claims its main chain transaction before it fails for one of its
  inputs, and the claim stays. `ClaimsOwned` leaves out such claims.
* `txpool.go:124`: `removeTransaction` keeps the claims of a transaction whose parent was rolled
  back: the exception `Uprooted` of `ClaimsOwned`.
* `txpool.go:205`: a committed block does not clean the pool of transactions that spend the
  same outputs under another hash, but frees the outputs, as `cleanMainchainTx` frees the inputs
  of a recharge (`txpool.go:231`). `PoolGuarded` and `NoConflictInPool` speak of an output until it is
  `Released` in one of these ways.
* `difficulty.go:48`: a period whose last block is stamped before its first counts as the
  longest possible one, and lowers the difficulty. `RetargetBounded` says by how much
  at most.
* `chainstore.go:197`: after a start `MedianTimePast` is unset until the next block, so a template
  can be too old; `TemplateAccepted` has this exception.
* `pow.go:226`: `DiscreteMining` leaves its flags up after an error.
* `pow.go:260`: a goroutine whose template has no solution searches until the tip changes, and does
  not look at `quit`, so that `Halt` waits with the lock held: the exception `Hopeless` of
  `HaltCompletes`.
* `node.go:199`: `NodeDisconnect` deletes the local node's own id from the neighbour map; the
  peer's entry stays, inactive, until the peer connects again.
* `infoupdate.go:57`: a `stopSyncing` can block in the send to a full channel, or of a timer
  that is gone. `SyncModeWatched` shows that something else then ends sync mode, with one
  exception: an older timer's `t.quit = nil` may fall between the two reads of a timer's own
  stop, which then sends on nil for ever (`StuckOnNil`).
* `infoupdate.go:88`: the node panics when its last neighbour leaves between `needSync` and
  `GetBestHeightNoder`. `CatchesUp` and `SyncModeEnds` are about a node that did not.
* `msghandler.go:355`: a peer that has reorganised answers a `getdata` only up to the first block
  that it no longer has. `RequestedInFlight` leaves out what was lost in this way; `CatchesUp`
  shows that the next synchronisation makes up for it.

### Bounds

The tree of `MCBlockchain` has a chain of three blocks, a competitor of four and a
fork of the competitor, so that there are reorganisations of every depth up to
three, a second one on top of the first and back again, ties, and orphans of
orphans, in every order of arrival. One crash is enough for the safety properties
that speak about the state at the moment of the crash and the start after it; the
theorems do without the bound. One failing batch reaches every place where one can
fail. `MaxOrphanBlocks` is 2 so that the pool fills, overflows and has its oldest
orphan taken by `ProcessOrphans` before the eviction. In `MCTxPool` two transfers
share an input, two recharges redeem the same main chain transaction, and one of these
spends an input of a transfer and an output of the other transfer: every kind of conflict the
pool knows, and a child whose parent is rolled back. Two changes of the ledger are two
blocks, or one that is persisted and rolled back, with two events that overtake each other;
each finds two goroutines at any point of their calls.

In `MCLedger` two recharges redeem one deposit (the second spends the output of a coinbase,
which may be there, spent, or missing, and pays its address twice), a transfer and a cross chain
transfer spend the same output, and the outputs of the transfer, one of them locked,
are spent with the owners, the sequence and the lock time right and wrong. A block
carries at most one transaction besides its coinbase and arrives on the tip, beside
it, or on the last block (`Near`): four blocks are enough for recharge, transfer and
spender in a row, for a rival of each, and for coming back after a reorganisation.
A reward is right, too high or zero.

`MCPeers` has two connections because a second one of the same peer is what takes
the first one's place; a connection object is used once. `QueueCap` 1 makes the second
one wait for a token. In `MCBlockSync` the peer's chain has a fork, so that its change of branch
meets an inventory, a request or a block under way, and brings orphans and a reorganisation of
the node; with `MaxBlocksPerMsg` 2 one answer is full, so that `continueHash` is needed.
`Growth` bounds how often the peer's chain changes,
`Backlog` the messages under way when the loop asks a
peer again, and `MaxCloses` the broken connections. One peer keeps the liveness check
within reach; that only the sync peer is heard is therefore not exercised there. In
`SyncTimer` two timers are enough for a stop to reach the wrong one: a third would have
to be started while two earlier ones run. Four channels are as many as can be held at the
same time by the field, by each timer in its select or its stop, and by the stop of the loop. Two changes of the tip in `Mining` let
every template be old, which is what the recorded height gets wrong, and let two subscribers
overtake each other.

In `Algorithms.cfg` a digit has base 4 and a timestamp wraps at 64, so that targets
of four to six digits, the sign bit and the wrap are all reached; the median is of
three blocks and a retarget comes every three, so that a branch of eight has two
retargets. Nine transactions are the first number after a power of two with four
rows below the root, and every smaller number is there. Locators are dense for three
instead of ten blocks and chains have up to 14 shared and 9 own blocks, so that the
distance doubles several times.

`CHECK_DEADLOCK FALSE` stands where the modelled system may stop: start-up after a
failure of LevelDB ends the program, and in the newer modules the bounds on blocks,
connections, heights and ticks end every behaviour.

### Fairness

Fairness is assumed of goroutines that can run, of handlers that were called, and of
time; never of peers mining, connections breaking, blocks arriving or processes
crashing.

* `Blockchain`: weak fairness of `Proceed`, the steps of the goroutine inside `Init` or
  `AddBlock`: it never waits for another one except the store's writer, which
  answers every task.
* `Peers`: weak fairness of the goroutines of a connection, and of the handshake
  timeout; strong fairness of `AddToHandshakeQueue`, since a Go channel serves blocked
  senders in their order.
* `BlockSync`: weak fairness of readers, of the peer's answers and pings, of reconnecting
  (the node dials again on every tick), of the loop once it ticked, and of what follows the
  send of `stopSyncing`. For readers and answers it is written with `CanRead` and `CanServe`, which
  say when they are enabled. The loop ticks for ever, but the bound `Backlog` disables it for a
  while, so `SyncTick` gets strong fairness. There is no fairness of `LoopStops` and `TimerStops`,
  as the send in `stopSyncing` may block for ever; `CatchesUp` has the premise that
  the loop goes on and no sync mode lasts for ever (`Running`), which is what `SyncTimer` is
  about, and that ticks do not for ever fall between the two steps of a timer's `stopSyncing`
  (`Quiet`), which are microseconds apart while ticks are six seconds apart.
* `SyncTimer`: weak fairness of the loop between two ticks, of the timers and of the steps of
  `stopSyncing` that can be taken. None of the tick, of the clock, or of what `needSync` answers.
* `Mining`: weak fairness of the mining goroutines, the subscribers, the clock, a merged
  miner that polls, and the handlers. `GenerateBlock` may fail, but not for ever: strong
  fairness of `AuxGenerates`. None of finding a solution: a template may be hard.

## Proofs

`Blockchain_proofs` proves, for every block tree, every verdict of the validators
and any number of crashes:

| Theorem | Property |
|---|---|
| `TypeCorrect` | `TypeOK`, also when LevelDB refuses batches |
| `StoreIsOneChain` | `DurableChain` |
| `MemoryAgreesWithStore` | `MemoryMatchesStore` |
| `SideBlocksStayCached` | `SideBlocksCached` |
| `AttachOnTop` | `AttachExtendsBestChain` |
| `MostWorkWins` | `MostWork` |
| `RestartSucceeds` | `CanRestart` |

None of these is inductive. The argument has two layers. `IndInv1` is about types
and holds whatever LevelDB does: besides `TypeOK` it says that the nodes in memory
are closed under `Previous` and, but for the genesis block, above height zero (so
no rollback takes a height below it), and that at each `pc` the running call works
on blocks that have a node.
`IndInv2` says that as long as no batch was refused the state is `Sound`:
`BootInv` describes the store during start-up, when the genesis block is there but
the version is not, and what `LoadStored` has loaded so far; `MemoryInv` that tip,
heights, flags and cache match the store, and that each node is one above its
parent; `WorkInv` that the heaviest node is the tip or, in a reorganisation, the
node it is heading for; `AttachInv` that the list of nodes to attach is linked and
leads from the fork point to that node, and that the fork point is on the chain
being detached. The properties follow from the two.

It also proves, for every tree of good blocks and any number of crashes, `AcceptanceRefinesSelection` (`ImplementsChainSelection`) and
`NoOrphanLeftBehind` (`OrphansResolved`). `EveryBlockGood` is what the two properties
need and what `chain_valid` has: blocks pass their checks, have work and the height
after their parent's, and LevelDB takes its writes. A refused block ends
`ProcessOrphans` and leaves a reorganisation half done, so both properties are false
without it (`failed_reorganisation`). To `IndInv1` and `Sound` it adds `GoodInv`:
`WorkSum` is the work of the whole chain, a reorganisation heads for a block heavier
than `reorgFrom`, a crash before the version is written has nothing to lose, and an
orphan whose parent has a node waits for a block in the queue of `ProcessOrphans`
(`WaitInv`). One lemma per step shows that it keeps `GoodInv` and is a step of
`ChainSelection` or a stutter: a reorganisation is one `Accept`, made by
its last step; the batches before it stutter, and a crash among them is a
`Restart` with the chain that the store holds at that moment.

`OrphanPool_proofs` proves for every tree and limit `PoolTypeCorrect` (`TypeOK`),
`PoolIsBounded` (`PoolBound`), `IndexAlwaysMatches` (`IndexMatchesPool`),
`EvictionTakesOldest` (`EvictsOldest`) and `OrphanRootIsMissing` (`RootIsMissing`).
Behind the bound is that `OldestOrphan` is nil whenever the pool is one above
its limit, so that the next eviction picks an orphan that is really there: a
stale pointer can cost one eviction and never two in a row. `OrphanInv` adds to
`TypeOK` and the index that orphans differ in their blocks, that an orphan with an
accepted parent waits for a queued or refused block, the failed reorganisations included
(`QueueInv`), and that
`OldestOrphan`, where it is not in the pool any more, is a block that was accepted
(`OldestInv`), so that removing it removes nothing else. `ListWithout` is the loop of
`RemoveOrphanBlock`, which deletes from the slice it runs over; that it removes exactly
one orphan is shown by induction on its bound. `GetOrphanRoot` ends because a block is not its
own ancestor: `OrphanAssumption` says so of `Previous`, which in the code is the hash of
a header that contains the hash of its parent.

`TxPool_proofs` proves, for any transactions, recharges with inputs included, any number of
goroutines at the same time, and blocks persisted and rolled back between any two of their steps:

| Theorem | Property |
|---|---|
| `PoolTypeCorrect` | `TypeOK` |
| `PoolStaysGuarded` | `PoolGuarded` |
| `PoolClaimsOwned` | `ClaimsOwned` |
| `PoolWithoutConflicts` | `NoConflictInPool` |
| `PoolLosesConfirmed` | `ConfirmedLeavesPool` |

`Shape` is about types: the
label of a goroutine says which of its fields are set, and a claim in
`mainchainTxList` belongs to a recharge that redeems that transaction. `JobInv` says that
a clean-up, or an event that will start one, has transactions that the ledger has or had
(`seen`), that a return after a rollback has transactions of `undone`, and that a claim belongs to
a transaction with this input. The other invariants rest on these two:

* `GuardInv`: a transaction of the pool has its guards, and a goroutine in `AppendToTxnPool` has
  put up those of the inputs that its loop has passed. A clean-up frees only what is
  `Released`, and what was once in a block releases its outputs for good, so a guard stays.
* `OwnInv`: a claim belongs to a transaction in the pool, to one whose goroutine is past the point
  where it could still fail, or to one that a running clean-up is about to free
  (`InputsOwned`, `MainOwned`), but for the claims that the property leaves out.
* `ConfirmInv`: a transaction in the ledger and in the pool is in an event or in a clean-up that
  has not got to the list (`Announced`), or is `overtaken`; one in the ledger that is still
  being appended is `overtaken`.
* `ConflictInv`: a transaction past a check of `AppendToTxnPool` has no rival in the pool as far as
  that check goes (`NoRival`, with `InputsSafe` for the inputs seen so far and `MainSafe`), and
  rivals in two goroutines at once are in `overlapped` (`Noted`). Since a guard stays, what a
  goroutine found out stays true until it inserts, unless the rival was appended meanwhile.

`Peers_proofs` proves, for any number of connections, peers and addresses,
`PeersTypeCorrect` (`TypeOK`), `TokensAlwaysThere` (`TokensCoverQueue`),
`EstablishedNeighboursAlive` (`EstablishedAlive`) and `EstablishedPeersAreNeighbours`
(`EstablishedIsNeighbour`). `NodesInv` says what the phase of a connection and the place
of its reader have to do with its state, `NbrInv` that the neighbour map files a
connection under its own peer, and `CoverInv` that from the reply to the version
message on the peer is in the map, or a reader that took the old entry out is about to
put the new one in. The tokens are counted: each step
that takes or returns one adds or removes one element of the queue or of the
connections about to be registered, and no other step touches the three.

`SyncTimer_proofs` proves `TimerTypeCorrect` (`TypeOK`) and `SyncModeStaysWatched`
(`SyncModeWatched`) for any number of peers, timers and channels. `CallersInv` says that a
`stopSyncing` runs only inside the goroutine that called it. `TokenInv` is about the
channel that the field `quit` names: a token in it comes from a stop that will clear
the flag, or a synchronisation has begun since whose timer has not run yet. `WatchInv` says
that sync mode has one of these or a timer that no token will end before it looks at the
clock (`Watches`): a timer that runs, selects on a channel without a token, or is in its own stop
with a channel that is empty, or nil. So the timer that takes a token meant for another
one takes nothing away that still matters.

`Mining_proofs` proves `QuitStaysOpen` (`QuitIsOpen`) for any number of goroutines and tips.
The property is inductive once the flags are known to be Boolean: only `Start`, `Halt`,
`HaltReturns`, `DiscreteMining` and its last block touch the flags or the channel, and
`started` is up without `manualMining` only after a `Start`, which opens the channel.

It also proves two results about the times of `HeaderChain`, for any length of the
window, any bounds and however others stamp their blocks: `MedianRises`
(`MedianNeverFalls`) and `TemplatesOnTime`, the time half of `TemplateAccepted`. A
sorted list is known by counting (`SortedAt`): at most half of the window is before
the median, more than half is not after it (`MedianOf`; that there is such a value is
`SortedExists`). Appending a timestamp after the median, and dropping the oldest one
or not, cannot put more of the window before it (`SlidesKeepsBefore`, by an injection),
so a smaller median would need more than half of the window where at most half is.
`TemplatesOnTime` needs `TimesInv`: the cached `MedianTimePast` is the median of the
branch or was lost by a restart, and no timestamp of the branch is further ahead of the
clock than `MaxTimeOffsetSeconds`, hence neither is the median.

`BlockSync_proofs` proves, for any number of peers, any finite tree of blocks, any
length of inventories and locators, connections that break and peers that reorganise:

| Theorem | Property |
|---|---|
| `SyncInvariant` | `SyncInv`, the inductive invariant |
| `RequestedStaysInFlight` | `RequestedInFlight` |
| `LedgerStaysSound` | `LedgerSound`: the main chain is the path to the tip, its blocks have nodes, nodes are closed under parents, no orphan has a node |

`LinksInv` says that the messages under way carry blocks; whether the peer still has them when
it is asked is open. A request that a peer takes is answered with the block or puts it into
`lost`, and a broken connection does the latter with all that it carried. A block that arrives
stays on the list only if the main chain has it, and then it has a node by `LedgerSound`
(`LedgerInv`), which has to hold also between the two steps of a reorganisation. The loops over the
hashes of a message are recursive functions; their
runs are described step by step (`LoopRuns`, `UpTo`) instead of by induction theorems.
The proof corrected the property: an earlier form said that a requested block which is
not under way is *on the main chain*. That is true of the run's instance and false in
general: `onBlock` returns early for a block that the ledger has (`msghandler.go:422`)
without taking it off the list, and a later reorganisation may take that block off the
main chain again. What remains true is that it has a node.

`BlockSync_proofs` also proves `ForkIsFound` (`LocatorFindsFork` of `LocatorExchange`) for
chains of any length, forks of any depth and any lengths of messages. Its hypothesis
`LocatorsReach` says that the locator is not full before its steps, which double, reach
the genesis block: that with `k = MaxBlockLocatorsPerMsg - 1 - DenseLocators` no chain has
more than `2^k - 2` blocks. The code has `k = 489`, the run `k = 16`; a shorter locator would
leave a gap above the genesis block that is longer than the fork is deep. The loop of
`BlockLocatorFromHash` that started at height `H` is described by `LoopAt`: at height `h` it has
gone down at least `2 * increment - 2` and one for each locator, and the increment is 1 in
the dense part. So the next locator is never further below a height than `H` is above
it (`NearBelow`), which is what bounds the blocks that are sent again. That the recursive
definition has a solution is proved from its going down (`LocatorHeightsDef`).

`Ledger_proofs` proves, for any finite set of transactions, recharges with inputs
included, any number of them in a block, and any blocks connected and disconnected in any order:

| Theorem | Property |
|---|---|
| `Invariance` | `LedgerInv`, the inductive invariant |
| `StoreMatchesChain` | `IndicesMatchChain` |
| `ConnectedIsWritten` | `ConnectedBlockPersists` |
| `OwnersSpend` | `OnlyOwnersSpend` |
| `LocksHold` | `OutputLockHonoured` |
| `MoneyConserved` | `NoMoneyCreated` |

The first four properties need each other: the indices stay right only if a block spends what
is unspent, once, and the checks that see to this ask the indices. `LedgerInv` has three
parts. `ChainOK` is what a block that was received keeps for good (well formed
transactions with different ids, `DistinctInputs`, final at its height), and that the
chain has a block for every height. `Sound(P)` is about the places `P` of the chain, a
place being a transaction of a block that was written and its height: ids differ, no output is
spent twice, and each input has a `Source`, a place lower down whose owner signed and whose lock
is over, the last two not for a recharge.
`StoreOK(d, P)` says that the store `d` holds the places, the redeemed main chain
transactions, and lists without repetitions that have exactly the elements of
`UnspentLists(P)` and `UTXOLists(P)`. The argument:

* the loops of persist and rollback edit each list element by element; as long as no
  element is appended that is there, or cut out that is not, what becomes of a list is
  the union with, or the difference from, the elements of its entries
  (`EditOneKeeps`, `EditAllKeeps`, `BlockBatchKeeps`, `WriteHolds`);
* the entries of a block are its outputs and inputs, each under one key
  (`UnspentEntries`, `UTXOEntries`), and with a block `OnTop` of sound places they
  satisfy that condition in both directions (`TopSpends`, `UnspentOnTop`), so that
  persist leads from `StoreOK(d, P)` to `P` with the block's places and rollback back
  again (`PersistStore`, `RollbackStore`);
* a block whose transactions pass `CheckTransactionContext` on such a store, and whose recharges
  spend what is there (`RechargesFit`, which follows from persist not having failed), is `OnTop`
  (`Admitted`): here the checks for references, double spends, programs, locks and
  finality are used, and nothing of what was checked when the block arrived depends on
  the chain of that moment; and persist finds all it looks for (`OnTopPersists`). A block that
  persist gives up on changes neither the store nor the places.

TLC also checked `LedgerInv` on all states of the run `ledger`.

`MoneyConserved` builds on this. The reward of a block is compared with its fees when
the block arrives (`blockvalidator.go:92`), on the main chain of that moment, and never
again; when the block is connected, the same transactions may have other fees. `MoneyInv`
adds to `LedgerInv` that each received block has a coinbase of its own (`Minted`) whose
outputs are worth the fees on *some* store of transactions seen so far (`Rewarded`), and
that every prefix of the main chain is `Solvent`: its unspent outputs are worth at most
what its recharges brought. The lemma that carries it is `FeeNotLess`: an output is what its transaction
says, on whatever chain, so that a fee computed elsewhere was the same or, for want of
a reference, zero. Each transaction that passes its checks pays out what it takes in less
its fee (`TxBalances`, `RechargeBalances`), so a block on top of a solvent chain leaves
it solvent (`BlockBalances`, `SolventOnTop`); prefixes make disconnecting trivial. The
lemmas about sums (`SumOf`) are by induction on finite sets.

The theorem has no hypothesis on recharges. One that pays each deposit once brings
`ExchangeRate` times its deposits (`RechargeBalances`); for one that pays an address twice `Brought`
is its outputs and its fee, which is what the code lets a miner and the receivers have
together. What a recharge spends besides is lost: no fee counts it. That two recharges of the
main chain redeem two deposits is `RedeemedOnce`.

The assumptions are the `ASSUME`s of the modules; TLC evaluates them in every run.

Only model-checked:

* all liveness properties, since liveness under fairness is beyond the prover;
* `TemplateAccepted` but for its time half, and `RetargetBounded`: they depend on what
  the compact form drops, and hold for limits that the compact form can write, not for
  all values of the constants;
* `ProofsVerify` and `NothingMissed`: they say what a recursion over a tree computes, which
  needs induction over data.

## Plan

What is left is the compact form: `RetargetBounded` for one retarget would need the
bounds of `CompactToBig(BigToCompact(n))` as a lemma about powers of `Base`.

## Not modelled

* `PruneBlockNodes` and the reloading of pruned nodes: they need chains longer than
  `MinMemoryNodes`, and the effect on work sums belongs with a model of the index alone.
* The locks themselves: a critical section is one step, so a lock order cannot be
  checked (`infoupdate.go:63` is listed as a hazard without a property).
* The script engine: a sequential stack machine over cryptographic primitives.
* Servers other than the mining calls, serialisation, configuration and logging: no
  state of their own.
* The SPV service and LevelDB are external; the models leave their answers open.
* The id cache and the relaying of transactions and addresses: best effort, with no
  state that another component depends on.
