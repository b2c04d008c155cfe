----------------------------- MODULE Blockchain -----------------------------
(***************************************************************************)
(* Block acceptance (blockchain/blockchain.go) over the block data of the  *)
(* chain store (blockchain/chainstore.go, chaindata.go): AddBlock, side    *)
(* chains, reorganisation, orphans, start-up and crashes.                  *)
(*                                                                         *)
(* AddBlock runs under bc.mutex, so there is one caller at a time; but a   *)
(* reorganisation commits one LevelDB batch per block, and the process can *)
(* die between two batches.  Each batch, and each iteration of the loops   *)
(* around them, is therefore a step; pc says where the caller is.          *)
(*                                                                         *)
(* The module is about chains that fit in memory (HeightAssumption), where *)
(* PruneBlockNodes finds nothing to prune and every stored header is in    *)
(* Index.  A block is its hash; its header is given by constant functions. *)
(***************************************************************************)
EXTENDS Naturals, Sequences

CONSTANTS
  Blocks,           \* the blocks that pass PowCheckBlockSanity
  Genesis,          \* the block built by GetGenesisBlock
  NoBlock,          \* the nil pointer, and the empty hash before genesis
  Previous,         \* Header.Previous
  Height,           \* Header.Height, as the header claims it
  Work,             \* CalcWork(Header.Bits)
  ContextOK,        \* does PowCheckBlockContext accept the block on its parent
  CheckResult,      \* the answers CheckTransactionContext can give on its parent
  MinMemoryNodes,   \* nodes kept in memory
  MaxCrashes,       \* bound: how often the process dies
  MaxStoreFailures  \* bound: how often LevelDB refuses a batch

VARIABLES
  Index,            \* bc.Index: the blocks with a node in memory
  WorkSum,          \* node.WorkSum
  InMainChain,      \* the nodes whose InMainChain flag is set
  BlockCache,       \* bc.BlockCache: the side chain blocks
  BestChain,        \* bc.BestChain
  BlockHeight,      \* bc.BlockHeight
  Orphans,          \* bc.Orphans
  headers,          \* LevelDB: the keys of DATA_Header
  hashAt,           \* LevelDB: DATA_BlockHash
  current,          \* LevelDB: SYS_CurrentBlock
  version,          \* LevelDB: CFG_Version
  currentBlockHeight, \* c.currentBlockHeight
  pc,               \* where the goroutine holding bc.mutex is
  loadHeight,       \* start in InitWithGenesisBlock
  processHashes,    \* the queue of ProcessOrphans
  node,             \* the block in maybeAcceptBlock while its call is not over
  ancestor,         \* ancestor in GetReorganizeNodes
  attachNodes,      \* attachNodes, in the order they will be connected
  reorgFrom,        \* history: BestChain when ReorganizeChain was entered
  reorgState,       \* history: did a ReorganizeChain fail since start-up
  crashes,          \* how often the process died
  failures          \* how often LevelDB refused a batch

memVars   == <<Index, WorkSum, InMainChain, BlockCache, BestChain>>
dbVars    == <<headers, hashAt, current, version>>
heightVars == <<BlockHeight, currentBlockHeight>>
reorgVars == <<node, ancestor, attachNodes, reorgFrom>>
vars == <<memVars, dbVars, heightVars, reorgVars, Orphans, pc, loadHeight,
          processHashes, reorgState, crashes, failures>>

Heights == 0 .. MinMemoryNodes - 1

ASSUME BlocksAssumption ==
  /\ Genesis \in Blocks
  /\ NoBlock \notin Blocks

ASSUME HeaderAssumption ==
  /\ Previous \in [Blocks -> Blocks \cup {NoBlock}]
  /\ \A b \in Blocks : Previous[b] = NoBlock <=> b = Genesis
  /\ Work \in [Blocks -> Nat]
  /\ ContextOK \in [Blocks -> BOOLEAN]
  /\ CheckResult \in [Blocks -> SUBSET BOOLEAN]

\* No chain is longer than the part of it that stays in memory.
ASSUME HeightAssumption ==
  /\ MinMemoryNodes \in Nat \ {0}
  /\ Height \in [Blocks -> Heights]
  /\ Height[Genesis] = 0

ASSUME BoundAssumption == MaxCrashes \in Nat /\ MaxStoreFailures \in Nat

-----------------------------------------------------------------------------
(* The chain store: one batch is one atomic write.                         *)

PersistTrimmedBlock(b) == headers' = headers \cup {b}
PersistBlockHash(b) == hashAt' = [hashAt EXCEPT ![Height[b]] = b]
PersistCurrentBlock(b) == current' = [hash |-> b, height |-> Height[b]]

\* persist: the batch of a block.
PersistBatch(b) ==
  /\ PersistTrimmedBlock(b)
  /\ PersistBlockHash(b)
  /\ PersistCurrentBlock(b)
  /\ UNCHANGED version

\* Mutants: a key that rollback leaves behind.
KeepBlockHash(b) == UNCHANGED hashAt
KeepCurrentBlock(b) == UNCHANGED current

RollbackTrimmedBlock(b) == headers' = headers \ {b}
RollbackBlockHash(b) == hashAt' = [hashAt EXCEPT ![Height[b]] = NoBlock]
RollbackCurrentBlock(b) ==
  current' = [hash |-> Previous[b], height |-> Height[b] - 1]

\* rollback: the batch that takes a block out again.
RollbackBatch(b) ==
  /\ RollbackTrimmedBlock(b)
  /\ RollbackBlockHash(b)
  /\ RollbackCurrentBlock(b)
  /\ UNCHANGED version

\* persist or BatchCommit returns an error, which leaves LevelDB as it was.
BatchFails ==
  /\ failures < MaxStoreFailures
  /\ failures' = failures + 1
  /\ UNCHANGED dbVars

\* Mutant: the number of blocks in place of the height of the last one.
SetHeightsCounts(h) == BlockHeight' = h + 1 /\ currentBlockHeight' = h

\* UpdateBestHeight and the assignment to c.currentBlockHeight.
SetHeights(h) == BlockHeight' = h /\ currentBlockHeight' = h

\* SaveBlock: the caller gets nil whatever happens to the batch.
SaveBlock(b) ==
  IF Height[b] <= currentBlockHeight
    THEN UNCHANGED <<dbVars, heightVars, failures>>
    ELSE \/ PersistBatch(b) /\ SetHeights(Height[b]) /\ UNCHANGED failures
         \/ BatchFails /\ UNCHANGED heightVars

\* Mutant: the heights are not lowered.
RollbackBlockKeepsHeight(b) ==
  /\ \/ RollbackBatch(b) /\ UNCHANGED failures
     \/ BatchFails
  /\ SetHeights(Height[b])

\* RollbackBlock: the error of BatchCommit is dropped and the heights go down.
RollbackBlock(b) ==
  /\ \/ RollbackBatch(b) /\ UNCHANGED failures
     \/ BatchFails
  /\ SetHeights(Height[b] - 1)

-----------------------------------------------------------------------------
(* Start-up: InitWithGenesisBlock.                                         *)

ClearMemory ==
  /\ Index' = {}
  /\ WorkSum' = [b \in Blocks |-> 0]
  /\ InMainChain' = {}
  /\ BlockCache' = {}
  /\ BestChain' = NoBlock
  /\ Orphans' = {}
  /\ BlockHeight' = 0
  /\ currentBlockHeight' = 0
  /\ loadHeight' = 0
  /\ processHashes' = << >>
  /\ node' = NoBlock
  /\ ancestor' = NoBlock
  /\ attachNodes' = << >>
  /\ reorgFrom' = NoBlock
  /\ reorgState' = "clean"

Init ==
  /\ Index = {}
  /\ WorkSum = [b \in Blocks |-> 0]
  /\ InMainChain = {}
  /\ BlockCache = {}
  /\ BestChain = NoBlock
  /\ BlockHeight = 0
  /\ Orphans = {}
  /\ headers = {}
  /\ hashAt = [h \in Heights |-> NoBlock]
  /\ current = [hash |-> NoBlock, height |-> 0]
  /\ version = 0
  /\ currentBlockHeight = 0
  /\ pc = "boot"
  /\ loadHeight = 0
  /\ processHashes = << >>
  /\ node = NoBlock
  /\ ancestor = NoBlock
  /\ attachNodes = << >>
  /\ reorgFrom = NoBlock
  /\ reorgState = "clean"
  /\ crashes = 0
  /\ failures = 0

\* A write that LevelDB refuses during start-up ends main.
InitWriteFails == BatchFails /\ pc' = "exit"

\* A store without a version is emptied before anything else.
WipeStore ==
  /\ pc = "boot" /\ version = 0
  /\ \/ /\ headers' = {}
        /\ hashAt' = [h \in Heights |-> NoBlock]
        /\ current' = [hash |-> NoBlock, height |-> 0]
        /\ pc' = "genesis"
        /\ UNCHANGED <<version, failures>>
     \/ InitWriteFails
  /\ UNCHANGED <<memVars, heightVars, reorgVars, Orphans, loadHeight,
                 processHashes, reorgState, crashes>>

PersistGenesis ==
  /\ pc = "genesis"
  /\ \/ PersistBatch(Genesis) /\ pc' = "version" /\ UNCHANGED failures
     \/ InitWriteFails
  /\ UNCHANGED <<memVars, heightVars, reorgVars, Orphans, loadHeight,
                 processHashes, reorgState, crashes>>

\* The version is a write of its own, after the batch of the genesis block.
PutVersion ==
  /\ pc = "version"
  /\ \/ /\ version' = 1 /\ pc' = "boot"
        /\ UNCHANGED <<headers, hashAt, current, failures>>
     \/ InitWriteFails
  /\ UNCHANGED <<memVars, heightVars, reorgVars, Orphans, loadHeight,
                 processHashes, reorgState, crashes>>

\* The genesis block must be there; then SYS_CurrentBlock gives the height.
StartLoad ==
  /\ pc = "boot" /\ version = 1
  /\ IF Genesis \in headers
       THEN pc' = "load" /\ currentBlockHeight' = current.height
       ELSE pc' = "exit" /\ UNCHANGED currentBlockHeight
  /\ loadHeight' = 0
  /\ UNCHANGED <<memVars, dbVars, BlockHeight, reorgVars, Orphans,
                 processHashes, reorgState, crashes, failures>>

\* LoadBlockNode, for a header whose parent is loaded, or the first one.
LoadBlockNode(b) ==
  /\ WorkSum' = [WorkSum EXCEPT ![b] =
                   IF Previous[b] \in Index THEN WorkSum[Previous[b]] + Work[b]
                                            ELSE Work[b]]
  /\ Index' = Index \cup {b}
  /\ InMainChain' = InMainChain \cup {b}
  /\ UNCHANGED BlockCache

\* One iteration of the loop over the stored heights.  A height without a
\* hash, a hash without a header, or a header that does not link, ends main.
LoadStored ==
  /\ pc = "load" /\ loadHeight <= currentBlockHeight
  /\ LET b == hashAt[loadHeight] IN
       IF b \in headers /\ (Previous[b] \in Index \/ Index = {})
         THEN /\ LoadBlockNode(b)
              /\ BestChain' = b
              /\ loadHeight' = loadHeight + 1
              /\ UNCHANGED pc
         ELSE pc' = "exit" /\ UNCHANGED <<memVars, loadHeight>>
  /\ UNCHANGED <<dbVars, heightVars, reorgVars, Orphans, processHashes,
                 reorgState, crashes, failures>>

FinishLoad ==
  /\ pc = "load" /\ loadHeight > currentBlockHeight
  /\ BlockHeight' = currentBlockHeight
  /\ pc' = "idle"
  /\ UNCHANGED <<memVars, dbVars, currentBlockHeight, reorgVars, Orphans,
                 loadHeight, processHashes, reorgState, crashes, failures>>

\* The process dies and main is started again: LevelDB is all that is left.
Crash ==
  /\ crashes < MaxCrashes
  /\ crashes' = crashes + 1
  /\ pc' = "boot"
  /\ ClearMemory
  /\ UNCHANGED <<dbVars, failures>>

-----------------------------------------------------------------------------
(* maybeAcceptBlock and ConnectBestChain.                                  *)

BlockExists(b) ==
  \/ b \in Index
  \/ b \in headers /\ Height[b] <= currentBlockHeight

\* The checks of maybeAcceptBlock before a node is made.
WellPlaced(b) == Height[b] = Height[Previous[b]] + 1 /\ ContextOK[b]

\* ConnectBlock gives up before it touches anything: CheckTransactionContext
\* refuses a transaction, because the store has it already (a rollback of
\* this block was lost) or for another reason; or the parent is not the tip.
ConnectRefused(b) ==
  \/ FALSE \in CheckResult[b] \/ b \in headers
  \/ Previous[b] # BestChain

\* Mutant: node.InMainChain is not set.
ConnectBlockUnflagged(b) ==
  /\ TRUE \in CheckResult[b] /\ b \notin headers
  /\ Previous[b] = BestChain
  /\ SaveBlock(b)
  /\ UNCHANGED InMainChain
  /\ Index' = Index \cup {b}
  /\ BestChain' = b

\* ConnectBlock, on a node whose WorkSum is set.
ConnectBlock(b) ==
  /\ TRUE \in CheckResult[b] /\ b \notin headers
  /\ Previous[b] = BestChain
  /\ SaveBlock(b)
  /\ InMainChain' = InMainChain \cup {b}
  /\ Index' = Index \cup {b}
  /\ BestChain' = b

\* The call returns an error; ProcessOrphans drops its queue.
ReturnError ==
  /\ pc' = "idle"
  /\ processHashes' = << >>

\* Mutant: an accepted orphan is not queued in its turn.
ReturnAcceptedOnce(b) ==
  /\ pc' = "orphans"
  /\ processHashes' = IF processHashes = << >> THEN <<b>> ELSE processHashes

\* The block is in, and ProcessOrphans goes on with the orphans it was
\* waited for by.
ReturnAccepted(b) ==
  /\ pc' = "orphans"
  /\ processHashes' = Append(processHashes, b)

NewNodeWork(b) ==
  WorkSum' = [WorkSum EXCEPT ![b] = WorkSum[Previous[b]] + Work[b]]

RejectBlock(b) ==
  /\ \/ ~WellPlaced(b)
     \/ Previous[b] = BestChain /\ ConnectRefused(b)
  /\ ReturnError
  /\ UNCHANGED <<memVars, dbVars, heightVars, reorgVars, reorgState, failures>>

ExtendBestChain(b) ==
  /\ WellPlaced(b)
  /\ Previous[b] = BestChain
  /\ NewNodeWork(b)
  /\ ConnectBlock(b)
  /\ ReturnAccepted(b)
  /\ UNCHANGED <<BlockCache, reorgVars, reorgState>>

\* Mutant: a chain with as much work as the best chain replaces it.
HeavierOrEqual(b) == WorkSum[Previous[b]] + Work[b] >= WorkSum[BestChain]

\* Mutant: the work of the parent chain is left out.
HeavierAlone(b) == Work[b] > WorkSum[BestChain]

\* The test of ConnectBestChain: strictly more work than the best chain.
Heavier(b) == WorkSum[Previous[b]] + Work[b] > WorkSum[BestChain]

\* A side chain block is cached, and starts a reorganisation if its chain
\* is the heavier one.
AddSideBlock(b) ==
  /\ WellPlaced(b)
  /\ Previous[b] # BestChain
  /\ BlockCache' = BlockCache \cup {b}
  /\ Index' = Index \cup {b}
  /\ InMainChain' = InMainChain \ {b}
  /\ NewNodeWork(b)
  /\ IF Heavier(b)
       THEN /\ pc' = "fork"
            /\ node' = b
            /\ ancestor' = b
            /\ attachNodes' = << >>
            /\ reorgFrom' = BestChain
            /\ UNCHANGED processHashes
       ELSE ReturnAccepted(b) /\ UNCHANGED reorgVars
  /\ UNCHANGED <<BestChain, dbVars, heightVars, reorgState, failures>>

MaybeAcceptBlock(b) ==
  \/ RejectBlock(b)
  \/ ExtendBestChain(b)
  \/ AddSideBlock(b)

-----------------------------------------------------------------------------
(* GetReorganizeNodes and ReorganizeChain.                                 *)

\* Mutant: the nodes to attach are listed from the tip down.
WalkToForkAppends ==
  /\ pc = "fork"
  /\ Previous[ancestor] # NoBlock /\ ancestor \notin InMainChain
  /\ attachNodes' = Append(attachNodes, ancestor)
  /\ ancestor' = Previous[ancestor]
  /\ UNCHANGED <<memVars, dbVars, heightVars, node, reorgFrom, Orphans, pc,
                 loadHeight, processHashes, reorgState, crashes, failures>>

\* One iteration of the walk from the new node to the fork point.
WalkToFork ==
  /\ pc = "fork"
  /\ Previous[ancestor] # NoBlock /\ ancestor \notin InMainChain
  /\ attachNodes' = <<ancestor>> \o attachNodes
  /\ ancestor' = Previous[ancestor]
  /\ UNCHANGED <<memVars, dbVars, heightVars, node, reorgFrom, Orphans, pc,
                 loadHeight, processHashes, reorgState, crashes, failures>>

ReorganizeFails ==
  /\ ReturnError
  /\ reorgState' = "failed"

\* The fork point is found; every block to attach has to be in BlockCache.
CheckBlockCache ==
  /\ pc = "fork"
  /\ Previous[ancestor] = NoBlock \/ ancestor \in InMainChain
  /\ IF \A i \in 1 .. Len(attachNodes) : attachNodes[i] \in BlockCache
       THEN pc' = "detach" /\ UNCHANGED <<processHashes, reorgState>>
       ELSE ReorganizeFails
  /\ UNCHANGED <<memVars, dbVars, heightVars, reorgVars, Orphans, loadHeight,
                 crashes, failures>>

\* One iteration of the disconnect loop.  The nodes to detach are those from
\* BestChain down to the fork point, so the next one is always BestChain.
DisconnectBlock ==
  /\ pc = "detach"
  /\ BestChain # ancestor /\ Previous[BestChain] # NoBlock
  /\ IF BestChain \in headers
       THEN /\ RollbackBlock(BestChain)
            /\ InMainChain' = InMainChain \ {BestChain}
            /\ BlockCache' = BlockCache \cup {BestChain}
            /\ BestChain' = Previous[BestChain]
            /\ UNCHANGED <<Index, WorkSum, pc, processHashes, reorgState>>
       ELSE /\ ReorganizeFails
            /\ UNCHANGED <<memVars, dbVars, heightVars, failures>>
  /\ UNCHANGED <<reorgVars, Orphans, loadHeight, crashes>>

DisconnectDone ==
  /\ pc = "detach"
  /\ BestChain = ancestor \/ Previous[BestChain] = NoBlock
  /\ pc' = "attach"
  /\ UNCHANGED <<memVars, dbVars, heightVars, reorgVars, Orphans, loadHeight,
                 processHashes, reorgState, crashes, failures>>

\* One iteration of the connect loop.  An error here leaves the blocks that
\* were disconnected, and those that were connected, as they are.
AttachBlock ==
  /\ pc = "attach" /\ attachNodes # << >>
  /\ LET b == Head(attachNodes) IN
       \/ /\ ConnectBlock(b)
          /\ BlockCache' = BlockCache \ {b}
          /\ attachNodes' = Tail(attachNodes)
          /\ UNCHANGED <<WorkSum, pc, processHashes, reorgState>>
       \/ /\ ConnectRefused(b)
          /\ ReorganizeFails
          /\ UNCHANGED <<memVars, dbVars, heightVars, attachNodes, failures>>
  /\ UNCHANGED <<node, ancestor, reorgFrom, Orphans, loadHeight, crashes>>

ReorganizeDone ==
  /\ pc = "attach" /\ attachNodes = << >>
  /\ ReturnAccepted(node)
  /\ UNCHANGED <<memVars, dbVars, heightVars, reorgVars, Orphans, loadHeight,
                 reorgState, crashes, failures>>

-----------------------------------------------------------------------------
(* ProcessBlock and ProcessOrphans.                                        *)

\* AddOrphanBlock.  Which orphans expire, or are evicted at the limit, is
\* left open here; module OrphanPool decides it as the code does.
AddOrphanBlock(b) ==
  /\ \E dropped \in SUBSET Orphans : Orphans' = (Orphans \ dropped) \cup {b}
  /\ UNCHANGED <<memVars, dbVars, heightVars, reorgVars, pc, processHashes,
                 reorgState, failures>>

\* GetPrevNodeFromBlock finds the parent in the store and not in memory: its
\* header becomes a node before the block itself is looked at.  (In this
\* module only a rollback that failed leaves such a header behind.)
LoadPrevNode(b) ==
  /\ IF Previous[Previous[b]] \in Index
       THEN LoadBlockNode(Previous[b]) /\ pc' = "accept" /\ node' = b
       ELSE UNCHANGED <<Index, WorkSum, InMainChain, BlockCache, pc, node>>
  /\ UNCHANGED <<BestChain, dbVars, heightVars, ancestor, attachNodes, reorgFrom,
                 Orphans, processHashes, reorgState, failures>>

ProcessBlock(b) ==
  /\ pc = "idle"
  /\ ~BlockExists(b) /\ b \notin Orphans
  /\ \/ ~BlockExists(Previous[b]) /\ AddOrphanBlock(b)
     \/ Previous[b] \in Index /\ MaybeAcceptBlock(b) /\ UNCHANGED Orphans
     \/ Previous[b] \notin Index /\ BlockExists(Previous[b]) /\ LoadPrevNode(b)
  /\ UNCHANGED <<loadHeight, crashes>>

\* A block that is known already, accepted or orphan, is refused.
RefuseKnownBlock(b) ==
  /\ pc = "idle"
  /\ BlockExists(b) \/ b \in Orphans
  /\ UNCHANGED vars

\* The rest of maybeAcceptBlock after LoadPrevNode.
AcceptAfterLoad ==
  /\ pc = "accept"
  /\ MaybeAcceptBlock(node)
  /\ UNCHANGED <<Orphans, loadHeight, crashes>>

\* An orphan of the block at the head of the queue is taken out of the pool
\* and then offered to maybeAcceptBlock.
ProcessOrphan(b) ==
  /\ pc = "orphans"
  /\ b \in Orphans /\ Previous[b] = Head(processHashes)
  /\ Orphans' = Orphans \ {b}
  /\ MaybeAcceptBlock(b)
  /\ UNCHANGED <<loadHeight, crashes>>

\* Mutant: the hash whose orphans are done stays in the queue.
NextProcessHashStays ==
  /\ pc = "orphans"
  /\ \A b \in Orphans : Previous[b] # Head(processHashes)
  /\ UNCHANGED vars

\* No orphan waits for the block at the head of the queue.
NextProcessHash ==
  /\ pc = "orphans"
  /\ \A b \in Orphans : Previous[b] # Head(processHashes)
  /\ processHashes' = Tail(processHashes)
  /\ pc' = IF Len(processHashes) = 1 THEN "idle" ELSE "orphans"
  /\ UNCHANGED <<memVars, dbVars, heightVars, reorgVars, Orphans, loadHeight,
                 reorgState, crashes, failures>>

-----------------------------------------------------------------------------

\* The steps of the goroutine that is inside Init or AddBlock.
Proceed ==
  \/ WipeStore \/ PersistGenesis \/ PutVersion
  \/ StartLoad \/ LoadStored \/ FinishLoad
  \/ WalkToFork \/ CheckBlockCache
  \/ DisconnectBlock \/ DisconnectDone
  \/ AttachBlock \/ ReorganizeDone \/ AcceptAfterLoad
  \/ \E b \in Blocks : ProcessOrphan(b)
  \/ NextProcessHash

Next ==
  \/ Proceed
  \/ \E b \in Blocks : ProcessBlock(b) \/ RefuseKnownBlock(b)
  \/ Crash

Spec == Init /\ [][Next]_vars

\* A goroutine that can run is eventually scheduled; nothing obliges peers
\* to send blocks.
FairSpec == Spec /\ WF_vars(Proceed)

-----------------------------------------------------------------------------
(* Properties.                                                             *)

Starting == pc \in {"boot", "genesis", "version", "load", "exit"}
Reorganising == pc \in {"fork", "detach", "attach"}

\* Every variable has its type.
TypeOK ==
  /\ Index \subseteq Blocks
  /\ WorkSum \in [Blocks -> Nat]
  /\ InMainChain \subseteq Blocks
  /\ BlockCache \subseteq Blocks
  /\ BestChain \in Blocks \cup {NoBlock}
  /\ BlockHeight \in Heights
  /\ Orphans \subseteq Blocks
  /\ headers \subseteq Blocks
  /\ hashAt \in [Heights -> Blocks \cup {NoBlock}]
  /\ current \in [hash : Blocks \cup {NoBlock}, height : Heights]
  /\ version \in {0, 1}
  /\ currentBlockHeight \in Heights
  /\ pc \in {"boot", "genesis", "version", "load", "exit", "idle", "accept",
             "fork", "detach", "attach", "orphans"}
  /\ loadHeight \in 0 .. MinMemoryNodes
  /\ processHashes \in Seq(Blocks)
  /\ node \in Blocks \cup {NoBlock}
  /\ ancestor \in Blocks \cup {NoBlock}
  /\ attachNodes \in Seq(Blocks)
  /\ reorgFrom \in Blocks \cup {NoBlock}
  /\ reorgState \in {"clean", "failed"}
  /\ crashes \in Nat /\ failures \in Nat

\* What LevelDB holds after every batch, whatever step the process dies at, is
\* one chain from the genesis block to SYS_CurrentBlock: each height up to it
\* has the block that links to the one below, no other height has one, and
\* the stored headers are those blocks.
ChainInStore ==
  /\ hashAt[0] = Genesis
  /\ current.hash = hashAt[current.height]
  /\ \A h \in Heights :
       IF h > current.height
         THEN hashAt[h] = NoBlock
         ELSE /\ hashAt[h] \in Blocks
              /\ Height[hashAt[h]] = h
              /\ h > 0 => Previous[hashAt[h]] = hashAt[h - 1]
  /\ headers = {b \in Blocks : hashAt[Height[b]] = b}

DurableChain == (version = 1 /\ failures = 0) => ChainInStore

\* Once started, memory and store agree at every step of a reorganisation:
\* the tip, the two cached heights, and which blocks are on the main chain.
MemoryMatchesStore ==
  (~Starting /\ failures = 0) =>
    /\ BestChain = current.hash
    /\ BlockHeight = current.height
    /\ currentBlockHeight = current.height
    /\ InMainChain = headers

\* BlockCache holds exactly the blocks in memory that are off the main chain,
\* so ReorganizeChain never stops for a block "missing from the side chain
\* block cache", and a detached chain can always come back.
SideBlocksCached ==
  (~Starting /\ failures = 0) => BlockCache = Index \ InMainChain

\* The next block to attach always extends the best chain: detaching stops at
\* the fork point, and ConnectBlock never answers that it "must be called
\* with a block that extends the main chain".
AttachExtendsBestChain ==
  (pc = "attach" /\ failures = 0 /\ attachNodes # << >>) =>
    Previous[Head(attachNodes)] = BestChain

\* Between two calls no block in memory has more work behind it than the best
\* chain, unless a reorganisation has failed.
MostWork ==
  (pc = "idle" /\ failures = 0 /\ reorgState = "clean") =>
    \A b \in Index : WorkSum[b] <= WorkSum[BestChain]

\* The process can always be started again on what it left in LevelDB.
CanRestart == failures = 0 => pc # "exit"

\* A reorganisation that fails leaves the best chain it found, as the comment
\* in ReorganizeChain promises ("catches these issues before ever modifying
\* the chain").
ReorganizeAllOrNothing ==
  [][(Reorganising /\ pc' = "idle") => BestChain' = reorgFrom]_vars

\* Between two calls no orphan waits for a block that is there: ProcessBlock
\* accepts "any orphan blocks that depend on this block ... and repeat for
\* those accepted blocks until there are no more".
OrphansResolved ==
  pc = "idle" => \A b \in Orphans : Previous[b] \notin Index

\* Every call of Init or AddBlock comes to an end.
CallReturns == (pc \notin {"idle", "exit"}) ~> (pc \in {"idle", "exit"})

=============================================================================
