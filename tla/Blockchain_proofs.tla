-------------------------- MODULE Blockchain_proofs --------------------------
(***************************************************************************)
(* Proofs about block acceptance, for every block tree, every order of     *)
(* arrival and any number of crashes: first its invariants, then that it   *)
(* implements ChainSelection step by step and leaves no orphan behind.     *)
(***************************************************************************)
EXTENDS ChainSelectionRefinement, TLAPS

USE DEF Heights, PersistTrimmedBlock, PersistBlockHash, PersistCurrentBlock,
        RollbackTrimmedBlock, RollbackBlockHash, RollbackCurrentBlock

-----------------------------------------------------------------------------
(* What holds whether or not LevelDB ever refuses a batch.                 *)

\* LevelDB and the two cached heights: a block other than genesis has a height
\* above zero.
StoreShape ==
  /\ headers \subseteq Blocks
  /\ hashAt \in [Heights -> Blocks \cup {NoBlock}]
  /\ current \in [hash : Blocks \cup {NoBlock}, height : Heights]
  /\ version \in {0, 1}
  /\ BlockHeight \in Heights /\ currentBlockHeight \in Heights
  /\ failures \in Nat
  /\ \A b \in headers \ {Genesis} : Height[b] > 0
  /\ hashAt[0] \in {Genesis, NoBlock}

\* Memory: the nodes are closed under Previous.
MemoryShape ==
  /\ Index \subseteq Blocks
  /\ WorkSum \in [Blocks -> Nat]
  /\ InMainChain \subseteq Blocks
  /\ BlockCache \subseteq Blocks
  /\ BestChain \in Blocks \cup {NoBlock}
  /\ Orphans \subseteq Blocks
  /\ \A b \in Index \ {Genesis} : Height[b] > 0 /\ Previous[b] \in Index

\* The types of the variables of the running call.
CallTypes ==
  /\ pc \in {"boot", "genesis", "version", "load", "exit", "idle", "accept",
             "fork", "detach", "attach", "orphans"}
  /\ loadHeight \in 0 .. MinMemoryNodes
  /\ processHashes \in Seq(Blocks)
  /\ node \in Blocks \cup {NoBlock}
  /\ ancestor \in Blocks \cup {NoBlock}
  /\ attachNodes \in Seq(Blocks)
  /\ reorgFrom \in Blocks \cup {NoBlock}
  /\ reorgState \in {"clean", "failed"}
  /\ crashes \in Nat

\* The running call works on blocks that have a node.
CallShape ==
  /\ pc \in {"boot", "genesis", "version"} =>
       Index = {} /\ InMainChain = {} /\ BlockCache = {} /\ Orphans = {}
  /\ pc = "load" =>
       /\ loadHeight = 0 <=> Index = {}
       /\ loadHeight <= currentBlockHeight + 1
       /\ loadHeight > 0 => BestChain \in Index
       /\ BlockCache = {} /\ Orphans = {}
  /\ ~Starting => BestChain \in Index
  /\ pc = "accept" => node \in Blocks /\ Previous[node] \in Index
  /\ pc = "fork" => ancestor \in Index
  /\ Reorganising =>
       /\ node \in Index
       /\ \A i \in 1 .. Len(attachNodes) : attachNodes[i] \in Index
  /\ pc = "orphans" => processHashes # << >>
  /\ \A i \in 1 .. Len(processHashes) : processHashes[i] \in Index

IndInv1 == StoreShape /\ MemoryShape /\ CallTypes /\ CallShape

LEMMA IndInv1Types == IndInv1 => TypeOK
  BY DEF IndInv1, StoreShape, MemoryShape, CallTypes, TypeOK

LEMMA InitIndInv1 == Init => IndInv1
<1> SUFFICES ASSUME Init PROVE IndInv1
  OBVIOUS
<1> USE BlocksAssumption, HeaderAssumption, HeightAssumption
<1>1. 0 \in Heights /\ 0 \in 0 .. MinMemoryNodes
  BY HeightAssumption
<1>2. StoreShape
  <2>1. hashAt \in [Heights -> Blocks \cup {NoBlock}] /\ hashAt[0] = NoBlock
    BY <1>1 DEF Init
  <2>2. current \in [hash : Blocks \cup {NoBlock}, height : Heights]
    BY <1>1 DEF Init
  <2> QED
    BY <1>1, <2>1, <2>2 DEF Init, StoreShape
<1>3. MemoryShape
  BY DEF Init, MemoryShape
<1>6. processHashes \in Seq(Blocks) /\ attachNodes \in Seq(Blocks)
  BY DEF Init
<1>4. CallTypes
  BY <1>1, <1>6 DEF Init, CallTypes
<1>5. CallShape
  BY DEF Init, CallShape, Starting, Reorganising
<1> QED
  BY <1>2, <1>3, <1>4, <1>5 DEF IndInv1

LEMMA PersistBatchShape ==
  ASSUME StoreShape, NEW b \in Blocks, b = Genesis \/ Height[b] > 0,
         PersistBatch(b), UNCHANGED failures,
         BlockHeight' \in Heights, currentBlockHeight' \in Heights
  PROVE  StoreShape'
<1> USE BlocksAssumption, HeaderAssumption, HeightAssumption
<1>1. Height[b] \in Heights /\ 0 \in Heights /\ (Height[b] = 0 => b = Genesis)
  OBVIOUS
<1>2. hashAt' \in [Heights -> Blocks \cup {NoBlock}] /\ hashAt'[0] \in {Genesis, NoBlock}
  BY <1>1 DEF PersistBatch, StoreShape
<1>3. current' \in [hash : Blocks \cup {NoBlock}, height : Heights]
  BY <1>1 DEF PersistBatch
<1>4. headers' \subseteq Blocks /\ \A c \in headers' \ {Genesis} : Height[c] > 0
  BY DEF PersistBatch, StoreShape
<1> QED
  BY <1>2, <1>3, <1>4 DEF PersistBatch, StoreShape

LEMMA BatchFailsShape ==
  ASSUME StoreShape, BatchFails, BlockHeight' \in Heights, currentBlockHeight' \in Heights
  PROVE  StoreShape'
  BY BoundAssumption DEF BatchFails, StoreShape, dbVars

LEMMA SaveBlockShape ==
  ASSUME StoreShape, NEW b \in Blocks, Height[b] > 0, SaveBlock(b)
  PROVE  StoreShape'
<1> USE HeightAssumption
<1>1. CASE Height[b] <= currentBlockHeight
  BY <1>1 DEF SaveBlock, StoreShape, dbVars, heightVars
<1>2. CASE ~(Height[b] <= currentBlockHeight)
  <2>1. CASE PersistBatch(b) /\ SetHeights(Height[b]) /\ UNCHANGED failures
    BY <2>1, PersistBatchShape DEF SetHeights
  <2>2. CASE BatchFails /\ UNCHANGED heightVars
    BY <2>2, BatchFailsShape DEF heightVars, StoreShape
  <2> QED
    BY <1>2, <2>1, <2>2 DEF SaveBlock
<1> QED
  BY <1>1, <1>2

LEMMA RollbackBlockShape ==
  ASSUME StoreShape, NEW b \in Blocks, Height[b] > 0, RollbackBlock(b)
  PROVE  StoreShape'
<1> USE BlocksAssumption, HeaderAssumption, HeightAssumption
<1>1. Height[b] \in Heights /\ Height[b] - 1 \in Heights /\ 0 \in Heights
  OBVIOUS
<1>2. BlockHeight' \in Heights /\ currentBlockHeight' \in Heights
  BY <1>1 DEF RollbackBlock, SetHeights
<1>3. CASE RollbackBatch(b) /\ UNCHANGED failures
  <2>1. hashAt' \in [Heights -> Blocks \cup {NoBlock}] /\ hashAt'[0] \in {Genesis, NoBlock}
    BY <1>1, <1>3 DEF RollbackBatch, StoreShape
  <2>2. current' \in [hash : Blocks \cup {NoBlock}, height : Heights]
    BY <1>1, <1>3 DEF RollbackBatch
  <2>3. headers' \subseteq Blocks /\ \A c \in headers' \ {Genesis} : Height[c] > 0
    BY <1>3 DEF RollbackBatch, StoreShape
  <2> QED
    BY <1>2, <1>3, <2>1, <2>2, <2>3 DEF RollbackBatch, StoreShape
<1>4. CASE BatchFails
  BY <1>2, <1>4, BatchFailsShape
<1> QED
  BY <1>3, <1>4 DEF RollbackBlock

\* The queue of ProcessOrphans after a block was accepted.
LEMMA ReturnAcceptedShape ==
  ASSUME processHashes \in Seq(Blocks), NEW b \in Blocks, b \in Index',
         \A i \in 1 .. Len(processHashes) : processHashes[i] \in Index,
         Index \subseteq Index', ReturnAccepted(b)
  PROVE  /\ pc' = "orphans"
         /\ processHashes' \in Seq(Blocks) /\ processHashes' # << >>
         /\ \A i \in 1 .. Len(processHashes') : processHashes'[i] \in Index'
  BY DEF ReturnAccepted

\* maybeAcceptBlock, for a block whose parent has a node.
LEMMA MaybeAcceptShape ==
  ASSUME IndInv1, NEW b \in Blocks, Previous[b] \in Index,
         pc \in {"idle", "accept", "orphans"},
         MaybeAcceptBlock(b), Orphans' \subseteq Blocks,
         UNCHANGED <<loadHeight, crashes>>
  PROVE  IndInv1'
<1> USE BlocksAssumption, HeaderAssumption, HeightAssumption DEF IndInv1
<1>1. BestChain \in Index
  BY DEF CallShape, Starting
<1>2. ASSUME WellPlaced(b) PROVE Height[b] > 0
  BY <1>2 DEF WellPlaced, MemoryShape
<1>3. CASE RejectBlock(b)
  <2> USE <1>3 DEF RejectBlock, ReturnError, memVars, dbVars, heightVars, reorgVars
  <2>1. StoreShape'
    BY DEF StoreShape
  <2>2. MemoryShape'
    BY DEF MemoryShape
  <2>3. CallTypes'
    BY DEF CallTypes
  <2>4. CallShape'
    BY <1>1 DEF CallShape, Starting, Reorganising
  <2> QED
    BY <2>1, <2>2, <2>3, <2>4
<1>4. CASE ExtendBestChain(b)
  <2> USE <1>4 DEF ExtendBestChain
  <2>1. StoreShape'
    BY <1>2, SaveBlockShape DEF ConnectBlock
  <2>2. MemoryShape'
    BY <1>2 DEF MemoryShape, ConnectBlock, NewNodeWork
  <2>3. /\ pc' = "orphans"
        /\ processHashes' \in Seq(Blocks) /\ processHashes' # << >>
        /\ \A i \in 1 .. Len(processHashes') : processHashes'[i] \in Index'
    BY ReturnAcceptedShape DEF CallTypes, CallShape, ConnectBlock
  <2>4. CallTypes'
    BY <2>3 DEF CallTypes, reorgVars
  <2>5. CallShape'
    BY <2>3 DEF CallShape, Starting, Reorganising, ConnectBlock
  <2> QED
    BY <2>1, <2>2, <2>4, <2>5
<1>5. CASE AddSideBlock(b)
  <2>1. /\ Height[b] > 0
        /\ Index' = Index \cup {b} /\ InMainChain' = InMainChain \ {b}
        /\ BlockCache' = BlockCache \cup {b} /\ NewNodeWork(b)
        /\ UNCHANGED <<BestChain, headers, hashAt, current, version, BlockHeight,
                       currentBlockHeight, reorgState, failures>>
    BY <1>2, <1>5 DEF AddSideBlock, dbVars, heightVars
  <2>2. StoreShape'
    BY <2>1 DEF StoreShape
  <2>3. MemoryShape'
    BY <2>1 DEF MemoryShape, NewNodeWork
  <2>4. CASE ReturnAccepted(b) /\ UNCHANGED reorgVars
    <3>1. /\ pc' = "orphans"
          /\ processHashes' \in Seq(Blocks) /\ processHashes' # << >>
          /\ \A i \in 1 .. Len(processHashes') : processHashes'[i] \in Index'
      BY <2>1, <2>4, ReturnAcceptedShape DEF CallTypes, CallShape
    <3>2. CallTypes'
      BY <2>1, <2>4, <3>1 DEF CallTypes, reorgVars
    <3>3. CallShape'
      BY <1>1, <2>1, <3>1 DEF CallShape, Starting, Reorganising
    <3> QED
      BY <2>2, <2>3, <3>2, <3>3
  <2>5. CASE /\ pc' = "fork" /\ node' = b /\ ancestor' = b /\ attachNodes' = << >>
             /\ reorgFrom' = BestChain /\ UNCHANGED processHashes
    <3>1. CallTypes'
      BY <1>1, <2>1, <2>5 DEF CallTypes, MemoryShape
    <3>2. CallShape'
      BY <1>1, <2>1, <2>5 DEF CallShape, Starting, Reorganising
    <3> QED
      BY <2>2, <2>3, <3>1, <3>2
  <2> QED
    BY <1>5, <2>4, <2>5 DEF AddSideBlock
<1> QED
  BY <1>3, <1>4, <1>5 DEF MaybeAcceptBlock

\* Start-up and crashes.
LEMMA BootShape ==
  ASSUME IndInv1, WipeStore \/ PersistGenesis \/ PutVersion \/ StartLoad
  PROVE  IndInv1'
<1> USE BlocksAssumption, HeaderAssumption, HeightAssumption
    DEF IndInv1, memVars, heightVars, reorgVars
<1>1. /\ pc \in {"boot", "genesis", "version"}
      /\ pc' \in {"boot", "genesis", "version", "load", "exit"}
      /\ UNCHANGED <<Index, WorkSum, InMainChain, BlockCache, BestChain, BlockHeight,
                     node, ancestor, attachNodes, reorgFrom, Orphans, processHashes,
                     reorgState, crashes>>
      /\ loadHeight' \in {0, loadHeight} /\ (pc' = "load" => loadHeight' = 0)
  BY DEF WipeStore, PersistGenesis, PutVersion, StartLoad, InitWriteFails
<1>2. StoreShape'
  <2>1. CASE WipeStore
    <3>1. CASE InitWriteFails
      BY <2>1, <3>1, BatchFailsShape DEF WipeStore, InitWriteFails, StoreShape
    <3>2. CASE ~InitWriteFails
      <4>1. 0 \in Heights
        OBVIOUS
      <4>2. current' \in [hash : Blocks \cup {NoBlock}, height : Heights]
        BY <2>1, <3>2, <4>1 DEF WipeStore
      <4>3. hashAt' \in [Heights -> Blocks \cup {NoBlock}] /\ hashAt'[0] = NoBlock
        BY <2>1, <3>2, <4>1 DEF WipeStore
      <4> QED
        BY <2>1, <3>2, <4>2, <4>3 DEF WipeStore, StoreShape
    <3> QED
      BY <3>1, <3>2
  <2>2. CASE PersistGenesis
    BY <2>2, PersistBatchShape, BatchFailsShape
       DEF PersistGenesis, InitWriteFails, StoreShape
  <2>3. CASE PutVersion
    BY <2>3, BatchFailsShape DEF PutVersion, InitWriteFails, StoreShape
  <2>4. CASE StartLoad
    BY <2>4 DEF StartLoad, StoreShape, dbVars
  <2> QED
    BY <2>1, <2>2, <2>3, <2>4
<1>3. MemoryShape'
  BY <1>1 DEF MemoryShape
<1>4. CallTypes'
  BY <1>1 DEF CallTypes
<1>5. CallShape'
  <2>1. /\ Index' = {} /\ InMainChain' = {} /\ BlockCache' = {} /\ Orphans' = {}
        /\ \A i \in 1 .. Len(processHashes') : processHashes'[i] \in Index'
    BY <1>1 DEF CallShape
  <2>2. currentBlockHeight' \in Nat
    BY <1>2 DEF StoreShape
  <2>3. loadHeight' = 0 => loadHeight' <= currentBlockHeight' + 1
    <3>1. \A m : \A n \in Nat : m = 0 => m <= n + 1
      OBVIOUS
    <3> QED
      BY <2>2, <3>1
  <2> QED
    BY <1>1, <2>1, <2>3 DEF CallShape, Starting, Reorganising
<1> QED
  BY <1>2, <1>3, <1>4, <1>5

LEMMA LoadShape ==
  ASSUME IndInv1, LoadStored \/ FinishLoad
  PROVE  IndInv1'
<1> USE BlocksAssumption, HeaderAssumption, HeightAssumption
    DEF IndInv1, memVars, dbVars, heightVars, reorgVars
<1>1. CASE FinishLoad
  <2>1. StoreShape' /\ MemoryShape' /\ CallTypes'
    BY <1>1 DEF FinishLoad, StoreShape, MemoryShape, CallTypes
  <2>2. CallShape'
    BY <1>1 DEF FinishLoad, CallShape, Starting, Reorganising, StoreShape, CallTypes
  <2> QED
    BY <2>1, <2>2
<1>2. CASE LoadStored
  <2> DEFINE b == hashAt[loadHeight]
  <2>1. pc = "load" /\ loadHeight <= currentBlockHeight /\ loadHeight \in Heights
    BY <1>2 DEF LoadStored, StoreShape, CallTypes
  <2>2. StoreShape'
    BY <1>2 DEF LoadStored, StoreShape
  <2>3. CASE b \in headers /\ (Previous[b] \in Index \/ Index = {})
    <3> HIDE DEF b
    <3>1. /\ LoadBlockNode(b) /\ BestChain' = b
          /\ loadHeight' = loadHeight + 1
          /\ UNCHANGED <<pc, node, ancestor, attachNodes, reorgFrom, Orphans,
                         processHashes, reorgState, crashes, currentBlockHeight>>
      BY <1>2, <2>3 DEF LoadStored, b
    <3>2. b \in Blocks /\ (b = Genesis \/ (Height[b] > 0 /\ Previous[b] \in Index))
      <4>1. CASE Index = {}
        BY <2>1, <2>3, <4>1 DEF CallShape, StoreShape, b
      <4>2. CASE Previous[b] \in Index
        BY <2>3, <4>2 DEF StoreShape
      <4> QED
        BY <2>3, <4>1, <4>2
    <3>3. MemoryShape'
      <4>1. WorkSum' \in [Blocks -> Nat]
        BY <3>1, <3>2 DEF LoadBlockNode, MemoryShape
      <4> QED
        BY <3>1, <3>2, <4>1 DEF LoadBlockNode, MemoryShape
    <3>4. CallTypes'
      BY <2>1, <3>1 DEF CallTypes
    <3>5. CallShape'
      <4>1. /\ pc' = "load" /\ loadHeight' > 0 /\ loadHeight' <= currentBlockHeight' + 1
            /\ b \in Index' /\ BestChain' \in Index'
        BY <2>1, <3>1 DEF LoadBlockNode, StoreShape
      <4>2. \A i \in 1 .. Len(processHashes') : processHashes'[i] \in Index'
        BY <3>1 DEF CallShape, LoadBlockNode
      <4>3. BlockCache' = {} /\ Orphans' = {}
        BY <2>1, <3>1 DEF CallShape, LoadBlockNode
      <4>4. (loadHeight' = 0) <=> (Index' = {})
        BY <4>1
      <4> QED
        BY <4>1, <4>2, <4>3, <4>4 DEF CallShape, Starting, Reorganising
    <3> QED
      BY <2>2, <3>3, <3>4, <3>5
  <2>4. CASE ~(b \in headers /\ (Previous[b] \in Index \/ Index = {}))
    <3>1. pc' = "exit" /\ UNCHANGED <<memVars, loadHeight, reorgVars, Orphans,
                                      processHashes, reorgState, crashes>>
      BY <1>2, <2>4 DEF LoadStored
    <3>2. MemoryShape' /\ CallTypes'
      BY <3>1 DEF MemoryShape, CallTypes
    <3>3. CallShape'
      BY <3>1 DEF CallShape, Starting, Reorganising
    <3> QED
      BY <2>2, <3>2, <3>3
  <2> QED
    BY <2>3, <2>4
<1> QED
  BY <1>1, <1>2

LEMMA CrashShape ==
  ASSUME IndInv1, Crash
  PROVE  IndInv1'
<1> USE BlocksAssumption, HeaderAssumption, HeightAssumption DEF IndInv1
<1>1. StoreShape'
  BY DEF Crash, ClearMemory, StoreShape, dbVars
<1>2. MemoryShape'
  BY DEF Crash, ClearMemory, MemoryShape
<1>3. processHashes' \in Seq(Blocks) /\ attachNodes' \in Seq(Blocks)
  BY DEF Crash, ClearMemory
<1>4. CallTypes'
  BY <1>3 DEF Crash, ClearMemory, CallTypes
<1>5. CallShape'
  BY DEF Crash, ClearMemory, CallShape, Starting, Reorganising
<1> QED
  BY <1>1, <1>2, <1>4, <1>5

\* A list with a new first element, and a list without its first element.
LEMMA PushFront ==
  ASSUME NEW S, NEW x \in S, NEW s \in Seq(S)
  PROVE  /\ <<x>> \o s \in Seq(S)
         /\ Len(<<x>> \o s) = Len(s) + 1
         /\ (<<x>> \o s)[1] = x
         /\ \A i \in 2 .. Len(s) + 1 : (<<x>> \o s)[i] = s[i - 1]
  OBVIOUS

LEMMA EmptyList ==
  ASSUME NEW S, NEW s \in Seq(S)
  PROVE  Len(s) \in Nat /\ (s = << >> <=> Len(s) = 0)
  OBVIOUS

LEMMA PopFront ==
  ASSUME NEW S, NEW s \in Seq(S), s # << >>
  PROVE  /\ Head(s) = s[1] /\ Tail(s) \in Seq(S)
         /\ Len(Tail(s)) = Len(s) - 1
         /\ \A i \in 1 .. Len(Tail(s)) : Tail(s)[i] = s[i + 1]
         /\ Len(s) # 1 => Tail(s) # << >>
<1>1. Len(s) \in Nat /\ Len(s) > 0
  OBVIOUS
<1>2. Head(s) = s[1] /\ Tail(s) \in Seq(S) /\ Len(Tail(s)) = Len(s) - 1
  OBVIOUS
<1>3. \A i \in 1 .. Len(s) - 1 : Tail(s)[i] = s[i + 1]
  OBVIOUS
<1>4. Len(s) # 1 => Tail(s) # << >>
  <2>1. SUFFICES ASSUME Len(s) # 1, Tail(s) = << >> PROVE FALSE
    OBVIOUS
  <2>2. Len(Tail(s)) = Len(<< >>)
    BY <2>1, Zenon
  <2>3. Len(<< >>) = 0
    OBVIOUS
  <2> QED
    BY <1>1, <1>2, <2>1, <2>2, <2>3
<1> QED
  BY <1>1, <1>2, <1>3, <1>4

\* The steps of a reorganisation.
LEMMA WalkToForkShape ==
  ASSUME IndInv1, WalkToFork
  PROVE  IndInv1'
<1> USE BlocksAssumption, HeaderAssumption
    DEF IndInv1, memVars, dbVars, heightVars, reorgVars
<1>1. StoreShape' /\ MemoryShape'
  BY DEF WalkToFork, StoreShape, MemoryShape
<1>2. /\ pc = "fork" /\ pc' = "fork" /\ node \in Index /\ Index' = Index
      /\ ancestor \in Blocks /\ ancestor \in Index /\ ancestor' \in Index
  BY DEF WalkToFork, CallShape, MemoryShape, Reorganising
<1>3. /\ attachNodes' \in Seq(Blocks)
      /\ \A i \in 1 .. Len(attachNodes') : attachNodes'[i] \in Index
  <2>1. /\ attachNodes \in Seq(Blocks) /\ attachNodes' = <<ancestor>> \o attachNodes
        /\ \A i \in 1 .. Len(attachNodes) : attachNodes[i] \in Index
    BY <1>2 DEF WalkToFork, CallTypes, CallShape, Reorganising
  <2>2. /\ attachNodes' \in Seq(Blocks) /\ Len(attachNodes') = Len(attachNodes) + 1
        /\ attachNodes'[1] = ancestor
        /\ \A i \in 2 .. Len(attachNodes) + 1 : attachNodes'[i] = attachNodes[i - 1]
    BY <1>2, <2>1, PushFront
  <2>3. Len(attachNodes) \in Nat
    BY <2>1
  <2> QED
    BY <1>2, <2>1, <2>2, <2>3
<1>4. CallTypes'
  BY <1>2, <1>3 DEF WalkToFork, CallTypes, MemoryShape
<1>5. CallShape'
  BY <1>2, <1>3 DEF WalkToFork, CallShape, Starting, Reorganising
<1> QED
  BY <1>1, <1>4, <1>5

LEMMA DetachShape ==
  ASSUME IndInv1, CheckBlockCache \/ DisconnectBlock \/ DisconnectDone
  PROVE  IndInv1'
<1> USE BlocksAssumption, HeaderAssumption
    DEF IndInv1, memVars, dbVars, heightVars, reorgVars, ReorganizeFails, ReturnError
<1>1. /\ pc \in {"fork", "detach"} /\ pc' \in {"detach", "attach", "idle"}
      /\ UNCHANGED <<Index, WorkSum, Orphans, node, ancestor, attachNodes, reorgFrom,
                     loadHeight, crashes>>
      /\ processHashes' \in {processHashes, << >>}
      /\ reorgState' \in {reorgState, "failed"}
  BY DEF CheckBlockCache, DisconnectBlock, DisconnectDone
<1>2. BestChain \in Index /\ BestChain \in Blocks
  BY <1>1 DEF CallShape, Starting, MemoryShape
<1>3. StoreShape' /\ MemoryShape' /\ BestChain' \in Index
  <2>1. CASE DisconnectBlock /\ BestChain \in headers
    <3>1. Height[BestChain] > 0 /\ Previous[BestChain] \in Index
      BY <1>2, <2>1 DEF DisconnectBlock, MemoryShape
    <3>2. StoreShape'
      BY <1>2, <2>1, <3>1, RollbackBlockShape DEF DisconnectBlock
    <3> QED
      BY <1>1, <1>2, <2>1, <3>1, <3>2 DEF DisconnectBlock, MemoryShape
  <2>2. CASE ~(DisconnectBlock /\ BestChain \in headers)
    BY <1>2, <2>2 DEF CheckBlockCache, DisconnectBlock, DisconnectDone, StoreShape, MemoryShape
  <2> QED
    BY <2>1, <2>2
<1>4. CallTypes'
  <2>1. << >> \in Seq(Blocks)
    OBVIOUS
  <2> QED
    BY <1>1, <2>1 DEF CallTypes
<1>5. CallShape'
  BY <1>1, <1>3 DEF CallShape, Starting, Reorganising
<1> QED
  BY <1>3, <1>4, <1>5

LEMMA AttachShape ==
  ASSUME IndInv1, AttachBlock
  PROVE  IndInv1'
<1> USE BlocksAssumption, HeaderAssumption DEF IndInv1
<1> DEFINE b == Head(attachNodes)
<1>1. /\ pc = "attach" /\ attachNodes \in Seq(Blocks) /\ attachNodes # << >>
      /\ node \in Index /\ BestChain \in Index
      /\ \A i \in 1 .. Len(attachNodes) : attachNodes[i] \in Index
      /\ UNCHANGED <<node, ancestor, reorgFrom, Orphans, loadHeight, crashes>>
  BY DEF AttachBlock, CallTypes, CallShape, Reorganising, Starting
<1>2. b \in Index /\ b \in Blocks
  BY <1>1 DEF MemoryShape
<1>3. /\ Tail(attachNodes) \in Seq(Blocks)
      /\ \A i \in 1 .. Len(Tail(attachNodes)) : Tail(attachNodes)[i] \in Index
  BY <1>1, PopFront
<1>4. CASE /\ ConnectBlock(b)
           /\ BlockCache' = BlockCache \ {b}
           /\ attachNodes' = Tail(attachNodes)
           /\ UNCHANGED <<WorkSum, pc, processHashes, reorgState>>
  <2> HIDE DEF b
  <2>1. Index' = Index /\ BestChain' = b
    BY <1>2, <1>4 DEF ConnectBlock
  <2>2. b # Genesis
    BY <1>1, <1>2, <1>4 DEF ConnectBlock, MemoryShape
  <2>3. StoreShape'
    BY <1>2, <1>4, <2>2, SaveBlockShape DEF ConnectBlock, MemoryShape
  <2>4. MemoryShape'
    BY <1>1, <1>2, <1>4, <2>1 DEF ConnectBlock, MemoryShape
  <2>5. CallTypes'
    BY <1>1, <1>3, <1>4 DEF CallTypes
  <2>6. CallShape'
    BY <1>1, <1>2, <1>3, <1>4, <2>1 DEF CallShape, Starting, Reorganising
  <2> QED
    BY <2>3, <2>4, <2>5, <2>6
<1>5. CASE /\ ReorganizeFails
           /\ UNCHANGED <<memVars, dbVars, heightVars, attachNodes, failures>>
  <2> HIDE DEF b
  <2> USE <1>1, <1>5 DEF ReorganizeFails, ReturnError, memVars, dbVars, heightVars
  <2>1. StoreShape' /\ MemoryShape'
    BY DEF StoreShape, MemoryShape
  <2>2. CallTypes' /\ CallShape'
    BY DEF CallTypes, CallShape, Starting, Reorganising
  <2> QED
    BY <2>1, <2>2
<1> QED
  BY <1>4, <1>5 DEF AttachBlock

LEMMA ReorganizeDoneShape ==
  ASSUME IndInv1, ReorganizeDone
  PROVE  IndInv1'
<1> USE DEF IndInv1, memVars, dbVars, heightVars, reorgVars
<1>1. StoreShape' /\ MemoryShape'
  BY DEF ReorganizeDone, StoreShape, MemoryShape
<1>2. /\ node \in Index /\ node \in Blocks /\ Index' = Index
      /\ BestChain \in Index /\ BestChain' = BestChain
  BY DEF ReorganizeDone, CallShape, Reorganising, Starting, MemoryShape
<1>3. /\ pc' = "orphans"
      /\ processHashes' \in Seq(Blocks) /\ processHashes' # << >>
      /\ \A i \in 1 .. Len(processHashes') : processHashes'[i] \in Index'
  BY <1>2, ReturnAcceptedShape DEF ReorganizeDone, CallTypes, CallShape
<1>4. CallTypes'
  BY <1>3 DEF ReorganizeDone, CallTypes
<1>5. CallShape'
  BY <1>2, <1>3 DEF ReorganizeDone, CallShape, Starting, Reorganising
<1> QED
  BY <1>1, <1>4, <1>5

\* The steps of ProcessBlock and ProcessOrphans.
LEMMA ProcessBlockShape ==
  ASSUME IndInv1, NEW b \in Blocks, ProcessBlock(b)
  PROVE  IndInv1'
<1> USE BlocksAssumption, HeaderAssumption DEF IndInv1
<1>1. pc = "idle" /\ BestChain \in Index /\ UNCHANGED <<loadHeight, crashes>>
  BY DEF ProcessBlock, CallShape, Starting
<1>2. CASE AddOrphanBlock(b)
  <2> USE <1>1, <1>2 DEF AddOrphanBlock, memVars, dbVars, heightVars, reorgVars
  <2>1. StoreShape' /\ MemoryShape'
    BY DEF StoreShape, MemoryShape
  <2>2. CallTypes' /\ CallShape'
    BY DEF CallTypes, CallShape, Starting, Reorganising
  <2> QED
    BY <2>1, <2>2
<1>3. CASE Previous[b] \in Index /\ MaybeAcceptBlock(b) /\ UNCHANGED Orphans
  BY <1>1, <1>3, MaybeAcceptShape DEF MemoryShape
<1>4. CASE Previous[b] \notin Index /\ BlockExists(Previous[b]) /\ LoadPrevNode(b)
  <2> DEFINE p == Previous[b]
  <2> HIDE DEF p
  <2>1. p \in Blocks /\ p \in headers
    BY <1>4 DEF BlockExists, StoreShape, p
  <2>2. StoreShape'
    BY <1>4 DEF LoadPrevNode, StoreShape, dbVars, heightVars
  <2>3. CASE Previous[p] \in Index
    <3>1. /\ LoadBlockNode(p) /\ pc' = "accept" /\ node' = b
          /\ UNCHANGED <<BestChain, ancestor, attachNodes, reorgFrom, Orphans,
                         processHashes, reorgState>>
      BY <1>4, <2>3 DEF LoadPrevNode, p
    <3>2. WorkSum' \in [Blocks -> Nat]
      BY <2>1, <2>3, <3>1 DEF LoadBlockNode, MemoryShape
    <3>3. p = Genesis \/ Height[p] > 0
      BY <2>1 DEF StoreShape
    <3>4. MemoryShape'
      BY <2>1, <2>3, <3>1, <3>2, <3>3 DEF LoadBlockNode, MemoryShape
    <3>5. CallTypes'
      BY <1>1, <3>1 DEF CallTypes
    <3>6. CallShape'
      BY <1>1, <3>1 DEF CallShape, LoadBlockNode, Starting, Reorganising, p
    <3> QED
      BY <2>2, <3>4, <3>5, <3>6
  <2>4. CASE Previous[p] \notin Index
    <3>1. UNCHANGED <<Index, WorkSum, InMainChain, BlockCache, pc, node,
                      BestChain, ancestor, attachNodes, reorgFrom, Orphans,
                      processHashes, reorgState>>
      BY <1>4, <2>4 DEF LoadPrevNode, p
    <3>2. MemoryShape' /\ CallTypes'
      BY <1>1, <3>1 DEF MemoryShape, CallTypes
    <3>3. CallShape'
      BY <1>1, <3>1 DEF CallShape, Starting, Reorganising
    <3> QED
      BY <2>2, <3>2, <3>3
  <2> QED
    BY <2>3, <2>4
<1> QED
  BY <1>2, <1>3, <1>4 DEF ProcessBlock

LEMMA ProcessOrphansShape ==
  ASSUME IndInv1,
         \/ \E b \in Blocks : ProcessOrphan(b)
         \/ NextProcessHash
         \/ AcceptAfterLoad
  PROVE  IndInv1'
<1> USE BlocksAssumption, HeaderAssumption DEF IndInv1
<1>1. ASSUME NEW b \in Blocks, ProcessOrphan(b) PROVE IndInv1'
  <2>1. Previous[b] \in Index
    BY <1>1 DEF ProcessOrphan, CallShape, CallTypes
  <2> QED
    BY <1>1, <2>1, MaybeAcceptShape DEF ProcessOrphan, MemoryShape
<1>2. CASE NextProcessHash
  <2> USE <1>2 DEF NextProcessHash, memVars, dbVars, heightVars, reorgVars
  <2>1. StoreShape' /\ MemoryShape'
    BY DEF StoreShape, MemoryShape
  <2>2. /\ pc = "orphans" /\ processHashes # << >> /\ BestChain \in Index
        /\ processHashes \in Seq(Blocks)
        /\ \A i \in 1 .. Len(processHashes) : processHashes[i] \in Index
    BY DEF CallShape, CallTypes, Starting
  <2>3. /\ processHashes' \in Seq(Blocks)
        /\ \A i \in 1 .. Len(processHashes') : processHashes'[i] \in Index'
        /\ pc' \in {"idle", "orphans"} /\ (pc' = "orphans" => processHashes' # << >>)
    BY <2>2, PopFront, SMTT(30)
  <2>4. CallTypes' /\ CallShape'
    BY <2>2, <2>3 DEF CallTypes, CallShape, Starting, Reorganising
  <2> QED
    BY <2>1, <2>4
<1>3. CASE AcceptAfterLoad
  BY <1>3, MaybeAcceptShape DEF AcceptAfterLoad, MemoryShape, CallShape
<1> QED
  BY <1>1, <1>2, <1>3

LEMMA NextIndInv1 == IndInv1 /\ [Next]_vars => IndInv1'
<1> SUFFICES ASSUME IndInv1, [Next]_vars PROVE IndInv1'
  OBVIOUS
<1>1. CASE UNCHANGED vars
  BY <1>1 DEF vars, memVars, dbVars, heightVars, reorgVars, IndInv1, StoreShape,
              MemoryShape, CallTypes, CallShape, Starting, Reorganising
<1>2. CASE Proceed
  BY <1>2, BootShape, LoadShape, WalkToForkShape, DetachShape, AttachShape,
     ReorganizeDoneShape, ProcessOrphansShape DEF Proceed
<1>3. ASSUME NEW b \in Blocks, ProcessBlock(b) \/ RefuseKnownBlock(b) PROVE IndInv1'
  BY <1>1, <1>3, ProcessBlockShape DEF RefuseKnownBlock
<1>4. CASE Crash
  BY <1>4, CrashShape
<1> QED
  BY <1>1, <1>2, <1>3, <1>4 DEF Next

\* Every variable keeps its type, at every step, crash and failed write.
THEOREM TypeCorrect == Spec => []TypeOK
<1>1. Spec => []IndInv1
  BY InitIndInv1, NextIndInv1, PTL DEF Spec
<1> QED
  BY <1>1, IndInv1Types, PTL

-----------------------------------------------------------------------------
(* What holds as long as LevelDB has taken every batch.                    *)

\* How far start-up has come, and what it has written and loaded.
BootInv ==
  /\ version = 0 => pc \in {"boot", "genesis", "version"}
  /\ version = 1 => pc \notin {"genesis", "version"}
  /\ pc = "genesis" => headers = {} /\ \A h \in Heights : hashAt[h] = NoBlock
  /\ (version = 1 \/ pc = "version") => ChainInStore
  /\ pc = "load" =>
       /\ currentBlockHeight = current.height
       /\ InMainChain = Index
       /\ Index = {b \in headers : Height[b] < loadHeight}
       /\ loadHeight > 0 =>
            /\ BestChain = hashAt[loadHeight - 1]
            /\ \A b \in Index : WorkSum[b] <= WorkSum[BestChain]
  /\ pc \notin {"exit", "accept"}

\* Memory against the store, at every step of every call.
MemoryInv ==
  ~Starting =>
    /\ BestChain = current.hash
    /\ BlockHeight = current.height
    /\ currentBlockHeight = current.height
    /\ InMainChain = headers /\ headers \subseteq Index
    /\ BlockCache = Index \ InMainChain
    /\ Orphans \cap Index = {}
    /\ \A b \in Index \ {Genesis} : Height[b] = Height[Previous[b]] + 1

\* The heaviest node is BestChain, or the one a reorganisation is heading for.
WorkInv ==
  reorgState = "clean" =>
    /\ pc \in {"idle", "orphans"} => \A b \in Index : WorkSum[b] <= WorkSum[BestChain]
    /\ Reorganising => \A b \in Index : WorkSum[b] <= WorkSum[node]

\* attachNodes is a chain that ends in node and starts at the fork point.
AttachInv ==
  Reorganising =>
    /\ attachNodes # << >> => attachNodes[Len(attachNodes)] = node
    /\ \A i \in 2 .. Len(attachNodes) : Previous[attachNodes[i]] = attachNodes[i - 1]
    /\ pc = "fork" =>
         /\ attachNodes = << >> => ancestor = node /\ node # Genesis
         /\ attachNodes # << >> => Previous[attachNodes[1]] = ancestor
         /\ node \notin InMainChain
         /\ \A i \in 1 .. Len(attachNodes) : attachNodes[i] \notin InMainChain
    /\ pc = "detach" =>
         /\ attachNodes # << >> /\ Previous[attachNodes[1]] = ancestor
         /\ ancestor \in InMainChain
    /\ pc = "attach" =>
         /\ attachNodes = << >> => BestChain = node
         /\ attachNodes # << >> => Previous[attachNodes[1]] = BestChain

Sound == BootInv /\ MemoryInv /\ WorkInv /\ AttachInv

IndInv2 == failures = 0 => Sound

\* ChainInStore at one height.
LEMMA ChainBelow ==
  ASSUME StoreShape, ChainInStore, NEW h \in Heights, h <= current.height
  PROVE  /\ hashAt[h] \in Blocks /\ Height[hashAt[h]] = h /\ hashAt[h] \in headers
         /\ h > 0 => h - 1 \in Heights /\ Previous[hashAt[h]] = hashAt[h - 1]
<1>1. current.height \in Heights /\ ~(h > current.height)
  BY HeightAssumption DEF StoreShape
<1>2. /\ hashAt[h] \in Blocks /\ Height[hashAt[h]] = h
      /\ h > 0 => Previous[hashAt[h]] = hashAt[h - 1]
  BY <1>1 DEF ChainInStore
<1> QED
  BY <1>2, HeightAssumption DEF ChainInStore

LEMMA ChainAbove ==
  ASSUME ChainInStore, NEW h \in Heights, h > current.height
  PROVE  hashAt[h] = NoBlock
  BY DEF ChainInStore

\* The batch of a block on top of the stored chain, and the batch that takes
\* the top block out, keep the store one chain.
LEMMA PersistExtendsChain ==
  ASSUME StoreShape, ChainInStore, NEW b \in Blocks,
         Height[b] = current.height + 1, Previous[b] = current.hash,
         PersistBatch(b)
  PROVE  ChainInStore'
<1> USE BlocksAssumption, HeaderAssumption, HeightAssumption
<1> DEFINE top == current.height
<1>1. top \in Heights /\ Height[b] \in Heights /\ Height[b] = top + 1
  BY DEF StoreShape
<1>2. current'.hash = b /\ current'.height = top + 1
  BY <1>1 DEF PersistBatch
<1>3. /\ hashAt' \in [Heights -> Blocks \cup {NoBlock}]
      /\ hashAt'[top + 1] = b
      /\ \A h \in Heights : h # top + 1 => hashAt'[h] = hashAt[h]
  BY <1>1 DEF PersistBatch, StoreShape
<1> HIDE DEF top
<1>4. 0 \in Heights /\ hashAt'[0] = Genesis
  BY <1>1, <1>3 DEF ChainInStore
<1>5. ASSUME NEW h \in Heights
      PROVE  IF h > top + 1
               THEN hashAt'[h] = NoBlock
               ELSE /\ hashAt'[h] \in Blocks
                    /\ Height[hashAt'[h]] = h
                    /\ h > 0 => Previous[hashAt'[h]] = hashAt'[h - 1]
  <2>1. CASE h > top + 1
    <3>1. h > top /\ h # top + 1
      BY <1>1, <2>1
    <3>2. hashAt[h] = NoBlock
      BY <3>1, ChainAbove DEF top
    <3> QED
      BY <1>3, <2>1, <3>1, <3>2
  <2>2. CASE h = top + 1
    <3>1. hashAt'[h] = b /\ h - 1 = top /\ hashAt'[h - 1] = current.hash
      BY <1>1, <1>3, <2>2 DEF ChainInStore, top
    <3> QED
      BY <1>1, <2>2, <3>1
  <2>3. CASE h < top + 1
    <3>1. h <= top /\ hashAt'[h] = hashAt[h]
      BY <1>1, <1>3, <2>3
    <3>2. /\ hashAt[h] \in Blocks /\ Height[hashAt[h]] = h
          /\ h > 0 => h - 1 \in Heights /\ Previous[hashAt[h]] = hashAt[h - 1]
      BY <3>1, ChainBelow DEF top
    <3>3. h > 0 => hashAt'[h - 1] = hashAt[h - 1]
      BY <1>1, <1>3, <2>3, <3>2
    <3> QED
      BY <1>1, <2>3, <3>1, <3>2, <3>3
  <2> QED
    BY <1>1, <2>1, <2>2, <2>3
<1>6. headers' = {c \in Blocks : hashAt'[Height[c]] = c}
  <2>1. ASSUME NEW c \in Blocks PROVE c \in headers' <=> hashAt'[Height[c]] = c
    <3>1. Height[c] \in Heights
      OBVIOUS
    <3>2. CASE Height[c] = top + 1
      <4>1. hashAt[Height[c]] = NoBlock
        BY <1>1, <3>1, <3>2 DEF ChainInStore, top
      <4>2. c \notin headers
        BY <4>1 DEF ChainInStore
      <4> QED
        BY <1>3, <3>2, <4>2 DEF PersistBatch
    <3>3. CASE Height[c] # top + 1
      BY <1>1, <1>3, <3>1, <3>3 DEF PersistBatch, ChainInStore
    <3> QED
      BY <3>2, <3>3
  <2>2. headers' \subseteq Blocks
    BY DEF PersistBatch, StoreShape
  <2> QED
    BY <2>1, <2>2
<1> QED
  BY <1>2, <1>3, <1>4, <1>5, <1>6 DEF ChainInStore

LEMMA RollbackShortensChain ==
  ASSUME StoreShape, ChainInStore, NEW b \in Blocks, b = current.hash, b # Genesis,
         RollbackBatch(b)
  PROVE  /\ ChainInStore'
         /\ Height[b] = current.height /\ current.height > 0
         /\ current'.hash = Previous[b] /\ current'.height = current.height - 1
         /\ b \in headers /\ headers' = headers \ {b}
<1> USE BlocksAssumption, HeaderAssumption, HeightAssumption
<1> DEFINE top == current.height
<1>1. top \in Heights /\ Height[b] = top /\ hashAt[top] = b /\ b \in headers
  BY DEF StoreShape, ChainInStore
<1>2. top # 0
  BY <1>1 DEF ChainInStore
<1>3. current'.hash = Previous[b] /\ current'.height = top - 1
  BY <1>1 DEF RollbackBatch
<1>4. /\ hashAt' \in [Heights -> Blocks \cup {NoBlock}]
      /\ hashAt'[top] = NoBlock
      /\ \A h \in Heights : h # top => hashAt'[h] = hashAt[h]
  BY <1>1 DEF RollbackBatch, StoreShape
<1> HIDE DEF top
<1>5. /\ 0 \in Heights /\ top - 1 \in Heights /\ hashAt'[0] = Genesis
      /\ hashAt'[top - 1] = Previous[b]
  <2>1. top - 1 \in Heights /\ Previous[hashAt[top]] = hashAt[top - 1]
    BY <1>1, <1>2, ChainBelow DEF top
  <2>2. hashAt[0] = Genesis
    BY DEF ChainInStore
  <2> QED
    BY <1>1, <1>2, <1>4, <2>1, <2>2
<1>6. ASSUME NEW h \in Heights
      PROVE  IF h > top - 1
               THEN hashAt'[h] = NoBlock
               ELSE /\ hashAt'[h] \in Blocks
                    /\ Height[hashAt'[h]] = h
                    /\ h > 0 => Previous[hashAt'[h]] = hashAt'[h - 1]
  <2>1. CASE h > top
    <3>1. h > top - 1 /\ h # top
      BY <1>1, <2>1
    <3>2. hashAt[h] = NoBlock
      BY <2>1, ChainAbove DEF top
    <3> QED
      BY <1>4, <3>1, <3>2
  <2>2. CASE h = top
    BY <1>1, <1>4, <2>2
  <2>3. CASE h < top
    <3>1. h <= top /\ hashAt'[h] = hashAt[h]
      BY <1>1, <1>4, <2>3
    <3>2. /\ hashAt[h] \in Blocks /\ Height[hashAt[h]] = h
          /\ h > 0 => h - 1 \in Heights /\ Previous[hashAt[h]] = hashAt[h - 1]
      BY <3>1, ChainBelow DEF top
    <3>3. h > 0 => hashAt'[h - 1] = hashAt[h - 1]
      BY <1>1, <1>4, <2>3, <3>2
    <3> QED
      BY <1>1, <2>3, <3>1, <3>2, <3>3
  <2> QED
    BY <1>1, <2>1, <2>2, <2>3
<1>7. headers' = {c \in Blocks : hashAt'[Height[c]] = c}
  <2>1. ASSUME NEW c \in Blocks PROVE c \in headers' <=> hashAt'[Height[c]] = c
    <3>1. CASE Height[c] = top
      BY <1>1, <1>4, <3>1 DEF RollbackBatch, ChainInStore
    <3>2. CASE Height[c] # top
      BY <1>1, <1>4, <3>2 DEF RollbackBatch, ChainInStore
    <3> QED
      BY <3>1, <3>2
  <2>2. headers' \subseteq Blocks
    BY DEF RollbackBatch, StoreShape
  <2> QED
    BY <2>1, <2>2
<1>8. ChainInStore'
  BY <1>3, <1>4, <1>5, <1>6, <1>7 DEF ChainInStore
<1> QED
  BY <1>1, <1>2, <1>3, <1>8 DEF RollbackBatch, top

LEMMA InitIndInv2 == Init => IndInv2
<1> SUFFICES ASSUME Init PROVE Sound
  BY DEF IndInv2
<1>1. BootInv
  BY DEF Init, BootInv
<1>2. MemoryInv /\ WorkInv /\ AttachInv
  BY DEF Init, MemoryInv, WorkInv, AttachInv, Starting, Reorganising
<1> QED
  BY <1>1, <1>2 DEF Sound

\* Start-up.
LEMMA BootSound ==
  ASSUME IndInv1, Sound, failures = 0, failures' = 0,
         WipeStore \/ PersistGenesis \/ PutVersion \/ StartLoad
  PROVE  Sound'
<1> USE BlocksAssumption, HeaderAssumption, HeightAssumption
<1>1. ~BatchFails
  BY DEF BatchFails
<1>2. Starting'
  BY <1>1 DEF WipeStore, PersistGenesis, PutVersion, StartLoad, InitWriteFails, Starting
<1>3. MemoryInv' /\ WorkInv' /\ AttachInv'
  BY <1>2 DEF MemoryInv, WorkInv, AttachInv, Starting, Reorganising
<1>4. StoreShape
  BY DEF IndInv1
<1>5. BootInv'
  <2>1. CASE WipeStore
    BY <1>1, <2>1 DEF WipeStore, InitWriteFails, BootInv, Sound
  <2>2. CASE PersistGenesis
    <3>1. /\ pc = "genesis" /\ pc' = "version" /\ version = 0 /\ version' = 0
          /\ PersistBatch(Genesis)
          /\ headers = {} /\ \A h \in Heights : hashAt[h] = NoBlock
      BY <1>1, <1>4, <2>2
         DEF PersistGenesis, InitWriteFails, BootInv, Sound, PersistBatch, StoreShape
    <3>2. /\ 0 \in Heights /\ hashAt'[0] = Genesis
          /\ \A h \in Heights \ {0} : hashAt'[h] = NoBlock
      BY <1>4, <3>1 DEF PersistBatch, StoreShape
    <3>3. current'.hash = Genesis /\ current'.height = 0 /\ headers' = {Genesis}
      BY <3>1 DEF PersistBatch
    <3>4. headers' = {b \in Blocks : hashAt'[Height[b]] = b}
      BY <3>2, <3>3
    <3>5. ASSUME NEW h \in Heights
          PROVE  IF h > 0 THEN hashAt'[h] = NoBlock
                 ELSE /\ hashAt'[h] \in Blocks
                      /\ Height[hashAt'[h]] = h
                      /\ h > 0 => Previous[hashAt'[h]] = hashAt'[h - 1]
      BY <3>2
    <3>6. ChainInStore'
      BY <3>2, <3>3, <3>4, <3>5 DEF ChainInStore
    <3> QED
      BY <3>1, <3>6 DEF BootInv
  <2>3. CASE PutVersion
    <3>1. /\ pc = "version" /\ pc' = "boot" /\ version' = 1
          /\ UNCHANGED <<headers, hashAt, current>>
      BY <1>1, <2>3 DEF PutVersion, InitWriteFails
    <3>2. ChainInStore'
      BY <3>1 DEF BootInv, Sound, ChainInStore
    <3> QED
      BY <3>1, <3>2 DEF BootInv
  <2>4. CASE StartLoad
    <3>1. /\ pc = "boot" /\ version = 1 /\ loadHeight' = 0
          /\ UNCHANGED <<Index, InMainChain, headers, hashAt, current, version>>
      BY <2>4 DEF StartLoad, memVars, dbVars
    <3>2. ChainInStore /\ Genesis \in headers
      BY <3>1 DEF BootInv, Sound, ChainInStore
    <3>3. pc' = "load" /\ currentBlockHeight' = current.height
      BY <2>4, <3>2 DEF StartLoad
    <3>4. ChainInStore'
      BY <3>1, <3>2 DEF ChainInStore
    <3>5. Index = {} /\ InMainChain = {}
      BY <3>1 DEF IndInv1, CallShape
    <3>6. Index' = {b \in headers' : Height[b] < loadHeight'}
      BY <1>4, <3>1, <3>5 DEF StoreShape
    <3> QED
      BY <3>1, <3>3, <3>4, <3>5, <3>6 DEF BootInv
  <2> QED
    BY <2>1, <2>2, <2>3, <2>4
<1> QED
  BY <1>3, <1>5 DEF Sound

LEMMA LoadSound ==
  ASSUME IndInv1, Sound, failures = 0, failures' = 0, LoadStored \/ FinishLoad
  PROVE  Sound'
<1> USE BlocksAssumption, HeaderAssumption, HeightAssumption
<1>1. /\ pc = "load" /\ version = 1 /\ ChainInStore /\ StoreShape
      /\ UNCHANGED <<headers, hashAt, current, version, currentBlockHeight>>
  BY DEF LoadStored, FinishLoad, dbVars, heightVars, IndInv1, Sound, BootInv, StoreShape
<1>2. ChainInStore'
  BY <1>1 DEF ChainInStore
<1>3. /\ currentBlockHeight = current.height /\ InMainChain = Index
      /\ Index = {b \in headers : Height[b] < loadHeight}
      /\ current.height \in Heights /\ loadHeight \in Nat
      /\ loadHeight > 0 =>
            /\ BestChain = hashAt[loadHeight - 1]
            /\ \A b \in Index : WorkSum[b] <= WorkSum[BestChain]
  BY <1>1 DEF Sound, BootInv, IndInv1, StoreShape, CallTypes
<1>4. CASE FinishLoad
  <2>1. /\ pc' = "idle" /\ BlockHeight' = current.height
        /\ loadHeight = current.height + 1
        /\ UNCHANGED <<Index, InMainChain, BlockCache, BestChain, WorkSum, Orphans>>
        /\ BlockCache = {} /\ Orphans = {}
    BY <1>1, <1>3, <1>4 DEF FinishLoad, memVars, IndInv1, CallShape
  <2>2. Index = headers
    <3>1. ASSUME NEW b \in headers PROVE Height[b] < loadHeight
      <4>1. b \in Blocks /\ Height[b] \in Heights /\ hashAt[Height[b]] = b
        BY <1>1 DEF ChainInStore
      <4>2. ~(Height[b] > current.height)
        BY <1>1, <4>1, ChainAbove
      <4> QED
        BY <1>3, <2>1, <4>1, <4>2
    <3> QED
      BY <1>3, <3>1
  <2>3. BestChain = current.hash
    BY <1>1, <1>3, <2>1 DEF ChainInStore
  <2>4. ASSUME NEW b \in headers \ {Genesis} PROVE Height[b] = Height[Previous[b]] + 1
    <3>1. b \in Blocks /\ Height[b] \in Heights /\ hashAt[Height[b]] = b
      BY <1>1 DEF ChainInStore
    <3>2. Height[b] > 0 /\ Height[b] <= current.height
      BY <1>1, <1>3, <3>1, ChainAbove DEF StoreShape
    <3>3. /\ Height[b] - 1 \in Heights /\ Height[b] - 1 <= current.height
          /\ Previous[b] = hashAt[Height[b] - 1]
      BY <1>1, <1>3, <3>1, <3>2, ChainBelow
    <3>4. Height[hashAt[Height[b] - 1]] = Height[b] - 1
      BY <1>1, <3>3, ChainBelow
    <3> QED
      BY <3>1, <3>3, <3>4
  <2>5. MemoryInv'
    BY <1>1, <1>3, <2>1, <2>2, <2>3, <2>4 DEF MemoryInv
  <2>6. WorkInv' /\ AttachInv'
    BY <1>3, <2>1 DEF WorkInv, AttachInv, Reorganising
  <2>7. BootInv'
    BY <1>1, <1>2, <2>1 DEF BootInv
  <2> QED
    BY <2>5, <2>6, <2>7 DEF Sound
<1>5. CASE LoadStored
  <2> DEFINE b == hashAt[loadHeight]
  <2>1. loadHeight <= current.height /\ loadHeight \in Heights
    BY <1>3, <1>5 DEF LoadStored
  <2>2. /\ b \in Blocks /\ Height[b] = loadHeight /\ b \in headers
        /\ loadHeight > 0 => loadHeight - 1 \in Heights /\ Previous[b] = hashAt[loadHeight - 1]
    BY <1>1, <2>1, ChainBelow
  <2>3. loadHeight > 0 => Previous[b] \in Index /\ Previous[b] = BestChain
    <3>1. SUFFICES ASSUME loadHeight > 0 PROVE Previous[b] \in Index /\ Previous[b] = BestChain
      OBVIOUS
    <3>2. loadHeight - 1 \in Heights /\ loadHeight - 1 <= current.height
      BY <1>3, <2>1, <2>2, <3>1
    <3>3. hashAt[loadHeight - 1] \in headers /\ Height[hashAt[loadHeight - 1]] = loadHeight - 1
      BY <1>1, <3>2, ChainBelow
    <3> QED
      BY <1>3, <2>2, <3>1, <3>2, <3>3
  <2>4. Previous[b] \in Index \/ Index = {}
    BY <1>1, <1>3, <2>3 DEF IndInv1, CallShape
  <2> HIDE DEF b
  <2>5. /\ LoadBlockNode(b) /\ BestChain' = b /\ pc' = "load"
        /\ loadHeight' = loadHeight + 1
    BY <1>1, <1>5, <2>2, <2>4 DEF LoadStored, b
  <2>6. Index' = {c \in headers : Height[c] < loadHeight + 1} /\ InMainChain' = Index'
    <3>1. ASSUME NEW c \in headers PROVE Height[c] = loadHeight => c = b
      BY <1>1, <2>1 DEF ChainInStore, b
    <3>2. \A c \in headers : Height[c] \in Nat
      BY <1>1 DEF StoreShape
    <3> QED
      BY <1>3, <2>2, <2>5, <3>1, <3>2 DEF LoadBlockNode
  <2>7. \A c \in Index' : WorkSum'[c] <= WorkSum'[BestChain']
    <3>1. WorkSum \in [Blocks -> Nat] /\ Index \subseteq Blocks /\ Work[b] \in Nat
      BY <2>2 DEF IndInv1, MemoryShape
    <3>2. b \notin Index
      BY <1>3, <2>2
    <3>3. CASE loadHeight = 0
      <4>1. Index' = {b}
        BY <1>1, <2>5, <3>3 DEF IndInv1, CallShape, LoadBlockNode
      <4>2. WorkSum'[b] \in Nat
        BY <2>2, <2>5, <3>1 DEF LoadBlockNode
      <4> QED
        BY <2>5, <4>1, <4>2
    <3>4. CASE loadHeight > 0
      <4>1. /\ BestChain \in Index /\ Previous[b] = BestChain
            /\ \A c \in Index : WorkSum[c] <= WorkSum[BestChain]
        BY <1>3, <2>3, <3>4
      <4>2. WorkSum' = [WorkSum EXCEPT ![b] = WorkSum[BestChain] + Work[b]]
        BY <2>3, <2>5, <3>4 DEF LoadBlockNode
      <4>3. /\ WorkSum'[b] = WorkSum[BestChain] + Work[b]
            /\ \A c \in Index : WorkSum'[c] = WorkSum[c]
        BY <2>2, <3>1, <3>2, <4>2
      <4>4. Index' = Index \cup {b}
        BY <2>5 DEF LoadBlockNode
      <4> QED
        BY <2>5, <3>1, <4>1, <4>3, <4>4
    <3> QED
      BY <1>3, <3>3, <3>4
  <2>8. BootInv'
    BY <1>1, <1>2, <1>3, <2>5, <2>6, <2>7 DEF BootInv, b
  <2>9. MemoryInv' /\ WorkInv' /\ AttachInv'
    BY <2>5 DEF MemoryInv, WorkInv, AttachInv, Starting, Reorganising
  <2> QED
    BY <2>8, <2>9 DEF Sound
<1> QED
  BY <1>4, <1>5

\* A crash at any step leaves a chain in the store.
LEMMA CrashSound ==
  ASSUME IndInv1, Sound, Crash
  PROVE  Sound'
<1>1. /\ pc' = "boot" /\ UNCHANGED <<headers, hashAt, current, version>>
  BY DEF Crash, dbVars
<1>2. MemoryInv' /\ WorkInv' /\ AttachInv'
  BY <1>1 DEF MemoryInv, WorkInv, AttachInv, Starting, Reorganising
<1>3. version = 1 => ChainInStore
  BY DEF Sound, BootInv
<1>4. BootInv'
  BY <1>1, <1>3 DEF BootInv, ChainInStore
<1> QED
  BY <1>2, <1>4 DEF Sound

\* ConnectBlock on the top of the chain.
LEMMA ConnectSound ==
  ASSUME IndInv1, Sound, failures = 0, failures' = 0, ~Starting,
         NEW b \in Blocks, Height[b] = Height[BestChain] + 1, ConnectBlock(b)
  PROVE  /\ ChainInStore' /\ version' = version /\ version = 1
         /\ current'.hash = b
         /\ BlockHeight' = current'.height /\ currentBlockHeight' = current'.height
         /\ headers' = headers \cup {b}
         /\ InMainChain' = headers'
<1> USE BlocksAssumption, HeaderAssumption, HeightAssumption
<1>1. /\ version = 1 /\ ChainInStore /\ StoreShape
      /\ BestChain = current.hash /\ currentBlockHeight = current.height
      /\ InMainChain = headers
  BY DEF Sound, BootInv, MemoryInv, Starting, IndInv1, StoreShape
<1>2. current.height \in Heights /\ Height[BestChain] = current.height
  <2>1. current.height \in Heights
    BY <1>1 DEF StoreShape
  <2> QED
    BY <1>1, <2>1, ChainBelow DEF ChainInStore
<1>3. PersistBatch(b) /\ SetHeights(Height[b])
  <2>1. ~(Height[b] <= currentBlockHeight)
    BY <1>1, <1>2
  <2>2. ~BatchFails
    BY DEF BatchFails
  <2> QED
    BY <2>1, <2>2 DEF ConnectBlock, SaveBlock
<1>4. ChainInStore'
  BY <1>1, <1>2, <1>3, PersistExtendsChain DEF ConnectBlock
<1> QED
  BY <1>1, <1>3, <1>4 DEF PersistBatch, SetHeights, ConnectBlock

\* maybeAcceptBlock, for a new block whose parent has a node.
LEMMA MaybeAcceptSound ==
  ASSUME IndInv1, Sound, failures = 0, failures' = 0,
         NEW b \in Blocks, b \notin Index, Previous[b] \in Index,
         pc \in {"idle", "orphans"}, MaybeAcceptBlock(b),
         Orphans' \subseteq Orphans, b \notin Orphans'
  PROVE  Sound'
<1> USE BlocksAssumption, HeaderAssumption, HeightAssumption
<1>1. /\ version = 1 /\ ChainInStore
      /\ BestChain = current.hash /\ BlockHeight = current.height
      /\ currentBlockHeight = current.height
      /\ InMainChain = headers /\ headers \subseteq Index
      /\ BlockCache = Index \ InMainChain /\ Orphans \cap Index = {}
      /\ \A c \in Index \ {Genesis} : Height[c] = Height[Previous[c]] + 1
  BY DEF Sound, BootInv, MemoryInv, Starting, IndInv1, StoreShape
<1>2. /\ Index \subseteq Blocks /\ BestChain \in Index /\ Genesis \in Index
      /\ WorkSum \in [Blocks -> Nat] /\ Work[b] \in Nat
  BY <1>1 DEF IndInv1, MemoryShape, CallShape, Starting, ChainInStore
<1>3. b # Genesis /\ b \notin headers
  BY <1>1, <1>2
<1>4. reorgState = "clean" => \A c \in Index : WorkSum[c] <= WorkSum[BestChain]
  BY DEF Sound, WorkInv
<1>5. CASE RejectBlock(b)
  <2>1. /\ pc' = "idle"
        /\ UNCHANGED <<Index, WorkSum, InMainChain, BlockCache, BestChain, headers, hashAt,
                       current, version, BlockHeight, currentBlockHeight, reorgState>>
    BY <1>5 DEF RejectBlock, ReturnError, memVars, dbVars, heightVars
  <2>2. BootInv'
    BY <1>1, <2>1 DEF BootInv, ChainInStore
  <2>3. MemoryInv'
    BY <1>1, <2>1 DEF MemoryInv
  <2>4. WorkInv' /\ AttachInv'
    BY <1>4, <2>1 DEF WorkInv, AttachInv, Reorganising
  <2> QED
    BY <2>2, <2>3, <2>4 DEF Sound
<1>6. CASE ExtendBestChain(b)
  <2>1. /\ Height[b] = Height[BestChain] + 1 /\ ConnectBlock(b) /\ Previous[b] = BestChain
        /\ BlockCache' = BlockCache /\ reorgState' = reorgState /\ pc' = "orphans"
        /\ Index' = Index \cup {b} /\ BestChain' = b
        /\ WorkSum' = [WorkSum EXCEPT ![b] = WorkSum[BestChain] + Work[b]]
    BY <1>6 DEF ExtendBestChain, WellPlaced, ConnectBlock, ReturnAccepted, NewNodeWork
  <2>2. /\ ChainInStore' /\ version' = 1 /\ current'.hash = b
        /\ BlockHeight' = current'.height /\ currentBlockHeight' = current'.height
        /\ headers' = headers \cup {b} /\ InMainChain' = headers'
    BY <1>1, <2>1, ConnectSound DEF Starting
  <2>3. BootInv'
    BY <2>1, <2>2 DEF BootInv
  <2>4. MemoryInv'
    BY <1>1, <2>1, <2>2 DEF MemoryInv
  <2>5. WorkInv' /\ AttachInv'
    <3>1. /\ WorkSum'[b] = WorkSum[BestChain] + Work[b]
          /\ \A c \in Index : WorkSum'[c] = WorkSum[c]
      BY <1>2, <2>1
    <3>2. reorgState' = "clean" => \A c \in Index' : WorkSum'[c] <= WorkSum'[BestChain']
      BY <1>2, <1>4, <2>1, <3>1
    <3> QED
      BY <2>1, <3>2 DEF WorkInv, AttachInv, Reorganising
  <2> QED
    BY <2>3, <2>4, <2>5 DEF Sound
<1>7. CASE AddSideBlock(b)
  <2>1. /\ Height[b] = Height[Previous[b]] + 1
        /\ BlockCache' = BlockCache \cup {b} /\ Index' = Index \cup {b}
        /\ InMainChain' = InMainChain \ {b}
        /\ WorkSum' = [WorkSum EXCEPT ![b] = WorkSum[Previous[b]] + Work[b]]
        /\ UNCHANGED <<BestChain, headers, hashAt, current, version, BlockHeight,
                       currentBlockHeight, reorgState>>
        /\ pc' \in {"orphans", "fork"}
    BY <1>7 DEF AddSideBlock, WellPlaced, NewNodeWork, dbVars, heightVars, ReturnAccepted
  <2>2. BootInv'
    BY <1>1, <2>1 DEF BootInv, ChainInStore
  <2>3. MemoryInv'
    BY <1>1, <1>3, <2>1 DEF MemoryInv
  <2>4. /\ WorkSum'[b] = WorkSum[Previous[b]] + Work[b] /\ WorkSum'[b] \in Nat
        /\ \A c \in Index : WorkSum'[c] = WorkSum[c]
    BY <1>2, <2>1
  <2>5. CASE ~Heavier(b)
    <3>1. pc' = "orphans"
      BY <1>7, <2>5 DEF AddSideBlock, ReturnAccepted
    <3>2. reorgState' = "clean" => \A c \in Index' : WorkSum'[c] <= WorkSum'[BestChain']
      BY <1>2, <1>4, <2>1, <2>4, <2>5 DEF Heavier
    <3>3. WorkInv' /\ AttachInv'
      BY <3>1, <3>2 DEF WorkInv, AttachInv, Reorganising
    <3> QED
      BY <2>2, <2>3, <3>3 DEF Sound
  <2>6. CASE Heavier(b)
    <3>1. pc' = "fork" /\ node' = b /\ ancestor' = b /\ attachNodes' = << >>
      BY <1>7, <2>6 DEF AddSideBlock
    <3>2. reorgState' = "clean" => \A c \in Index' : WorkSum'[c] <= WorkSum'[node']
      <4>1. WorkSum[BestChain] \in Nat /\ \A c \in Index : WorkSum[c] \in Nat
        BY <1>2
      <4>2. SUFFICES ASSUME reorgState = "clean", NEW c \in Index'
                     PROVE  WorkSum'[c] <= WorkSum'[b]
        BY <2>1, <3>1
      <4>3. CASE c = b
        BY <2>4, <4>3
      <4>4. CASE c \in Index
        BY <1>2, <1>4, <2>4, <2>6, <4>1, <4>2, <4>4 DEF Heavier
      <4> QED
        BY <2>1, <4>3, <4>4
    <3>3. AttachInv'
      BY <1>3, <2>1, <3>1 DEF AttachInv
    <3>4. WorkInv'
      BY <3>1, <3>2 DEF WorkInv
    <3> QED
      BY <2>2, <2>3, <3>3, <3>4 DEF Sound
  <2> QED
    BY <2>5, <2>6
<1> QED
  BY <1>5, <1>6, <1>7 DEF MaybeAcceptBlock

\* What Sound says once start-up is over.
LEMMA RunningFacts ==
  ASSUME IndInv1, Sound, ~Starting
  PROVE  /\ version = 1 /\ ChainInStore /\ StoreShape
         /\ BestChain = current.hash /\ BlockHeight = current.height
         /\ currentBlockHeight = current.height
         /\ InMainChain = headers /\ headers \subseteq Index
         /\ BlockCache = Index \ InMainChain /\ Orphans \cap Index = {}
         /\ \A c \in Index \ {Genesis} : Height[c] = Height[Previous[c]] + 1
         /\ Index \subseteq Blocks /\ BestChain \in Index
         /\ Genesis \in headers
         /\ attachNodes \in Seq(Blocks)
<1> USE BlocksAssumption, HeaderAssumption, HeightAssumption
<1>1. version = 1 /\ ChainInStore /\ StoreShape
  BY DEF Sound, BootInv, Starting, IndInv1, StoreShape
<1>2. Genesis \in headers
  BY <1>1 DEF ChainInStore
<1> QED
  BY <1>1, <1>2 DEF Sound, MemoryInv, IndInv1, MemoryShape, CallShape, CallTypes

\* The walk to the fork point, and the check of the cache, which never fails.
LEMMA WalkToForkSound ==
  ASSUME IndInv1, Sound, WalkToFork
  PROVE  Sound'
<1> USE BlocksAssumption, HeaderAssumption
<1>1. /\ pc = "fork" /\ pc' = "fork"
      /\ ancestor \notin InMainChain /\ ancestor' = Previous[ancestor]
      /\ attachNodes' = <<ancestor>> \o attachNodes
      /\ UNCHANGED <<Index, WorkSum, InMainChain, BlockCache, BestChain, headers, hashAt,
                     current, version, BlockHeight, currentBlockHeight, node, Orphans,
                     reorgState>>
  BY DEF WalkToFork, memVars, dbVars, heightVars
<1>2. ~Starting /\ Reorganising
  BY <1>1 DEF Starting, Reorganising
<1>3. ancestor \in Blocks /\ attachNodes \in Seq(Blocks)
  BY <1>1 DEF IndInv1, CallShape, CallTypes, MemoryShape
<1>4. BootInv' /\ MemoryInv' /\ WorkInv'
  <2>1. BootInv'
    BY <1>1, <1>2, RunningFacts DEF BootInv, ChainInStore
  <2>2. MemoryInv'
    BY <1>1, <1>2 DEF Sound, MemoryInv
  <2>3. WorkInv'
    BY <1>1, <1>2 DEF Sound, WorkInv, Reorganising
  <2> QED
    BY <2>1, <2>2, <2>3
<1>5. AttachInv'
  <2>1. /\ attachNodes' \in Seq(Blocks) /\ Len(attachNodes') = Len(attachNodes) + 1
        /\ attachNodes'[1] = ancestor /\ Len(attachNodes) \in Nat
        /\ \A i \in 2 .. Len(attachNodes) + 1 : attachNodes'[i] = attachNodes[i - 1]
    BY <1>1, <1>3, PushFront
  <2>2. /\ attachNodes # << >> => attachNodes[Len(attachNodes)] = node
        /\ \A i \in 2 .. Len(attachNodes) : Previous[attachNodes[i]] = attachNodes[i - 1]
        /\ attachNodes = << >> => ancestor = node
        /\ attachNodes # << >> => Previous[attachNodes[1]] = ancestor
        /\ node \notin InMainChain
        /\ \A i \in 1 .. Len(attachNodes) : attachNodes[i] \notin InMainChain
    BY <1>1, <1>2 DEF Sound, AttachInv
  <2>3. attachNodes = << >> <=> Len(attachNodes) = 0
    BY <1>3
  <2>4. attachNodes' # << >>
    BY <2>1
  <2>5. attachNodes'[Len(attachNodes')] = node
    <3>1. CASE attachNodes = << >>
      BY <2>1, <2>2, <2>3, <3>1
    <3>2. CASE attachNodes # << >>
      BY <2>1, <2>2, <2>3, <3>2, SMTT(30)
    <3> QED
      BY <3>1, <3>2
  <2>6. ASSUME NEW i \in 2 .. Len(attachNodes')
        PROVE  Previous[attachNodes'[i]] = attachNodes'[i - 1]
    <3>1. CASE i = 2
      BY <2>1, <2>2, <2>3, <3>1
    <3>2. CASE i > 2
      <4>1. i - 1 \in 2 .. Len(attachNodes) /\ i - 1 \in 2 .. Len(attachNodes) + 1
        BY <2>1, <3>2
      <4> QED
        BY <2>1, <2>2, <4>1
    <3> QED
      BY <3>1, <3>2
  <2>7. \A i \in 1 .. Len(attachNodes') : attachNodes'[i] \notin InMainChain
    <3>1. SUFFICES ASSUME NEW i \in 1 .. Len(attachNodes')
                   PROVE  attachNodes'[i] \notin InMainChain
      OBVIOUS
    <3>2. CASE i = 1
      BY <1>1, <2>1, <3>2
    <3>3. CASE i > 1
      BY <2>1, <2>2, <3>3, SMTT(30)
    <3> QED
      BY <3>2, <3>3
  <2> QED
    BY <1>1, <2>1, <2>2, <2>4, <2>5, <2>6, <2>7 DEF AttachInv
<1> QED
  BY <1>4, <1>5 DEF Sound

LEMMA CheckBlockCacheSound ==
  ASSUME IndInv1, Sound, CheckBlockCache
  PROVE  Sound'
<1> USE BlocksAssumption, HeaderAssumption
<1>1. /\ pc = "fork"
      /\ Previous[ancestor] = NoBlock \/ ancestor \in InMainChain
      /\ UNCHANGED <<Index, WorkSum, InMainChain, BlockCache, BestChain, headers, hashAt,
                     current, version, BlockHeight, currentBlockHeight, node, ancestor,
                     attachNodes, Orphans>>
  BY DEF CheckBlockCache, memVars, dbVars, heightVars, reorgVars
<1>2. ~Starting /\ Reorganising
  BY <1>1 DEF Starting, Reorganising
<1>3. ancestor \in Index /\ ancestor \in Blocks
  BY <1>1 DEF IndInv1, CallShape, MemoryShape
<1>4. ancestor \in InMainChain
  BY <1>1, <1>2, <1>3, RunningFacts
<1>5. /\ attachNodes # << >> => attachNodes[Len(attachNodes)] = node
      /\ \A i \in 2 .. Len(attachNodes) : Previous[attachNodes[i]] = attachNodes[i - 1]
      /\ attachNodes = << >> => ancestor = node
      /\ attachNodes # << >> => Previous[attachNodes[1]] = ancestor
      /\ node \notin InMainChain
      /\ \A i \in 1 .. Len(attachNodes) : attachNodes[i] \notin InMainChain
  BY <1>1, <1>2 DEF Sound, AttachInv
<1>6. attachNodes # << >>
  BY <1>4, <1>5
<1>7. \A i \in 1 .. Len(attachNodes) : attachNodes[i] \in BlockCache
  BY <1>2, <1>5, RunningFacts DEF IndInv1, CallShape
<1>8. pc' = "detach" /\ reorgState' = reorgState
  BY <1>7 DEF CheckBlockCache
<1>9. BootInv'
  BY <1>1, <1>2, <1>8, RunningFacts DEF BootInv, ChainInStore
<1>10. MemoryInv' /\ WorkInv'
  <2>1. MemoryInv'
    BY <1>1, <1>2 DEF Sound, MemoryInv
  <2>2. WorkInv'
    BY <1>1, <1>2, <1>8 DEF Sound, WorkInv
  <2> QED
    BY <2>1, <2>2
<1>11. AttachInv'
  BY <1>1, <1>4, <1>5, <1>6, <1>8 DEF AttachInv
<1> QED
  BY <1>9, <1>10, <1>11 DEF Sound

\* Detaching keeps the store one chain, and stops at the fork point.
LEMMA DisconnectSound ==
  ASSUME IndInv1, Sound, failures = 0, failures' = 0, DisconnectBlock
  PROVE  Sound'
<1> USE BlocksAssumption, HeaderAssumption, HeightAssumption
<1>1. pc = "detach" /\ ~Starting /\ Reorganising
  BY DEF DisconnectBlock, Starting, Reorganising
<1>2. /\ version = 1 /\ ChainInStore /\ StoreShape
      /\ BestChain = current.hash /\ InMainChain = headers /\ headers \subseteq Index
      /\ BlockCache = Index \ InMainChain /\ Orphans \cap Index = {}
      /\ \A c \in Index \ {Genesis} : Height[c] = Height[Previous[c]] + 1
      /\ Index \subseteq Blocks /\ BestChain \in Index
  BY <1>1, RunningFacts
<1>3. BestChain \in headers /\ BestChain # ancestor /\ BestChain # Genesis
  <2>1. current.height \in Heights
    BY <1>2 DEF StoreShape
  <2>2. BestChain \in headers
    BY <1>2, <2>1, ChainBelow DEF ChainInStore
  <2> QED
    BY <2>2 DEF DisconnectBlock
<1>4. /\ RollbackBatch(BestChain) /\ SetHeights(Height[BestChain] - 1)
      /\ InMainChain' = InMainChain \ {BestChain}
      /\ BlockCache' = BlockCache \cup {BestChain}
      /\ BestChain' = Previous[BestChain]
      /\ UNCHANGED <<Index, WorkSum, pc, reorgState, node, ancestor, attachNodes, Orphans>>
  BY <1>3 DEF DisconnectBlock, RollbackBlock, BatchFails, reorgVars
<1>5. /\ ChainInStore' /\ Height[BestChain] = current.height
      /\ current'.hash = Previous[BestChain] /\ current'.height = current.height - 1
      /\ headers' = headers \ {BestChain} /\ version' = 1
  BY <1>2, <1>3, <1>4, RollbackShortensChain DEF RollbackBatch
<1>6. BootInv'
  BY <1>1, <1>4, <1>5 DEF BootInv
<1>7. MemoryInv'
  BY <1>2, <1>3, <1>4, <1>5 DEF MemoryInv, SetHeights
<1>8. WorkInv'
  BY <1>1, <1>4 DEF Sound, WorkInv
<1>9. AttachInv'
  BY <1>1, <1>3, <1>4 DEF Sound, AttachInv
<1> QED
  BY <1>6, <1>7, <1>8, <1>9 DEF Sound

LEMMA DisconnectDoneSound ==
  ASSUME IndInv1, Sound, DisconnectDone
  PROVE  Sound'
<1> USE BlocksAssumption, HeaderAssumption, HeightAssumption
<1>1. /\ pc = "detach" /\ pc' = "attach"
      /\ BestChain = ancestor \/ Previous[BestChain] = NoBlock
      /\ UNCHANGED <<Index, WorkSum, InMainChain, BlockCache, BestChain, headers, hashAt,
                     current, version, BlockHeight, currentBlockHeight, node, ancestor,
                     attachNodes, Orphans, reorgState>>
  BY DEF DisconnectDone, memVars, dbVars, heightVars, reorgVars
<1>2. ~Starting /\ Reorganising
  BY <1>1 DEF Starting, Reorganising
<1>3. ancestor \in headers /\ attachNodes # << >> /\ Previous[attachNodes[1]] = ancestor
  BY <1>1, <1>2, RunningFacts DEF Sound, AttachInv
<1>4. BestChain = ancestor
  <2>1. SUFFICES ASSUME Previous[BestChain] = NoBlock PROVE BestChain = ancestor
    BY <1>1
  <2>2. BestChain = Genesis /\ ChainInStore /\ StoreShape /\ current.hash = Genesis
    BY <1>2, <2>1, RunningFacts
  <2>3. current.height \in Heights /\ hashAt[current.height] = Genesis
    BY <2>2 DEF ChainInStore, StoreShape
  <2>4. current.height = 0
    BY <2>2, <2>3, ChainBelow
  <2>5. ancestor \in Blocks /\ Height[ancestor] \in Heights /\ hashAt[Height[ancestor]] = ancestor
    BY <1>3, <2>2 DEF ChainInStore
  <2>6. Height[ancestor] = 0
    BY <2>2, <2>4, <2>5, ChainAbove
  <2> QED
    BY <2>2, <2>3, <2>4, <2>5, <2>6
<1>5. BootInv'
  BY <1>1, <1>2, RunningFacts DEF BootInv, ChainInStore
<1>6. MemoryInv'
  BY <1>1, <1>2 DEF Sound, MemoryInv
<1>7. WorkInv'
  BY <1>1, <1>2 DEF Sound, WorkInv
<1>8. AttachInv'
  BY <1>1, <1>2, <1>3, <1>4 DEF Sound, AttachInv
<1> QED
  BY <1>5, <1>6, <1>7, <1>8 DEF Sound

\* Attaching extends the chain block by block, up to node.
LEMMA AttachSound ==
  ASSUME IndInv1, Sound, failures = 0, failures' = 0, AttachBlock
  PROVE  Sound'
<1> USE BlocksAssumption, HeaderAssumption, HeightAssumption
<1> DEFINE b == Head(attachNodes)
<1>1. pc = "attach" /\ attachNodes # << >> /\ ~Starting /\ Reorganising
  BY DEF AttachBlock, Starting, Reorganising
<1>2. /\ version = 1 /\ ChainInStore
      /\ BestChain = current.hash /\ BlockHeight = current.height
      /\ currentBlockHeight = current.height
      /\ InMainChain = headers /\ headers \subseteq Index
      /\ BlockCache = Index \ InMainChain /\ Orphans \cap Index = {}
      /\ \A c \in Index \ {Genesis} : Height[c] = Height[Previous[c]] + 1
      /\ Index \subseteq Blocks /\ BestChain \in Index
      /\ attachNodes \in Seq(Blocks)
  BY <1>1, RunningFacts
<1>3. /\ b = attachNodes[1] /\ Tail(attachNodes) \in Seq(Blocks)
      /\ Len(Tail(attachNodes)) = Len(attachNodes) - 1
      /\ \A i \in 1 .. Len(Tail(attachNodes)) : Tail(attachNodes)[i] = attachNodes[i + 1]
      /\ Len(attachNodes) \in Nat /\ Len(attachNodes) > 0
  BY <1>1, <1>2, PopFront
<1>4. /\ attachNodes[Len(attachNodes)] = node /\ Previous[b] = BestChain
      /\ \A i \in 2 .. Len(attachNodes) : Previous[attachNodes[i]] = attachNodes[i - 1]
  BY <1>1, <1>3 DEF Sound, AttachInv
<1>5. b \in Index /\ b \in Blocks
  BY <1>1, <1>2, <1>3 DEF IndInv1, CallShape
<1>6. b # Genesis /\ Height[b] = Height[BestChain] + 1
  BY <1>2, <1>4, <1>5
<1>7. CASE /\ ConnectBlock(b)
           /\ BlockCache' = BlockCache \ {b}
           /\ attachNodes' = Tail(attachNodes)
           /\ UNCHANGED <<WorkSum, pc, processHashes, reorgState>>
  <2> HIDE DEF b
  <2>1. /\ ChainInStore' /\ version' = 1 /\ current'.hash = b
        /\ BlockHeight' = current'.height /\ currentBlockHeight' = current'.height
        /\ headers' = headers \cup {b} /\ InMainChain' = headers'
    BY <1>1, <1>2, <1>5, <1>6, <1>7, ConnectSound
  <2>2. Index' = Index /\ BestChain' = b /\ UNCHANGED <<node, ancestor, Orphans>>
    BY <1>5, <1>7 DEF ConnectBlock, AttachBlock
  <2>3. BootInv'
    BY <1>1, <1>7, <2>1 DEF BootInv
  <2>4. MemoryInv'
    BY <1>2, <1>5, <1>7, <2>1, <2>2 DEF MemoryInv
  <2>5. WorkInv'
    BY <1>1, <1>7, <2>2 DEF Sound, WorkInv
  <2>6. AttachInv'
    <3> DEFINE rest == Tail(attachNodes)
    <3>1. /\ rest \in Seq(Blocks) /\ Len(rest) = Len(attachNodes) - 1
          /\ \A i \in 1 .. Len(rest) : rest[i] = attachNodes[i + 1]
      BY <1>3
    <3> HIDE DEF rest
    <3>2. Len(rest) \in Nat /\ (rest = << >> <=> Len(rest) = 0)
      BY <3>1, EmptyList
    <3>3. rest = << >> => b = node
      <4>1. Len(rest) = 0 => Len(attachNodes) = 1
        <5>1. \A m, n \in Nat : m = n - 1 /\ m = 0 => n = 1
          OBVIOUS
        <5>2. Len(attachNodes) \in Nat /\ Len(rest) = Len(attachNodes) - 1
          BY <1>3, <3>1
        <5> QED
          BY <3>2, <5>1, <5>2, Zenon
      <4>2. Len(attachNodes) = 1 => b = node
        BY <1>3, <1>4
      <4> QED
        BY <3>2, <4>1, <4>2, Zenon
    <3>4. rest # << >> => rest[Len(rest)] = node /\ Previous[rest[1]] = b
      <4>1. SUFFICES ASSUME rest # << >> PROVE rest[Len(rest)] = node /\ Previous[rest[1]] = b
        OBVIOUS
      <4>2. /\ Len(rest) \in 1 .. Len(rest) /\ 1 \in 1 .. Len(rest)
            /\ Len(rest) + 1 = Len(attachNodes) /\ 1 + 1 \in 2 .. Len(attachNodes)
        BY <1>3, <3>1, <3>2, <4>1
      <4>3. rest[Len(rest)] = attachNodes[Len(attachNodes)] /\ rest[1] = attachNodes[1 + 1]
        BY <3>1, <4>2
      <4>4. Previous[attachNodes[1 + 1]] = attachNodes[1]
        BY <1>4, <4>2
      <4> QED
        BY <1>3, <1>4, <4>3, <4>4
    <3>5. ASSUME NEW i \in 2 .. Len(rest) PROVE Previous[rest[i]] = rest[i - 1]
      <4>1. /\ i \in 1 .. Len(rest) /\ i - 1 \in 1 .. Len(rest)
            /\ i + 1 \in 2 .. Len(attachNodes) /\ (i + 1) - 1 = i /\ (i - 1) + 1 = i
        BY <1>3, <3>1
      <4>2. rest[i] = attachNodes[i + 1] /\ rest[i - 1] = attachNodes[i]
        BY <3>1, <4>1
      <4> QED
        BY <1>4, <4>1, <4>2
    <3>6. /\ attachNodes' = rest /\ node' = node /\ BestChain' = b /\ pc' = "attach"
      BY <1>1, <1>7, <2>2 DEF rest
    <3> QED
      BY <3>3, <3>4, <3>5, <3>6 DEF AttachInv
  <2> QED
    BY <2>3, <2>4, <2>5, <2>6 DEF Sound
<1>8. CASE /\ ReorganizeFails
           /\ UNCHANGED <<memVars, dbVars, heightVars, attachNodes, failures>>
  <2> HIDE DEF b
  <2>1. /\ pc' = "idle" /\ reorgState' = "failed"
        /\ UNCHANGED <<Index, InMainChain, BlockCache, BestChain, headers, hashAt,
                       current, version, BlockHeight, currentBlockHeight, Orphans>>
    BY <1>8 DEF ReorganizeFails, ReturnError, memVars, dbVars, heightVars, AttachBlock
  <2>2. BootInv'
    BY <1>2, <2>1 DEF BootInv, ChainInStore
  <2>3. MemoryInv'
    BY <1>2, <2>1 DEF MemoryInv
  <2>4. WorkInv' /\ AttachInv'
    BY <2>1 DEF WorkInv, AttachInv, Reorganising
  <2> QED
    BY <2>2, <2>3, <2>4 DEF Sound
<1> QED
  BY <1>7, <1>8 DEF AttachBlock

LEMMA ReorganizeDoneSound ==
  ASSUME IndInv1, Sound, ReorganizeDone
  PROVE  Sound'
<1>1. /\ pc = "attach" /\ attachNodes = << >> /\ pc' = "orphans"
      /\ UNCHANGED <<Index, WorkSum, InMainChain, BlockCache, BestChain, headers, hashAt,
                     current, version, BlockHeight, currentBlockHeight, Orphans, reorgState>>
  BY DEF ReorganizeDone, ReturnAccepted, memVars, dbVars, heightVars
<1>2. ~Starting /\ Reorganising
  BY <1>1 DEF Starting, Reorganising
<1>3. BestChain = node
  BY <1>1, <1>2 DEF Sound, AttachInv
<1>4. BootInv'
  BY <1>1, <1>2, RunningFacts DEF BootInv, ChainInStore
<1>5. MemoryInv'
  BY <1>1, <1>2 DEF Sound, MemoryInv
<1>6. WorkInv' /\ AttachInv'
  BY <1>1, <1>2, <1>3 DEF Sound, WorkInv, AttachInv, Reorganising
<1> QED
  BY <1>4, <1>5, <1>6 DEF Sound

\* A new block.  Its parent is an orphan or missing, or it has a node.
LEMMA ProcessBlockSound ==
  ASSUME IndInv1, Sound, failures = 0, failures' = 0, NEW b \in Blocks, ProcessBlock(b)
  PROVE  Sound'
<1> USE BlocksAssumption, HeaderAssumption
<1>1. pc = "idle" /\ ~Starting /\ b \notin Index /\ b \notin Orphans
  BY DEF ProcessBlock, BlockExists, Starting
<1>2. CASE AddOrphanBlock(b)
  <2>1. /\ pc' = "idle" /\ Orphans' \subseteq Orphans \cup {b}
        /\ UNCHANGED <<Index, WorkSum, InMainChain, BlockCache, BestChain, headers, hashAt,
                       current, version, BlockHeight, currentBlockHeight, reorgState>>
    BY <1>1, <1>2 DEF AddOrphanBlock, memVars, dbVars, heightVars
  <2>2. BootInv'
    BY <1>1, <2>1, RunningFacts DEF BootInv, ChainInStore
  <2>3. MemoryInv'
    BY <1>1, <2>1 DEF Sound, MemoryInv
  <2>4. WorkInv' /\ AttachInv'
    BY <1>1, <2>1 DEF Sound, WorkInv, AttachInv, Reorganising
  <2> QED
    BY <2>2, <2>3, <2>4 DEF Sound
<1>3. CASE Previous[b] \in Index /\ MaybeAcceptBlock(b) /\ UNCHANGED Orphans
  BY <1>1, <1>3, MaybeAcceptSound
<1>4. ~(Previous[b] \notin Index /\ BlockExists(Previous[b]))
  BY <1>1, RunningFacts DEF BlockExists
<1> QED
  BY <1>2, <1>3, <1>4 DEF ProcessBlock

\* The queue of orphans.
LEMMA ProcessOrphansSound ==
  ASSUME IndInv1, Sound, failures = 0, failures' = 0,
         \/ \E b \in Blocks : ProcessOrphan(b)
         \/ NextProcessHash
         \/ AcceptAfterLoad
  PROVE  Sound'
<1> USE BlocksAssumption, HeaderAssumption
<1>1. ASSUME NEW b \in Blocks, ProcessOrphan(b) PROVE Sound'
  <2>1. /\ pc = "orphans" /\ ~Starting /\ b \in Orphans /\ Orphans' = Orphans \ {b}
        /\ MaybeAcceptBlock(b)
    BY <1>1 DEF ProcessOrphan, Starting
  <2>2. b \notin Index
    BY <2>1, RunningFacts
  <2>3. Previous[b] \in Index
    BY <1>1 DEF ProcessOrphan, IndInv1, CallShape, CallTypes
  <2> QED
    BY <2>1, <2>2, <2>3, MaybeAcceptSound
<1>2. CASE NextProcessHash
  <2>1. /\ pc = "orphans" /\ pc' \in {"idle", "orphans"}
        /\ UNCHANGED <<Index, WorkSum, InMainChain, BlockCache, BestChain, headers, hashAt,
                       current, version, BlockHeight, currentBlockHeight, Orphans, reorgState>>
    BY <1>2 DEF NextProcessHash, memVars, dbVars, heightVars
  <2>2. ~Starting
    BY <2>1 DEF Starting
  <2>3. BootInv'
    BY <2>1, <2>2, RunningFacts DEF BootInv, ChainInStore
  <2>4. MemoryInv'
    BY <2>1, <2>2 DEF Sound, MemoryInv
  <2>5. WorkInv' /\ AttachInv'
    BY <2>1 DEF Sound, WorkInv, AttachInv, Reorganising
  <2> QED
    BY <2>3, <2>4, <2>5 DEF Sound
<1>3. ~AcceptAfterLoad
  BY DEF AcceptAfterLoad, Sound, BootInv
<1> QED
  BY <1>1, <1>2, <1>3

\* Only a batch that LevelDB refuses counts as a failure.
LEMMA FailuresKept ==
  ASSUME IndInv1, [Next]_vars, ~BatchFails
  PROVE  failures' = failures
<1>2. ~BatchFails
  OBVIOUS
<1>4. ASSUME NEW b \in Blocks, MaybeAcceptBlock(b) PROVE failures' = failures
  BY <1>2, <1>4 DEF MaybeAcceptBlock, RejectBlock, ExtendBestChain, AddSideBlock,
                    ConnectBlock, SaveBlock
<1>5. CASE Proceed
  <2>1. CASE WipeStore \/ PersistGenesis \/ PutVersion \/ StartLoad \/ LoadStored \/ FinishLoad
    BY <1>2, <2>1 DEF WipeStore, PersistGenesis, PutVersion, StartLoad, LoadStored,
                      FinishLoad, InitWriteFails
  <2>2. CASE WalkToFork \/ CheckBlockCache \/ DisconnectBlock \/ DisconnectDone
             \/ AttachBlock \/ ReorganizeDone \/ NextProcessHash
    BY <1>2, <2>2 DEF WalkToFork, CheckBlockCache, DisconnectBlock, DisconnectDone,
                      AttachBlock, ReorganizeDone, NextProcessHash, RollbackBlock,
                      ConnectBlock, SaveBlock
  <2>3. ASSUME NEW b \in Blocks, ProcessOrphan(b) PROVE failures' = failures
    BY <1>4, <2>3 DEF ProcessOrphan
  <2>4. CASE AcceptAfterLoad
    BY <1>4, <2>4 DEF AcceptAfterLoad, IndInv1, CallShape
  <2> QED
    BY <1>5, <2>1, <2>2, <2>3, <2>4 DEF Proceed
<1>6. ASSUME NEW b \in Blocks, ProcessBlock(b) \/ RefuseKnownBlock(b)
      PROVE  failures' = failures
  BY <1>4, <1>6 DEF ProcessBlock, AddOrphanBlock, LoadPrevNode, RefuseKnownBlock, vars
<1>7. CASE Crash
  BY <1>7 DEF Crash
<1>8. CASE UNCHANGED vars
  BY <1>8 DEF vars
<1> QED
  BY <1>5, <1>6, <1>7, <1>8 DEF Next

\* No step takes back a failure of LevelDB.
LEMMA FailuresGrow ==
  ASSUME IndInv1, [Next]_vars, failures' = 0
  PROVE  failures = 0
<1>1. failures \in Nat
  BY DEF IndInv1, StoreShape
<1>2. ~BatchFails
  BY <1>1 DEF BatchFails
<1> QED
  BY <1>2, FailuresKept

LEMMA NextIndInv2 == IndInv1 /\ IndInv2 /\ [Next]_vars => IndInv2'
<1> SUFFICES ASSUME IndInv1, IndInv2, [Next]_vars, failures' = 0 PROVE Sound'
  BY DEF IndInv2
<1>1. failures = 0 /\ Sound
  BY FailuresGrow DEF IndInv2
<1>2. CASE UNCHANGED vars
  <2> USE <1>2 DEF vars, memVars, dbVars, heightVars, reorgVars
  <2>1. BootInv' /\ MemoryInv'
    BY <1>1 DEF Sound, BootInv, MemoryInv, ChainInStore, Starting
  <2>2. WorkInv' /\ AttachInv'
    BY <1>1 DEF Sound, WorkInv, AttachInv, Reorganising
  <2> QED
    BY <2>1, <2>2 DEF Sound
<1>3. CASE Proceed
  BY <1>1, <1>3, BootSound, LoadSound, WalkToForkSound, CheckBlockCacheSound,
     DisconnectSound, DisconnectDoneSound, AttachSound, ReorganizeDoneSound,
     ProcessOrphansSound DEF Proceed
<1>4. ASSUME NEW b \in Blocks, ProcessBlock(b) \/ RefuseKnownBlock(b) PROVE Sound'
  BY <1>1, <1>2, <1>4, ProcessBlockSound DEF RefuseKnownBlock
<1>5. CASE Crash
  BY <1>1, <1>5, CrashSound
<1> QED
  BY <1>2, <1>3, <1>4, <1>5 DEF Next

LEMMA Invariant == Spec => [](IndInv1 /\ IndInv2)
<1>1. Init => IndInv1 /\ IndInv2
  BY InitIndInv1, InitIndInv2
<1>2. IndInv1 /\ IndInv2 /\ [Next]_vars => (IndInv1 /\ IndInv2)'
  BY NextIndInv1, NextIndInv2
<1> QED
  BY <1>1, <1>2, PTL DEF Spec

-----------------------------------------------------------------------------
(* The safety properties of module Blockchain.                             *)

\* At whatever step the process dies, LevelDB holds one chain from genesis to
\* SYS_CurrentBlock: persist and rollback move all their keys in one batch,
\* and only ever on the top of the chain.
THEOREM StoreIsOneChain == Spec => []DurableChain
<1>1. IndInv1 /\ IndInv2 => DurableChain
  BY DEF IndInv2, Sound, BootInv, DurableChain
<1> QED
  BY <1>1, Invariant, PTL

\* Memory and store agree on the tip, the heights and the main chain at every
\* step of AddBlock, in the middle of a reorganisation too.
THEOREM MemoryAgreesWithStore == Spec => []MemoryMatchesStore
<1>1. IndInv1 /\ IndInv2 => MemoryMatchesStore
  BY DEF IndInv2, Sound, MemoryInv, MemoryMatchesStore
<1> QED
  BY <1>1, Invariant, PTL

\* Every block in memory off the main chain is in BlockCache, so the cache
\* check of ReorganizeChain never fails.
THEOREM SideBlocksStayCached == Spec => []SideBlocksCached
<1>1. IndInv1 /\ IndInv2 => SideBlocksCached
  BY DEF IndInv2, Sound, MemoryInv, SideBlocksCached
<1> QED
  BY <1>1, Invariant, PTL

\* ReorganizeChain calls ConnectBlock only with a block that extends the chain.
THEOREM AttachOnTop == Spec => []AttachExtendsBestChain
<1>1. IndInv1 /\ IndInv2 => AttachExtendsBestChain
  <2> SUFFICES ASSUME IndInv1, IndInv2, pc = "attach", failures = 0, attachNodes # << >>
               PROVE  Previous[Head(attachNodes)] = BestChain
    BY DEF AttachExtendsBestChain
  <2>1. Previous[attachNodes[1]] = BestChain
    BY DEF IndInv2, Sound, AttachInv, Reorganising
  <2>2. Head(attachNodes) = attachNodes[1]
    BY PopFront DEF IndInv1, CallTypes
  <2> QED
    BY <2>1, <2>2
<1> QED
  BY <1>1, Invariant, PTL

\* ConnectBestChain keeps the chain with the most work, unless a
\* reorganisation has failed.
THEOREM MostWorkWins == Spec => []MostWork
<1>1. IndInv1 /\ IndInv2 => MostWork
  BY DEF IndInv2, Sound, WorkInv, MostWork
<1> QED
  BY <1>1, Invariant, PTL

\* InitWithGenesisBlock never finds a store it cannot load.
THEOREM RestartSucceeds == Spec => []CanRestart
<1>1. IndInv1 /\ IndInv2 => CanRestart
  BY DEF IndInv2, Sound, BootInv, CanRestart
<1> QED
  BY <1>1, Invariant, PTL

-----------------------------------------------------------------------------
(* Where every block is good: the refinement of ChainSelection.            *)

\* Every block passes the checks that depend on its place in the chain, as one
\* that passes PowCheckBlockSanity it has some work, and LevelDB takes every
\* batch.
EveryBlockGood ==
  /\ \A b \in Blocks : ContextOK[b] /\ CheckResult[b] = {TRUE} /\ Work[b] > 0
  /\ \A b \in Blocks \ {Genesis} : Height[b] = Height[Previous[b]] + 1
  /\ MaxStoreFailures = 0

\* An orphan whose parent has a node waits for a block that ProcessOrphans
\* still has in its queue, or that is queued once the chain is reorganised.
WaitInv ==
  \A o \in Orphans : Previous[o] \in Index =>
    /\ pc # "idle"
    /\ \/ \E i \in 1 .. Len(processHashes) : processHashes[i] = Previous[o]
       \/ Reorganising /\ Previous[o] = node

\* What good blocks add to IndInv1 and Sound: nothing has failed, WorkSum is
\* the work of the whole chain, a reorganisation leads to a heavier block than
\* the one it left, and before the version is written there is nothing to lose.
GoodInv ==
  /\ failures = 0 /\ reorgState = "clean"
  /\ version = 0 => headers \subseteq {Genesis} /\ current.hash \in {NoBlock, Genesis}
  /\ \A b \in Index : WorkSum[b] = TotalWork[b]
  /\ Reorganising =>
       /\ reorgFrom \in Index /\ node # Genesis
       /\ TotalWork[node] > TotalWork[reorgFrom]
  /\ WaitInv

\* Everything that holds in every state.
AllInv == IndInv1 /\ Sound /\ GoodInv

\* A step of ChainSelection, or none.
SelectionStep == [Selection!Next]_<<acceptedBlocks, tipBlock>>

LEMMA NoBatchFails ==
  ASSUME EveryBlockGood, failures \in Nat
  PROVE  ~BatchFails
BY DEF EveryBlockGood, BatchFails

\* What the mapping says outside and inside a reorganisation.
LEMMA MapRunning ==
  ASSUME pc \in {"idle", "orphans"}
  PROVE  acceptedBlocks = Index /\ tipBlock = BestChain
BY DEF acceptedBlocks, tipBlock, Starting, Reorganising

LEMMA MapReorganising ==
  ASSUME Reorganising
  PROVE  acceptedBlocks = Index \ {node} /\ tipBlock = reorgFrom
BY DEF acceptedBlocks, tipBlock, Starting, Reorganising

LEMMA MapStarting ==
  ASSUME Starting
  PROVE  /\ acceptedBlocks = headers \cup {Genesis}
         /\ tipBlock = IF current.hash = NoBlock THEN Genesis ELSE current.hash
BY DEF acceptedBlocks, tipBlock

\* The stored chain is a chain in the sense of ChainSelection.
LEMMA StoreIsChain ==
  ASSUME StoreShape, ChainInStore
  PROVE  /\ current.hash \in headers /\ current.hash \in Blocks
         /\ headers \cup {Genesis} = headers
         /\ Selection!IsChain(headers, current.hash)
<1> USE BlocksAssumption, HeaderAssumption, HeightAssumption
<1> DEFINE top == current.height
<1>1. top \in Heights /\ current.hash = hashAt[top]
  BY DEF StoreShape, ChainInStore
<1>2. /\ current.hash \in headers /\ current.hash \in Blocks /\ Height[current.hash] = top
  BY <1>1, ChainBelow
<1>3. 0 \in Heights /\ hashAt[0] = Genesis /\ Genesis \in headers
  BY DEF ChainInStore
<1>4. \A b \in headers : b \in Blocks /\ Height[b] \in Heights /\ hashAt[Height[b]] = b
  BY DEF ChainInStore
<1>5. \A b \in headers : Height[b] <= top
  <2> SUFFICES ASSUME NEW b \in headers, ~(Height[b] <= top) PROVE FALSE
    OBVIOUS
  <2>1. Height[b] > current.height /\ Height[b] \in Heights
    BY <1>1, <1>4
  <2>2. hashAt[Height[b]] = NoBlock
    BY <2>1, ChainAbove
  <2> QED
    BY <1>4, <2>2
<1>6. \A b \in headers \ {Genesis} :
        /\ Height[b] > 0 /\ Height[b] - 1 \in Heights
        /\ Previous[b] = hashAt[Height[b] - 1] /\ Previous[b] \in headers
        /\ Height[Previous[b]] = Height[b] - 1
  <2> TAKE b \in headers \ {Genesis}
  <2> DEFINE h == Height[b]
  <2>1. h \in Heights /\ h <= top /\ hashAt[h] = b
    BY <1>4, <1>5
  <2>2. h > 0
    BY <1>3, <2>1
  <2>3. h - 1 \in Heights /\ h - 1 <= top
    BY <1>1, <2>1, <2>2
  <2> HIDE DEF h, top
  <2>4. Previous[b] = hashAt[h - 1]
    BY <2>1, <2>2, ChainBelow DEF top
  <2>5. hashAt[h - 1] \in headers /\ Height[hashAt[h - 1]] = h - 1
    BY <2>3, ChainBelow DEF top
  <2> QED
    BY <2>2, <2>3, <2>4, <2>5 DEF h
<1> HIDE DEF top
<1>7. \A b \in headers : Previous[b] # current.hash
  <2> SUFFICES ASSUME NEW b \in headers, Previous[b] = current.hash PROVE FALSE
    OBVIOUS
  <2>1. b # Genesis
    BY <1>2
  <2>2. Height[b] = top + 1
    BY <1>1, <1>2, <1>4, <1>6, <2>1
  <2> QED
    BY <1>1, <1>5, <2>2
<1>8. \A b, c \in headers : Previous[b] = Previous[c] => b = c
  <2> SUFFICES ASSUME NEW b \in headers, NEW c \in headers, Previous[b] = Previous[c]
               PROVE  b = c
    OBVIOUS
  <2>1. CASE b = Genesis \/ c = Genesis
    BY <1>4, <2>1
  <2>2. CASE b # Genesis /\ c # Genesis
    <3>1. Height[b] = Height[c]
      BY <1>4, <1>6, <2>2
    <3> QED
      BY <1>4, <3>1
  <2> QED
    BY <2>1, <2>2
<1>9. headers \cup {Genesis} = headers
  BY <1>3
<1> QED
  BY <1>2, <1>3, <1>6, <1>7, <1>8, <1>9 DEF Selection!IsChain

-----------------------------------------------------------------------------
(* Start-up and crashes.                                                   *)

\* Start-up writes the genesis block, and then only reads.
LEMMA BootStep ==
  ASSUME EveryBlockGood, AllInv, IndInv1', Sound', failures' = 0,
         WipeStore \/ PersistGenesis \/ PutVersion \/ StartLoad
  PROVE  GoodInv' /\ SelectionStep
<1> USE BlocksAssumption, HeaderAssumption
<1>1. ~BatchFails
  BY NoBatchFails DEF AllInv, IndInv1, StoreShape
<1>2. /\ pc \in {"boot", "genesis", "version"} /\ Index = {}
  <2>1. pc \in {"boot", "genesis", "version"}
    BY DEF WipeStore, PersistGenesis, PutVersion, StartLoad
  <2> QED
    BY <2>1 DEF AllInv, IndInv1, CallShape
<1>3. UNCHANGED <<Index, WorkSum, Orphans, reorgState>>
  BY DEF WipeStore, PersistGenesis, PutVersion, StartLoad, memVars
<1>4. pc' \in {"boot", "genesis", "version", "load"}
  <2>1. pc' # "exit"
    BY DEF Sound, BootInv
  <2> QED
    BY <1>1, <2>1 DEF WipeStore, PersistGenesis, PutVersion, StartLoad, InitWriteFails
<1>5. Starting /\ Starting' /\ ~Reorganising'
  BY <1>2, <1>4 DEF Starting, Reorganising
<1>6. Orphans' = {}
  BY <1>4 DEF IndInv1, CallShape
<1>7. \/ /\ version = 0 /\ headers \subseteq {Genesis} /\ current.hash \in {NoBlock, Genesis}
         /\ headers' \subseteq {Genesis} /\ current'.hash \in {NoBlock, Genesis}
      \/ headers' = headers /\ current' = current /\ version = 1 /\ version' = 1
  <2>1. CASE WipeStore \/ PersistGenesis \/ PutVersion
    <3>1. version = 0
      BY <2>1 DEF WipeStore, PersistGenesis, PutVersion, AllInv, Sound, BootInv, IndInv1, StoreShape
    <3>2. headers \subseteq {Genesis} /\ current.hash \in {NoBlock, Genesis}
      BY <3>1 DEF AllInv, GoodInv
    <3>3. headers' \subseteq {Genesis} /\ current'.hash \in {NoBlock, Genesis}
      BY <1>1, <2>1, <3>2 DEF WipeStore, PersistGenesis, PutVersion, InitWriteFails, PersistBatch,
                              PersistTrimmedBlock, PersistCurrentBlock
    <3> QED
      BY <3>1, <3>2, <3>3
  <2>2. CASE StartLoad
    BY <2>2 DEF StartLoad, dbVars
  <2> QED
    BY <2>1, <2>2
<1>8. GoodInv'
  BY <1>2, <1>3, <1>5, <1>6, <1>7 DEF AllInv, GoodInv, WaitInv
<1>9. acceptedBlocks' = acceptedBlocks /\ tipBlock' = tipBlock
  BY <1>5, <1>7 DEF acceptedBlocks, tipBlock
<1> QED
  BY <1>8, <1>9 DEF SelectionStep

\* Every node that is loaded gets the work of its whole chain.
LEMMA LoadStep ==
  ASSUME EveryBlockGood, AllInv, IndInv1', Sound', failures' = 0, LoadStored
  PROVE  GoodInv' /\ SelectionStep
<1> USE BlocksAssumption, HeaderAssumption, HeightAssumption, TotalWorkAssumption
<1> DEFINE b == hashAt[loadHeight]
<1>1. /\ pc = "load" /\ loadHeight <= currentBlockHeight
      /\ UNCHANGED <<headers, hashAt, current, version, Orphans, reorgState>>
  BY DEF LoadStored, dbVars
<1>2. /\ b \in headers /\ (Previous[b] \in Index \/ Index = {})
      /\ pc' = "load" /\ LoadBlockNode(b)
  BY DEF LoadStored, Sound, BootInv
<1>3. /\ b \in headers /\ b \in Blocks
      /\ version = 1 /\ ChainInStore
      /\ (loadHeight = 0 <=> Index = {}) /\ Index \subseteq Blocks
  BY <1>1, <1>2 DEF LoadStored, AllInv, IndInv1, StoreShape, CallShape, MemoryShape, Sound, BootInv
<1>4. Index = {} => b = Genesis
  BY <1>3 DEF ChainInStore
<1>5. /\ WorkSum \in [Blocks -> Nat] /\ \A c \in Index : WorkSum[c] = TotalWork[c]
      /\ Index \cap {NoBlock} = {}
  BY <1>3 DEF AllInv, IndInv1, MemoryShape, GoodInv
<1>6. /\ WorkSum' = [WorkSum EXCEPT ![b] =
                       IF Previous[b] \in Index THEN WorkSum[Previous[b]] + Work[b] ELSE Work[b]]
      /\ Index' = Index \cup {b}
  BY <1>2 DEF LoadBlockNode
<1> HIDE DEF b
<1>7. WorkSum'[b] = TotalWork[b] /\ \A c \in Blocks : c # b => WorkSum'[c] = WorkSum[c]
  <2>1. CASE Previous[b] \in Index
    <3>1. Previous[b] \in Blocks /\ b # Genesis
      BY <1>3, <1>5, <2>1
    <3>2. TotalWork[b] = TotalWork[Previous[b]] + Work[b]
      BY <1>3, <3>1
    <3> QED
      BY <1>3, <1>5, <1>6, <2>1, <3>2
  <2>2. CASE Previous[b] \notin Index
    BY <1>2, <1>3, <1>4, <1>5, <1>6, <2>2
  <2> QED
    BY <2>1, <2>2
<1>8. \A c \in Index' : WorkSum'[c] = TotalWork[c]
  BY <1>3, <1>5, <1>6, <1>7
<1>9. Starting /\ Starting' /\ ~Reorganising'
  BY <1>1, <1>2 DEF Starting, Reorganising
<1>10. Orphans' = {}
  BY <1>2 DEF IndInv1, CallShape
<1>11. GoodInv'
  BY <1>1, <1>3, <1>8, <1>9, <1>10 DEF AllInv, GoodInv, WaitInv
<1>12. acceptedBlocks' = acceptedBlocks /\ tipBlock' = tipBlock
  BY <1>1, <1>9 DEF acceptedBlocks, tipBlock
<1> QED
  BY <1>11, <1>12 DEF SelectionStep

\* What is loaded in the end is the stored chain.
LEMMA FinishLoadStep ==
  ASSUME EveryBlockGood, AllInv, IndInv1', Sound', failures' = 0, FinishLoad
  PROVE  GoodInv' /\ SelectionStep
<1> USE BlocksAssumption, HeaderAssumption, HeightAssumption
<1>1. /\ pc = "load" /\ pc' = "idle"
      /\ UNCHANGED <<Index, WorkSum, BestChain, headers, hashAt, current, version, Orphans, reorgState>>
  BY DEF FinishLoad, memVars, dbVars
<1>2. Starting /\ ~Starting' /\ ~Reorganising'
  BY <1>1 DEF Starting, Reorganising
<1>3. Orphans' = {}
  BY <1>1 DEF AllInv, IndInv1, CallShape
<1>4. BestChain = current.hash /\ headers \subseteq Index /\ version = 1 /\ ChainInStore
  BY <1>1, <1>2 DEF Sound, MemoryInv, AllInv, BootInv, IndInv1, StoreShape
<1>5. Index \subseteq headers
  BY <1>1 DEF AllInv, Sound, BootInv
<1>6. current.hash \in Blocks /\ headers \cup {Genesis} = headers
  BY <1>4, StoreIsChain DEF AllInv, IndInv1
<1>7. acceptedBlocks = headers /\ tipBlock = current.hash
  BY <1>2, <1>6 DEF acceptedBlocks, tipBlock
<1>8. acceptedBlocks' = Index /\ tipBlock' = BestChain
  BY <1>1, <1>2 DEF acceptedBlocks, tipBlock
<1>9. GoodInv'
  BY <1>1, <1>2, <1>3, <1>4 DEF AllInv, GoodInv, WaitInv
<1> QED
  BY <1>4, <1>5, <1>7, <1>8, <1>9 DEF SelectionStep

\* What a crash leaves is the stored chain.
LEMMA CrashStep ==
  ASSUME EveryBlockGood, AllInv, IndInv1', Sound', failures' = 0, Crash
  PROVE  GoodInv' /\ SelectionStep
<1> USE BlocksAssumption, HeaderAssumption, HeightAssumption
<1>1. /\ pc' = "boot" /\ Index' = {} /\ Orphans' = {} /\ reorgState' = "clean"
      /\ UNCHANGED <<headers, hashAt, current, version>>
  BY DEF Crash, ClearMemory, dbVars
<1>2. Starting' /\ ~Reorganising'
  BY <1>1 DEF Starting, Reorganising
<1>3. GoodInv'
  BY <1>1, <1>2 DEF AllInv, GoodInv, WaitInv
<1>4. CASE Starting
  <2>1. acceptedBlocks' = acceptedBlocks /\ tipBlock' = tipBlock
    BY <1>1, <1>2, <1>4 DEF acceptedBlocks, tipBlock
  <2> QED
    BY <1>3, <2>1 DEF SelectionStep
<1>5. CASE ~Starting
  <2>1. /\ ChainInStore /\ StoreShape /\ headers \subseteq Index
        /\ Index \subseteq Blocks /\ BestChain \in Index
    BY <1>5, RunningFacts DEF AllInv
  <2>2. /\ current.hash \in headers /\ current.hash \in Blocks
        /\ headers \cup {Genesis} = headers /\ Selection!IsChain(headers, current.hash)
    BY <2>1, StoreIsChain
  <2>3. acceptedBlocks' = headers /\ tipBlock' = current.hash
    BY <1>1, <1>2, <2>2 DEF acceptedBlocks, tipBlock
  <2>4. \E b \in Blocks : headers \subseteq acceptedBlocks \cup {b}
    <3>1. CASE Reorganising
      <4>1. node \in Blocks /\ acceptedBlocks = Index \ {node}
        BY <2>1, <3>1, MapReorganising DEF AllInv, IndInv1, CallShape
      <4> QED
        BY <2>1, <4>1
    <3>2. CASE ~Reorganising
      <4>1. acceptedBlocks = Index
        BY <1>5, <3>2 DEF acceptedBlocks
      <4> QED
        BY <2>1, <4>1
    <3> QED
      BY <3>1, <3>2
  <2>5. PICK b \in Blocks : headers \subseteq acceptedBlocks \cup {b}
    BY <2>4
  <2>6. Selection!Restart(b)
    BY <2>2, <2>3, <2>5 DEF Selection!Restart
  <2> QED
    BY <1>3, <2>6 DEF SelectionStep, Selection!Next
<1> QED
  BY <1>4, <1>5

-----------------------------------------------------------------------------
(* maybeAcceptBlock.                                                       *)

Queued(x) == \E i \in 1 .. Len(processHashes) : processHashes[i] = x

\* ProcessOrphans adds a block at the end of its queue.
LEMMA AppendQueued ==
  ASSUME processHashes \in Seq(Blocks), NEW b \in Blocks,
         processHashes' = Append(processHashes, b)
  PROVE  \A x : Queued(x) \/ x = b => Queued(x)'
<1>1. /\ Len(processHashes) \in Nat /\ Len(processHashes') = Len(processHashes) + 1
      /\ processHashes'[Len(processHashes) + 1] = b
      /\ \A i \in 1 .. Len(processHashes) : processHashes'[i] = processHashes[i]
  OBVIOUS
<1>2. ASSUME NEW x, x = b PROVE Queued(x)'
  <2>1. Len(processHashes) + 1 \in 1 .. Len(processHashes')
    BY <1>1
  <2> QED
    BY <1>1, <1>2, <2>1 DEF Queued
<1>3. ASSUME NEW x, Queued(x) PROVE Queued(x)'
  <2>1. PICK i \in 1 .. Len(processHashes) : processHashes[i] = x
    BY <1>3 DEF Queued
  <2>2. i \in 1 .. Len(processHashes')
    BY <1>1
  <2> QED
    BY <1>1, <2>1, <2>2 DEF Queued
<1> QED
  BY <1>2, <1>3

\* Between two reorganisations, every orphan that can be processed is queued.
LEMMA OrphansQueued ==
  ASSUME AllInv, pc \in {"idle", "orphans"}
  PROVE  \A o \in Orphans : Previous[o] \in Index => Queued(Previous[o])
BY DEF AllInv, GoodInv, WaitInv, Queued, Reorganising

\* A good block is not rejected: it is accepted at once, or it is the end of a
\* chain for which the node leaves the one it is on.
LEMMA MaybeAcceptStep ==
  ASSUME EveryBlockGood, AllInv, failures' = 0,
         NEW b \in Blocks, b \notin Index, Previous[b] \in Index,
         pc \in {"idle", "orphans"}, MaybeAcceptBlock(b), Orphans' \subseteq Orphans
  PROVE  GoodInv' /\ SelectionStep
<1> USE BlocksAssumption, HeaderAssumption, TotalWorkAssumption
<1>1. /\ version = 1 /\ headers \subseteq Index /\ Index \subseteq Blocks
      /\ BestChain \in Index /\ Genesis \in headers
  BY RunningFacts DEF AllInv, Starting
<1>2. b # Genesis /\ b \notin headers /\ Previous[b] \in Blocks
  BY <1>1
<1>3. /\ WorkSum \in [Blocks -> Nat] /\ \A c \in Index : WorkSum[c] = TotalWork[c]
      /\ TotalWork[b] = TotalWork[Previous[b]] + Work[b]
      /\ Work[b] \in Nat /\ Work[b] > 0
      /\ processHashes \in Seq(Blocks) /\ reorgState = "clean"
  BY <1>2 DEF AllInv, IndInv1, MemoryShape, CallTypes, GoodInv, EveryBlockGood
<1>4. \A o \in Orphans' : Previous[o] \in Index => Queued(Previous[o])
  BY OrphansQueued
<1>5. acceptedBlocks = Index /\ tipBlock = BestChain
  BY MapRunning
<1>6. ~RejectBlock(b)
  <2>1. WellPlaced(b)
    BY <1>2 DEF WellPlaced, EveryBlockGood
  <2>2. FALSE \notin CheckResult[b]
    BY DEF EveryBlockGood
  <2> QED
    BY <1>2, <2>1, <2>2 DEF RejectBlock, ConnectRefused
<1>7. WorkSum' = [WorkSum EXCEPT ![b] = WorkSum[Previous[b]] + Work[b]] /\ Index' = Index \cup {b}
  BY <1>6 DEF MaybeAcceptBlock, ExtendBestChain, AddSideBlock, NewNodeWork, ConnectBlock
<1>8. \A c \in Index' : WorkSum'[c] = TotalWork[c]
  BY <1>1, <1>3, <1>7
<1>9. version' = version
  BY <1>6 DEF MaybeAcceptBlock, ExtendBestChain, AddSideBlock, ConnectBlock, SaveBlock,
              PersistBatch, BatchFails, dbVars
<1>10. ASSUME ReturnAccepted(b), reorgState' = reorgState,
              BestChain' = IF TotalWork[b] > TotalWork[BestChain] THEN b ELSE BestChain
       PROVE  GoodInv' /\ SelectionStep
  <2>1. pc' = "orphans" /\ processHashes' = Append(processHashes, b)
    BY <1>10 DEF ReturnAccepted
  <2>2. \A x : Queued(x) \/ x = b => Queued(x)'
    BY <1>3, <2>1, AppendQueued
  <2>3. \A o \in Orphans' : Previous[o] \in Index' => Queued(Previous[o])'
    BY <1>4, <1>7, <2>2
  <2>4. WaitInv'
    BY <2>1, <2>3 DEF WaitInv, Queued
  <2>5. ~Reorganising' /\ acceptedBlocks' = Index' /\ tipBlock' = BestChain'
    BY <2>1 DEF acceptedBlocks, tipBlock, Starting, Reorganising
  <2>6. GoodInv'
    BY <1>1, <1>3, <1>8, <1>9, <1>10, <2>4, <2>5 DEF GoodInv
  <2>7. Selection!Accept(b)
    BY <1>5, <1>7, <1>10, <2>5 DEF Selection!Accept
  <2> QED
    BY <2>6, <2>7 DEF SelectionStep, Selection!Next
<1>11. CASE ExtendBestChain(b)
  <2>1. /\ Previous[b] = BestChain /\ BestChain' = b
        /\ ReturnAccepted(b) /\ reorgState' = reorgState
    BY <1>11 DEF ExtendBestChain, ConnectBlock
  <2>2. TotalWork[b] > TotalWork[BestChain]
    BY <1>1, <1>3, <2>1
  <2> QED
    BY <1>10, <2>1, <2>2
<1>12. CASE AddSideBlock(b) /\ ~Heavier(b)
  <2>1. ReturnAccepted(b) /\ reorgState' = reorgState /\ BestChain' = BestChain
    BY <1>12 DEF AddSideBlock
  <2>2. ~(TotalWork[b] > TotalWork[BestChain])
    BY <1>1, <1>3, <1>12 DEF Heavier
  <2> QED
    BY <1>10, <2>1, <2>2
<1>13. CASE AddSideBlock(b) /\ Heavier(b)
  <2>1. /\ pc' = "fork" /\ node' = b /\ reorgFrom' = BestChain
        /\ processHashes' = processHashes /\ reorgState' = reorgState
    BY <1>13 DEF AddSideBlock
  <2>2. Reorganising'
    BY <2>1 DEF Reorganising
  <2>3. TotalWork[b] > TotalWork[BestChain]
    BY <1>1, <1>3, <1>13 DEF Heavier
  <2>4. WaitInv'
    <3>1. \A o \in Orphans' : Previous[o] \in Index' => Queued(Previous[o]) \/ Previous[o] = b
      BY <1>4, <1>7
    <3>2. \A x : Queued(x) => Queued(x)'
      BY <2>1 DEF Queued
    <3>3. \A o \in Orphans' : Previous[o] \in Index' => Queued(Previous[o])' \/ Previous[o] = b
      BY <3>1, <3>2
    <3> QED
      BY <2>1, <2>2, <3>3 DEF WaitInv, Queued
  <2>5. GoodInv'
    BY <1>1, <1>2, <1>3, <1>7, <1>8, <1>9, <2>1, <2>2, <2>3, <2>4 DEF GoodInv
  <2>6. acceptedBlocks' = Index' \ {b} /\ tipBlock' = BestChain
    BY <2>1 DEF acceptedBlocks, tipBlock, Starting, Reorganising
  <2>7. acceptedBlocks' = acceptedBlocks /\ tipBlock' = tipBlock
    BY <1>5, <1>7, <2>6
  <2> QED
    BY <2>5, <2>7 DEF SelectionStep
<1> QED
  BY <1>6, <1>11, <1>12, <1>13 DEF MaybeAcceptBlock

-----------------------------------------------------------------------------
(* A reorganisation.                                                       *)

\* A step inside a reorganisation shows nothing of it to the outside.
LEMMA InsideStep ==
  ASSUME AllInv, Reorganising, Reorganising', failures' = 0,
         UNCHANGED <<Index, WorkSum, version, Orphans, processHashes, node, reorgFrom, reorgState>>
  PROVE  GoodInv' /\ SelectionStep
<1>1. version = 1
  BY RunningFacts DEF AllInv, Starting, Reorganising
<1>2. acceptedBlocks = Index \ {node} /\ tipBlock = reorgFrom
  BY MapReorganising
<1>3. acceptedBlocks' = Index' \ {node'} /\ tipBlock' = reorgFrom'
  BY DEF acceptedBlocks, tipBlock, Starting, Reorganising
<1>4. WaitInv'
  <2>1. \A o \in Orphans : Previous[o] \in Index =>
          Previous[o] = node \/ \E i \in 1 .. Len(processHashes) : processHashes[i] = Previous[o]
    BY DEF AllInv, GoodInv, WaitInv
  <2>2. pc' # "idle"
    BY DEF Reorganising
  <2> QED
    BY <2>1, <2>2 DEF WaitInv
<1>5. GoodInv'
  BY <1>1, <1>4 DEF AllInv, GoodInv
<1> QED
  BY <1>2, <1>3, <1>5 DEF SelectionStep

LEMMA ReorganiseStep ==
  ASSUME EveryBlockGood, AllInv, IndInv1', failures' = 0,
         WalkToFork \/ CheckBlockCache \/ DisconnectBlock \/ DisconnectDone \/ AttachBlock
  PROVE  GoodInv' /\ SelectionStep
<1> USE BlocksAssumption, HeaderAssumption, HeightAssumption
<1>1. pc \in {"fork", "detach", "attach"} /\ Reorganising /\ ~Starting
  BY DEF WalkToFork, CheckBlockCache, DisconnectBlock, DisconnectDone, AttachBlock,
         Reorganising, Starting
<1>2. /\ version = 1 /\ ChainInStore /\ StoreShape /\ BestChain = current.hash
      /\ InMainChain = headers /\ headers \subseteq Index
      /\ BlockCache = Index \ InMainChain
      /\ \A c \in Index \ {Genesis} : Height[c] = Height[Previous[c]] + 1
      /\ Index \subseteq Blocks /\ attachNodes \in Seq(Blocks) /\ Genesis \in headers
  BY <1>1, RunningFacts DEF AllInv
<1>3. current.hash \in headers /\ current.hash \in Blocks
  BY <1>2, StoreIsChain
<1>4. CASE WalkToFork
  <2>1. /\ UNCHANGED <<Index, WorkSum, version, Orphans, processHashes, node, reorgFrom, reorgState>>
        /\ pc' = "fork"
    BY <1>4 DEF WalkToFork, memVars, dbVars
  <2> QED
    BY <1>1, <2>1, InsideStep DEF Reorganising
<1>5. CASE CheckBlockCache
  <2>1. \A i \in 1 .. Len(attachNodes) : attachNodes[i] \in BlockCache
    <3>1. pc = "fork"
      BY <1>5 DEF CheckBlockCache
    <3>2. \A i \in 1 .. Len(attachNodes) : attachNodes[i] \notin InMainChain /\ attachNodes[i] \in Index
      BY <1>1, <3>1 DEF AllInv, Sound, AttachInv, IndInv1, CallShape
    <3> QED
      BY <1>2, <3>2
  <2>2. /\ UNCHANGED <<Index, WorkSum, version, Orphans, processHashes, node, reorgFrom, reorgState>>
        /\ pc' = "detach"
    BY <1>5, <2>1 DEF CheckBlockCache, memVars, dbVars, reorgVars
  <2> QED
    BY <1>1, <2>2, InsideStep DEF Reorganising
<1>6. CASE DisconnectBlock
  <2>1. /\ UNCHANGED <<Index, WorkSum, pc, Orphans, processHashes, node, reorgFrom, reorgState>>
        /\ RollbackBlock(BestChain)
    BY <1>2, <1>3, <1>6 DEF DisconnectBlock, reorgVars
  <2>2. version' = version
    BY <2>1 DEF RollbackBlock, RollbackBatch, BatchFails, dbVars
  <2> QED
    BY <1>1, <2>1, <2>2, InsideStep DEF Reorganising
<1>7. CASE DisconnectDone
  <2>1. /\ UNCHANGED <<Index, WorkSum, version, Orphans, processHashes, node, reorgFrom, reorgState>>
        /\ pc' = "attach"
    BY <1>7 DEF DisconnectDone, memVars, dbVars, reorgVars
  <2> QED
    BY <1>1, <2>1, InsideStep DEF Reorganising
<1>8. CASE AttachBlock
  <2> DEFINE b == Head(attachNodes)
  <2>1. /\ pc = "attach" /\ attachNodes # << >>
        /\ \/ ConnectBlock(b) /\ UNCHANGED <<WorkSum, pc, processHashes, reorgState>>
           \/ ConnectRefused(b)
        /\ UNCHANGED <<node, reorgFrom, Orphans>>
    BY <1>8 DEF AttachBlock
  <2>2. b = attachNodes[1] /\ Len(attachNodes) \in Nat /\ Len(attachNodes) > 0
    BY <1>2, <2>1, PopFront
  <2>3. b \in Index /\ b \in Blocks
    BY <1>1, <1>2, <2>2 DEF AllInv, IndInv1, CallShape
  <2>4. Previous[b] = BestChain
    BY <1>1, <2>1, <2>2 DEF AllInv, Sound, AttachInv
  <2> HIDE DEF b
  <2>5. b \notin headers
    <3>1. b # Genesis
      BY <1>2, <1>3, <2>4
    <3>2. Height[b] = Height[current.hash] + 1 /\ Height[b] \in Heights
      BY <1>2, <2>3, <2>4, <3>1
    <3>3. current.height \in Heights /\ current.hash = hashAt[current.height]
      BY <1>2 DEF StoreShape, ChainInStore
    <3>4. Height[current.hash] = current.height
      BY <1>2, <3>3, ChainBelow
    <3>5. hashAt[Height[b]] = NoBlock
      <4>1. Height[b] > current.height
        BY <3>2, <3>3, <3>4
      <4> QED
        BY <1>2, <3>2, <4>1, ChainAbove
    <3> QED
      BY <1>2, <2>3, <3>5 DEF ChainInStore
  <2>6. ~ConnectRefused(b)
    <3>1. FALSE \notin CheckResult[b]
      BY <2>3, ZenonT(60) DEF EveryBlockGood
    <3> QED
      BY <2>4, <2>5, <3>1 DEF ConnectRefused
  <2>7. ConnectBlock(b) /\ UNCHANGED <<WorkSum, pc, processHashes, reorgState>>
    BY <2>1, <2>6
  <2>8. Index' = Index
    BY <2>3, <2>7 DEF ConnectBlock
  <2>9. version' = version
    BY <2>7 DEF ConnectBlock, SaveBlock, PersistBatch, BatchFails, dbVars
  <2> QED
    BY <1>1, <2>1, <2>7, <2>8, <2>9, InsideStep DEF Reorganising
<1> QED
  BY <1>4, <1>5, <1>6, <1>7, <1>8

\* The end of a reorganisation is when ChainSelection accepts the block.
LEMMA ReorganizeDoneStep ==
  ASSUME EveryBlockGood, AllInv, failures' = 0, ReorganizeDone
  PROVE  GoodInv' /\ SelectionStep
<1> USE BlocksAssumption, HeaderAssumption, HeightAssumption
<1>1. /\ pc = "attach" /\ attachNodes = << >> /\ ReturnAccepted(node)
      /\ UNCHANGED <<Index, WorkSum, BestChain, version, Orphans, reorgState>>
  BY DEF ReorganizeDone, memVars, dbVars
<1>2. Reorganising /\ ~Starting
  BY <1>1 DEF Reorganising, Starting
<1>3. /\ version = 1 /\ Index \subseteq Blocks
      /\ \A c \in Index \ {Genesis} : Height[c] = Height[Previous[c]] + 1
  BY <1>2, RunningFacts DEF AllInv
<1>4. /\ BestChain = node /\ node \in Index /\ node \in Blocks /\ node # Genesis
      /\ reorgFrom \in Index /\ TotalWork[node] > TotalWork[reorgFrom]
      /\ processHashes \in Seq(Blocks) /\ Previous[node] \in Index
  BY <1>1, <1>2, <1>3 DEF AllInv, Sound, AttachInv, GoodInv, IndInv1, CallShape, CallTypes, MemoryShape
<1>5. Previous[node] # node
  BY <1>3, <1>4
<1>6. /\ pc' = "orphans" /\ processHashes' = Append(processHashes, node)
  BY <1>1 DEF ReturnAccepted
<1>7. ~Reorganising' /\ acceptedBlocks' = Index /\ tipBlock' = node
  BY <1>1, <1>4, <1>6 DEF acceptedBlocks, tipBlock, Starting, Reorganising
<1>8. acceptedBlocks = Index \ {node} /\ tipBlock = reorgFrom
  BY <1>2, MapReorganising
<1>9. Selection!Accept(node)
  BY <1>4, <1>5, <1>7, <1>8 DEF Selection!Accept
<1>10. WaitInv'
  <2>1. \A o \in Orphans : Previous[o] \in Index => Queued(Previous[o]) \/ Previous[o] = node
    BY DEF AllInv, GoodInv, WaitInv, Queued
  <2>2. \A x : Queued(x) \/ x = node => Queued(x)'
    BY <1>4, <1>6, AppendQueued
  <2>3. \A o \in Orphans' : Previous[o] \in Index' => Queued(Previous[o])'
    BY <1>1, <2>1, <2>2
  <2> QED
    BY <1>6, <2>3 DEF WaitInv, Queued
<1>11. GoodInv'
  BY <1>1, <1>3, <1>7, <1>10 DEF AllInv, GoodInv
<1> QED
  BY <1>4, <1>9, <1>11 DEF SelectionStep, Selection!Next

-----------------------------------------------------------------------------
(* ProcessBlock and ProcessOrphans.                                        *)

LEMMA ProcessBlockStep ==
  ASSUME EveryBlockGood, AllInv, failures' = 0, NEW b \in Blocks, ProcessBlock(b)
  PROVE  GoodInv' /\ SelectionStep
<1>1. pc = "idle" /\ ~Starting /\ b \notin Index
  BY DEF ProcessBlock, BlockExists, Starting
<1>2. version = 1 /\ headers \subseteq Index
  BY <1>1, RunningFacts DEF AllInv
<1>3. CASE ~BlockExists(Previous[b]) /\ AddOrphanBlock(b)
  <2>1. /\ pc' = "idle" /\ Orphans' \subseteq Orphans \cup {b}
        /\ UNCHANGED <<Index, WorkSum, BestChain, version, processHashes, reorgState>>
    BY <1>1, <1>3 DEF AddOrphanBlock, memVars, dbVars
  <2>2. Previous[b] \notin Index
    BY <1>3 DEF BlockExists
  <2>3. \A o \in Orphans : Previous[o] \notin Index
    BY <1>1 DEF AllInv, GoodInv, WaitInv
  <2>4. WaitInv'
    BY <2>1, <2>2, <2>3 DEF WaitInv
  <2>5. ~Reorganising'
    BY <2>1 DEF Reorganising
  <2>6. GoodInv'
    BY <1>2, <2>1, <2>4, <2>5 DEF AllInv, GoodInv
  <2>7. acceptedBlocks' = acceptedBlocks /\ tipBlock' = tipBlock
    BY <1>1, <2>1 DEF acceptedBlocks, tipBlock, Starting, Reorganising
  <2> QED
    BY <2>6, <2>7 DEF SelectionStep
<1>4. CASE Previous[b] \in Index /\ MaybeAcceptBlock(b) /\ UNCHANGED Orphans
  BY <1>1, <1>4, MaybeAcceptStep
<1>5. ~(Previous[b] \notin Index /\ BlockExists(Previous[b]))
  BY <1>2 DEF BlockExists
<1> QED
  BY <1>3, <1>4, <1>5 DEF ProcessBlock

LEMMA ProcessOrphanStep ==
  ASSUME EveryBlockGood, AllInv, failures' = 0, NEW b \in Blocks, ProcessOrphan(b)
  PROVE  GoodInv' /\ SelectionStep
<1>1. /\ pc = "orphans" /\ ~Starting /\ b \in Orphans /\ Orphans' \subseteq Orphans
      /\ Previous[b] = Head(processHashes) /\ MaybeAcceptBlock(b)
  BY DEF ProcessOrphan, Starting
<1>2. b \notin Index
  BY <1>1, RunningFacts DEF AllInv
<1>3. Previous[b] \in Index
  BY <1>1 DEF AllInv, IndInv1, CallShape, CallTypes
<1> QED
  BY <1>1, <1>2, <1>3, MaybeAcceptStep

\* A block leaves the queue when no orphan waits for it.
LEMMA NextProcessHashStep ==
  ASSUME EveryBlockGood, AllInv, failures' = 0, NextProcessHash
  PROVE  GoodInv' /\ SelectionStep
<1>1. /\ pc = "orphans" /\ \A o \in Orphans : Previous[o] # Head(processHashes)
      /\ processHashes' = Tail(processHashes)
      /\ pc' = IF Len(processHashes) = 1 THEN "idle" ELSE "orphans"
      /\ UNCHANGED <<Index, WorkSum, BestChain, version, Orphans, reorgState>>
  BY DEF NextProcessHash, memVars, dbVars
<1>2. processHashes \in Seq(Blocks) /\ processHashes # << >>
  BY <1>1 DEF AllInv, IndInv1, CallTypes, CallShape
<1>3. /\ Head(processHashes) = processHashes[1] /\ Len(processHashes) \in Nat
      /\ Len(processHashes') = Len(processHashes) - 1
      /\ \A i \in 1 .. Len(processHashes') : processHashes'[i] = processHashes[i + 1]
  BY <1>1, <1>2
<1>4. ASSUME NEW x, Queued(x), x # Head(processHashes)
      PROVE  Queued(x)' /\ Len(processHashes) # 1
  <2>1. PICK i \in 1 .. Len(processHashes) : processHashes[i] = x
    BY <1>4 DEF Queued
  <2>2. i # 1
    BY <1>3, <1>4, <2>1
  <2>3. i - 1 \in 1 .. Len(processHashes') /\ (i - 1) + 1 = i /\ Len(processHashes) # 1
    BY <1>3, <2>1, <2>2
  <2>4. processHashes'[i - 1] = x
    BY <1>3, <2>1, <2>3
  <2> QED
    BY <2>3, <2>4 DEF Queued
<1>5. WaitInv'
  <2>1. \A o \in Orphans : Previous[o] \in Index => Queued(Previous[o])
    BY <1>1, OrphansQueued
  <2>2. \A o \in Orphans : Previous[o] \in Index => Queued(Previous[o])' /\ Len(processHashes) # 1
    BY <1>1, <1>4, <2>1
  <2> QED
    BY <1>1, <2>2 DEF WaitInv, Queued
<1>6. pc' \in {"idle", "orphans"} /\ ~Reorganising'
  BY <1>1 DEF Reorganising
<1>7. version = 1
  BY <1>1, RunningFacts DEF AllInv, Starting
<1>8. GoodInv'
  BY <1>1, <1>5, <1>6, <1>7 DEF AllInv, GoodInv
<1>9. acceptedBlocks' = acceptedBlocks /\ tipBlock' = tipBlock
  BY <1>1, <1>6 DEF acceptedBlocks, tipBlock, Starting, Reorganising
<1> QED
  BY <1>8, <1>9 DEF SelectionStep

LEMMA StutterStep ==
  ASSUME AllInv, UNCHANGED vars
  PROVE  GoodInv' /\ SelectionStep
<1> USE DEF vars, memVars, dbVars, heightVars, reorgVars
<1>1. GoodInv'
  BY DEF AllInv, GoodInv, WaitInv, Reorganising
<1>2. acceptedBlocks' = acceptedBlocks /\ tipBlock' = tipBlock
  BY DEF acceptedBlocks, tipBlock, Starting, Reorganising
<1> QED
  BY <1>1, <1>2 DEF SelectionStep

-----------------------------------------------------------------------------
(* The theorems.                                                           *)

LEMMA InitGood ==
  ASSUME Init
  PROVE  AllInv /\ Selection!Init
<1> USE BlocksAssumption
<1>1. IndInv1 /\ Sound
  BY InitIndInv1, InitIndInv2 DEF IndInv2, Init
<1>2. GoodInv
  BY DEF Init, GoodInv, WaitInv, Reorganising
<1>3. Selection!Init
  BY DEF Init, Selection!Init, acceptedBlocks, tipBlock, Starting
<1> QED
  BY <1>1, <1>2, <1>3 DEF AllInv

LEMMA NextGood ==
  ASSUME EveryBlockGood, AllInv, [Next]_vars
  PROVE  AllInv' /\ SelectionStep
<1>1. failures' = 0
  <2>1. failures = 0
    BY DEF AllInv, GoodInv
  <2>2. ~BatchFails
    BY <2>1, NoBatchFails
  <2> QED
    BY <2>1, <2>2, FailuresKept DEF AllInv
<1>2. IndInv1' /\ Sound'
  BY <1>1, NextIndInv1, NextIndInv2 DEF AllInv, IndInv2
<1>3. CASE Proceed
  <2>1. ~AcceptAfterLoad
    BY DEF AcceptAfterLoad, AllInv, Sound, BootInv
  <2>2. CASE WipeStore \/ PersistGenesis \/ PutVersion \/ StartLoad
    BY <1>1, <1>2, <2>2, BootStep DEF AllInv
  <2>3. CASE LoadStored
    BY <1>1, <1>2, <2>3, LoadStep DEF AllInv
  <2>4. CASE FinishLoad
    BY <1>1, <1>2, <2>4, FinishLoadStep DEF AllInv
  <2>5. CASE WalkToFork \/ CheckBlockCache \/ DisconnectBlock \/ DisconnectDone \/ AttachBlock
    BY <1>1, <1>2, <2>5, ReorganiseStep DEF AllInv
  <2>6. CASE ReorganizeDone
    BY <1>1, <1>2, <2>6, ReorganizeDoneStep DEF AllInv
  <2>7. ASSUME NEW b \in Blocks, ProcessOrphan(b) PROVE AllInv' /\ SelectionStep
    BY <1>1, <1>2, <2>7, ProcessOrphanStep DEF AllInv
  <2>8. CASE NextProcessHash
    BY <1>1, <1>2, <2>8, NextProcessHashStep DEF AllInv
  <2> QED
    BY <1>3, <2>1, <2>2, <2>3, <2>4, <2>5, <2>6, <2>7, <2>8 DEF Proceed
<1>4. ASSUME NEW b \in Blocks, ProcessBlock(b) PROVE AllInv' /\ SelectionStep
  BY <1>1, <1>2, <1>4, ProcessBlockStep DEF AllInv
<1>5. CASE UNCHANGED vars
  BY <1>2, <1>5, StutterStep DEF AllInv
<1>6. ASSUME NEW b \in Blocks, RefuseKnownBlock(b) PROVE AllInv' /\ SelectionStep
  BY <1>5, <1>6 DEF RefuseKnownBlock
<1>7. CASE Crash
  BY <1>1, <1>2, <1>7, CrashStep DEF AllInv
<1> QED
  BY <1>3, <1>4, <1>5, <1>6, <1>7 DEF Next

\* Where every block is good and LevelDB takes every batch, block acceptance
\* with its side chains, reorganisations, orphans, crashes and restarts is a
\* ChainSelection: it accepts one block at a time and its tip is the heaviest
\* block, the first one of several; a restart falls back to one chain of it.
THEOREM AcceptanceRefinesSelection ==
  ASSUME EveryBlockGood
  PROVE  Spec => ImplementsChainSelection
<1>1. Init => AllInv /\ Selection!Init
  BY InitGood
<1>2. AllInv /\ [Next]_vars => AllInv' /\ [Selection!Next]_<<acceptedBlocks, tipBlock>>
  BY EveryBlockGood, NextGood DEF SelectionStep
<1> QED
  BY <1>1, <1>2, PTL DEF Spec, ImplementsChainSelection, Selection!Spec

\* Where every block is good and LevelDB takes every batch, no orphan waits
\* for a block that is there when AddBlock returns: ProcessOrphans follows the
\* whole tree of orphans, and goes on after a reorganisation.
THEOREM NoOrphanLeftBehind ==
  ASSUME EveryBlockGood
  PROVE  Spec => []OrphansResolved
<1>1. Init => AllInv
  BY InitGood
<1>2. AllInv /\ [Next]_vars => AllInv'
  BY EveryBlockGood, NextGood
<1>3. AllInv => OrphansResolved
  BY DEF AllInv, GoodInv, WaitInv, OrphansResolved
<1> QED
  BY <1>1, <1>2, <1>3, PTL DEF Spec

=============================================================================
