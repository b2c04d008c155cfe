------------------------------ MODULE BlockSync ------------------------------
(***************************************************************************)
(* The synchronisation of blocks with other nodes (node/infoupdate.go,     *)
(* msghandler.go and the flags of node.go): the loop that asks the best    *)
(* neighbour for blocks, and the handlers of both sides of the protocol.   *)
(* The timer that ends sync mode is module SyncTimer.                      *)
(*                                                                         *)
(* The local node has a loop goroutine, timers and one reader per peer.    *)
(* Peers run the same program; here they answer, mine, reorganise and lose *)
(* connections.                                                            *)
(***************************************************************************)
EXTENDS Locator

CONSTANTS
  Peers, Blocks, Genesis, NoPeer,
  Previous,         \* of a block, EmptyHash for the genesis block
  BlockHeight,      \* of a block
  LocalChain,       \* the main chain the node starts with
  PeerChains,       \* the chains the peers may start with
  Growth,           \* bound: how often the chains of the peers change
  MaxCloses,        \* bound: how many connections break
  Backlog           \* bound: messages of a peer under way when the loop asks it again

ASSUME BlockSyncAssumption ==
  /\ EmptyHash \notin Blocks /\ Genesis \in Blocks /\ NoPeer \notin Peers
  /\ Growth \in Nat /\ MaxCloses \in Nat /\ Backlog \in Nat

\* A path from the genesis block.
IsChain(blocks) ==
  /\ blocks \in Seq(Blocks) /\ blocks # <<>> /\ blocks[1] = Genesis
  /\ \A i \in 2 .. Len(blocks) : blocks[i] # Genesis /\ Previous[blocks[i]] = blocks[i - 1]

\* Blocks are a tree, of which a node or a peer starts with a path.
ASSUME TreeAssumption ==
  /\ BlockHeight \in [Blocks -> Nat]
  /\ \A b \in Blocks \ {Genesis} :
       Previous[b] \in Blocks /\ BlockHeight[b] = BlockHeight[Previous[b]] + 1
  /\ IsChain(LocalChain) /\ \A blocks \in PeerChains : IsChain(blocks)

VARIABLES
  main, index, orphans,  \* the main chain, the blocks with a node, the orphans
  reorganising,          \* the block whose reorganisation is under way
  requested,             \* RequestedBlockList
  lost,                  \* history: those of them that will not come
  localSync,             \* the sync flag of LocalNode
  syncFlag,              \* the sync flags of the peers
  height,                \* the height each peer last told
  StartHash, StopHash,   \* what SendGetBlocks asked for last
  loop,                  \* where SyncBlocks is, with its syncNode and its hash
  stopping,              \* a timer has cleared localSync and not yet syncFlag
  chain, continueHash,   \* the peers' main chains and continueHash for this node
  up, in, out,           \* connections and what is under way in each direction
  grown, closes          \* bounded counters

ledgerVars == <<main, index, orphans, reorganising>>
requestVars == <<requested, lost>>
syncVars == <<localSync, syncFlag, StartHash, StopHash, stopping>>
peerVars == <<chain, continueHash, grown>>
linkVars == <<up, in, out, closes>>
vars == <<ledgerVars, requestVars, syncVars, height, loop, peerVars, linkVars>>

Best == Last(main)

Init ==
  /\ main = LocalChain /\ index = Range(LocalChain) /\ orphans = {}
  /\ reorganising = EmptyHash
  /\ requested = {} /\ lost = {} /\ localSync = FALSE
  /\ syncFlag = [p \in Peers |-> FALSE]
  /\ chain \in [Peers -> PeerChains]
  /\ height = [p \in Peers |-> Height(chain[p])]
  /\ StartHash = EmptyHash /\ StopHash = EmptyHash
  /\ loop = [at |-> "wait", peer |-> NoPeer, hash |-> EmptyHash]
  /\ stopping = FALSE
  /\ continueHash = [p \in Peers |-> EmptyHash]
  /\ up = [p \in Peers |-> TRUE]
  /\ in = [p \in Peers |-> <<>>] /\ out = [p \in Peers |-> <<>>]
  /\ grown = 0 /\ closes = 0

-----------------------------------------------------------------------------
(* The ledger, as the handlers use it.                                     *)

BlockInLedger(b) == b \in Range(main)
IsKnownOrphan(b) == b \in orphans

\* The orphan that nothing else in the pool precedes.
GetOrphanRoot(pool, b) ==
  LET root[x \in Blocks] == IF Previous[x] \in pool THEN root[Previous[x]] ELSE x
  IN  root[b]

\* The blocks from the genesis block to b.
ChainTo[b \in Blocks] == IF b = Genesis THEN <<b>> ELSE Append(ChainTo[Previous[b]], b)

\* The orphans that connect when b does.
Connected(b) == {x \in orphans : Range(ChainTo[x]) \subseteq index \cup orphans \cup {b}}

\* AddBlock of a block whose parent is known: it and the orphans that wait for it
\* get a node, and the highest of them becomes the tip if it is above the tip.
AddBlock(b) ==
  LET new == {b} \cup Connected(b)
      top == CHOOSE x \in new : \A y \in new : BlockHeight[y] <= BlockHeight[x]
  IN  /\ index' = index \cup new
      /\ orphans' = orphans \ new
      /\ main' = IF BlockHeight[top] > Height(main) THEN ChainTo[top] ELSE main

HashHeight(hash) == IF hash \in index THEN BlockHeight[hash] ELSE -1
LocatorFrom(hash) == BlockLocatorFromHash(main, hash, HashHeight(hash))

-----------------------------------------------------------------------------
(* Messages.                                                               *)

GetBlocksMsg(locator, stop) == [type |-> "getblocks", locator |-> locator, stop |-> stop]
GetDataMsg(hashes) == [type |-> "getdata", hashes |-> hashes]
InvMsg(hashes) == [type |-> "inv", hashes |-> hashes]
BlockMsg(b) == [type |-> "block", block |-> b]
PingMsg(h) == [type |-> "ping", height |-> h]

Received(p, type) == up[p] /\ in[p] # <<>> /\ Head(in[p]).type = type
ToServe(p, type) == up[p] /\ out[p] # <<>> /\ Head(out[p]).type = type

\* SendGetBlocks for each of the messages: one that was just sent is not sent
\* again.
SendAll(msgs) ==
  LET after[k \in 0 .. Len(msgs)] ==
        IF k = 0 THEN [start |-> StartHash, stop |-> StopHash, sent |-> <<>>]
        ELSE LET acc == after[k - 1]
                 m == msgs[k]
             IN  IF acc.start = m.locator[1] /\ acc.stop = m.stop
                   THEN acc
                   ELSE [start |-> m.locator[1], stop |-> m.stop,
                         sent |-> Append(acc.sent, m)]
  IN  after[Len(msgs)]

SendGetBlocks(p, locator, stop) ==
  LET asked == SendAll(<<GetBlocksMsg(locator, stop)>>)
  IN  /\ StartHash' = asked.start /\ StopHash' = asked.stop
      /\ out' = [q \in Peers |-> IF q = p /\ up[q] THEN out[q] \o asked.sent ELSE out[q]]

-----------------------------------------------------------------------------
(* The peer's side.                                                        *)

OnGetBlocks(p) ==
  LET msg == Head(out[p])
      start == LatestLocatorHash(chain[p], msg.locator)
      hashes == GetBlockHashes(chain[p], start, msg.stop, MaxBlocksPerMsg)
  IN  /\ ToServe(p, "getblocks")
      /\ out' = [out EXCEPT ![p] = Tail(@)]
      /\ in' = [in EXCEPT ![p] = IF hashes = <<>> THEN @ ELSE Append(@, InvMsg(hashes))]
      /\ continueHash' = [continueHash EXCEPT
           ![p] = IF Len(hashes) = MaxBlocksPerMsg THEN Last(hashes) ELSE @]
      /\ UNCHANGED <<ledgerVars, requestVars, syncVars, height, loop,
                     chain, grown, up, closes>>

\* The blocks, and the best hash after the one that ended a full answer.  What
\* comes after a block that is not in the store is not sent.
OnGetData(p) ==
  LET asked == Head(out[p]).hashes
      missing == {i \in DOMAIN asked : ~InStore(chain[p], asked[i])}
      hashes == SubSeq(asked, 1, IF missing = {} THEN Len(asked) ELSE Min(missing) - 1)
      Answer(h) == IF h = continueHash[p] THEN <<BlockMsg(h), InvMsg(<<Last(chain[p])>>)>>
                                          ELSE <<BlockMsg(h)>>
  IN  /\ ToServe(p, "getdata")
      /\ out' = [out EXCEPT ![p] = Tail(@)]
      /\ in' = [in EXCEPT ![p] = @ \o FlattenSeq([i \in DOMAIN hashes |-> Answer(hashes[i])])]
      /\ continueHash' = [continueHash EXCEPT
           ![p] = IF @ \in Range(hashes) THEN EmptyHash ELSE @]
      /\ lost' = lost \cup (requested \cap (Range(asked) \ Range(hashes)))
      /\ UNCHANGED <<ledgerVars, requested, syncVars, height, loop,
                     chain, grown, up, closes>>

\* A peer mines a block on its chain and relays it.
PeerMines(p) ==
  /\ grown < Growth
  /\ \E b \in Blocks :
       /\ Previous[b] = Last(chain[p])
       /\ chain' = [chain EXCEPT ![p] = Append(@, b)]
       /\ in' = [in EXCEPT ![p] = IF up[p] THEN Append(@, BlockMsg(b)) ELSE @]
  /\ grown' = grown + 1
  /\ UNCHANGED <<ledgerVars, requestVars, syncVars, height, loop,
                 continueHash, up, out, closes>>

\* A peer changes to a longer branch: what it announced may not be in its store any
\* more.  The block that made it do so is relayed, unless it is in sync mode.
PeerReorganises(p) ==
  /\ grown < Growth
  /\ \E b \in Blocks :
       /\ BlockHeight[b] > Height(chain[p]) /\ ~IsPrefix(chain[p], ChainTo[b])
       /\ chain' = [chain EXCEPT ![p] = ChainTo[b]]
       /\ \/ in' = [in EXCEPT ![p] = IF up[p] THEN Append(@, BlockMsg(b)) ELSE @]
          \/ UNCHANGED in
  /\ grown' = grown + 1
  /\ UNCHANGED <<ledgerVars, requestVars, syncVars, height, loop,
                 continueHash, up, out, closes>>

\* The next ping or pong of a peer, when it has something new to say.
PeerPings(p) ==
  /\ up[p] /\ height[p] # Height(chain[p])
  /\ \A i \in DOMAIN in[p] : in[p][i].type # "ping"
  /\ in' = [in EXCEPT ![p] = Append(@, PingMsg(Height(chain[p])))]
  /\ UNCHANGED <<ledgerVars, requestVars, syncVars, height, loop, peerVars,
                 up, out, closes>>

\* The blocks that were asked for or sent on a connection and not yet received.
UnderWay(p) ==
  UNION ({Range(m.hashes) : m \in {n \in Range(out[p]) : n.type = "getdata"}}
           \cup {{m.block} : m \in {n \in Range(in[p]) : n.type = "block"}})

\* The loop goes on with a node that nobody will connect again.
Disconnect(p) ==
  /\ up[p] /\ closes < MaxCloses
  /\ up' = [up EXCEPT ![p] = FALSE] /\ closes' = closes + 1
  /\ in' = [in EXCEPT ![p] = <<>>] /\ out' = [out EXCEPT ![p] = <<>>]
  /\ lost' = lost \cup (requested \cap UnderWay(p))
  /\ loop' = IF loop.peer = p THEN [loop EXCEPT !.peer = NoPeer] ELSE loop
  /\ UNCHANGED <<ledgerVars, requested, syncVars, height, peerVars>>

\* The new connection is a new node, on both sides.
Reconnect(p) ==
  /\ ~up[p]
  /\ up' = [up EXCEPT ![p] = TRUE]
  /\ syncFlag' = [syncFlag EXCEPT ![p] = FALSE]
  /\ height' = [height EXCEPT ![p] = Height(chain[p])]
  /\ continueHash' = [continueHash EXCEPT ![p] = EmptyHash]
  /\ UNCHANGED <<ledgerVars, requestVars, localSync, StartHash, StopHash, stopping,
                 loop, chain, grown, in, out, closes>>

-----------------------------------------------------------------------------
(* The readers of the local node.                                          *)

OnPing(p) ==
  /\ Received(p, "ping")
  /\ height' = [height EXCEPT ![p] = Head(in[p]).height]
  /\ in' = [in EXCEPT ![p] = Tail(@)]
  /\ UNCHANGED <<ledgerVars, requestVars, syncVars, loop, peerVars, up, out,
                 closes>>

HaveInv(b) == BlockInLedger(b) \/ IsKnownOrphan(b) \/ b \in requested

\* Unknown blocks are asked for.
Wanted(hashes) ==
  FlattenSeq([i \in DOMAIN hashes |->
    IF HaveInv(hashes[i]) THEN <<>> ELSE <<hashes[i]>>])

\* A known orphan asks for what is before it, and a known last block for what is
\* after it.
Questions(hashes) ==
  FlattenSeq([i \in DOMAIN hashes |->
    LET b == hashes[i] IN
    IF IsKnownOrphan(b)
      THEN <<GetBlocksMsg(LocatorFrom(Best), GetOrphanRoot(orphans, b))>>
    ELSE IF i = Len(hashes) /\ HaveInv(b)
      THEN <<GetBlocksMsg(LocatorFrom(b), EmptyHash)>>
    ELSE <<>>])

\* In sync mode only the sync peer is heard.
Ignores(p) == localSync /\ ~syncFlag[p]

OnInventory(p) ==
  LET hashes == Head(in[p]).hashes
      wanted == Wanted(hashes)
      asked == SendAll(Questions(hashes))
  IN  /\ Received(p, "inv") /\ reorganising = EmptyHash
      /\ in' = [in EXCEPT ![p] = Tail(@)]
      /\ IF Ignores(p)
           THEN UNCHANGED <<requested, StartHash, StopHash, out>>
           ELSE /\ requested' = requested \cup Range(wanted)
                /\ StartHash' = asked.start /\ StopHash' = asked.stop
                /\ out' = [out EXCEPT ![p] =
                             @ \o asked.sent
                               \o (IF wanted = <<>> THEN <<>> ELSE <<GetDataMsg(wanted)>>)]
      /\ UNCHANGED <<ledgerVars, lost, localSync, syncFlag, stopping, height, loop,
                     peerVars, up, closes>>

\* The rest of AddBlock for a block that starts a reorganisation.
Reorganise ==
  /\ reorganising # EmptyHash
  /\ AddBlock(reorganising)
  /\ reorganising' = EmptyHash
  /\ UNCHANGED <<requestVars, syncVars, height, loop, peerVars, linkVars>>

AcceptBlock(p, b) ==
  \/ /\ b \in index \cup orphans   \* an error, as is any block that is there
     /\ UNCHANGED <<ledgerVars, out, StartHash, StopHash>>
  \/ /\ b \notin index \cup orphans /\ Previous[b] \in index
     /\ IF Previous[b] # Best /\ BlockHeight[b] > Height(main)
          THEN reorganising' = b /\ UNCHANGED <<main, index, orphans>>
          ELSE AddBlock(b) /\ UNCHANGED reorganising
     /\ UNCHANGED <<out, StartHash, StopHash>>
  \/ /\ b \notin index \cup orphans /\ Previous[b] \notin index
     /\ orphans' = orphans \cup {b}
     /\ SendGetBlocks(p, LocatorFrom(Best), GetOrphanRoot(orphans', b))
     /\ UNCHANGED <<main, index, reorganising>>

\* Mutant: a block that arrives stays in the list of requested blocks.
StillRequested(b) == requested

Unrequested(b) == requested \ {b}

OnBlock(p) ==
  LET b == Head(in[p]).block
  IN  /\ Received(p, "block") /\ reorganising = EmptyHash
      /\ in' = [in EXCEPT ![p] = Tail(@)]
      /\ IF BlockInLedger(b)
           THEN UNCHANGED <<ledgerVars, requestVars, out, StartHash, StopHash>>
           ELSE requested' = Unrequested(b) /\ lost' = lost \ {b} /\ AcceptBlock(p, b)
      /\ UNCHANGED <<localSync, syncFlag, stopping, height, loop, peerVars, up, closes>>

-----------------------------------------------------------------------------
(* The loop: SyncBlocks on every tick.  Connections may break between any  *)
(* two of its steps.                                                       *)

needSync == \E p \in Peers : up[p] /\ height[p] > Height(main)

\* While a reorganisation takes blocks off the chain, the hash at the current
\* height may be gone already: GetCurrentBlockHash answers the empty hash.
GetCurrentBlockHash == IF reorganising = EmptyHash THEN {Best} ELSE {Best, EmptyHash}

Waiting == [at |-> "wait", peer |-> NoPeer, hash |-> EmptyHash]

SyncTick ==
  /\ loop.at = "wait"
  /\ \/ /\ needSync /\ \A p \in Peers : Len(in[p]) + Len(out[p]) <= Backlog
        /\ loop' = [loop EXCEPT !.at = "need"]
     \/ ~needSync /\ loop' = [loop EXCEPT !.at = "stop"]
  /\ UNCHANGED <<ledgerVars, requestVars, syncVars, height, peerVars, linkVars>>

\* In sync mode the loop just returns.  Otherwise it forgets what was requested and
\* takes the sync peer that it has, if it has one.
SyncNeeded ==
  /\ loop.at = "need"
  /\ LET flagged == {p \in Peers : up[p] /\ syncFlag[p]} IN
     \/ localSync /\ loop' = Waiting /\ UNCHANGED requestVars
     \/ /\ ~localSync /\ requested' = {} /\ lost' = {}
        /\ \/ flagged = {} /\ loop' = [loop EXCEPT !.at = "best"]
           \/ \E p \in flagged : loop' = [loop EXCEPT !.at = "hash", !.peer = p]
  /\ UNCHANGED <<ledgerVars, syncVars, height, peerVars, linkVars>>

\* The neighbour that told the greatest height.  When the last one has left since
\* needSync there is none, and the node panics when it sends to nil.
GetBestHeightNoder ==
  /\ loop.at = "best"
  /\ LET nodes == {p \in Peers : up[p]}
         best == {p \in nodes : \A q \in nodes : height[q] <= height[p]}
     IN  \/ nodes = {} /\ loop' = [loop EXCEPT !.at = "panic"]
         \/ \E p \in best : loop' = [loop EXCEPT !.at = "hash", !.peer = p]
  /\ UNCHANGED <<ledgerVars, requestVars, syncVars, height, peerVars, linkVars>>

SyncHash ==
  /\ loop.at = "hash"
  /\ \E hash \in GetCurrentBlockHash : loop' = [loop EXCEPT !.at = "ask", !.hash = hash]
  /\ UNCHANGED <<ledgerVars, requestVars, syncVars, height, peerVars, linkVars>>

\* The locator waits for the lock that a reorganisation holds.
SyncAsk ==
  /\ loop.at = "ask" /\ reorganising = EmptyHash
  /\ SendGetBlocks(loop.peer, LocatorFrom(loop.hash), EmptyHash)
  /\ localSync' = TRUE
  /\ syncFlag' = [p \in Peers |-> syncFlag[p] \/ p = loop.peer]
  /\ loop' = Waiting
  /\ UNCHANGED <<ledgerVars, requestVars, stopping, height, peerVars, up, in, closes>>

-----------------------------------------------------------------------------
(* stopSyncing, by the loop when there is nothing to synchronise or by a   *)
(* timer at any time.  Its send to the channel of a timer may block for    *)
(* ever; SyncTimer is about when.                                          *)

\* Mutant: what was asked is never forgotten.
ForgetNothing == UNCHANGED <<StartHash, StopHash>>

ForgetAsked == StartHash' = EmptyHash /\ StopHash' = EmptyHash

\* The flag of LocalNode is cleared first, then that of a flagged neighbour, if there
\* is one: only then what was asked is forgotten.
ClearPeer ==
  LET flagged == {p \in Peers : up[p] /\ syncFlag[p]} IN
  IF flagged = {}
    THEN UNCHANGED <<syncFlag, StartHash, StopHash>>
    ELSE /\ \E p \in flagged : syncFlag' = [syncFlag EXCEPT ![p] = FALSE]
         /\ ForgetAsked

LoopStops ==
  /\ loop.at = "stop" /\ loop' = [loop EXCEPT !.at = "peer"]
  /\ localSync' = FALSE
  /\ UNCHANGED <<ledgerVars, requestVars, syncFlag, StartHash, StopHash, stopping, height,
                 peerVars, linkVars>>

LoopStopsPeer ==
  /\ loop.at = "peer" /\ loop' = Waiting
  /\ ClearPeer
  /\ UNCHANGED <<ledgerVars, requestVars, localSync, stopping, height, peerVars, linkVars>>

TimerStops ==
  /\ ~stopping /\ stopping' = TRUE
  /\ localSync' = FALSE
  /\ UNCHANGED <<ledgerVars, requestVars, syncFlag, StartHash, StopHash, height, loop, peerVars,
                 linkVars>>

TimerStopsPeer ==
  /\ stopping /\ stopping' = FALSE
  /\ ClearPeer
  /\ UNCHANGED <<ledgerVars, requestVars, localSync, height, loop, peerVars, linkVars>>

-----------------------------------------------------------------------------

\* A panic of the loop ends the process.
Alive == loop.at # "panic"

Reader(p) == Alive /\ (OnPing(p) \/ OnInventory(p) \/ OnBlock(p))
Server(p) == Alive /\ (OnGetBlocks(p) \/ OnGetData(p))
Peer(p) == Alive /\ (PeerMines(p) \/ PeerReorganises(p) \/ Disconnect(p))
SyncBlocks == SyncNeeded \/ GetBestHeightNoder \/ SyncHash \/ SyncAsk \/ LoopStopsPeer

Next ==
  \/ \E p \in Peers : \/ Reader(p) \/ Server(p) \/ Peer(p)
                      \/ Alive /\ PeerPings(p)
                      \/ Alive /\ Reconnect(p)
  \/ Alive /\ Reorganise
  \/ SyncTick \/ SyncBlocks \/ LoopStops
  \/ Alive /\ TimerStops
  \/ Alive /\ TimerStopsPeer

Spec == Init /\ [][Next]_vars

\* When a reader has a message that it can handle, and a peer one that it can answer.
CanRead(p) == Alive /\ up[p] /\ in[p] # <<>>
                /\ (Head(in[p]).type = "ping" \/ reorganising = EmptyHash)
CanServe(p) == Alive /\ up[p] /\ out[p] # <<>>

\* Goroutines run, messages arrive, peers answer and ping.  The first two conjuncts
\* are weak fairness of Reader(p) and Server(p), with what enables them spelled out.
\* The ticker of the loop goes on for ever, whatever the bound Backlog puts off.
\* Nothing obliges a peer to mine or to reorganise, a connection to break, or a send
\* of stopSyncing to return: LoopStops and TimerStops may never happen.
FairSpec ==
  /\ Spec
  /\ \A p \in Peers :
       /\ []<>~CanRead(p) \/ []<><<Reader(p)>>_vars
       /\ []<>~CanServe(p) \/ []<><<Server(p)>>_vars
       /\ WF_vars(Alive /\ PeerPings(p)) /\ WF_vars(Alive /\ Reconnect(p))
  /\ WF_vars(Alive /\ Reorganise)
  /\ SF_vars(SyncTick) /\ WF_vars(SyncBlocks)
  /\ WF_vars(Alive /\ TimerStopsPeer)

-----------------------------------------------------------------------------
(* Properties.                                                             *)

Hashes == Blocks \cup {EmptyHash}
Msgs == [type : {"getblocks"}, locator : Seq(Hashes), stop : Hashes]
          \cup [type : {"getdata", "inv"}, hashes : Seq(Blocks)]
          \cup [type : {"block"}, block : Blocks]
          \cup [type : {"ping"}, height : Nat]

\* The state has its type; the main chain is a path from the genesis block, and
\* no block is an orphan that has a node.
TypeOK ==
  /\ index \subseteq Blocks /\ orphans \subseteq Blocks \ index
  /\ main = ChainTo[Best] /\ Range(main) \subseteq index
  /\ requested \subseteq Blocks
  /\ {StartHash, StopHash, reorganising} \subseteq Hashes
  /\ \A p \in Peers : Range(in[p]) \cup Range(out[p]) \subseteq Msgs

InFlight(b) ==
  \E p \in Peers :
    \/ \E m \in Range(in[p]) : m.type = "block" /\ m.block = b
    \/ \E m \in Range(out[p]) : m.type = "getdata" /\ b \in Range(m.hashes)

\* A block in RequestedBlockList is not asked for again, so it has to be on its
\* way, or have come by another way: a request or the block itself is under way,
\* or the block has a node already, unless it went down with a connection or was
\* not in the store of a peer that had reorganised (msghandler.go:355).
RequestedInFlight == \A b \in requested \ lost : InFlight(b) \/ b \in index

\* No ask of the loop overtakes a timer's stopSyncing between its two steps: they
\* are microseconds apart, and the ticks six seconds.
Quiet == ~(stopping /\ loop.at = "ask" /\ loop'.at = "wait")

\* The loop is never stuck, in stopSyncing or in a panic, and no sync mode lasts for
\* ever.
Running == []<>(loop.at = "wait") /\ []<>~localSync

\* A node that keeps running catches up with its peers, from a fork too, whatever
\* connections broke and whatever peer reorganised, unless ticks go on for ever to
\* overtake the end of the sync before.
CatchesUp ==
  Running /\ <>[][Quiet]_vars => <>[](\A p \in Peers : Height(main) >= Height(chain[p]))
=============================================================================
