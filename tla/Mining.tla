------------------------------- MODULE Mining -------------------------------
(***************************************************************************)
(* The ways a node comes to a block of its own: the cpuMining goroutines   *)
(* that Start and Halt control, DiscreteMining (pow/pow.go), and the       *)
(* templates that createauxblock gives to a merged miner and               *)
(* submitsideauxblock takes back solved (servers/interfaces.go).  They     *)
(* share the flags of the PowService, and the tip they build on.           *)
(*                                                                         *)
(* A template is known by the tip it extends.  The chain is what its       *)
(* callers see of it: a tip, its height, and AddBlock's answer.            *)
(***************************************************************************)
EXTENDS Integers, FiniteSets

CONSTANTS
  Miners,        \* bound: the goroutines that Start can start
  Counts,        \* bound: the numbers of blocks that a client asks DiscreteMining for
  MergedMiner,   \* whether there is a merged miner
  MaxTip,        \* bound: how often the tip changes
  NoTip          \* nil

ASSUME MiningAssumption ==
  /\ MaxTip \in Nat /\ NoTip \notin Nat
  /\ IsFiniteSet(Miners) /\ Counts \subseteq Nat /\ MergedMiner \in BOOLEAN

VARIABLES
  tip, height,     \* BestChain, and the height of it and of the tips before it
  nodeHeight,      \* localNode.Height()
  subscriber,      \* the goroutine that each new tip starts, and the height it read
  started, manualMining,  \* the flags of the PowService
  quit,            \* pow.quit: "nil", "open" or "closed"
  halting,         \* Halt holds pow.Mutex and is in wg.Wait
  miner,           \* each goroutine: where it is, and the template it solves
  manual,          \* the caller of DiscreteMining, and the blocks it still wants
  blockData,       \* MsgBlock.BlockData
  preHeight, old,  \* PreChainHeight, and whether PreTime is long ago
  creator,         \* the caller of CreateAuxBlock
  submitter        \* the caller of SubmitSideAuxBlock

chainVars == <<tip, height, nodeHeight, subscriber>>
powVars == <<started, manualMining, quit, halting, miner, manual>>
auxVars == <<blockData, preHeight, old, creator, submitter>>
vars == <<chainVars, powVars, auxVars>>

Tips == 0..MaxTip
Heights == 0..MaxTip + 1
BestHeight == height[tip]
\* hard: no nonce solves the template.
Worker == [at : {"none", "top", "solve", "add"}, block : Tips \cup {NoTip}, hard : BOOLEAN]
Nobody == [at |-> "none", block |-> NoTip, hard |-> FALSE]
AtTop == [at |-> "top", block |-> NoTip, hard |-> FALSE]

\* The state has its type.
TypeOK ==
  /\ tip \in Tips /\ height \in [Tips -> Heights] /\ nodeHeight \in Heights
  /\ subscriber \in [Tips -> [at : {"none", "notified", "read"}, height : Heights]]
  /\ started \in BOOLEAN /\ manualMining \in BOOLEAN /\ halting \in BOOLEAN /\ old \in BOOLEAN
  /\ quit \in {"nil", "open", "closed"}
  /\ miner \in [Miners -> Worker]
  /\ manual \in [at : {"none", "top", "solve", "add"}, block : Tips \cup {NoTip},
                 hard : BOOLEAN, left : Nat]
  /\ blockData \subseteq Tips
  /\ preHeight \in Heights
  /\ creator \in [at : {"none", "generate", "record"}, block : Tips \cup {NoTip}]
  /\ submitter \in [at : {"none", "add", "clear"}, block : Tips \cup {NoTip}]

-----------------------------------------------------------------------------
(* The chain.                                                              *)

\* The tip becomes another block, and BlockPersistCompleted is started.  After a
\* reorganisation to a branch of harder blocks it can be as high as before.
NewTip(up) ==
  /\ tip < MaxTip
  /\ tip' = tip + 1
  /\ height' = [height EXCEPT ![tip + 1] = BestHeight + up]
  /\ subscriber' = [subscriber EXCEPT ![tip + 1].at = "notified"]

\* A block of a peer.
BlockArrives ==
  /\ \E up \in 0..1 : NewTip(up)
  /\ UNCHANGED <<nodeHeight, powVars, auxVars>>

\* The subscriber runs in a goroutine of its own: it reads the best height ...
BlockPersistCompleted(t) ==
  /\ subscriber[t].at = "notified"
  /\ subscriber' = [subscriber EXCEPT ![t] = [at |-> "read", height |-> BestHeight]]
  /\ UNCHANGED <<tip, height, nodeHeight, powVars, auxVars>>

\* ... and sets the node's, perhaps after the subscriber of a later block has.
SetHeight(t) ==
  /\ subscriber[t].at = "read"
  /\ nodeHeight' = subscriber[t].height
  /\ subscriber' = [subscriber EXCEPT ![t] = [at |-> "none", height |-> 0]]
  /\ UNCHANGED <<tip, height, powVars, auxVars>>

\* AddBlock puts a block on the tip on the main chain, or refuses it; one on
\* another block goes to a side chain.
AddBlock(b, inMainChain) ==
  IF inMainChain THEN b = tip /\ NewTip(1) ELSE UNCHANGED <<tip, height, subscriber>>

-----------------------------------------------------------------------------
(* The mining goroutines.                                                  *)

Running == {m \in Miners : miner[m] # Nobody}

\* There is no return where mining is on: one more goroutine starts, and the
\* running ones, which read the field again in every round, get the new channel.
Start(m) ==
  /\ ~halting /\ m \notin Running
  /\ quit' = "open"
  /\ started' = TRUE
  /\ miner' = [miner EXCEPT ![m] = AtTop]
  /\ UNCHANGED <<chainVars, auxVars, manualMining, halting, manual>>

\* Halt takes the lock, and keeps it until the goroutines are gone.
Halt ==
  /\ ~halting
  /\ started /\ ~manualMining
  /\ quit' = "closed"
  /\ halting' = TRUE
  /\ UNCHANGED <<chainVars, auxVars, started, manualMining, miner, manual>>

\* Mutant: the flag stays up.
HaltStaysStarted ==
  /\ halting /\ Running = {}
  /\ halting' = FALSE
  /\ UNCHANGED <<chainVars, auxVars, started, manualMining, quit, miner, manual>>

HaltReturns ==
  /\ halting /\ Running = {}
  /\ halting' = FALSE
  /\ started' = FALSE
  /\ UNCHANGED <<chainVars, auxVars, manualMining, quit, miner, manual>>

\* GenerateBlock builds on the tip; the template may have a solution or none.
Generates(m) ==
  \E hard \in BOOLEAN :
    miner' = [miner EXCEPT ![m] = [at |-> "solve", block |-> tip, hard |-> hard]]

\* Mutant: the loop does not ask whether it should end.
MineUnasked(m) ==
  /\ miner[m].at = "top"
  /\ Generates(m)
  /\ UNCHANGED <<chainVars, auxVars, started, manualMining, quit, halting, manual>>

\* The top of the loop of cpuMining: quit is asked for, then a block generated.
\* Where that fails the loop starts again.
Mine(m) ==
  /\ miner[m].at = "top"
  /\ \/ quit = "closed" /\ miner' = [miner EXCEPT ![m] = Nobody]
     \/ quit # "closed" /\ Generates(m)
  /\ UNCHANGED <<chainVars, auxVars, started, manualMining, quit, halting, manual>>

\* msgBlock.Header.Height == GetBestHeight()+1, of a template on b.
IsNext(b) == height[b] = BestHeight

\* SolveBlock ends in two ways alone: it finds a nonce, or a tick of its clock
\* shows that the tip is another.  No 32-bit counter is more than maxNonce, so the
\* search for one that does not exist goes round.
Solved(w) == w.at = "solve" /\ ~w.hard
TipMoved(w) == w.at = "solve" /\ w.block # tip

\* A solved block of the wrong height is dropped.
SolveBlock(m) ==
  /\ \/ Solved(miner[m]) /\ IsNext(miner[m].block) /\ miner' = [miner EXCEPT ![m].at = "add"]
     \/ Solved(miner[m]) /\ ~IsNext(miner[m].block) /\ miner' = [miner EXCEPT ![m] = AtTop]
     \/ TipMoved(miner[m]) /\ miner' = [miner EXCEPT ![m] = AtTop]
  /\ UNCHANGED <<chainVars, auxVars, started, manualMining, quit, halting, manual>>

\* Whatever AddBlock answers, the loop goes on; a block on the main chain is
\* relayed first.
MinerAddsBlock(m) ==
  /\ miner[m].at = "add"
  /\ \E inMainChain \in BOOLEAN : AddBlock(miner[m].block, inMainChain)
  /\ miner' = [miner EXCEPT ![m] = AtTop]
  /\ UNCHANGED <<nodeHeight, auxVars, started, manualMining, quit, halting, manual>>

-----------------------------------------------------------------------------
(* DiscreteMining: a client asks for a number of blocks.                   *)

NoManual == [at |-> "none", block |-> NoTip, hard |-> FALSE, left |-> 0]
ManualTop(n) == [at |-> "top", block |-> NoTip, hard |-> FALSE, left |-> n]

DiscreteMining(n) ==
  /\ ~halting /\ ~started /\ ~manualMining
  /\ started' = TRUE /\ manualMining' = TRUE
  /\ manual' = ManualTop(n)
  /\ UNCHANGED <<chainVars, auxVars, quit, halting, miner>>

ManualGenerates ==
  /\ manual.at = "top"
  /\ \E hard \in BOOLEAN :
       manual' = [at |-> "solve", block |-> tip, hard |-> hard, left |-> manual.left]
  /\ UNCHANGED <<chainVars, auxVars, started, manualMining, quit, halting, miner>>

ManualSolves ==
  /\ \/ Solved(manual) /\ IsNext(manual.block) /\ manual' = [manual EXCEPT !.at = "add"]
     \/ Solved(manual) /\ ~IsNext(manual.block) /\ manual' = ManualTop(manual.left)
     \/ TipMoved(manual) /\ manual' = ManualTop(manual.left)
  /\ UNCHANGED <<chainVars, auxVars, started, manualMining, quit, halting, miner>>

\* A block on the main chain counts, and the last one takes the flags down.
\* Where none was asked for, the first one is written past the end of the
\* answer: the handler panics, and leaves the flags as they are.
ManualAddsBlock ==
  /\ manual.at = "add"
  /\ AddBlock(manual.block, TRUE)
  /\ IF manual.left > 1
       THEN manual' = ManualTop(manual.left - 1)
       ELSE manual' = NoManual
  /\ IF manual.left = 1 THEN started' = FALSE /\ manualMining' = FALSE
                        ELSE UNCHANGED <<started, manualMining>>
  /\ UNCHANGED <<nodeHeight, auxVars, quit, halting, miner>>

\* A side block is tried again; after an error the call returns with the flags up.
ManualNotAdded ==
  /\ manual.at = "add"
  /\ AddBlock(manual.block, FALSE)
  /\ manual' \in {ManualTop(manual.left), NoManual}
  /\ UNCHANGED <<nodeHeight, auxVars, started, manualMining, quit, halting, miner>>

-----------------------------------------------------------------------------
(* Merged mining.                                                          *)

NoCall == [at |-> "none", block |-> NoTip]

\* Mutant: a template is kept for as long as the node has the same height.
AuxOutdatedByHeight == nodeHeight = 0 \/ preHeight # nodeHeight

\* Whether GenerateAuxBlock makes a new template.
AuxOutdated == nodeHeight = 0 \/ preHeight # nodeHeight \/ old

\* GenerateAuxBlock.  Where it makes no template the client is told of an unknown
\* block.
CreateAuxBlock ==
  /\ MergedMiner /\ creator.at = "none"
  /\ AuxOutdated
  /\ creator' = [creator EXCEPT !.at = "generate"]
  /\ preHeight' = nodeHeight
  /\ old' = (old /\ preHeight = nodeHeight)
  /\ UNCHANGED <<chainVars, powVars, blockData, submitter>>

\* GenerateBlock builds on the tip of this moment, or fails.
AuxGenerates ==
  /\ creator.at = "generate"
  /\ creator' = [at |-> "record", block |-> tip]
  /\ UNCHANGED <<chainVars, powVars, blockData, preHeight, old, submitter>>

AuxFails ==
  /\ creator.at = "generate"
  /\ creator' = NoCall
  /\ UNCHANGED <<chainVars, powVars, blockData, preHeight, old, submitter>>

\* The height recorded is the one of now, which the template may not be for.
AuxRecords ==
  /\ creator.at = "record"
  /\ blockData' = blockData \cup {creator.block}
  /\ preHeight' = nodeHeight
  /\ old' = FALSE
  /\ creator' = NoCall
  /\ UNCHANGED <<chainVars, powVars, submitter>>

\* AUXBLOCK_GENERATED_INTERVAL_SECONDS have passed since PreTime.
TimePasses ==
  /\ ~old
  /\ old' = TRUE
  /\ UNCHANGED <<chainVars, powVars, blockData, preHeight, creator, submitter>>

\* A client that found the solution of a template.
SubmitSideAuxBlock(b) ==
  /\ submitter.at = "none"
  /\ b \in blockData
  /\ submitter' = [at |-> "add", block |-> b]
  /\ UNCHANGED <<chainVars, powVars, blockData, preHeight, old, creator>>

SubmitAddsBlock ==
  /\ submitter.at = "add"
  /\ \/ /\ AddBlock(submitter.block, TRUE)
        /\ submitter' = [submitter EXCEPT !.at = "clear"]
     \/ /\ AddBlock(submitter.block, FALSE)
        /\ submitter' = NoCall
  /\ UNCHANGED <<nodeHeight, powVars, blockData, preHeight, old, creator>>

\* All templates go, those made since the block was added as well.
SubmitClears ==
  /\ submitter.at = "clear"
  /\ blockData' = {}
  /\ submitter' = NoCall
  /\ UNCHANGED <<chainVars, powVars, preHeight, old, creator>>

-----------------------------------------------------------------------------
Init ==
  /\ tip = 0 /\ nodeHeight \in 0..1 /\ height = [t \in Tips |-> nodeHeight]
  /\ subscriber = [t \in Tips |-> [at |-> "none", height |-> 0]]
  /\ started = FALSE /\ manualMining = FALSE /\ quit = "nil" /\ halting = FALSE
  /\ miner = [m \in Miners |-> Nobody]
  /\ manual = NoManual
  /\ blockData = {} /\ preHeight = 0 /\ old = TRUE
  /\ creator = NoCall /\ submitter = NoCall

Working(m) == Mine(m) \/ SolveBlock(m) \/ MinerAddsBlock(m)
AuxCall == CreateAuxBlock \/ AuxGenerates \/ AuxRecords

Next ==
  \/ BlockArrives
  \/ \E t \in Tips : BlockPersistCompleted(t) \/ SetHeight(t)
  \/ \E m \in Miners : Start(m) \/ Working(m)
  \/ Halt
  \/ HaltReturns
  \/ \E n \in Counts : DiscreteMining(n)
  \/ ManualGenerates
  \/ ManualSolves
  \/ ManualAddsBlock
  \/ ManualNotAdded
  \/ AuxCall
  \/ AuxFails
  \/ TimePasses
  \/ \E b \in Tips : SubmitSideAuxBlock(b)
  \/ SubmitAddsBlock
  \/ SubmitClears

Spec == Init /\ [][Next]_vars

\* Goroutines and handlers go on, subscribers are run, and the clock does not
\* stop.  A merged miner polls createauxblock, and GenerateBlock does not fail for
\* ever.
FairSpec ==
  /\ Spec
  /\ \A t \in Tips : WF_vars(BlockPersistCompleted(t)) /\ WF_vars(SetHeight(t))
  /\ \A m \in Miners : WF_vars(Working(m))
  /\ WF_vars(HaltReturns)
  /\ WF_vars(CreateAuxBlock) /\ SF_vars(AuxGenerates) /\ WF_vars(AuxRecords)
  /\ WF_vars(TimePasses)
  /\ WF_vars(SubmitAddsBlock) /\ WF_vars(SubmitClears)

-----------------------------------------------------------------------------
(* Properties.                                                             *)

\* Halt never closes a channel that is closed already, which would end the
\* program: while Halt may close it (it looks at the flags alone, pow.go:306),
\* the channel is open, whatever Start, Halt and DiscreteMining did before.
QuitIsOpen == started /\ ~manualMining /\ ~halting => quit = "open"

\* A goroutine that searches for a nonce there is not, on a tip that is still the
\* tip.
Hopeless(m) == miner[m].at = "solve" /\ miner[m].hard /\ miner[m].block = tip

\* Halt comes back (pow.go:311), and with it the lock that Start and
\* DiscreteMining need, although Start puts a new channel in the place of the one
\* that running goroutines were started with.  The exception is a goroutine that
\* stays in SolveBlock for ever, where it does not look at the channel.
HaltCompletes == []<>~halting \/ <>[](\E m \in Miners : Hopeless(m))

\* A merged miner that polls gets a template on the tip, if the tip stays
\* (interfaces.go:329): also after a template that was old when it was recorded
\* under the new height, after a late submission has cleared the new one, and where
\* a slow subscriber has left the node's height at that of an earlier tip.
TemplateCatchesUp == \A b \in Tips : <>[](tip = b) => []<>(b \in blockData)
=============================================================================
