------------------------------ MODULE SyncTimer ------------------------------
(***************************************************************************)
(* How sync mode ends (syncTimer, SyncBlocks and stopSyncing of            *)
(* node/infoupdate.go): the timer is stopped through a channel in a field  *)
(* that its goroutine sets, reads and clears while the loop and other      *)
(* timers use it.  BlockSync models what is exchanged in the meantime.     *)
(***************************************************************************)
EXTENDS Naturals, FiniteSets

CONSTANTS
  Peers, NoPeer,
  Timers,     \* bound: goroutines of start that are alive at once
  Channels,   \* bound: channels of t.quit that something still holds
  NoChan      \* nil

ASSUME SyncTimerAssumption ==
  "loop" \notin Timers /\ NoPeer \notin Peers /\ NoChan \notin Channels

VARIABLES
  localSync,   \* the sync flag of LocalNode
  syncFlag,    \* the sync flags of the neighbours
  up,          \* which neighbours are established
  loop,        \* where SyncBlocks is
  syncNode,    \* its local variable: the neighbour it will ask
  timer,       \* where each timer goroutine is
  listens,     \* the channel that its select waits for
  quit,        \* the channel in t.quit
  full,        \* which channels hold a token
  stale,       \* lastUpdate is longer ago than the timeout
  stopper      \* where stopSyncing is, in each goroutine that may call it

vars == <<localSync, syncFlag, up, loop, syncNode, timer, listens, quit, full, stale, stopper>>

Callers == Timers \cup {"loop"}
Chans == Channels \cup {NoChan}

\* The state has its type, and only a stop that sends and a timer in its select
\* hold a channel.
TypeOK ==
  /\ localSync \in BOOLEAN /\ stale \in BOOLEAN
  /\ syncFlag \in [Peers -> BOOLEAN] /\ up \in [Peers -> BOOLEAN]
  /\ loop \in {"wait", "need", "best", "ask", "start", "stop", "panic"}
  /\ syncNode \in Peers \cup {NoPeer}
  /\ timer \in [Timers -> {"off", "new", "run", "select", "stop", "clear"}]
  /\ listens \in [Timers -> Chans]
  /\ quit \in Chans
  /\ full \in [Channels -> BOOLEAN]
  /\ stopper \in [Callers -> [at : {"off", "check", "load", "send", "local", "peer"},
                              chan : Chans]]
  /\ \A c \in Callers : stopper[c].at # "send" => stopper[c].chan = NoChan
  /\ \A t \in Timers : timer[t] # "select" => listens[t] = NoChan

Init ==
  /\ localSync = FALSE
  /\ syncFlag = [p \in Peers |-> FALSE]
  /\ up = [p \in Peers |-> TRUE]
  /\ loop = "wait" /\ syncNode = NoPeer
  /\ timer = [t \in Timers |-> "off"] /\ listens = [t \in Timers |-> NoChan]
  /\ quit = NoChan /\ full = [c \in Channels |-> FALSE]
  /\ stale = TRUE   \* lastUpdate is the zero time
  /\ stopper = [c \in Callers |-> [at |-> "off", chan |-> NoChan]]

\* A panic in the loop ends the process.
Alive == loop # "panic"

-----------------------------------------------------------------------------
(* The loop.  The neighbours may change between any two of its steps.      *)

\* needSync: a neighbour is higher.  The heights may be anything.
SyncTick ==
  /\ loop = "wait"
  /\ \/ /\ \E p \in Peers : up[p]
        /\ loop' = "need"
        /\ UNCHANGED stopper
     \/ /\ loop' = "stop"
        /\ stopper' = [stopper EXCEPT !["loop"].at = "check"]
  /\ UNCHANGED <<localSync, syncFlag, up, syncNode, timer, listens, quit, full, stale>>

\* In sync mode the loop just returns.  Otherwise it goes on with the sync peer
\* it has, or looks for the best one.
SyncNeeded ==
  /\ loop = "need"
  /\ LET flagged == {p \in Peers : up[p] /\ syncFlag[p]} IN
     \/ localSync /\ loop' = "wait" /\ UNCHANGED syncNode
     \/ ~localSync /\ flagged = {} /\ loop' = "best" /\ UNCHANGED syncNode
     \/ ~localSync /\ loop' = "ask" /\ syncNode' \in flagged
  /\ UNCHANGED <<localSync, syncFlag, up, timer, listens, quit, full, stale, stopper>>

\* GetBestHeightNoder returns nil when the last neighbour has left since, and
\* the node panics when it sends to nil.
SyncBest ==
  /\ loop = "best"
  /\ LET there == {p \in Peers : up[p]} IN
     \/ there = {} /\ loop' = "panic" /\ UNCHANGED syncNode
     \/ loop' = "ask" /\ syncNode' \in there
  /\ UNCHANGED <<localSync, syncFlag, up, timer, listens, quit, full, stale, stopper>>

SyncAsk ==
  /\ loop = "ask" /\ loop' = "start"
  /\ \E t \in Timers : timer[t] = "off"   \* the bound
  /\ localSync' = TRUE
  /\ UNCHANGED <<syncFlag, up, syncNode, timer, listens, quit, full, stale, stopper>>

\* Mutant: a sync that goes on with the sync peer it has starts no timer.
StartTimerOnce ==
  IF syncNode # NoPeer /\ syncFlag[syncNode]
    THEN UNCHANGED timer
    ELSE \E t \in Timers : timer[t] = "off" /\ timer' = [timer EXCEPT ![t] = "new"]

StartTimer ==
  \E t \in Timers : timer[t] = "off" /\ timer' = [timer EXCEPT ![t] = "new"]

SyncStart ==
  /\ loop = "start" /\ loop' = "wait"
  /\ syncFlag' = [p \in Peers |-> syncFlag[p] \/ p = syncNode]
  /\ syncNode' = NoPeer
  /\ StartTimer
  /\ UNCHANGED <<localSync, up, listens, quit, full, stale, stopper>>

SyncStopped ==
  /\ loop = "stop" /\ stopper["loop"].at = "off"
  /\ loop' = "wait"
  /\ UNCHANGED <<localSync, syncFlag, up, syncNode, timer, listens, quit, full, stale, stopper>>

-----------------------------------------------------------------------------
(* The timer.                                                              *)

\* make returns a channel that nothing holds.
Fresh(c) ==
  /\ c # quit
  /\ \A s \in Callers : stopper[s].chan # c
  /\ \A t \in Timers : listens[t] # c

TimerStarts(t) ==
  /\ timer[t] = "new"
  /\ timer' = [timer EXCEPT ![t] = "run"]
  /\ \E c \in Channels : Fresh(c)   \* the bound
  /\ LET c == CHOOSE c \in Channels : Fresh(c) IN
       quit' = c /\ full' = [full EXCEPT ![c] = FALSE]
  /\ UNCHANGED <<localSync, syncFlag, up, loop, syncNode, listens, stale, stopper>>

\* The select waits for the channel that the field holds when it begins.
TimerSelects(t) ==
  /\ timer[t] = "run"
  /\ timer' = [timer EXCEPT ![t] = "select"]
  /\ listens' = [listens EXCEPT ![t] = quit]
  /\ UNCHANGED <<localSync, syncFlag, up, loop, syncNode, quit, full, stale, stopper>>

\* Mutant: the comparison with the last update is the wrong way round.
TimerTicksEarly(t) ==
  /\ timer[t] = "select"
  /\ timer' = [timer EXCEPT ![t] = IF stale THEN "run" ELSE "stop"]
  /\ listens' = [listens EXCEPT ![t] = NoChan]
  /\ stopper' = IF stale THEN stopper ELSE [stopper EXCEPT ![t].at = "check"]
  /\ UNCHANGED <<localSync, syncFlag, up, loop, syncNode, quit, full, stale>>

\* A tick finds the last update too long ago, or goes round ...
TimerTicks(t) ==
  /\ timer[t] = "select"
  /\ timer' = [timer EXCEPT ![t] = IF stale THEN "stop" ELSE "run"]
  /\ listens' = [listens EXCEPT ![t] = NoChan]
  /\ stopper' = IF stale THEN [stopper EXCEPT ![t].at = "check"] ELSE stopper
  /\ UNCHANGED <<localSync, syncFlag, up, loop, syncNode, quit, full, stale>>

\* ... or there is a token.
TimerQuits(t) ==
  /\ timer[t] = "select" /\ listens[t] # NoChan /\ full[listens[t]]
  /\ timer' = [timer EXCEPT ![t] = "clear"]
  /\ full' = [full EXCEPT ![listens[t]] = FALSE]
  /\ listens' = [listens EXCEPT ![t] = NoChan]
  /\ UNCHANGED <<localSync, syncFlag, up, loop, syncNode, quit, stale, stopper>>

TimerEnds(t) ==
  /\ \/ timer[t] = "clear"
     \/ timer[t] = "stop" /\ stopper[t].at = "off"
  /\ timer' = [timer EXCEPT ![t] = "off"]
  /\ quit' = NoChan
  /\ UNCHANGED <<localSync, syncFlag, up, loop, syncNode, listens, full, stale, stopper>>

\* update: onBlock got a block.
Update ==
  /\ stale /\ stale' = FALSE
  /\ UNCHANGED <<localSync, syncFlag, up, loop, syncNode, timer, listens, quit, full, stopper>>

TimePasses ==
  /\ ~stale /\ stale' = TRUE
  /\ UNCHANGED <<localSync, syncFlag, up, loop, syncNode, timer, listens, quit, full, stopper>>

-----------------------------------------------------------------------------
(* stopSyncing, in the loop or in a timer.                                 *)

\* stop reads the field ...
StopCheck(c) ==
  /\ stopper[c].at = "check"
  /\ stopper' = [stopper EXCEPT ![c].at = IF quit = NoChan THEN "local" ELSE "load"]
  /\ UNCHANGED <<localSync, syncFlag, up, loop, syncNode, timer, listens, quit, full, stale>>

\* ... and again to send, where it may be nil by now.
StopLoad(c) ==
  /\ stopper[c].at = "load"
  /\ stopper' = [stopper EXCEPT ![c] = [at |-> "send", chan |-> quit]]
  /\ UNCHANGED <<localSync, syncFlag, up, loop, syncNode, timer, listens, quit, full, stale>>

\* A full channel blocks the sender, nil for ever.
StopSend(c) ==
  /\ stopper[c].at = "send" /\ stopper[c].chan # NoChan /\ ~full[stopper[c].chan]
  /\ full' = [full EXCEPT ![stopper[c].chan] = TRUE]
  /\ stopper' = [stopper EXCEPT ![c] = [at |-> "local", chan |-> NoChan]]
  /\ UNCHANGED <<localSync, syncFlag, up, loop, syncNode, timer, listens, quit, stale>>

StopLocal(c) ==
  /\ stopper[c].at = "local"
  /\ localSync' = FALSE
  /\ stopper' = [stopper EXCEPT ![c].at = "peer"]
  /\ UNCHANGED <<syncFlag, up, loop, syncNode, timer, listens, quit, full, stale>>

StopPeer(c) ==
  /\ stopper[c].at = "peer"
  /\ stopper' = [stopper EXCEPT ![c].at = "off"]
  /\ LET flagged == {p \in Peers : up[p] /\ syncFlag[p]} IN
     IF flagged = {}
       THEN UNCHANGED syncFlag
       ELSE \E p \in flagged : syncFlag' = [syncFlag EXCEPT ![p] = FALSE]
  /\ UNCHANGED <<localSync, up, loop, syncNode, timer, listens, quit, full, stale>>

\* At the start of the program main clears the flag too, once, when the heights
\* of the neighbours are reached (here: whenever it is up).
WaitForSyncFinish ==
  /\ localSync /\ localSync' = FALSE
  /\ UNCHANGED <<syncFlag, up, loop, syncNode, timer, listens, quit, full, stale, stopper>>

\* Neighbours come and go; a new connection is a new node without the flag, which
\* the loop's local variable does not name.
Disconnect(p) ==
  /\ up' = [up EXCEPT ![p] = ~@]
  /\ syncFlag' = [syncFlag EXCEPT ![p] = FALSE]
  /\ syncNode' = IF syncNode = p THEN NoPeer ELSE syncNode
  /\ UNCHANGED <<localSync, loop, timer, listens, quit, full, stale, stopper>>

-----------------------------------------------------------------------------

SyncBlocks == SyncNeeded \/ SyncBest \/ SyncAsk \/ SyncStart \/ SyncStopped
Timer(t) ==
  /\ Alive
  /\ TimerStarts(t) \/ TimerSelects(t) \/ TimerTicks(t) \/ TimerQuits(t) \/ TimerEnds(t)
StopSyncing(c) ==
  Alive /\ (StopCheck(c) \/ StopLoad(c) \/ StopSend(c) \/ StopLocal(c) \/ StopPeer(c))
Environment ==
  Alive /\ (Update \/ TimePasses \/ WaitForSyncFinish \/ \E p \in Peers : Disconnect(p))

Next ==
  \/ SyncTick \/ SyncBlocks \/ Environment
  \/ \E t \in Timers : Timer(t)
  \/ \E c \in Callers : StopSyncing(c)

Spec == Init /\ [][Next]_vars

\* A goroutine that is not blocked goes on.  Nothing is assumed of when the loop
\* ticks and what needSync answers, and blocks need not arrive.
FairSpec ==
  /\ Spec
  /\ WF_vars(SyncBlocks)
  /\ \A t \in Timers : WF_vars(Timer(t))
  /\ \A c \in Callers : WF_vars(StopSyncing(c))

-----------------------------------------------------------------------------
(* Properties.                                                             *)

\* The goroutines that are about to clear the sync flag and are not stuck.
Ending(c) ==
  \/ stopper[c].at \in {"check", "load", "local"}
  \/ stopper[c].at = "send" /\ stopper[c].chan # NoChan /\ ~full[stopper[c].chan]

\* A timer's stop whose channel was cleared between its two reads of the field.
StuckOnNil(t) == stopper[t].at = "send" /\ stopper[t].chan = NoChan

\* While the node is in sync mode it ignores the inventories of other peers, so
\* there is a timer that runs or is about to, or a stopSyncing that will clear the
\* flag, although a stop can reach the timer of another synchronisation or block
\* on its full channel.  The one way out is a timer that an older timer's
\* "t.quit = nil" catches between the two reads of its own stop.
SyncModeWatched ==
  localSync => \/ loop = "start"
               \/ \E t \in Timers : timer[t] \in {"new", "run", "select"}
               \/ \E c \in Callers : Ending(c)
               \/ \E t \in Timers : StuckOnNil(t)

\* Sync mode in which no block arrives does not last, unless a timer's own stop
\* blocks on nil or the node panics.
SyncModeEnds ==
  []<>(~localSync \/ ~stale) \/ <>[](~Alive \/ \E t \in Timers : StuckOnNil(t))
=============================================================================
