-------------------------- MODULE SyncTimer_proofs --------------------------
(***************************************************************************)
(* Sync mode always has something that will end it, or a stop that blocks  *)
(* on nil, for any number of neighbours and of timers that are alive.      *)
(***************************************************************************)
EXTENDS SyncTimer, TLAPS

Stops == [at : {"off", "check", "load", "send", "local", "peer"}, chan : Chans]

\* A stopSyncing runs only inside the goroutine that called it.
CallersInv ==
  /\ \A t \in Timers : stopper[t].at # "off" => timer[t] = "stop"
  /\ stopper["loop"].at # "off" => loop = "stop"

\* A synchronisation whose timer has not run yet, or a stop that has sent.
Renewed ==
  \/ loop = "start"
  \/ \E c \in Callers : stopper[c].at = "local"
  \/ \E t \in Timers : timer[t] = "new"

\* A token in the channel of the field comes from a stop that will clear the
\* flag, or a synchronisation has begun since and its timer, which will put a
\* channel of its own in the field, has not run yet.
TokenInv == localSync /\ quit # NoChan /\ full[quit] => Renewed

\* A timer that no token will end before it looks at the clock.
Watches(t) ==
  \/ timer[t] = "run"
  \/ timer[t] = "select" /\ (listens[t] = NoChan \/ ~full[listens[t]])
  \/ stopper[t].at \in {"check", "load"}
  \/ stopper[t].at = "send" /\ (stopper[t].chan = NoChan \/ ~full[stopper[t].chan])

\* The watcher of sync mode is such a timer: the token that takes a timer away
\* was sent to it by a stop that comes after the synchronisation's beginning.
WatchInv == localSync => Renewed \/ \E t \in Timers : Watches(t)

TimerInv == TypeOK /\ CallersInv /\ TokenInv /\ WatchInv

LEMMA LoopTyped ==
  ASSUME TypeOK, CallersInv, SyncTick \/ SyncBlocks
  PROVE  TypeOK'
<1> USE SyncTimerAssumption DEF TypeOK, CallersInv, Callers
<1>1. CASE SyncTick
  <2>1. stopper["loop"] \in Stops /\ loop = "wait"
    BY <1>1 DEF SyncTick, Stops
  <2>2. stopper["loop"].at = "off" /\ stopper["loop"].chan = NoChan
    BY <2>1 DEF Stops
  <2>3. stopper' \in [Callers -> Stops]
    BY <1>1, <2>1 DEF SyncTick, Stops
  <2>4. \A c \in Callers : stopper'[c].at # "send" => stopper'[c].chan = NoChan
    BY <1>1, <2>1, <2>2 DEF SyncTick, Stops
  <2> QED
    BY <1>1, <2>3, <2>4 DEF SyncTick, Stops
<1>2. CASE SyncNeeded \/ SyncBest
  BY <1>2 DEF SyncNeeded, SyncBest
<1>3. CASE SyncAsk \/ SyncStopped
  BY <1>3 DEF SyncAsk, SyncStopped
<1>4. CASE SyncStart
  BY <1>4 DEF SyncStart, StartTimer
<1> QED
  BY <1>1, <1>2, <1>3, <1>4 DEF SyncBlocks

LEMMA FreshChannel ==
  ASSUME \E c \in Channels : Fresh(c)
  PROVE  /\ (CHOOSE c \in Channels : Fresh(c)) \in Channels
         /\ Fresh(CHOOSE c \in Channels : Fresh(c))
OBVIOUS

LEMMA TimerTyped ==
  ASSUME TypeOK, CallersInv, NEW t \in Timers, Timer(t)
  PROVE  TypeOK'
<1> USE SyncTimerAssumption DEF TypeOK, CallersInv, Callers
<1>1. CASE TimerStarts(t)
  <2> DEFINE fresh == CHOOSE c \in Channels : Fresh(c)
  <2>1. fresh \in Channels
    BY <1>1, FreshChannel DEF TimerStarts
  <2>2. quit' = fresh /\ full' = [full EXCEPT ![fresh] = FALSE]
    BY <1>1 DEF TimerStarts
  <2> HIDE DEF fresh
  <2> QED
    BY <1>1, <2>1, <2>2 DEF TimerStarts, Chans
<1>2. CASE TimerSelects(t)
  BY <1>2 DEF TimerSelects
<1>3. CASE TimerTicks(t)
  <2>1. stopper[t] \in Stops /\ stopper[t].at = "off" /\ stopper[t].chan = NoChan
    BY <1>3 DEF TimerTicks, Stops
  <2>2. stopper' \in [Callers -> Stops]
    BY <1>3, <2>1 DEF TimerTicks, Stops
  <2>3. \A c \in Callers : stopper'[c].at # "send" => stopper'[c].chan = NoChan
    BY <1>3, <2>1 DEF TimerTicks, Stops
  <2>4. NoChan \in Chans
    BY DEF Chans
  <2> QED
    BY <1>3, <2>2, <2>3, <2>4 DEF TimerTicks, Stops
<1>4. CASE TimerQuits(t)
  BY <1>4 DEF TimerQuits, Chans
<1>5. CASE TimerEnds(t)
  BY <1>5 DEF TimerEnds, Chans
<1> QED
  BY <1>1, <1>2, <1>3, <1>4, <1>5 DEF Timer

LEMMA StopTyped ==
  ASSUME TypeOK, NEW c \in Callers, StopSyncing(c)
  PROVE  TypeOK'
<1> USE SyncTimerAssumption DEF TypeOK
<1>1. stopper \in [Callers -> Stops] /\ NoChan \in Chans
  BY DEF Stops, Chans
<1>2. CASE StopCheck(c)
  <2>1. stopper' \in [Callers -> Stops]
    BY <1>1, <1>2 DEF StopCheck, Stops
  <2>2. \A d \in Callers : stopper'[d].at # "send" => stopper'[d].chan = NoChan
    BY <1>1, <1>2 DEF StopCheck, Stops
  <2> QED
    BY <1>2, <2>1, <2>2 DEF StopCheck, Stops
<1>3. CASE StopLoad(c)
  <2>1. stopper' \in [Callers -> Stops]
    BY <1>1, <1>3 DEF StopLoad, Stops
  <2>2. \A d \in Callers : stopper'[d].at # "send" => stopper'[d].chan = NoChan
    BY <1>1, <1>3 DEF StopLoad, Stops
  <2> QED
    BY <1>3, <2>1, <2>2 DEF StopLoad, Stops
<1>4. CASE StopSend(c)
  <2>1. stopper' \in [Callers -> Stops]
    BY <1>1, <1>4 DEF StopSend, Stops
  <2>2. \A d \in Callers : stopper'[d].at # "send" => stopper'[d].chan = NoChan
    BY <1>1, <1>4 DEF StopSend, Stops
  <2>3. full' \in [Channels -> BOOLEAN]
    BY <1>4, <1>1 DEF StopSend, Stops, Chans
  <2> QED
    BY <1>4, <2>1, <2>2, <2>3 DEF StopSend, Stops
<1>5. CASE StopLocal(c)
  <2>1. stopper' \in [Callers -> Stops]
    BY <1>1, <1>5 DEF StopLocal, Stops
  <2>2. \A d \in Callers : stopper'[d].at # "send" => stopper'[d].chan = NoChan
    BY <1>1, <1>5 DEF StopLocal, Stops
  <2> QED
    BY <1>5, <2>1, <2>2 DEF StopLocal, Stops
<1>6. CASE StopPeer(c)
  <2>1. stopper' \in [Callers -> Stops]
    BY <1>1, <1>6 DEF StopPeer, Stops
  <2>2. \A d \in Callers : stopper'[d].at # "send" => stopper'[d].chan = NoChan
    BY <1>1, <1>6 DEF StopPeer, Stops
  <2>3. syncFlag' \in [Peers -> BOOLEAN]
    BY <1>6 DEF StopPeer
  <2> QED
    BY <1>6, <2>1, <2>2, <2>3 DEF StopPeer, Stops
<1> QED
  BY <1>2, <1>3, <1>4, <1>5, <1>6 DEF StopSyncing

LEMMA TypeInductive ==
  ASSUME TypeOK, CallersInv, [Next]_vars
  PROVE  TypeOK'
<1>1. CASE UNCHANGED vars
  BY <1>1 DEF vars, TypeOK
<1>2. CASE Environment
  BY <1>2, SyncTimerAssumption
     DEF Environment, Update, TimePasses, WaitForSyncFinish, Disconnect, TypeOK
<1> QED
  BY <1>1, <1>2, LoopTyped, TimerTyped, StopTyped DEF Next

LEMMA CallersInductive ==
  ASSUME TypeOK, CallersInv, [Next]_vars
  PROVE  CallersInv'
<1> USE SyncTimerAssumption DEF CallersInv, Callers, TypeOK
<1>1. CASE SyncTick
  BY <1>1 DEF SyncTick
<1>2. CASE SyncBlocks
  BY <1>2 DEF SyncBlocks, SyncNeeded, SyncBest, SyncAsk, SyncStart, SyncStopped, StartTimer
<1>3. CASE Environment \/ UNCHANGED vars
  BY <1>3 DEF Environment, Update, TimePasses, WaitForSyncFinish, Disconnect, vars
<1>4. ASSUME NEW t \in Timers, Timer(t)
      PROVE  CallersInv'
  <2>1. CASE TimerStarts(t)
    BY <2>1 DEF TimerStarts
  <2>2. CASE TimerSelects(t)
    BY <2>2 DEF TimerSelects
  <2>3. CASE TimerTicks(t)
    BY <2>3 DEF TimerTicks
  <2>4. CASE TimerQuits(t)
    BY <2>4 DEF TimerQuits
  <2>5. CASE TimerEnds(t)
    BY <2>5 DEF TimerEnds
  <2> QED
    BY <1>4, <2>1, <2>2, <2>3, <2>4, <2>5 DEF Timer
<1>5. CASE \E c \in Callers : StopSyncing(c)
  BY <1>5 DEF StopSyncing, StopCheck, StopLoad, StopSend, StopLocal, StopPeer
<1> QED
  BY <1>1, <1>2, <1>3, <1>4, <1>5 DEF Next

\* What the two parts of the invariant that follow are proved from.
LEMMA TokenInductive ==
  ASSUME TimerInv, [Next]_vars
  PROVE  TokenInv'
<1> USE SyncTimerAssumption DEF TokenInv, Renewed, TimerInv, TypeOK, CallersInv, Callers
<1>1. CASE SyncTick
  BY <1>1 DEF SyncTick
<1>2. CASE SyncBlocks
  BY <1>2 DEF SyncBlocks, SyncNeeded, SyncBest, SyncAsk, SyncStart, SyncStopped, StartTimer
<1>3. CASE Environment \/ UNCHANGED vars
  BY <1>3 DEF Environment, Update, TimePasses, WaitForSyncFinish, Disconnect, vars
<1>4. ASSUME NEW t \in Timers, Timer(t)
      PROVE  TokenInv'
  <2>1. CASE TimerStarts(t)
    <3> DEFINE fresh == CHOOSE c \in Channels : Fresh(c)
    <3>1. fresh \in Channels
      BY <2>1, FreshChannel DEF TimerStarts
    <3>2. quit' = fresh /\ full' = [full EXCEPT ![fresh] = FALSE]
      BY <2>1 DEF TimerStarts
    <3> HIDE DEF fresh
    <3> QED
      BY <3>1, <3>2
  <2>2. CASE TimerSelects(t)
    BY <2>2 DEF TimerSelects
  <2>3. CASE TimerTicks(t)
    BY <2>3 DEF TimerTicks
  <2>4. CASE TimerQuits(t)
    BY <2>4 DEF TimerQuits, Chans
  <2>5. CASE TimerEnds(t)
    BY <2>5 DEF TimerEnds
  <2> QED
    BY <1>4, <2>1, <2>2, <2>3, <2>4, <2>5 DEF Timer
<1>5. ASSUME NEW c \in Callers, StopSyncing(c)
      PROVE  TokenInv'
  <2>1. CASE StopCheck(c)
    BY <2>1 DEF StopCheck
  <2>2. CASE StopLoad(c)
    BY <2>2 DEF StopLoad
  <2>3. CASE StopSend(c)
    BY <2>3 DEF StopSend, Chans
  <2>4. CASE StopLocal(c)
    BY <2>4 DEF StopLocal
  <2>5. CASE StopPeer(c)
    BY <2>5 DEF StopPeer
  <2> QED
    BY <1>5, <2>1, <2>2, <2>3, <2>4, <2>5 DEF StopSyncing
<1> QED
  BY <1>1, <1>2, <1>3, <1>4, <1>5 DEF Next

\* A timer that quits has taken the token of a stop that was sent to it, and a
\* stop that finds the channel full is not the first one: TokenInv says who else
\* watches.
LEMMA WatchInductive ==
  ASSUME TimerInv, [Next]_vars
  PROVE  WatchInv'
<1> USE SyncTimerAssumption DEF TokenInv, WatchInv, Watches, Renewed, TimerInv, TypeOK,
                                CallersInv, Callers
<1>1. CASE SyncTick
  BY <1>1 DEF SyncTick
<1>2. CASE SyncBlocks
  <2>1. CASE SyncNeeded \/ SyncBest \/ SyncStopped
    <3>1. loop # "start" /\ UNCHANGED <<localSync, timer, listens, full, stopper>>
      BY <2>1 DEF SyncNeeded, SyncBest, SyncStopped
    <3> QED
      BY <3>1
  <2>2. CASE SyncAsk \/ SyncStart
    BY <2>2 DEF SyncAsk, SyncStart, StartTimer
  <2> QED
    BY <1>2, <2>1, <2>2 DEF SyncBlocks
<1>3. CASE Environment \/ UNCHANGED vars
  <2>1. /\ localSync' => localSync
        /\ UNCHANGED <<loop, timer, listens, full, stopper>>
    BY <1>3 DEF Environment, Update, TimePasses, WaitForSyncFinish, Disconnect, vars
  <2> QED
    BY <2>1
<1>4. ASSUME NEW t \in Timers, Timer(t)
      PROVE  WatchInv'
  <2>1. CASE TimerStarts(t)
    BY <2>1 DEF TimerStarts
  <2>2. CASE TimerSelects(t)
    BY <2>2 DEF TimerSelects
  <2>3. CASE TimerTicks(t)
    BY <2>3 DEF TimerTicks
  <2>4. CASE TimerQuits(t)
    BY <2>4 DEF TimerQuits, Chans
  <2>5. CASE TimerEnds(t)
    BY <2>5 DEF TimerEnds
  <2> QED
    BY <1>4, <2>1, <2>2, <2>3, <2>4, <2>5 DEF Timer
<1>5. ASSUME NEW c \in Callers, StopSyncing(c)
      PROVE  WatchInv'
  <2>1. CASE StopCheck(c)
    BY <2>1 DEF StopCheck
  <2>2. CASE StopLoad(c)
    BY <2>2 DEF StopLoad
  <2>3. CASE StopSend(c)
    BY <2>3 DEF StopSend, Chans
  <2>4. CASE StopLocal(c)
    BY <2>4 DEF StopLocal
  <2>5. CASE StopPeer(c)
    BY <2>5 DEF StopPeer
  <2> QED
    BY <1>5, <2>1, <2>2, <2>3, <2>4, <2>5 DEF StopSyncing
<1> QED
  BY <1>1, <1>2, <1>3, <1>4, <1>5 DEF Next

LEMMA TimerInvHolds == Spec => []TimerInv
<1>1. Init => TimerInv
  <2> SUFFICES ASSUME Init PROVE TimerInv
    OBVIOUS
  <2>1. TypeOK
    BY SyncTimerAssumption DEF Init, TypeOK, Callers, Chans
  <2>2. CallersInv /\ TokenInv /\ WatchInv
    BY DEF Init, CallersInv, TokenInv, WatchInv, Callers
  <2> QED
    BY <2>1, <2>2 DEF TimerInv
<1>2. TimerInv /\ [Next]_vars => TimerInv'
  BY TypeInductive, CallersInductive, TokenInductive, WatchInductive DEF TimerInv
<1> QED
  BY <1>1, <1>2, PTL DEF Spec

\* Every variable of the timer, the loop and their stops keeps its type, and only
\* a stop that sends and a timer in its select hold a channel (infoupdate.go:57).
THEOREM TimerTypeCorrect == Spec => []TypeOK
<1>1. TimerInv => TypeOK
  BY DEF TimerInv
<1> QED
  BY <1>1, TimerInvHolds, PTL

\* While the sync flag of LocalNode is up there is a timer that runs, a stopSyncing
\* that will clear the flag, or a timer whose own stop read t.quit a second time
\* after another one had cleared it (infoupdate.go:57-58), whatever the number of
\* timers that share the field.
THEOREM SyncModeStaysWatched == Spec => []SyncModeWatched
<1>1. TimerInv => SyncModeWatched
  BY DEF TimerInv, WatchInv, Watches, Renewed, SyncModeWatched, Ending, StuckOnNil, Callers
<1> QED
  BY <1>1, TimerInvHolds, PTL
=============================================================================
