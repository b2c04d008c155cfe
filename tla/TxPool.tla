------------------------------- MODULE TxPool -------------------------------
(***************************************************************************)
(* The transaction pool (blockchain/txpool.go) between the goroutines that *)
(* fill it and those that clean it: AppendToTxnPool for peers and RPC      *)
(* clients, CleanSubmittedTransactions when a block was persisted, and     *)
(* pow.RollbackTransaction when one was rolled back.                       *)
(*                                                                         *)
(* The pool has a lock, but takes it for one map access at a time.  Every  *)
(* such access, and every read of the ledger, is a step here.  The ledger  *)
(* changes under its readers, and the events it sends run in goroutines of *)
(* their own, in any order.                                                *)
(***************************************************************************)
EXTENDS Naturals, Sequences

CONSTANTS
  Txs,            \* the transactions that pass CheckTransactionSanity
  Outputs,        \* the outputs they spend
  MainTxs,        \* the main chain transactions that recharges refer to
  NoTx, NoMainTx, \* nil
  Inputs,         \* txn.Inputs
  Creator,        \* the transaction with the output, NoTx if it is an old one
  MainTx,         \* GetMainchainTxHash of a recharge, NoMainTx for the others
  Procs,          \* the goroutines that use the pool at the same time
  MaxChanges      \* bound: how often a block is persisted or rolled back

VARIABLES
  txnList,          \* pool.txnList
  inputUTXOList,    \* pool.inputUTXOList
  mainchainTxList,  \* pool.mainchainTxList
  chain,            \* the ledger: the transactions of each block
  events,           \* the notifications whose goroutine has not run yet
  proc,             \* what each goroutine is doing
  changes,          \* how often the ledger has changed
  undone,           \* history: the transactions of the blocks rolled back
  overtaken,        \* history: those persisted while they were being appended
  overlapped        \* history: conflicting ones appended at the same time

poolVars == <<txnList, inputUTXOList, mainchainTxList>>
ledgerVars == <<chain, changes, undone, overtaken>>
vars == <<poolVars, ledgerVars, events, proc, overlapped>>

ASSUME TxAssumption ==
  /\ NoTx \notin Txs /\ NoMainTx \notin MainTxs
  /\ Inputs \in [Txs -> SUBSET Outputs]
  /\ Creator \in [Outputs -> Txs \cup {NoTx}]
  /\ MainTx \in [Txs -> MainTxs \cup {NoMainTx}]

ASSUME BoundAssumption == MaxChanges \in Nat

-----------------------------------------------------------------------------
(* Goroutines.  A record says where one is: job is why it runs, txs the    *)
(* transactions of its block that it has still to handle, tx the one in    *)
(* AppendToTxnPool, and todo the outputs the loop it is in has not seen.   *)

Jobs == {"none", "submit", "persist", "rollback"}
AppendLabels == {"mainRead", "mainClaim", "reference", "verify", "claim", "list"}
Labels == AppendLabels \cup
          {"idle", "remove", "next", "cleanList", "cleanUTXO", "cleanMainchain"}

ProcState == [at : Labels, job : Jobs, txs : SUBSET Txs, tx : Txs \cup {NoTx},
              todo : SUBSET Outputs]

Idle == [at |-> "idle", job |-> "none", txs |-> {}, tx |-> NoTx, todo |-> {}]

BeingAppended == {proc[p].tx : p \in {q \in Procs : proc[q].at \in AppendLabels}}

-----------------------------------------------------------------------------
(* The ledger.                                                             *)

IsRechargeToSideChainTx(t) == MainTx[t] # NoMainTx

confirmed == UNION {chain[h] : h \in DOMAIN chain}

Spent(i) == \E t \in confirmed : i \in Inputs[t]

IsMainchainTxHashDuplicate(m) == \E t \in confirmed : MainTx[t] = m

\* GetTxReference finds the transactions with the outputs, spent or not.
HasTxReference(t) == \A i \in Inputs[t] : Creator[i] \in confirmed \cup {NoTx}

\* Nothing looks at the inputs of a recharge.
CheckTransactionContext(t) ==
  /\ t \notin confirmed
  /\ IF IsRechargeToSideChainTx(t)
       THEN ~IsMainchainTxHashDuplicate(MainTx[t])
       ELSE HasTxReference(t) /\ \A i \in Inputs[t] : ~Spent(i)

Conflict(t, u) ==
  \/ Inputs[t] \cap Inputs[u] # {}
  \/ IsRechargeToSideChainTx(t) /\ MainTx[t] = MainTx[u]

\* A block, from a peer or the local miner, that ConnectBlock takes.  Whatever
\* a transaction is, persist fails if what it spends is not there.
PersistBlock(block) ==
  /\ changes < MaxChanges
  /\ \A t \in block : /\ CheckTransactionContext(t)
                       /\ HasTxReference(t) /\ \A i \in Inputs[t] : ~Spent(i)
  /\ \A t, u \in block : t # u => ~Conflict(t, u)
  /\ chain' = Append(chain, block)
  /\ changes' = changes + 1
  /\ events' = events \cup {[job |-> "persist", txs |-> block, id |-> changes]}
  /\ overtaken' = overtaken \cup (block \cap BeingAppended)
  /\ UNCHANGED <<poolVars, proc, undone, overlapped>>

\* A reorganisation takes the last block off.
RollbackBlock ==
  /\ changes < MaxChanges /\ chain # << >>
  /\ chain' = SubSeq(chain, 1, Len(chain) - 1)
  /\ changes' = changes + 1
  /\ events' = events \cup {[job |-> "rollback", txs |-> chain[Len(chain)], id |-> changes]}
  /\ undone' = undone \cup chain[Len(chain)]
  /\ UNCHANGED <<poolVars, proc, overtaken, overlapped>>

-----------------------------------------------------------------------------
(* AppendToTxnPool.                                                        *)

At(p, label) == proc[p].at = label
Goto(p, label) == proc' = [proc EXCEPT ![p].at = label]
GotoLoop(p, label, todo) ==
  proc' = [proc EXCEPT ![p].at = label, ![p].todo = todo]

\* The transaction of p is dealt with: RollbackTransaction takes the next one
\* of its block, any other goroutine is done.
Finished(p, t) ==
  LET rest == proc[p].txs \ {t} IN
    proc' = [proc EXCEPT ![p] = IF rest = {} THEN Idle
                                ELSE [Idle EXCEPT !.at = "next", !.job = "rollback",
                                                  !.txs = rest]]

\* p starts AppendToTxnPool, of which CheckTransactionContext is the first read.
StartAppend(p, t, job, txs) ==
  /\ proc' = [proc EXCEPT ![p] =
                [at |-> IF IsRechargeToSideChainTx(t) THEN "mainRead" ELSE "reference",
                 job |-> job, txs |-> txs, tx |-> t, todo |-> {}]]
  /\ overlapped' = overlapped \cup
                    {{t, u} : u \in {v \in BeingAppended : v # t /\ Conflict(t, v)}}

\* A transaction arrives from a peer or an RPC client.
AppendToTxnPool(p, t) ==
  /\ At(p, "idle")
  /\ IF CheckTransactionContext(t) THEN StartAppend(p, t, "submit", {})
                                   ELSE UNCHANGED <<proc, overlapped>>
  /\ UNCHANGED <<poolVars, ledgerVars, events>>

\* verifyDuplicateMainchainTx reads mainchainTxList without the lock ...
VerifyDuplicateMainchainTx(p) ==
  /\ At(p, "mainRead")
  /\ IF mainchainTxList[MainTx[proc[p].tx]] # NoTx
       THEN Finished(p, proc[p].tx)
       ELSE Goto(p, "mainClaim")
  /\ UNCHANGED <<poolVars, ledgerVars, events, overlapped>>

\* ... and addMainchainTx writes what is there or not.
AddMainchainTx(p) ==
  /\ At(p, "mainClaim")
  /\ mainchainTxList' = [mainchainTxList EXCEPT ![MainTx[proc[p].tx]] = proc[p].tx]
  /\ Goto(p, "reference")
  /\ UNCHANGED <<txnList, inputUTXOList, ledgerVars, events, overlapped>>

\* verifyDoubleSpend looks the inputs up in the ledger, once more ...
GetTxReference(p) ==
  /\ At(p, "reference")
  /\ LET t == proc[p].tx IN
       IF ~HasTxReference(t) THEN Finished(p, t)
       ELSE IF Inputs[t] = {} THEN Goto(p, "list")
       ELSE GotoLoop(p, "verify", Inputs[t])
  /\ UNCHANGED <<poolVars, ledgerVars, events, overlapped>>

\* Mutant: a claim by another transaction is overlooked.
GetInputUTXOListIgnored(p, i) ==
  /\ At(p, "verify") /\ i \in proc[p].todo
  /\ IF proc[p].todo = {i} THEN GotoLoop(p, "claim", Inputs[proc[p].tx])
                           ELSE GotoLoop(p, "verify", proc[p].todo \ {i})
  /\ UNCHANGED <<poolVars, ledgerVars, events, overlapped>>

\* ... then in the pool, one by one ...
GetInputUTXOList(p, i) ==
  /\ At(p, "verify") /\ i \in proc[p].todo
  /\ IF inputUTXOList[i] # NoTx THEN Finished(p, proc[p].tx)
     ELSE IF proc[p].todo = {i} THEN GotoLoop(p, "claim", Inputs[proc[p].tx])
     ELSE GotoLoop(p, "verify", proc[p].todo \ {i})
  /\ UNCHANGED <<poolVars, ledgerVars, events, overlapped>>

\* Mutant: only one input is claimed.
AddInputUTXOListOnce(p, i) ==
  /\ At(p, "claim") /\ i \in proc[p].todo
  /\ inputUTXOList' =
       [inputUTXOList EXCEPT ![i] = IF @ = NoTx THEN proc[p].tx ELSE @]
  /\ GotoLoop(p, "list", {})
  /\ UNCHANGED <<txnList, mainchainTxList, ledgerVars, events, overlapped>>

\* ... and claims them, one by one; a claim that is there stays.
AddInputUTXOList(p, i) ==
  /\ At(p, "claim") /\ i \in proc[p].todo
  /\ inputUTXOList' =
       [inputUTXOList EXCEPT ![i] = IF @ = NoTx THEN proc[p].tx ELSE @]
  /\ IF proc[p].todo = {i} THEN GotoLoop(p, "list", {})
                           ELSE GotoLoop(p, "claim", proc[p].todo \ {i})
  /\ UNCHANGED <<txnList, mainchainTxList, ledgerVars, events, overlapped>>

OutputsOf(t) == {i \in Outputs : Creator[i] = t}

\* The last step of AppendToTxnPool.  RollbackTransaction goes on to
\* RemoveTransaction.
AddToTxList(p) ==
  /\ At(p, "list")
  /\ txnList' = txnList \cup {proc[p].tx}
  /\ LET t == proc[p].tx IN
       IF proc[p].job = "rollback" /\ OutputsOf(t) # {}
         THEN GotoLoop(p, "remove", OutputsOf(t))
         ELSE Finished(p, t)
  /\ UNCHANGED <<inputUTXOList, mainchainTxList, ledgerVars, events, overlapped>>

-----------------------------------------------------------------------------
(* The handlers of the ledger's events.                                    *)

Free(claims, S) == [i \in DOMAIN claims |-> IF i \in S THEN NoTx ELSE claims[i]]

\* The goroutine that Notify started for an event begins to run.
HandleEvent(p, e) ==
  /\ At(p, "idle")
  /\ proc' = [proc EXCEPT ![p] =
                [at |-> IF e.job = "persist" THEN "cleanList" ELSE "next",
                 job |-> e.job, txs |-> e.txs, tx |-> NoTx, todo |-> {}]]
  /\ events' = events \ {e}
  /\ UNCHANGED <<poolVars, ledgerVars, overlapped>>

\* RollbackTransaction offers a transaction of the block to the pool; in
\* MaybeAcceptTransaction one that is there already is an error.
MaybeAcceptTransaction(p, t) ==
  /\ At(p, "next") /\ t \in proc[p].txs
  /\ IF t \in txnList \/ ~CheckTransactionContext(t)
       THEN Finished(p, t) /\ UNCHANGED overlapped
       ELSE StartAppend(p, t, "rollback", proc[p].txs)
  /\ UNCHANGED <<poolVars, ledgerVars, events>>

\* One iteration of RemoveTransaction: the transaction that spends output i is
\* removed.  Its claims are left where they are if GetTxReference fails.
RemoveTransaction(p, i) ==
  /\ At(p, "remove") /\ i \in proc[p].todo
  /\ LET spender == inputUTXOList[i] IN
       /\ txnList' = txnList \ {spender}
       /\ inputUTXOList' = IF spender # NoTx /\ HasTxReference(spender)
                             THEN Free(inputUTXOList, Inputs[spender])
                             ELSE inputUTXOList
  /\ IF proc[p].todo = {i} THEN Finished(p, proc[p].tx)
                           ELSE GotoLoop(p, "remove", proc[p].todo \ {i})
  /\ UNCHANGED <<mainchainTxList, ledgerVars, events, overlapped>>

\* Mutant: the transactions of the block stay in the list.
CleanTransactionListSkipped(p) ==
  /\ At(p, "cleanList")
  /\ Goto(p, "cleanUTXO")
  /\ UNCHANGED <<poolVars, ledgerVars, events, overlapped>>

\* The three loops of CleanSubmittedTransactions.
CleanTransactionList(p) ==
  /\ At(p, "cleanList")
  /\ txnList' = txnList \ proc[p].txs
  /\ Goto(p, "cleanUTXO")
  /\ UNCHANGED <<inputUTXOList, mainchainTxList, ledgerVars, events, overlapped>>

\* Mutant: the claims of the block's transactions stay.
CleanUTXOListSkipped(p) ==
  /\ At(p, "cleanUTXO")
  /\ Goto(p, "cleanMainchain")
  /\ UNCHANGED <<poolVars, ledgerVars, events, overlapped>>

CleanUTXOList(p) ==
  /\ At(p, "cleanUTXO")
  /\ inputUTXOList' =
       Free(inputUTXOList, UNION {Inputs[t] : t \in {u \in proc[p].txs : HasTxReference(u)}})
  /\ Goto(p, "cleanMainchain")
  /\ UNCHANGED <<txnList, mainchainTxList, ledgerVars, events, overlapped>>

\* The transaction in the pool with the same main chain transaction goes too.
CleanMainchainTx(p) ==
  /\ At(p, "cleanMainchain")
  /\ LET mainTxs == {MainTx[t] : t \in {u \in proc[p].txs : IsRechargeToSideChainTx(u)}}
         poolTxs == {mainchainTxList[m] : m \in mainTxs} \ {NoTx}
     IN  /\ txnList' = txnList \ poolTxs
         /\ inputUTXOList' = Free(inputUTXOList, UNION {Inputs[t] : t \in poolTxs})
         /\ mainchainTxList' = Free(mainchainTxList, mainTxs)
  /\ proc' = [proc EXCEPT ![p] = Idle]
  /\ UNCHANGED <<ledgerVars, events, overlapped>>

-----------------------------------------------------------------------------

Init ==
  /\ txnList = {}
  /\ inputUTXOList = [i \in Outputs |-> NoTx]
  /\ mainchainTxList = [m \in MainTxs |-> NoTx]
  /\ chain = << >> /\ changes = 0
  /\ undone = {} /\ overtaken = {} /\ overlapped = {}
  /\ events = {}
  /\ proc = [p \in Procs |-> Idle]

Step(p) ==
  \/ \E t \in Txs : AppendToTxnPool(p, t) \/ MaybeAcceptTransaction(p, t)
  \/ VerifyDuplicateMainchainTx(p) \/ AddMainchainTx(p)
  \/ GetTxReference(p)
  \/ \E i \in Outputs : \/ GetInputUTXOList(p, i) \/ AddInputUTXOList(p, i)
                        \/ RemoveTransaction(p, i)
  \/ AddToTxList(p)
  \/ \E e \in events : HandleEvent(p, e)
  \/ CleanTransactionList(p) \/ CleanUTXOList(p) \/ CleanMainchainTx(p)

Next ==
  \/ \E p \in Procs : Step(p)
  \/ \E block \in (SUBSET Txs) \ {{}} : PersistBlock(block)
  \/ RollbackBlock

Spec == Init /\ [][Next]_vars

-----------------------------------------------------------------------------
(* Properties.                                                             *)

AllIdle == \A p \in Procs : At(p, "idle")
Quiet == AllIdle /\ events = {}

\* Every variable has its type.
TypeOK ==
  /\ txnList \subseteq Txs
  /\ inputUTXOList \in [Outputs -> Txs \cup {NoTx}]
  /\ mainchainTxList \in [MainTxs -> Txs \cup {NoTx}]
  /\ chain \in Seq(SUBSET Txs)
  /\ changes \in Nat
  /\ events \subseteq [job : {"persist", "rollback"}, txs : SUBSET Txs, id : Nat]
  /\ proc \in [Procs -> ProcState]
  /\ \A p \in Procs : At(p, "next") => proc[p].txs # {}
  /\ undone \subseteq Txs /\ overtaken \subseteq Txs
  /\ overlapped \subseteq SUBSET Txs

\* What the ledger has, or once had.
seen == confirmed \cup undone

\* An input of t has gone with a block that was rolled back.
Uprooted(t) == \E i \in Inputs[t] : Creator[i] \in undone

\* A claim of this output may have been freed: by the clean-up after a block
\* with a transaction that spends it, by that of a recharge that spends it and
\* whose main chain transaction another one redeemed, or by RemoveTransaction.
Released(i) ==
  \E t \in Txs : /\ i \in Inputs[t]
                 /\ \/ t \in seen
                    \/ IsRechargeToSideChainTx(t) /\ \E u \in seen : MainTx[u] = MainTx[t]
                    \/ Uprooted(t)

MainTxReleased(m) == \E u \in seen : MainTx[u] = m

Guarded(i) == inputUTXOList[i] # NoTx \/ Released(i)
MainTxGuarded(t) ==
  IsRechargeToSideChainTx(t) =>
    mainchainTxList[MainTx[t]] # NoTx \/ MainTxReleased(MainTx[t])

\* What a transaction of the pool spends or redeems stays claimed until a block
\* releases it: whichever order appending and cleaning run in, a transaction
\* that comes later and conflicts with it is refused.
PoolGuarded == \A t \in txnList : MainTxGuarded(t) /\ \A i \in Inputs[t] : Guarded(i)

\* Two transactions of the pool spend the same output, or redeem the same main
\* chain transaction, only if they were appended at the same time or a block
\* has released it.
NoConflictInPool ==
  \A t, u \in txnList :
    t # u /\ {t, u} \notin overlapped =>
      /\ \A i \in Inputs[t] \cap Inputs[u] : Released(i)
      /\ IsRechargeToSideChainTx(t) /\ MainTx[t] = MainTx[u] => MainTxReleased(MainTx[t])

\* While no goroutine is at work, every claim belongs to a transaction of the
\* pool: a claim without one bars its output until a restart.  The claims that
\* are left behind are those of a transaction with an input whose transaction
\* was rolled back, and those of a recharge with inputs on its main chain
\* transaction, which AppendToTxnPool makes before it looks at the inputs.
ClaimsOwned ==
  AllIdle =>
    /\ \A i \in Outputs :
         inputUTXOList[i] \in txnList \cup {NoTx} \/ Uprooted(inputUTXOList[i])
    /\ \A m \in MainTxs :
         mainchainTxList[m] \in txnList \cup {NoTx} \/ Inputs[mainchainTxList[m]] # {}

\* Once the events are handled, in whichever order, the pool holds no
\* transaction of the ledger but those that were being appended while a block
\* with them was persisted.
ConfirmedLeavesPool == Quiet => txnList \cap confirmed \subseteq overtaken

=============================================================================
