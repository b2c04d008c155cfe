---------------------------- MODULE TxPool_proofs ----------------------------
(***************************************************************************)
(* Proofs about the transaction pool, for every set of transactions and    *)
(* any number of goroutines.                                               *)
(***************************************************************************)
EXTENDS TxPool, TLAPS

USE TxAssumption, BoundAssumption

-----------------------------------------------------------------------------
(* Types.                                                                  *)

TxLabels == {"mainRead", "mainClaim", "reference", "verify", "claim", "list", "remove"}
CleanLabels == {"cleanList", "cleanUTXO", "cleanMainchain"}

\* Which fields of a goroutine are set at which label.
ProcShape(q) ==
  /\ q.at \in TxLabels => q.tx \in Txs
  /\ q.at \in {"mainRead", "mainClaim"} => IsRechargeToSideChainTx(q.tx)
  /\ q.at = "next" => q.txs # {}

\* A claim on a main chain transaction is one of a recharge that redeems it.
MainListShape ==
  \A m \in MainTxs : mainchainTxList[m] # NoTx => MainTx[mainchainTxList[m]] = m

\* No block is empty, so there is a transaction for RollbackTransaction to take.
NonEmptyBlocks ==
  /\ \A h \in DOMAIN chain : chain[h] # {}
  /\ \A e \in events : e.txs # {}

Shape ==
  /\ TypeOK /\ MainListShape /\ NonEmptyBlocks
  /\ \A p \in Procs : ProcShape(proc[p])

LEMMA InitShape == Init => Shape
<1> SUFFICES ASSUME Init PROVE Shape
  OBVIOUS
<1>1. Idle \in ProcState
  BY DEF Idle, ProcState, Labels, AppendLabels, Jobs
<1>2. proc \in [Procs -> ProcState] /\ \A p \in Procs : proc[p] = Idle
  BY <1>1 DEF Init
<1>3. chain \in Seq(SUBSET Txs)
  BY DEF Init
<1>4. Idle.at = "idle"
  BY DEF Idle
<1>5. TypeOK
  BY <1>2, <1>3, <1>4 DEF Init, TypeOK, At
<1>6. NonEmptyBlocks
  BY DEF Init, NonEmptyBlocks
<1> QED
  BY <1>2, <1>4, <1>5, <1>6 DEF Init, Shape, MainListShape, ProcShape, TxLabels

\* What the ways to move a goroutine do to it.
LEMMA GotoStep ==
  ASSUME Shape, NEW p \in Procs, NEW label \in Labels \ {"next"},
         proc[p].at \in TxLabels \cup CleanLabels,
         label \in TxLabels => proc[p].at \in TxLabels,
         label \in {"mainRead", "mainClaim"} => IsRechargeToSideChainTx(proc[p].tx),
         NEW todo \in SUBSET Outputs,
         \/ Goto(p, label)
         \/ GotoLoop(p, label, todo)
  PROVE  /\ proc' \in [Procs -> ProcState]
         /\ \A q \in Procs : ProcShape(proc'[q])
         /\ \A q \in Procs \ {p} : proc'[q] = proc[q]
         /\ proc'[p].at = label /\ proc'[p].tx = proc[p].tx
         /\ proc'[p].txs = proc[p].txs /\ proc'[p].job = proc[p].job
         /\ GotoLoop(p, label, todo) => proc'[p].todo = todo
<1>1. proc \in [Procs -> ProcState]
  BY DEF Shape, TypeOK
<1>2. /\ proc' \in [Procs -> ProcState]
      /\ \A q \in Procs \ {p} : proc'[q] = proc[q]
      /\ proc'[p].at = label /\ proc'[p].tx = proc[p].tx
      /\ proc'[p].txs = proc[p].txs /\ proc'[p].job = proc[p].job
  <2>1. CASE Goto(p, label)
    BY <1>1, <2>1 DEF Goto, ProcState
  <2>2. CASE GotoLoop(p, label, todo)
    BY <1>1, <2>2, ZenonT(60) DEF GotoLoop, ProcState
  <2> QED
    BY <2>1, <2>2
<1>3. GotoLoop(p, label, todo) => proc'[p].todo = todo
  BY <1>1 DEF GotoLoop, ProcState
<1>4. ProcShape(proc'[p])
  BY <1>2 DEF Shape, ProcShape, TxLabels
<1> QED
  BY <1>2, <1>3, <1>4 DEF Shape

LEMMA FinishedStep ==
  ASSUME Shape, NEW p \in Procs, NEW t, Finished(p, t)
  PROVE  /\ proc' \in [Procs -> ProcState]
         /\ \A q \in Procs : ProcShape(proc'[q])
         /\ \A q \in Procs \ {p} : proc'[q] = proc[q]
         /\ proc'[p].at \in {"idle", "next"}
         /\ proc[p].txs = {} => proc'[p] = Idle
<1> DEFINE rest == proc[p].txs \ {t}
           next == [Idle EXCEPT !.at = "next", !.job = "rollback", !.txs = rest]
<1>1. proc \in [Procs -> ProcState]
  BY DEF Shape, TypeOK
<1>2. Idle \in ProcState /\ Idle.at = "idle"
  BY DEF Idle, ProcState, Labels, AppendLabels, Jobs
<1>3. rest \subseteq Txs
  BY <1>1 DEF ProcState
<1>4. next \in ProcState /\ next.at = "next" /\ next.txs = rest
  BY <1>2, <1>3 DEF Idle, ProcState, Labels, AppendLabels, Jobs
<1>5. proc' = [proc EXCEPT ![p] = IF rest = {} THEN Idle ELSE next]
  BY DEF Finished
<1>6. ProcShape(Idle) /\ (rest # {} => ProcShape(next))
  BY <1>2, <1>4 DEF ProcShape, TxLabels
<1> HIDE DEF next
<1>7. proc[p].txs = {} => rest = {}
  OBVIOUS
<1> HIDE DEF rest
<1> QED
  BY <1>1, <1>2, <1>4, <1>5, <1>6, <1>7 DEF Shape

LEMMA StartAppendStep ==
  ASSUME Shape, NEW p \in Procs, NEW t \in Txs, NEW job \in Jobs, NEW txs \in SUBSET Txs,
         StartAppend(p, t, job, txs)
  PROVE  /\ proc' \in [Procs -> ProcState]
         /\ \A q \in Procs : ProcShape(proc'[q])
         /\ \A q \in Procs \ {p} : proc'[q] = proc[q]
         /\ proc'[p].at = IF IsRechargeToSideChainTx(t) THEN "mainRead" ELSE "reference"
         /\ proc'[p].job = job /\ proc'[p].txs = txs /\ proc'[p].tx = t
<1> DEFINE new == [at |-> IF IsRechargeToSideChainTx(t) THEN "mainRead" ELSE "reference",
                   job |-> job, txs |-> txs, tx |-> t, todo |-> {}]
<1>1. proc \in [Procs -> ProcState]
  BY DEF Shape, TypeOK
<1>2. new \in ProcState /\ ProcShape(new)
  BY DEF ProcState, Labels, AppendLabels, ProcShape, TxLabels
<1>3. proc' = [proc EXCEPT ![p] = new]
  BY DEF StartAppend
<1> QED
  BY <1>1, <1>2, <1>3 DEF Shape

LEMMA HandleEventStep ==
  ASSUME Shape, NEW p \in Procs, NEW e \in events, HandleEvent(p, e)
  PROVE  /\ proc' \in [Procs -> ProcState]
         /\ \A q \in Procs : ProcShape(proc'[q])
         /\ \A q \in Procs \ {p} : proc'[q] = proc[q]
         /\ proc'[p].at = IF e.job = "persist" THEN "cleanList" ELSE "next"
         /\ proc'[p].txs = e.txs
<1> DEFINE new == [at |-> IF e.job = "persist" THEN "cleanList" ELSE "next",
                   job |-> e.job, txs |-> e.txs, tx |-> NoTx, todo |-> {}]
<1>1. proc \in [Procs -> ProcState]
  BY DEF Shape, TypeOK
<1>2. e.job \in {"persist", "rollback"} /\ e.txs \in SUBSET Txs /\ e.txs # {}
  BY DEF Shape, TypeOK, NonEmptyBlocks
<1>3. new \in ProcState /\ ProcShape(new)
  BY <1>2 DEF ProcState, Labels, AppendLabels, Jobs, ProcShape, TxLabels
<1>4. proc' = [proc EXCEPT ![p] = new]
  BY DEF HandleEvent
<1> QED
  BY <1>1, <1>3, <1>4 DEF Shape

\* What is noted about transactions appended at the same time.
LEMMA OverlapStep ==
  ASSUME Shape, NEW p \in Procs, Step(p)
  PROVE  overlapped \subseteq overlapped' /\ overlapped' \subseteq SUBSET Txs
<1>1. overlapped \subseteq SUBSET Txs /\ BeingAppended \subseteq Txs
  BY DEF Shape, TypeOK, BeingAppended, ProcShape, AppendLabels, TxLabels
<1>2. ASSUME NEW t \in Txs, NEW job, NEW txs, StartAppend(p, t, job, txs)
      PROVE  overlapped \subseteq overlapped' /\ overlapped' \subseteq SUBSET Txs
  BY <1>1, <1>2 DEF StartAppend
<1>3. CASE UNCHANGED overlapped
  BY <1>1, <1>3
<1>4. ASSUME NEW t \in Txs, AppendToTxnPool(p, t) \/ MaybeAcceptTransaction(p, t)
      PROVE  overlapped \subseteq overlapped' /\ overlapped' \subseteq SUBSET Txs
  BY <1>2, <1>3, <1>4 DEF AppendToTxnPool, MaybeAcceptTransaction
<1> QED
  BY <1>3, <1>4
  DEF Step, VerifyDuplicateMainchainTx, AddMainchainTx, GetTxReference, GetInputUTXOList,
      AddInputUTXOList, RemoveTransaction, AddToTxList, HandleEvent, CleanTransactionList,
      CleanUTXOList, CleanMainchainTx

\* A goroutine leaves the ledger alone and sends no event.
LEMMA ProcStepShape ==
  ASSUME Shape, UNCHANGED ledgerVars, events' \subseteq events,
         overlapped' \subseteq SUBSET Txs,
         txnList' \subseteq Txs,
         inputUTXOList' \in [Outputs -> Txs \cup {NoTx}],
         mainchainTxList' \in [MainTxs -> Txs \cup {NoTx}],
         MainListShape',
         proc' \in [Procs -> ProcState],
         \A q \in Procs : ProcShape(proc'[q])
  PROVE  Shape'
<1>1. \A q \in Procs : (At(q, "next") => proc[q].txs # {})'
  BY DEF ProcShape, At
<1>2. TypeOK'
  BY <1>1 DEF Shape, TypeOK, ledgerVars
<1>3. NonEmptyBlocks'
  BY DEF Shape, NonEmptyBlocks, ledgerVars
<1>4. (\A q \in Procs : ProcShape(proc[q]))'
  BY DEF ProcShape
<1> QED
  BY <1>2, <1>3, <1>4 DEF Shape

\* The same for a step that leaves the pool alone too.
LEMMA ReadStepShape ==
  ASSUME Shape, UNCHANGED <<poolVars, ledgerVars>>, events' \subseteq events,
         overlapped' \subseteq SUBSET Txs,
         proc' \in [Procs -> ProcState],
         \A q \in Procs : ProcShape(proc'[q])
  PROVE  Shape'
<1>1. /\ UNCHANGED <<txnList, inputUTXOList, mainchainTxList>>
      /\ UNCHANGED ledgerVars
  BY DEF poolVars
<1>2. MainListShape'
  BY <1>1 DEF Shape, MainListShape
<1> QED
  BY <1>1, <1>2, ProcStepShape DEF Shape, TypeOK

LEMMA StepShape ==
  ASSUME Shape, NEW p \in Procs, Step(p)
  PROVE  Shape'
<1> DEFINE t == proc[p].tx
<1>0. overlapped' \subseteq SUBSET Txs
  BY OverlapStep
<1>1. /\ proc[p] \in ProcState /\ ProcShape(proc[p])
      /\ txnList \subseteq Txs
      /\ inputUTXOList \in [Outputs -> Txs \cup {NoTx}]
      /\ mainchainTxList \in [MainTxs -> Txs \cup {NoTx}]
      /\ MainListShape
      /\ proc \in [Procs -> ProcState] /\ \A q \in Procs : ProcShape(proc[q])
  BY DEF Shape, TypeOK
<1>2. proc[p].at \in TxLabels => t \in Txs /\ Inputs[t] \subseteq Outputs
  BY <1>1 DEF ProcShape
<1>3. /\ proc[p].todo \subseteq Outputs /\ proc[p].txs \subseteq Txs
      /\ proc[p].job \in Jobs
  BY <1>1 DEF ProcState
<1>4. ASSUME NEW u \in Txs, AppendToTxnPool(p, u)  PROVE Shape'
  <2>1. CASE UNCHANGED proc
    BY <1>1, <1>4, <2>1, <1>0, ReadStepShape DEF AppendToTxnPool
  <2>2. CASE StartAppend(p, u, "submit", {})
    BY <1>4, <2>2, StartAppendStep, <1>0, ReadStepShape DEF AppendToTxnPool, Jobs
  <2> QED
    BY <1>4, <2>1, <2>2 DEF AppendToTxnPool
<1>5. ASSUME NEW u \in Txs, MaybeAcceptTransaction(p, u)  PROVE Shape'
  <2>1. CASE Finished(p, u)
    BY <1>5, <2>1, FinishedStep, <1>0, ReadStepShape DEF MaybeAcceptTransaction
  <2>2. CASE StartAppend(p, u, "rollback", proc[p].txs)
    BY <1>3, <1>5, <2>2, StartAppendStep, <1>0, ReadStepShape DEF MaybeAcceptTransaction, Jobs
  <2> QED
    BY <1>5, <2>1, <2>2 DEF MaybeAcceptTransaction
<1>6. CASE VerifyDuplicateMainchainTx(p)
  <2>1. CASE Finished(p, t)
    BY <1>6, <2>1, FinishedStep, <1>0, ReadStepShape DEF VerifyDuplicateMainchainTx
  <2>2. CASE Goto(p, "mainClaim")
    <3>1. proc[p].at = "mainRead" /\ IsRechargeToSideChainTx(t)
      BY <1>1, <1>6 DEF VerifyDuplicateMainchainTx, At, ProcShape
    <3> QED
      BY <1>3, <1>6, <2>2, <3>1, GotoStep, <1>0, ReadStepShape
      DEF VerifyDuplicateMainchainTx, TxLabels, Labels, AppendLabels
  <2> QED
    BY <1>6, <2>1, <2>2 DEF VerifyDuplicateMainchainTx
<1>7. CASE AddMainchainTx(p)
  <2>1. /\ proc[p].at = "mainClaim" /\ t \in Txs /\ IsRechargeToSideChainTx(t)
        /\ MainTx[t] \in MainTxs
    BY <1>1, <1>7 DEF AddMainchainTx, At, ProcShape, TxLabels, IsRechargeToSideChainTx
  <2>2. /\ mainchainTxList' \in [MainTxs -> Txs \cup {NoTx}]
        /\ MainListShape'
    BY <1>1, <1>7, <2>1 DEF AddMainchainTx, MainListShape
  <2>3. /\ proc' \in [Procs -> ProcState]
        /\ \A q \in Procs : ProcShape(proc'[q])
    BY <1>3, <1>7, <2>1, GotoStep DEF AddMainchainTx, TxLabels, Labels, AppendLabels
  <2> QED
    BY <1>1, <1>7, <2>2, <2>3, <1>0, ProcStepShape DEF AddMainchainTx
<1>8. CASE GetTxReference(p)
  <2>1. proc[p].at = "reference" /\ Inputs[t] \subseteq Outputs
    BY <1>2, <1>8 DEF GetTxReference, At, TxLabels
  <2>2. /\ proc' \in [Procs -> ProcState]
        /\ \A q \in Procs : ProcShape(proc'[q])
    <3>1. CASE Finished(p, t)
      BY <3>1, FinishedStep
    <3>2. CASE Goto(p, "list")
      BY <1>3, <2>1, <3>2, GotoStep DEF TxLabels, Labels, AppendLabels
    <3>3. CASE GotoLoop(p, "verify", Inputs[t])
      BY <2>1, <3>3, GotoStep DEF TxLabels, Labels, AppendLabels
    <3> QED
      BY <1>8, <3>1, <3>2, <3>3 DEF GetTxReference
  <2> QED
    BY <1>8, <2>2, <1>0, ReadStepShape DEF GetTxReference
<1>9. ASSUME NEW i \in Outputs, GetInputUTXOList(p, i)  PROVE Shape'
  <2>1. proc[p].at = "verify" /\ Inputs[t] \subseteq Outputs
    BY <1>2, <1>9 DEF GetInputUTXOList, At, TxLabels
  <2>2. /\ proc' \in [Procs -> ProcState]
        /\ \A q \in Procs : ProcShape(proc'[q])
    <3>1. CASE Finished(p, t)
      BY <3>1, FinishedStep
    <3>2. CASE GotoLoop(p, "claim", Inputs[t])
      BY <2>1, <3>2, GotoStep DEF TxLabels, Labels, AppendLabels
    <3>3. CASE GotoLoop(p, "verify", proc[p].todo \ {i})
      <4>1. proc[p].todo \ {i} \in SUBSET Outputs
        BY <1>3
      <4> QED
        BY <2>1, <3>3, <4>1, GotoStep DEF TxLabels, Labels, AppendLabels
    <3> QED
      BY <1>9, <3>1, <3>2, <3>3 DEF GetInputUTXOList
  <2> QED
    BY <1>9, <2>2, <1>0, ReadStepShape DEF GetInputUTXOList
<1>10. ASSUME NEW i \in Outputs, AddInputUTXOList(p, i)  PROVE Shape'
  <2>1. proc[p].at = "claim" /\ t \in Txs
    BY <1>2, <1>10 DEF AddInputUTXOList, At, TxLabels
  <2>2. /\ proc' \in [Procs -> ProcState]
        /\ \A q \in Procs : ProcShape(proc'[q])
    <3>1. CASE GotoLoop(p, "list", {})
      BY <2>1, <3>1, GotoStep DEF TxLabels, Labels, AppendLabels
    <3>2. CASE GotoLoop(p, "claim", proc[p].todo \ {i})
      <4>1. proc[p].todo \ {i} \in SUBSET Outputs
        BY <1>3
      <4> QED
        BY <2>1, <3>2, <4>1, GotoStep DEF TxLabels, Labels, AppendLabels
    <3> QED
      BY <1>10, <3>1, <3>2 DEF AddInputUTXOList
  <2>3. inputUTXOList' \in [Outputs -> Txs \cup {NoTx}]
    BY <1>1, <1>10, <2>1 DEF AddInputUTXOList
  <2>4. MainListShape'
    BY <1>1, <1>10 DEF AddInputUTXOList, MainListShape
  <2> QED
    BY <1>1, <1>10, <2>2, <2>3, <2>4, <1>0, ProcStepShape DEF AddInputUTXOList
<1>11. ASSUME NEW i \in Outputs, RemoveTransaction(p, i)  PROVE Shape'
  <2>1. proc[p].at = "remove"
    BY <1>11 DEF RemoveTransaction, At
  <2>2. /\ proc' \in [Procs -> ProcState]
        /\ \A q \in Procs : ProcShape(proc'[q])
    <3>1. CASE Finished(p, t)
      BY <3>1, FinishedStep
    <3>2. CASE GotoLoop(p, "remove", proc[p].todo \ {i})
      <4>1. proc[p].todo \ {i} \in SUBSET Outputs
        BY <1>3
      <4> QED
        BY <2>1, <3>2, <4>1, GotoStep DEF TxLabels, Labels, AppendLabels
    <3> QED
      BY <1>11, <3>1, <3>2 DEF RemoveTransaction
  <2>3. inputUTXOList' \in [Outputs -> Txs \cup {NoTx}]
    BY <1>1, <1>11 DEF RemoveTransaction, Free
  <2>4. MainListShape' /\ txnList' \subseteq Txs
    BY <1>1, <1>11 DEF RemoveTransaction, MainListShape
  <2> QED
    BY <1>1, <1>11, <2>2, <2>3, <2>4, <1>0, ProcStepShape DEF RemoveTransaction
<1>12. CASE AddToTxList(p)
  <2>1. proc[p].at = "list" /\ t \in Txs
    BY <1>2, <1>12 DEF AddToTxList, At, TxLabels
  <2>2. /\ proc' \in [Procs -> ProcState]
        /\ \A q \in Procs : ProcShape(proc'[q])
    <3>1. CASE Finished(p, t)
      BY <3>1, FinishedStep
    <3>2. CASE GotoLoop(p, "remove", OutputsOf(t))
      <4>1. OutputsOf(t) \in SUBSET Outputs
        BY DEF OutputsOf
      <4> QED
        BY <2>1, <3>2, <4>1, GotoStep DEF TxLabels, Labels, AppendLabels
    <3> QED
      BY <1>12, <3>1, <3>2 DEF AddToTxList
  <2>3. MainListShape' /\ txnList' \subseteq Txs
    BY <1>1, <1>12, <2>1 DEF AddToTxList, MainListShape
  <2> QED
    BY <1>1, <1>12, <2>2, <2>3, <1>0, ProcStepShape DEF AddToTxList
<1>13. ASSUME NEW e \in events, HandleEvent(p, e)  PROVE Shape'
  BY <1>13, HandleEventStep, <1>0, ReadStepShape DEF HandleEvent
<1>14. CASE CleanTransactionList(p)
  <2>1. /\ proc' \in [Procs -> ProcState]
        /\ \A q \in Procs : ProcShape(proc'[q])
    BY <1>3, <1>14, GotoStep DEF CleanTransactionList, At, TxLabels, CleanLabels, Labels, AppendLabels
  <2>2. MainListShape' /\ txnList' \subseteq Txs
    BY <1>1, <1>14 DEF CleanTransactionList, MainListShape
  <2> QED
    BY <1>1, <1>14, <2>1, <2>2, <1>0, ProcStepShape DEF CleanTransactionList
<1>15. CASE CleanUTXOList(p)
  <2>1. /\ proc' \in [Procs -> ProcState]
        /\ \A q \in Procs : ProcShape(proc'[q])
    BY <1>3, <1>15, GotoStep DEF CleanUTXOList, At, TxLabels, CleanLabels, Labels, AppendLabels
  <2>2. inputUTXOList' \in [Outputs -> Txs \cup {NoTx}]
    BY <1>1, <1>15 DEF CleanUTXOList, Free
  <2>3. MainListShape'
    BY <1>1, <1>15 DEF CleanUTXOList, MainListShape
  <2> QED
    BY <1>1, <1>15, <2>1, <2>2, <2>3, <1>0, ProcStepShape DEF CleanUTXOList
<1>16. CASE CleanMainchainTx(p)
  <2>1. Idle \in ProcState /\ ProcShape(Idle)
    BY DEF Idle, ProcState, ProcShape, Labels, AppendLabels, Jobs, TxLabels
  <2>2. /\ proc' \in [Procs -> ProcState]
        /\ \A q \in Procs : ProcShape(proc'[q])
    BY <1>1, <1>16, <2>1 DEF CleanMainchainTx
  <2>3. txnList' \subseteq Txs /\ UNCHANGED <<ledgerVars, events>>
    BY <1>1, <1>16 DEF CleanMainchainTx
  <2>4. inputUTXOList' \in [Outputs -> Txs \cup {NoTx}]
    BY <1>1, <1>16 DEF CleanMainchainTx, Free
  <2>5. /\ mainchainTxList' \in [MainTxs -> Txs \cup {NoTx}]
        /\ MainListShape'
    BY <1>1, <1>16 DEF CleanMainchainTx, Free, MainListShape
  <2> QED
    BY <2>2, <2>3, <2>4, <2>5, <1>0, ProcStepShape
<1> QED
  BY <1>4, <1>5, <1>6, <1>7, <1>8, <1>9, <1>10, <1>11, <1>12, <1>13, <1>14, <1>15, <1>16
  DEF Step

LEMMA PersistShape ==
  ASSUME Shape, NEW block \in (SUBSET Txs) \ {{}}, PersistBlock(block)
  PROVE  Shape'
<1> DEFINE event == [job |-> "persist", txs |-> block, id |-> changes]
<1>1. /\ UNCHANGED <<txnList, inputUTXOList, mainchainTxList, proc, undone, overlapped>>
      /\ chain' = Append(chain, block)
      /\ events' = events \cup {event}
      /\ changes' = changes + 1
      /\ overtaken' = overtaken \cup (block \cap BeingAppended)
  BY DEF PersistBlock, poolVars
<1>2. chain \in Seq(SUBSET Txs) /\ changes \in Nat
  BY DEF Shape, TypeOK
<1>3. event \in [job : {"persist", "rollback"}, txs : SUBSET Txs, id : Nat]
  BY <1>2
<1>4. event.txs # {}
  OBVIOUS
<1> HIDE DEF event
<1>5. chain' \in Seq(SUBSET Txs)
  BY <1>1, <1>2
<1>6. TypeOK'
  <2>1. /\ UNCHANGED <<txnList, inputUTXOList, mainchainTxList, proc, undone, overlapped>>
        /\ changes' \in Nat /\ overtaken' \subseteq Txs
        /\ events' \subseteq [job : {"persist", "rollback"}, txs : SUBSET Txs, id : Nat]
    BY <1>1, <1>2, <1>3 DEF Shape, TypeOK
  <2> QED
    BY <1>5, <2>1 DEF Shape, TypeOK, At
<1>7. \A h \in DOMAIN chain' : chain'[h] # {}
  <2>1. /\ DOMAIN chain' = 1 .. Len(chain) + 1
        /\ \A h \in 1 .. Len(chain) : chain'[h] = chain[h]
        /\ chain'[Len(chain) + 1] = block
    BY <1>1, <1>2
  <2>2. \A h \in 1 .. Len(chain) : chain[h] # {}
    BY <1>2 DEF Shape, NonEmptyBlocks
  <2> QED
    BY <1>2, <2>1, <2>2
<1>8. NonEmptyBlocks'
  BY <1>1, <1>4, <1>7 DEF Shape, NonEmptyBlocks
<1> QED
  BY <1>1, <1>6, <1>8 DEF Shape, MainListShape, ProcShape

LEMMA RollbackShape ==
  ASSUME Shape, RollbackBlock
  PROVE  Shape'
<1> DEFINE n == Len(chain)
           event == [job |-> "rollback", txs |-> chain[n], id |-> changes]
<1>1. /\ UNCHANGED <<txnList, inputUTXOList, mainchainTxList, proc, overtaken, overlapped>>
      /\ chain' = SubSeq(chain, 1, n - 1)
      /\ events' = events \cup {event}
      /\ changes' = changes + 1
      /\ undone' = undone \cup chain[n]
  BY DEF RollbackBlock, poolVars
<1>2. chain \in Seq(SUBSET Txs) /\ changes \in Nat
  BY DEF Shape, TypeOK
<1>3. n \in Nat /\ n \in DOMAIN chain /\ DOMAIN chain = 1..n
  BY <1>2 DEF RollbackBlock
<1>4. chain[n] \in SUBSET Txs /\ chain[n] # {}
  BY <1>2, <1>3 DEF Shape, NonEmptyBlocks
<1> HIDE DEF n
<1>5. event \in [job : {"persist", "rollback"}, txs : SUBSET Txs, id : Nat]
  BY <1>2, <1>4
<1>6. event.txs # {}
  BY <1>4
<1> HIDE DEF event
<1>7. /\ chain' \in Seq(SUBSET Txs)
      /\ DOMAIN chain' = 1 .. n - 1
      /\ \A h \in 1 .. n - 1 : chain'[h] = chain[h]
  BY <1>1, <1>2, <1>3
<1>8. TypeOK'
  <2>1. /\ undone' \subseteq Txs /\ overtaken' \subseteq Txs /\ overlapped' \subseteq SUBSET Txs
        /\ changes' \in Nat
        /\ events' \subseteq [job : {"persist", "rollback"}, txs : SUBSET Txs, id : Nat]
    BY <1>1, <1>2, <1>4, <1>5 DEF Shape, TypeOK
  <2>2. UNCHANGED <<txnList, inputUTXOList, mainchainTxList, proc>>
    BY <1>1
  <2> QED
    BY <1>7, <2>1, <2>2 DEF Shape, TypeOK, At
<1>9. \A h \in DOMAIN chain' : chain'[h] # {}
  BY <1>3, <1>7 DEF Shape, NonEmptyBlocks
<1>10. NonEmptyBlocks'
  BY <1>1, <1>6, <1>9 DEF Shape, NonEmptyBlocks
<1> QED
  BY <1>1, <1>8, <1>10 DEF Shape, MainListShape, ProcShape

LEMMA StutterShape ==
  ASSUME Shape, UNCHANGED vars
  PROVE  Shape'
<1>1. /\ UNCHANGED <<poolVars, ledgerVars>>
      /\ events' = events /\ proc' = proc /\ overlapped' = overlapped
  BY DEF vars
<1> QED
  BY <1>1, ReadStepShape DEF Shape, TypeOK

LEMMA NextShape == Shape /\ [Next]_vars => Shape'
  BY StepShape, PersistShape, RollbackShape, StutterShape DEF Next

\* The pool, the ledger and the goroutines keep their types, and
\* RollbackTransaction never runs its loop with nothing left to take.
THEOREM PoolTypeCorrect == Spec => []TypeOK
<1>1. Shape => TypeOK
  BY DEF Shape
<1> QED
  BY <1>1, InitShape, NextShape, PTL DEF Spec

-----------------------------------------------------------------------------
(* Where goroutines and events come from.                                  *)

\* What the ways to move a goroutine do to its record and to those of others.
LEMMA MoveFields ==
  ASSUME Shape, NEW p \in Procs
  PROVE  /\ \A label : Goto(p, label) =>
              /\ \A q \in Procs \ {p} : proc'[q] = proc[q]
              /\ proc'[p].at = label /\ proc'[p].tx = proc[p].tx /\ proc'[p].job = proc[p].job
              /\ proc'[p].txs = proc[p].txs /\ proc'[p].todo = proc[p].todo
         /\ \A label, todo : GotoLoop(p, label, todo) =>
              /\ \A q \in Procs \ {p} : proc'[q] = proc[q]
              /\ proc'[p].at = label /\ proc'[p].tx = proc[p].tx /\ proc'[p].job = proc[p].job
              /\ proc'[p].txs = proc[p].txs /\ proc'[p].todo = todo
         /\ \A t : Finished(p, t) =>
              /\ \A q \in Procs \ {p} : proc'[q] = proc[q]
              /\ \/ proc'[p].at = "idle"
                 \/ proc'[p].at = "next" /\ proc[p].txs # {}
              /\ proc'[p].txs \subseteq proc[p].txs
         /\ \A t, job, txs : StartAppend(p, t, job, txs) =>
              /\ \A q \in Procs \ {p} : proc'[q] = proc[q]
              /\ proc'[p].at = IF IsRechargeToSideChainTx(t) THEN "mainRead" ELSE "reference"
              /\ proc'[p].job = job /\ proc'[p].txs = txs /\ proc'[p].tx = t
<1>1. proc \in [Procs -> ProcState] /\ proc[p] \in ProcState
  BY DEF Shape, TypeOK
<1>2. ASSUME NEW label, Goto(p, label)
      PROVE  /\ \A q \in Procs \ {p} : proc'[q] = proc[q]
             /\ proc'[p].at = label /\ proc'[p].tx = proc[p].tx /\ proc'[p].job = proc[p].job
             /\ proc'[p].txs = proc[p].txs /\ proc'[p].todo = proc[p].todo
  BY <1>1, <1>2 DEF Goto, ProcState
<1>3. ASSUME NEW label, NEW todo, GotoLoop(p, label, todo)
      PROVE  /\ \A q \in Procs \ {p} : proc'[q] = proc[q]
             /\ proc'[p].at = label /\ proc'[p].tx = proc[p].tx /\ proc'[p].job = proc[p].job
             /\ proc'[p].txs = proc[p].txs /\ proc'[p].todo = todo
  BY <1>1, <1>3 DEF GotoLoop, ProcState
<1>4. ASSUME NEW t, Finished(p, t)
      PROVE  /\ \A q \in Procs \ {p} : proc'[q] = proc[q]
             /\ \/ proc'[p].at = "idle"
                \/ proc'[p].at = "next" /\ proc[p].txs # {}
             /\ proc'[p].txs \subseteq proc[p].txs
  <2> DEFINE rest == proc[p].txs \ {t}
             next == [Idle EXCEPT !.at = "next", !.job = "rollback", !.txs = rest]
  <2>1. proc' = [proc EXCEPT ![p] = IF rest = {} THEN Idle ELSE next]
    BY <1>4 DEF Finished
  <2>2. Idle.at = "idle" /\ Idle.txs = {} /\ next.at = "next" /\ next.txs = rest
    BY DEF Idle
  <2>3. rest \subseteq proc[p].txs
    OBVIOUS
  <2> HIDE DEF rest, next
  <2> QED
    BY <1>1, <2>1, <2>2, <2>3
<1>5. ASSUME NEW t, NEW job, NEW txs, StartAppend(p, t, job, txs)
      PROVE  /\ \A q \in Procs \ {p} : proc'[q] = proc[q]
             /\ proc'[p].at = IF IsRechargeToSideChainTx(t) THEN "mainRead" ELSE "reference"
             /\ proc'[p].job = job /\ proc'[p].txs = txs /\ proc'[p].tx = t
  BY <1>1, <1>5 DEF StartAppend
<1> QED
  BY <1>2, <1>3, <1>4, <1>5

\* A step of a goroutine leaves the ledger and the other goroutines alone.
LEMMA StepFrame ==
  ASSUME Shape, NEW p \in Procs, Step(p)
  PROVE  /\ UNCHANGED ledgerVars /\ events' \subseteq events
         /\ confirmed' = confirmed /\ seen' = seen
         /\ \A q \in Procs \ {p} : proc'[q] = proc[q]
<1>1. UNCHANGED ledgerVars /\ events' \subseteq events
  BY DEF Step, AppendToTxnPool, MaybeAcceptTransaction, VerifyDuplicateMainchainTx, AddMainchainTx,
         GetTxReference, GetInputUTXOList, AddInputUTXOList, RemoveTransaction, AddToTxList,
         HandleEvent, CleanTransactionList, CleanUTXOList, CleanMainchainTx
<1>2. \/ proc' = proc
      \/ \E label : Goto(p, label)
      \/ \E label, todo : GotoLoop(p, label, todo)
      \/ \E t : Finished(p, t)
      \/ \E t, job, txs : StartAppend(p, t, job, txs)
      \/ \E r : proc' = [proc EXCEPT ![p] = r]
  BY DEF Step, AppendToTxnPool, MaybeAcceptTransaction, VerifyDuplicateMainchainTx, AddMainchainTx,
         GetTxReference, GetInputUTXOList, AddInputUTXOList, RemoveTransaction, AddToTxList,
         HandleEvent, CleanTransactionList, CleanUTXOList, CleanMainchainTx
<1>3. \A q \in Procs \ {p} : proc'[q] = proc[q]
  BY <1>2, MoveFields DEF Shape, TypeOK
<1>4. confirmed' = confirmed /\ seen' = seen
  BY <1>1 DEF ledgerVars, confirmed, seen
<1> QED
  BY <1>1, <1>3, <1>4

\* A goroutine cleans up after a block that the ledger has or had, and rolls
\* back the transactions of one that it had; its loops run over the inputs or
\* the outputs of its transaction.
ProcJob(q) ==
  /\ q.at \in CleanLabels => q.txs \subseteq seen
  /\ q.at = "next" => q.txs \subseteq undone
  /\ q.at \in TxLabels => \/ q.txs = {} /\ q.job # "rollback"
                          \/ q.txs \subseteq undone /\ q.tx \in undone
  /\ q.at \in {"verify", "claim"} => q.todo \subseteq Inputs[q.tx] /\ Inputs[q.tx] # {}
  /\ q.at = "remove" => q.tx \in undone /\ q.todo \subseteq OutputsOf(q.tx)

\* A claim is one of a transaction with this input, and the ledger has, or had,
\* what its transactions spend.
JobInv ==
  /\ \A e \in events : /\ e.txs \subseteq seen
                       /\ e.job = "rollback" => e.txs \subseteq undone
  /\ \A p \in Procs : ProcJob(proc[p])
  /\ \A i \in Outputs : inputUTXOList[i] # NoTx => i \in Inputs[inputUTXOList[i]]
  /\ \A t \in seen : \A i \in Inputs[t] : Creator[i] \in seen \cup {NoTx}

LEMMA InitJobs == Init => JobInv
<1> SUFFICES ASSUME Init PROVE JobInv
  OBVIOUS
<1>1. \A p \in Procs : proc[p].at = "idle"
  BY DEF Init, Idle
<1>2. seen = {}
  BY DEF Init, seen, confirmed
<1> QED
  BY <1>1, <1>2 DEF Init, JobInv, ProcJob, CleanLabels, TxLabels

LEMMA StepJobs ==
  ASSUME Shape, JobInv, NEW p \in Procs, Step(p)
  PROVE  JobInv'
<1>0. PICK t : t = proc[p].tx
  OBVIOUS
<1>1. /\ proc[p] \in ProcState /\ ProcShape(proc[p]) /\ ProcJob(proc[p])
      /\ inputUTXOList \in [Outputs -> Txs \cup {NoTx}]
      /\ proc[p].txs \subseteq Txs
      /\ proc \in [Procs -> ProcState]
  BY DEF Shape, TypeOK, JobInv, ProcState
<1>2. proc[p].at \in TxLabels => t \in Txs /\ Inputs[t] \subseteq Outputs
  BY <1>0, <1>1 DEF ProcShape
<1>3. /\ events' \subseteq events /\ seen' = seen /\ undone' = undone
      /\ \A q \in Procs \ {p} : proc'[q] = proc[q]
  BY StepFrame DEF ledgerVars
<1>4. ASSUME \A i \in Outputs : inputUTXOList'[i] # NoTx => i \in Inputs[inputUTXOList'[i]],
             ProcJob(proc[p])'
      PROVE  JobInv'
  <2>1. \A q \in Procs : ProcJob(proc[q])'
    BY <1>3, <1>4 DEF JobInv, ProcJob
  <2> QED
    BY <1>3, <1>4, <2>1 DEF JobInv
<1>5. ASSUME \A i \in Outputs : inputUTXOList'[i] \in {inputUTXOList[i], NoTx},
             ProcJob(proc[p])'
      PROVE  JobInv'
  BY <1>1, <1>4, <1>5 DEF JobInv
<1>6. ASSUME proc[p].at \in TxLabels, Finished(p, t)
      PROVE  ProcJob(proc[p])'
  <2>1. \/ proc'[p].at = "idle"
        \/ proc'[p].at = "next" /\ proc'[p].txs \subseteq undone
    BY <1>1, <1>6, MoveFields DEF ProcJob
  <2> QED
    BY <1>3, <2>1 DEF ProcJob, CleanLabels, TxLabels
<1>7. ASSUME NEW label \in AppendLabels, proc[p].at \in TxLabels,
             \/ Goto(p, label) /\ label \notin {"verify", "claim"}
             \/ \E todo : /\ GotoLoop(p, label, todo)
                          /\ label \in {"verify", "claim"} => todo \subseteq Inputs[t] /\ Inputs[t] # {}
      PROVE  ProcJob(proc[p])'
  <2>1. /\ proc'[p].at = label /\ proc'[p].tx = t /\ proc'[p].job = proc[p].job
        /\ proc'[p].txs = proc[p].txs
        /\ label \in {"verify", "claim"} => proc'[p].todo \subseteq Inputs[t] /\ Inputs[t] # {}
    BY <1>0, <1>7, MoveFields
  <2> QED
    BY <1>0, <1>1, <1>3, <1>7, <2>1 DEF ProcJob, CleanLabels, TxLabels, AppendLabels
<1>8. ASSUME NEW u \in Txs, AppendToTxnPool(p, u)
      PROVE  JobInv'
  <2>1. UNCHANGED inputUTXOList /\ proc[p].at = "idle"
    BY <1>8 DEF AppendToTxnPool, poolVars, At
  <2>2. CASE UNCHANGED proc
    BY <1>3, <1>5, <2>1, <2>2 DEF ProcJob, CleanLabels, TxLabels
  <2>3. CASE StartAppend(p, u, "submit", {})
    <3>1. proc'[p].at \in {"mainRead", "reference"} /\ proc'[p].txs = {} /\ proc'[p].job = "submit"
      BY <2>3, MoveFields
    <3>2. ProcJob(proc[p])'
      BY <3>1 DEF ProcJob, CleanLabels, TxLabels
    <3> QED
      BY <1>5, <2>1, <3>2
  <2> QED
    BY <1>8, <2>2, <2>3 DEF AppendToTxnPool
<1>9. ASSUME NEW u \in Txs, MaybeAcceptTransaction(p, u)
      PROVE  JobInv'
  <2>1. UNCHANGED inputUTXOList /\ proc[p].at = "next" /\ u \in proc[p].txs
        /\ proc[p].txs \subseteq undone
    BY <1>1, <1>9 DEF MaybeAcceptTransaction, poolVars, At, ProcJob
  <2>2. CASE Finished(p, u)
    <3>1. proc'[p].at \in {"idle", "next"} /\ proc'[p].txs \subseteq undone
      BY <2>1, <2>2, MoveFields
    <3>2. ProcJob(proc[p])'
      BY <1>3, <3>1 DEF ProcJob, CleanLabels, TxLabels
    <3> QED
      BY <1>5, <2>1, <3>2
  <2>3. CASE StartAppend(p, u, "rollback", proc[p].txs)
    <3>1. /\ proc'[p].at \in {"mainRead", "reference"} /\ proc'[p].txs = proc[p].txs
          /\ proc'[p].tx = u
      BY <2>3, MoveFields
    <3>2. ProcJob(proc[p])'
      BY <1>3, <2>1, <3>1 DEF ProcJob, CleanLabels, TxLabels
    <3> QED
      BY <1>5, <2>1, <3>2
  <2> QED
    BY <1>9, <2>2, <2>3 DEF MaybeAcceptTransaction
<1>10. CASE VerifyDuplicateMainchainTx(p)
  <2>1. /\ UNCHANGED inputUTXOList /\ proc[p].at = "mainRead"
        /\ Finished(p, t) \/ Goto(p, "mainClaim")
    BY <1>0, <1>10 DEF VerifyDuplicateMainchainTx, poolVars, At
  <2>2. ProcJob(proc[p])'
    BY <1>6, <1>7, <2>1 DEF TxLabels, AppendLabels
  <2> QED
    BY <1>5, <2>1, <2>2
<1>11. CASE AddMainchainTx(p)
  <2>1. UNCHANGED inputUTXOList /\ proc[p].at = "mainClaim" /\ Goto(p, "reference")
    BY <1>11 DEF AddMainchainTx, At
  <2>2. ProcJob(proc[p])'
    BY <1>7, <2>1 DEF TxLabels, AppendLabels
  <2> QED
    BY <1>5, <2>1, <2>2
<1>12. CASE GetTxReference(p)
  <2>1. /\ UNCHANGED inputUTXOList /\ proc[p].at = "reference"
        /\ \/ Finished(p, t) \/ Goto(p, "list")
           \/ GotoLoop(p, "verify", Inputs[t]) /\ Inputs[t] # {}
    BY <1>0, <1>12 DEF GetTxReference, poolVars, At
  <2>2. ProcJob(proc[p])'
    BY <1>6, <1>7, <2>1 DEF TxLabels, AppendLabels
  <2> QED
    BY <1>5, <2>1, <2>2
<1>13. ASSUME NEW i \in Outputs, GetInputUTXOList(p, i)
       PROVE  JobInv'
  <2>1. /\ UNCHANGED inputUTXOList /\ proc[p].at = "verify"
        /\ \/ Finished(p, t) \/ GotoLoop(p, "claim", Inputs[t])
           \/ GotoLoop(p, "verify", proc[p].todo \ {i})
    BY <1>0, <1>13 DEF GetInputUTXOList, poolVars, At
  <2>2. proc[p].todo \subseteq Inputs[t] /\ Inputs[t] # {}
    BY <1>0, <1>1, <2>1 DEF ProcJob
  <2>3. ProcJob(proc[p])'
    BY <1>6, <1>7, <2>1, <2>2 DEF TxLabels, AppendLabels
  <2> QED
    BY <1>5, <2>1, <2>3
<1>14. ASSUME NEW i \in Outputs, AddInputUTXOList(p, i)
       PROVE  JobInv'
  <2>1. /\ proc[p].at = "claim" /\ i \in proc[p].todo
        /\ GotoLoop(p, "list", {}) \/ GotoLoop(p, "claim", proc[p].todo \ {i})
    BY <1>14 DEF AddInputUTXOList, At
  <2>2. proc[p].todo \subseteq Inputs[t] /\ Inputs[t] # {}
    BY <1>0, <1>1, <2>1 DEF ProcJob
  <2>3. ProcJob(proc[p])'
    BY <1>7, <2>1, <2>2 DEF TxLabels, AppendLabels
  <2>4. \A j \in Outputs : inputUTXOList'[j] = inputUTXOList[j] \/ (j = i /\ inputUTXOList'[j] = t)
    BY <1>0, <1>1, <1>14 DEF AddInputUTXOList
  <2>5. \A j \in Outputs : inputUTXOList'[j] # NoTx => j \in Inputs[inputUTXOList'[j]]
    BY <2>1, <2>2, <2>4 DEF JobInv
  <2> QED
    BY <1>4, <2>3, <2>5
<1>15. ASSUME NEW i \in Outputs, RemoveTransaction(p, i)
       PROVE  JobInv'
  <2>1. /\ proc[p].at = "remove"
        /\ Finished(p, t) \/ GotoLoop(p, "remove", proc[p].todo \ {i})
    BY <1>0, <1>15 DEF RemoveTransaction, At
  <2>2. \A j \in Outputs : inputUTXOList'[j] \in {inputUTXOList[j], NoTx}
    BY <1>1, <1>15 DEF RemoveTransaction, Free
  <2>3. CASE GotoLoop(p, "remove", proc[p].todo \ {i})
    <3>1. /\ proc'[p].at = "remove" /\ proc'[p].tx = t /\ proc'[p].job = proc[p].job
          /\ proc'[p].txs = proc[p].txs /\ proc'[p].todo \subseteq proc[p].todo
      BY <1>0, <2>3, MoveFields
    <3>2. ProcJob(proc[p])'
      BY <1>0, <1>1, <1>3, <2>1, <3>1 DEF ProcJob, CleanLabels, TxLabels, OutputsOf
    <3> QED
      BY <1>5, <2>2, <3>2
  <2> QED
    BY <1>5, <1>6, <2>1, <2>2, <2>3 DEF TxLabels
<1>16. CASE AddToTxList(p)
  <2>1. /\ UNCHANGED inputUTXOList /\ proc[p].at = "list"
        /\ \/ Finished(p, t)
           \/ GotoLoop(p, "remove", OutputsOf(t)) /\ proc[p].job = "rollback"
    BY <1>0, <1>16 DEF AddToTxList, At
  <2>2. CASE GotoLoop(p, "remove", OutputsOf(t)) /\ proc[p].job = "rollback"
    <3>1. /\ proc'[p].at = "remove" /\ proc'[p].tx = t /\ proc'[p].job = proc[p].job
          /\ proc'[p].txs = proc[p].txs /\ proc'[p].todo = OutputsOf(t)
      BY <1>0, <2>2, MoveFields
    <3>2. proc[p].txs \subseteq undone /\ t \in undone
      BY <1>0, <1>1, <2>1, <2>2 DEF ProcJob, TxLabels
    <3>3. ProcJob(proc[p])'
      BY <1>3, <3>1, <3>2 DEF ProcJob, CleanLabels, TxLabels, OutputsOf
    <3> QED
      BY <1>5, <2>1, <3>3
  <2> QED
    BY <1>5, <1>6, <2>1, <2>2 DEF TxLabels
<1>17. ASSUME NEW e \in events, HandleEvent(p, e)
       PROVE  JobInv'
  <2>1. UNCHANGED inputUTXOList /\ e.job \in {"persist", "rollback"}
    BY <1>17 DEF HandleEvent, poolVars, Shape, TypeOK
  <2>2. /\ proc'[p].at = IF e.job = "persist" THEN "cleanList" ELSE "next"
        /\ proc'[p].txs = e.txs
    BY <1>17, HandleEventStep
  <2>3. e.txs \subseteq seen /\ (e.job = "rollback" => e.txs \subseteq undone)
    BY DEF JobInv
  <2>4. ProcJob(proc[p])'
    BY <1>3, <2>1, <2>2, <2>3 DEF ProcJob, CleanLabels, TxLabels
  <2> QED
    BY <1>5, <2>1, <2>4
<1>18. CASE CleanTransactionList(p) \/ CleanUTXOList(p)
  <2>1. /\ proc[p].at \in CleanLabels
        /\ \E label \in {"cleanUTXO", "cleanMainchain"} : Goto(p, label)
    BY <1>18 DEF CleanTransactionList, CleanUTXOList, At, CleanLabels
  <2>2. proc'[p].at \in CleanLabels /\ proc'[p].txs = proc[p].txs
    BY <2>1, MoveFields DEF CleanLabels
  <2>3. ProcJob(proc[p])'
    BY <1>1, <1>3, <2>1, <2>2 DEF ProcJob, CleanLabels, TxLabels
  <2>4. \A i \in Outputs : inputUTXOList'[i] \in {inputUTXOList[i], NoTx}
    BY <1>1, <1>18 DEF CleanTransactionList, CleanUTXOList, Free
  <2> QED
    BY <1>5, <2>3, <2>4
<1>19. CASE CleanMainchainTx(p)
  <2>1. proc'[p].at = "idle"
    BY <1>1, <1>19 DEF CleanMainchainTx, Idle
  <2>2. ProcJob(proc[p])'
    BY <2>1 DEF ProcJob, CleanLabels, TxLabels
  <2>3. \A i \in Outputs : inputUTXOList'[i] \in {inputUTXOList[i], NoTx}
    BY <1>1, <1>19 DEF CleanMainchainTx, Free
  <2> QED
    BY <1>5, <2>2, <2>3
<1> QED
  BY <1>8, <1>9, <1>10, <1>11, <1>12, <1>13, <1>14, <1>15, <1>16, <1>17, <1>18, <1>19 DEF Step

\* A block that is persisted adds its transactions to those of the ledger, ...
LEMMA PersistLedger ==
  ASSUME Shape, NEW block \in (SUBSET Txs) \ {{}}, PersistBlock(block)
  PROVE  /\ confirmed' = confirmed \cup block
         /\ undone' = undone /\ seen' = seen \cup block
         /\ UNCHANGED <<txnList, inputUTXOList, mainchainTxList, proc, overlapped>>
         /\ \E e : /\ events' = events \cup {e}
                   /\ e.job = "persist" /\ e.txs = block
<1>1. chain \in Seq(SUBSET Txs) /\ chain' = Append(chain, block) /\ undone' = undone
  BY DEF PersistBlock, Shape, TypeOK
<1>2. /\ DOMAIN chain = 1 .. Len(chain) /\ Len(chain) \in Nat
      /\ DOMAIN chain' = 1 .. Len(chain) + 1
      /\ \A h \in 1 .. Len(chain) : chain'[h] = chain[h]
      /\ chain'[Len(chain) + 1] = block
  BY <1>1
<1>3. /\ \A h \in DOMAIN chain : h \in DOMAIN chain' /\ chain'[h] = chain[h]
      /\ Len(chain) + 1 \in DOMAIN chain'
      /\ \A h \in DOMAIN chain' : (h \in DOMAIN chain /\ chain'[h] = chain[h]) \/ chain'[h] = block
  BY <1>2
<1>4. confirmed \subseteq confirmed'
  BY <1>3 DEF confirmed
<1>5. block \subseteq confirmed'
  BY <1>2, <1>3 DEF confirmed
<1>6. confirmed' \subseteq confirmed \cup block
  BY <1>3 DEF confirmed
<1>7. seen' = seen \cup block
  BY <1>1, <1>4, <1>5, <1>6 DEF seen
<1> DEFINE event == [job |-> "persist", txs |-> block, id |-> changes]
<1>8. /\ UNCHANGED <<txnList, inputUTXOList, mainchainTxList, proc, overlapped>>
      /\ events' = events \cup {event}
  BY DEF PersistBlock, poolVars
<1>9. event.job = "persist" /\ event.txs = block
  OBVIOUS
<1> HIDE DEF event
<1> QED
  BY <1>1, <1>4, <1>5, <1>6, <1>7, <1>8, <1>9

\* ... and one that is rolled back takes its own off, but they have been there.
LEMMA RollbackLedger ==
  ASSUME Shape, RollbackBlock
  PROVE  /\ confirmed' \subseteq confirmed /\ seen' = seen
         /\ undone \subseteq undone'
         /\ UNCHANGED <<txnList, inputUTXOList, mainchainTxList, proc, overlapped, overtaken>>
         /\ \E e : /\ events' = events \cup {e}
                   /\ e.job = "rollback" /\ e.txs \subseteq undone'
<1> DEFINE n == Len(chain)
<1>1. /\ chain \in Seq(SUBSET Txs) /\ chain # << >> /\ chain' = SubSeq(chain, 1, n - 1)
      /\ undone' = undone \cup chain[n]
  BY DEF RollbackBlock, Shape, TypeOK
<1>2. /\ DOMAIN chain = 1 .. n /\ n \in Nat \ {0}
      /\ DOMAIN chain' = 1 .. n - 1
      /\ \A h \in 1 .. n - 1 : chain'[h] = chain[h]
  BY <1>1
<1> HIDE DEF n
<1>3. /\ \A h \in DOMAIN chain' : h \in DOMAIN chain /\ chain'[h] = chain[h]
      /\ \A h \in DOMAIN chain : (h \in DOMAIN chain' /\ chain'[h] = chain[h]) \/ h = n
      /\ n \in DOMAIN chain
  BY <1>2
<1>4. confirmed' \subseteq confirmed
  BY <1>3 DEF confirmed
<1>5. confirmed \subseteq confirmed' \cup chain[n]
  BY <1>3 DEF confirmed
<1>6. chain[n] \subseteq confirmed
  BY <1>3 DEF confirmed
<1>7. seen' = seen
  BY <1>1, <1>4, <1>5, <1>6 DEF seen
<1> DEFINE event == [job |-> "rollback", txs |-> chain[n], id |-> changes]
<1>8. /\ UNCHANGED <<txnList, inputUTXOList, mainchainTxList, proc, overlapped, overtaken>>
      /\ events' = events \cup {event}
  BY DEF RollbackBlock, poolVars, n
<1>9. event.job = "rollback" /\ event.txs = chain[n]
  OBVIOUS
<1> HIDE DEF event
<1> QED
  BY <1>1, <1>4, <1>7, <1>8, <1>9

LEMMA NextJobs == Shape /\ JobInv /\ [Next]_vars => JobInv'
<1> SUFFICES ASSUME Shape, JobInv, [Next]_vars PROVE JobInv'
  OBVIOUS
<1>1. ASSUME seen \subseteq seen', undone \subseteq undone', UNCHANGED <<inputUTXOList, proc>>,
             \A e \in events' \ events : /\ e.txs \subseteq seen'
                                         /\ e.job = "rollback" => e.txs \subseteq undone',
             \A t \in seen' \ seen : \A i \in Inputs[t] : Creator[i] \in seen' \cup {NoTx}
      PROVE  JobInv'
  <2>1. \A p \in Procs : ProcJob(proc[p])'
    BY <1>1 DEF JobInv, ProcJob, OutputsOf
  <2>2. \A e \in events' : /\ e.txs \subseteq seen'
                           /\ e.job = "rollback" => e.txs \subseteq undone'
    BY <1>1 DEF JobInv
  <2>3. \A t \in seen' : \A i \in Inputs[t] : Creator[i] \in seen' \cup {NoTx}
    BY <1>1 DEF JobInv
  <2> QED
    BY <1>1, <2>1, <2>2, <2>3 DEF JobInv
<1>2. ASSUME NEW block \in (SUBSET Txs) \ {{}}, PersistBlock(block)
      PROVE  JobInv'
  <2>1. \A t \in block : \A i \in Inputs[t] : Creator[i] \in seen' \cup {NoTx}
    BY <1>2, PersistLedger DEF PersistBlock, HasTxReference, seen
  <2>2. \A e \in events' \ events : e.txs \subseteq seen' /\ e.job # "rollback"
    BY <1>2, PersistLedger
  <2> QED
    BY <1>1, <1>2, <2>1, <2>2, PersistLedger
<1>3. CASE RollbackBlock
  <2>1. \A e \in events' \ events : e.txs \subseteq seen' /\ e.txs \subseteq undone'
    BY <1>3, RollbackLedger DEF seen
  <2> QED
    BY <1>1, <1>3, <2>1, RollbackLedger
<1>4. CASE UNCHANGED vars
  <2>1. seen' = seen /\ UNCHANGED <<undone, inputUTXOList, proc, events>>
    BY <1>4 DEF vars, poolVars, ledgerVars, seen, confirmed
  <2> QED
    BY <1>1, <2>1
<1> QED
  BY <1>2, <1>3, <1>4, StepJobs DEF Next

-----------------------------------------------------------------------------
(* Guards.  What the ledger had once releases an output for good, and      *)
(* every clean-up frees what it has released: a guard, once there, stays.  *)

TxGuarded(t) == MainTxGuarded(t) /\ \A i \in Inputs[t] : Guarded(i)

\* What a goroutine has put up so far of the guards of its transaction.
ProcGuarded(q) ==
  /\ q.at \in {"reference", "verify", "claim", "list"} => MainTxGuarded(q.tx)
  /\ q.at = "claim" => \A i \in Inputs[q.tx] \ q.todo : Guarded(i)
  /\ q.at = "list" => \A i \in Inputs[q.tx] : Guarded(i)

GuardInv ==
  /\ \A t \in txnList : TxGuarded(t)
  /\ \A p \in Procs : ProcGuarded(proc[p])

\* The guards on outputs and main chain transactions that are up stay up.
GuardsStay ==
  /\ \A i \in Outputs : Guarded(i) => Guarded(i)'
  /\ \A t \in Txs : MainTxGuarded(t) => MainTxGuarded(t)'

LEMMA InitGuards == Init => GuardInv
<1> SUFFICES ASSUME Init PROVE GuardInv
  OBVIOUS
<1>1. \A p \in Procs : proc[p].at = "idle"
  BY DEF Init, Idle
<1> QED
  BY <1>1 DEF GuardInv, Init, ProcGuarded

\* A release lasts.
LEMMA ReleasesStay ==
  ASSUME seen \subseteq seen', undone \subseteq undone'
  PROVE  /\ \A i : Released(i) => Released(i)'
         /\ \A m : MainTxReleased(m) => MainTxReleased(m)'
  BY DEF Released, MainTxReleased, Uprooted, IsRechargeToSideChainTx

\* The guards of a transaction, and those that another goroutine has put up,
\* survive a step under which guards stay.
LEMMA GuardsOfOthers ==
  ASSUME Shape, GuardsStay
  PROVE  /\ \A t \in txnList : TxGuarded(t) => TxGuarded(t)'
         /\ \A q \in Procs : ProcGuarded(proc[q]) /\ proc'[q] = proc[q] => ProcGuarded(proc[q])'
<1>1. \A t \in Txs : Inputs[t] \subseteq Outputs
  OBVIOUS
<1>2. txnList \subseteq Txs
  BY DEF Shape, TypeOK
<1>3. \A t \in txnList : TxGuarded(t) => TxGuarded(t)'
  BY <1>1, <1>2 DEF GuardsStay, TxGuarded
<1>4. ASSUME NEW q \in Procs, ProcGuarded(proc[q]), proc'[q] = proc[q]
      PROVE  ProcGuarded(proc[q])'
  <2> DEFINE r == proc[q]
  <2>1. r.at \in TxLabels => r.tx \in Txs
    BY DEF Shape, ProcShape
  <2>2. r.at \in {"reference", "verify", "claim", "list"} => MainTxGuarded(r.tx)'
    BY <1>4, <2>1 DEF ProcGuarded, GuardsStay, TxLabels
  <2>3. r.at = "claim" => \A i \in Inputs[r.tx] \ r.todo : Guarded(i)'
    BY <1>1, <1>4, <2>1 DEF ProcGuarded, GuardsStay, TxLabels
  <2>4. r.at = "list" => \A i \in Inputs[r.tx] : Guarded(i)'
    BY <1>1, <1>4, <2>1 DEF ProcGuarded, GuardsStay, TxLabels
  <2> QED
    BY <1>4, <2>2, <2>3, <2>4 DEF ProcGuarded, MainTxGuarded
<1> QED
  BY <1>3, <1>4

\* The step of a goroutine p keeps the invariant if the guards stay and it does
\* its own part.
LEMMA ProcStepGuards ==
  ASSUME Shape, GuardInv, NEW p \in Procs, GuardsStay,
         \A q \in Procs \ {p} : proc'[q] = proc[q],
         \A t \in txnList' \ txnList : TxGuarded(t)',
         ProcGuarded(proc[p])'
  PROVE  GuardInv'
<1>1. \A t \in txnList' : TxGuarded(t)'
  BY GuardsOfOthers DEF GuardInv
<1>2. \A q \in Procs : ProcGuarded(proc[q])'
  BY GuardsOfOthers DEF GuardInv
<1> QED
  BY <1>1, <1>2 DEF GuardInv

\* Guards stay where claims are freed only of what is released.
LEMMA ClaimsStay ==
  ASSUME seen \subseteq seen', undone \subseteq undone',
         \A i \in Outputs : inputUTXOList[i] # NoTx => inputUTXOList'[i] # NoTx \/ Released(i)',
         \A m \in MainTxs : mainchainTxList[m] # NoTx =>
           mainchainTxList'[m] # NoTx \/ MainTxReleased(m)'
  PROVE  GuardsStay
<1>1. \A i \in Outputs : Guarded(i) => Guarded(i)'
  BY ReleasesStay DEF Guarded
<1>2. \A t \in Txs : MainTxGuarded(t) => MainTxGuarded(t)'
  BY ReleasesStay DEF MainTxGuarded, IsRechargeToSideChainTx
<1> QED
  BY <1>1, <1>2 DEF GuardsStay

LEMMA StepGuards ==
  ASSUME Shape, JobInv, GuardInv, NEW p \in Procs, Step(p)
  PROVE  GuardInv'
<1>0. PICK t : t = proc[p].tx
  OBVIOUS
<1>1. /\ proc[p] \in ProcState /\ ProcShape(proc[p]) /\ ProcJob(proc[p]) /\ ProcGuarded(proc[p])
      /\ inputUTXOList \in [Outputs -> Txs \cup {NoTx}]
      /\ mainchainTxList \in [MainTxs -> Txs \cup {NoTx}]
      /\ proc \in [Procs -> ProcState]
      /\ proc[p].txs \subseteq Txs
  BY DEF Shape, TypeOK, JobInv, GuardInv, ProcState
<1>2. proc[p].at \in TxLabels => t \in Txs /\ Inputs[t] \subseteq Outputs /\ t # NoTx
  BY <1>0, <1>1 DEF ProcShape
<1>3. /\ seen' = seen /\ undone' = undone
      /\ \A q \in Procs \ {p} : proc'[q] = proc[q]
  BY StepFrame DEF ledgerVars
<1>4. ASSUME UNCHANGED <<inputUTXOList, mainchainTxList>>
      PROVE  GuardsStay
  BY <1>3, <1>4, ClaimsStay
<1>5. ASSUME GuardsStay, txnList' \subseteq txnList,
             proc'[p].at \notin {"reference", "verify", "claim", "list"}
      PROVE  GuardInv'
  <2>1. ProcGuarded(proc[p])'
    BY <1>5 DEF ProcGuarded
  <2> QED
    BY <1>3, <1>5, <2>1, ProcStepGuards
<1>6. ASSUME GuardsStay, txnList' \subseteq txnList, Finished(p, t)
      PROVE  GuardInv'
  BY <1>5, <1>6, MoveFields
<1>7. ASSUME GuardsStay, UNCHANGED txnList, MainTxGuarded(t)',
             NEW label \in {"reference", "verify", "claim", "list"},
             \/ Goto(p, label) /\ label # "claim"
             \/ \E todo : /\ GotoLoop(p, label, todo)
                          /\ label = "claim" => \A i \in Inputs[t] \ todo : Guarded(i)',
             label = "list" => \A i \in Inputs[t] : Guarded(i)'
      PROVE  GuardInv'
  <2>1. /\ proc'[p].at = label /\ proc'[p].tx = t
        /\ label = "claim" => \A i \in Inputs[t] \ proc'[p].todo : Guarded(i)'
    BY <1>0, <1>7, MoveFields
  <2>2. ProcGuarded(proc[p])'
    BY <1>7, <2>1 DEF ProcGuarded, MainTxGuarded
  <2> QED
    BY <1>3, <1>7, <2>2, ProcStepGuards
<1>8. ASSUME NEW u \in Txs, AppendToTxnPool(p, u) \/ MaybeAcceptTransaction(p, u)
      PROVE  GuardInv'
  <2>1. UNCHANGED <<txnList, inputUTXOList, mainchainTxList>> /\ proc[p].at \in {"idle", "next"}
    BY <1>8 DEF AppendToTxnPool, MaybeAcceptTransaction, poolVars, At
  <2>2. CASE UNCHANGED proc \/ Finished(p, u)
    BY <1>4, <1>5, <2>1, <2>2, MoveFields
  <2>3. ASSUME NEW job, NEW txs, StartAppend(p, u, job, txs)
        PROVE  GuardInv'
    <3>1. /\ proc'[p].at = IF IsRechargeToSideChainTx(u) THEN "mainRead" ELSE "reference"
          /\ proc'[p].tx = u
      BY <2>3, MoveFields
    <3>2. ProcGuarded(proc[p])'
      BY <3>1 DEF ProcGuarded, MainTxGuarded
    <3> QED
      BY <1>3, <1>4, <2>1, <3>2, ProcStepGuards
  <2> QED
    BY <1>8, <2>2, <2>3 DEF AppendToTxnPool, MaybeAcceptTransaction
<1>9. CASE VerifyDuplicateMainchainTx(p)
  <2>1. /\ UNCHANGED <<txnList, inputUTXOList, mainchainTxList>>
        /\ Finished(p, t) \/ Goto(p, "mainClaim")
    BY <1>0, <1>9 DEF VerifyDuplicateMainchainTx, poolVars
  <2> QED
    BY <1>4, <1>5, <1>6, <2>1, MoveFields
<1>10. CASE AddMainchainTx(p)
  <2>1. /\ proc[p].at = "mainClaim" /\ IsRechargeToSideChainTx(t) /\ t \in Txs /\ t # NoTx
        /\ MainTx[t] \in MainTxs
    BY <1>0, <1>1, <1>2, <1>10 DEF AddMainchainTx, At, ProcShape, TxLabels, IsRechargeToSideChainTx
  <2>2. UNCHANGED <<txnList, inputUTXOList>> /\ Goto(p, "reference")
    BY <1>10 DEF AddMainchainTx
  <2>3. \A m \in MainTxs : mainchainTxList'[m] = IF m = MainTx[t] THEN t ELSE mainchainTxList[m]
    BY <1>0, <1>1, <1>10, <2>1 DEF AddMainchainTx
  <2>4. GuardsStay
    BY <1>3, <2>1, <2>2, <2>3, ClaimsStay
  <2>5. MainTxGuarded(t)'
    BY <2>1, <2>3 DEF MainTxGuarded
  <2> QED
    BY <1>7, <2>2, <2>4, <2>5
<1>11. CASE GetTxReference(p)
  <2>1. /\ UNCHANGED <<txnList, inputUTXOList, mainchainTxList>> /\ proc[p].at = "reference"
        /\ \/ Finished(p, t)
           \/ Goto(p, "list") /\ Inputs[t] = {}
           \/ GotoLoop(p, "verify", Inputs[t])
    BY <1>0, <1>11 DEF GetTxReference, poolVars, At
  <2>2. GuardsStay /\ MainTxGuarded(t)'
    BY <1>0, <1>1, <1>2, <1>4, <2>1 DEF ProcGuarded, GuardsStay, TxLabels
  <2> QED
    BY <1>6, <1>7, <2>1, <2>2
<1>12. ASSUME NEW i \in Outputs, GetInputUTXOList(p, i)
       PROVE  GuardInv'
  <2>1. /\ UNCHANGED <<txnList, inputUTXOList, mainchainTxList>> /\ proc[p].at = "verify"
        /\ \/ Finished(p, t) \/ GotoLoop(p, "claim", Inputs[t])
           \/ GotoLoop(p, "verify", proc[p].todo \ {i})
    BY <1>0, <1>12 DEF GetInputUTXOList, poolVars, At
  <2>2. GuardsStay /\ MainTxGuarded(t)'
    BY <1>0, <1>1, <1>2, <1>4, <2>1 DEF ProcGuarded, GuardsStay, TxLabels
  <2> QED
    BY <1>6, <1>7, <2>1, <2>2
<1>13. ASSUME NEW i \in Outputs, AddInputUTXOList(p, i)
       PROVE  GuardInv'
  <2>1. /\ UNCHANGED <<txnList, mainchainTxList>> /\ proc[p].at = "claim" /\ i \in proc[p].todo
        /\ \/ GotoLoop(p, "list", {}) /\ proc[p].todo = {i}
           \/ GotoLoop(p, "claim", proc[p].todo \ {i})
    BY <1>13 DEF AddInputUTXOList, At
  <2>2. t \in Txs /\ Inputs[t] \subseteq Outputs /\ t # NoTx
    BY <1>2, <2>1 DEF TxLabels
  <2>3. /\ inputUTXOList'[i] # NoTx
        /\ \A j \in Outputs : inputUTXOList[j] # NoTx => inputUTXOList'[j] # NoTx
    BY <1>0, <1>1, <1>13, <2>2 DEF AddInputUTXOList
  <2>4. GuardsStay
    BY <1>3, <2>1, <2>3, ClaimsStay
  <2>5. /\ MainTxGuarded(t)'
        /\ \A j \in Inputs[t] \ proc[p].todo : Guarded(j)'
    BY <1>0, <1>1, <2>1, <2>2, <2>4 DEF ProcGuarded, GuardsStay
  <2>6. Guarded(i)'
    BY <2>3 DEF Guarded
  <2>7. \A j \in Inputs[t] \ (proc[p].todo \ {i}) : Guarded(j)'
    BY <2>5, <2>6
  <2> QED
    BY <1>7, <2>1, <2>4, <2>5, <2>7
<1>14. ASSUME NEW i \in Outputs, RemoveTransaction(p, i)
       PROVE  GuardInv'
  <2>1. /\ proc[p].at = "remove" /\ i \in proc[p].todo /\ UNCHANGED mainchainTxList
        /\ txnList' \subseteq txnList
        /\ Finished(p, t) \/ GotoLoop(p, "remove", proc[p].todo \ {i})
    BY <1>0, <1>14 DEF RemoveTransaction, At
  <2>2. PICK spender : spender = inputUTXOList[i]
    OBVIOUS
  <2>3. \A j \in Outputs : \/ inputUTXOList'[j] = inputUTXOList[j]
                           \/ spender # NoTx /\ j \in Inputs[spender]
    BY <1>1, <1>14, <2>2 DEF RemoveTransaction, Free
  <2>4. spender # NoTx => spender \in Txs /\ i \in Inputs[spender] /\ Creator[i] \in undone
    BY <1>1, <2>1, <2>2 DEF JobInv, ProcJob, OutputsOf
  <2>5. spender # NoTx => \A j \in Inputs[spender] : Released(j)
    BY <2>4 DEF Released, Uprooted
  <2>6. \A j : Released(j) => Released(j)'
    BY <1>3, ReleasesStay
  <2>7. GuardsStay
    BY <1>3, <2>1, <2>3, <2>5, <2>6, ClaimsStay
  <2> QED
    BY <1>5, <1>6, <2>1, <2>7, MoveFields
<1>15. CASE AddToTxList(p)
  <2>1. /\ UNCHANGED <<inputUTXOList, mainchainTxList>>
        /\ proc[p].at = "list" /\ txnList' = txnList \cup {t}
        /\ Finished(p, t) \/ GotoLoop(p, "remove", OutputsOf(t))
    BY <1>0, <1>15 DEF AddToTxList, At
  <2>2. GuardsStay
    BY <1>4, <2>1
  <2>3. t \in Txs /\ Inputs[t] \subseteq Outputs
    BY <1>2, <2>1 DEF TxLabels
  <2>4. TxGuarded(t)'
    BY <1>0, <1>1, <2>1, <2>2, <2>3 DEF ProcGuarded, GuardsStay, TxGuarded
  <2>5. proc'[p].at \notin {"reference", "verify", "claim", "list"}
    BY <2>1, MoveFields
  <2>6. ProcGuarded(proc[p])'
    BY <2>5 DEF ProcGuarded
  <2>7. \A u \in txnList' \ txnList : TxGuarded(u)'
    BY <2>1, <2>4
  <2> QED
    BY <1>3, <2>2, <2>6, <2>7, ProcStepGuards
<1>16. ASSUME NEW e \in events, HandleEvent(p, e)
       PROVE  GuardInv'
  <2>1. UNCHANGED <<txnList, inputUTXOList, mainchainTxList>>
    BY <1>16 DEF HandleEvent, poolVars
  <2>2. proc'[p].at \in {"cleanList", "next"}
    BY <1>16, HandleEventStep
  <2> QED
    BY <1>4, <1>5, <2>1, <2>2
<1>17. CASE CleanTransactionList(p)
  <2>1. /\ UNCHANGED <<inputUTXOList, mainchainTxList>> /\ txnList' \subseteq txnList
        /\ Goto(p, "cleanUTXO")
    BY <1>17 DEF CleanTransactionList
  <2> QED
    BY <1>4, <1>5, <2>1, MoveFields
<1>18. CASE CleanUTXOList(p)
  <2>1. /\ UNCHANGED <<txnList, mainchainTxList>> /\ proc[p].txs \subseteq seen
        /\ Goto(p, "cleanMainchain")
    BY <1>1, <1>18 DEF CleanUTXOList, At, ProcJob, CleanLabels
  <2>2. \A i \in Outputs : \/ inputUTXOList'[i] = inputUTXOList[i]
                           \/ \E u \in proc[p].txs : i \in Inputs[u]
    BY <1>1, <1>18 DEF CleanUTXOList, Free
  <2>3. \A u \in proc[p].txs : \A i \in Inputs[u] : Released(i)
    BY <1>1, <2>1 DEF Released
  <2>4. \A j : Released(j) => Released(j)'
    BY <1>3, ReleasesStay
  <2>5. GuardsStay
    BY <1>3, <2>1, <2>2, <2>3, <2>4, ClaimsStay
  <2> QED
    BY <1>5, <2>1, <2>5, MoveFields
<1>19. CASE CleanMainchainTx(p)
  <2> DEFINE mainTxs == {MainTx[u] : u \in {v \in proc[p].txs : IsRechargeToSideChainTx(v)}}
             poolTxs == {mainchainTxList[m] : m \in mainTxs} \ {NoTx}
  <2>1. /\ txnList' = txnList \ poolTxs
        /\ inputUTXOList' = Free(inputUTXOList, UNION {Inputs[u] : u \in poolTxs})
        /\ mainchainTxList' = Free(mainchainTxList, mainTxs)
        /\ proc' = [proc EXCEPT ![p] = Idle]
        /\ proc[p].txs \subseteq seen
    BY <1>1, <1>19 DEF CleanMainchainTx, At, ProcJob, CleanLabels
  <2>2. mainTxs \subseteq MainTxs /\ NoMainTx \notin mainTxs
    BY <1>1 DEF IsRechargeToSideChainTx
  <2>3. \A m \in mainTxs : MainTxReleased(m)
    BY <2>1 DEF MainTxReleased
  <2>4. \A u \in poolTxs : u \in Txs /\ MainTx[u] \in mainTxs
    BY <1>1, <2>2 DEF Shape, MainListShape
  <2>5. txnList' \subseteq txnList
    BY <2>1
  <2> HIDE DEF mainTxs, poolTxs
  <2>6. \A u \in poolTxs : \A i \in Inputs[u] : Released(i)
    BY <2>2, <2>3, <2>4 DEF Released, MainTxReleased, IsRechargeToSideChainTx
  <2>7. \A i \in Outputs : inputUTXOList'[i] = inputUTXOList[i] \/ \E u \in poolTxs : i \in Inputs[u]
    BY <1>1, <2>1 DEF Free
  <2>8. \A m \in MainTxs : mainchainTxList'[m] = mainchainTxList[m] \/ m \in mainTxs
    BY <1>1, <2>1 DEF Free
  <2>9. /\ \A i : Released(i) => Released(i)'
        /\ \A m : MainTxReleased(m) => MainTxReleased(m)'
    BY <1>3, ReleasesStay
  <2>10. \A i \in Outputs : inputUTXOList[i] # NoTx => inputUTXOList'[i] # NoTx \/ Released(i)'
    BY <2>6, <2>7, <2>9
  <2>11. \A m \in MainTxs : mainchainTxList[m] # NoTx => mainchainTxList'[m] # NoTx \/ MainTxReleased(m)'
    BY <2>3, <2>8, <2>9
  <2>12. GuardsStay
    BY <1>3, <2>10, <2>11, ClaimsStay
  <2>13. proc'[p].at = "idle"
    BY <1>1, <2>1 DEF Idle
  <2> QED
    BY <1>5, <2>5, <2>12, <2>13
<1> QED
  BY <1>8, <1>9, <1>10, <1>11, <1>12, <1>13, <1>14, <1>15, <1>16, <1>17, <1>18, <1>19 DEF Step

LEMMA NextGuards == Shape /\ JobInv /\ GuardInv /\ [Next]_vars => GuardInv'
<1> SUFFICES ASSUME Shape, JobInv, GuardInv, [Next]_vars PROVE GuardInv'
  OBVIOUS
<1>1. ASSUME seen \subseteq seen', undone \subseteq undone',
             UNCHANGED <<txnList, inputUTXOList, mainchainTxList, proc>>
      PROVE  GuardInv'
  <2>1. GuardsStay
    BY <1>1, ClaimsStay
  <2> QED
    BY <1>1, <2>1, GuardsOfOthers DEF GuardInv
<1>2. ASSUME NEW block \in (SUBSET Txs) \ {{}}, PersistBlock(block)  PROVE GuardInv'
  BY <1>1, <1>2, PersistLedger
<1>3. CASE RollbackBlock
  BY <1>1, <1>3, RollbackLedger
<1>4. CASE UNCHANGED vars
  BY <1>1, <1>4 DEF vars, poolVars, ledgerVars, seen, confirmed
<1> QED
  BY <1>2, <1>3, <1>4, StepGuards DEF Next

\* However AppendToTxnPool, CleanSubmittedTransactions and RollbackTransaction
\* interleave, in whichever order the events are handled and whatever inputs
\* recharges have, what the pool's transactions spend or redeem stays claimed
\* until a block releases it.
THEOREM PoolStaysGuarded == Spec => []PoolGuarded
<1>1. GuardInv => PoolGuarded
  BY DEF GuardInv, PoolGuarded, TxGuarded
<1> QED
  BY <1>1, InitShape, NextShape, InitJobs, NextJobs, InitGuards, NextGuards, PTL DEF Spec

-----------------------------------------------------------------------------
(* Transactions of the ledger leave the pool.                              *)

\* t is in a block whose clean-up has not got to the list of the pool yet.
Announced(t) ==
  \/ \E e \in events : e.job = "persist" /\ t \in e.txs
  \/ \E p \in Procs : proc[p].at = "cleanList" /\ t \in proc[p].txs

ConfirmInv ==
  /\ BeingAppended \cap confirmed \subseteq overtaken
  /\ \A t \in txnList \cap confirmed : Announced(t) \/ t \in overtaken

LEMMA StepConfirm ==
  ASSUME Shape, ConfirmInv, NEW p \in Procs, Step(p)
  PROVE  ConfirmInv'
<1>0. PICK t : t = proc[p].tx
  OBVIOUS
<1>1. proc[p] \in ProcState /\ proc \in [Procs -> ProcState]
  BY DEF Shape, TypeOK
<1>2. /\ confirmed' = confirmed /\ overtaken' = overtaken
      /\ \A q \in Procs \ {p} : proc'[q] = proc[q]
  BY StepFrame DEF ledgerVars
<1>3. ASSUME events' = events, proc[p].at # "cleanList"
      PROVE  \A u : Announced(u) => Announced(u)'
  BY <1>2, <1>3 DEF Announced
<1>4. ASSUME \/ proc'[p].at \notin AppendLabels
             \/ proc[p].at \in AppendLabels /\ proc'[p].tx = proc[p].tx
             \/ proc'[p].tx \notin confirmed
      PROVE  BeingAppended' \cap confirmed \subseteq overtaken
  BY <1>2, <1>4 DEF ConfirmInv, BeingAppended
<1>5. ASSUME proc[p].at # "cleanList", events' = events,
             txnList' \subseteq txnList \cup BeingAppended,
             \/ proc'[p].at \notin AppendLabels
             \/ proc[p].at \in AppendLabels /\ proc'[p].tx = proc[p].tx
             \/ proc'[p].tx \notin confirmed
      PROVE  ConfirmInv'
  BY <1>2, <1>3, <1>4, <1>5 DEF ConfirmInv
<1>6. ASSUME NEW u \in Txs, AppendToTxnPool(p, u) \/ MaybeAcceptTransaction(p, u)
      PROVE  ConfirmInv'
  <2>1. UNCHANGED <<txnList, events>> /\ proc[p].at \in {"idle", "next"}
    BY <1>6 DEF AppendToTxnPool, MaybeAcceptTransaction, poolVars, At
  <2>2. CASE UNCHANGED proc \/ Finished(p, u)
    BY <1>5, <2>1, <2>2, MoveFields DEF AppendLabels
  <2>3. CASE CheckTransactionContext(u) /\ \E job, txs : StartAppend(p, u, job, txs)
    <3>1. proc'[p].tx = u /\ u \notin confirmed
      BY <2>3, MoveFields DEF CheckTransactionContext
    <3> QED
      BY <1>5, <2>1, <3>1
  <2> QED
    BY <1>6, <2>2, <2>3 DEF AppendToTxnPool, MaybeAcceptTransaction
<1>7. CASE \/ VerifyDuplicateMainchainTx(p) \/ AddMainchainTx(p) \/ GetTxReference(p)
           \/ \E i \in Outputs : GetInputUTXOList(p, i) \/ AddInputUTXOList(p, i)
  <2>1. UNCHANGED <<txnList, events>> /\ proc[p].at \in AppendLabels
    BY <1>7 DEF VerifyDuplicateMainchainTx, AddMainchainTx, GetTxReference, GetInputUTXOList,
                AddInputUTXOList, poolVars, At, AppendLabels
  <2>2. \/ Finished(p, t) \/ \E label : Goto(p, label)
        \/ \E label, todo : GotoLoop(p, label, todo)
    BY <1>0, <1>7 DEF VerifyDuplicateMainchainTx, AddMainchainTx, GetTxReference, GetInputUTXOList,
                      AddInputUTXOList
  <2>3. proc'[p].at \notin AppendLabels \/ proc'[p].tx = proc[p].tx
    BY <2>2, MoveFields DEF AppendLabels
  <2> QED
    BY <1>5, <2>1, <2>3 DEF AppendLabels
<1>8. ASSUME NEW i \in Outputs, RemoveTransaction(p, i)
      PROVE  ConfirmInv'
  <2>1. /\ txnList' \subseteq txnList /\ events' = events /\ proc[p].at = "remove"
        /\ Finished(p, t) \/ GotoLoop(p, "remove", proc[p].todo \ {i})
    BY <1>0, <1>8 DEF RemoveTransaction, At
  <2>2. proc'[p].at \notin AppendLabels
    BY <2>1, MoveFields DEF AppendLabels
  <2> QED
    BY <1>5, <2>1, <2>2
<1>9. CASE AddToTxList(p)
  <2>1. /\ proc[p].at = "list" /\ txnList' = txnList \cup {t} /\ events' = events
        /\ Finished(p, t) \/ GotoLoop(p, "remove", OutputsOf(t))
    BY <1>0, <1>9 DEF AddToTxList, At
  <2>2. t \in BeingAppended
    BY <1>0, <2>1 DEF BeingAppended, AppendLabels
  <2>3. proc'[p].at \notin AppendLabels
    BY <2>1, MoveFields DEF AppendLabels
  <2> QED
    BY <1>5, <2>1, <2>2, <2>3
<1>10. ASSUME NEW e \in events, HandleEvent(p, e)
       PROVE  ConfirmInv'
  <2>1. UNCHANGED txnList /\ events' = events \ {e} /\ proc[p].at = "idle"
    BY <1>10 DEF HandleEvent, poolVars, At
  <2>2. /\ proc'[p].at = IF e.job = "persist" THEN "cleanList" ELSE "next"
        /\ proc'[p].txs = e.txs
    BY <1>10, HandleEventStep
  <2>3. \A u : Announced(u) => Announced(u)'
    BY <1>2, <2>1, <2>2 DEF Announced
  <2>4. proc'[p].at \notin AppendLabels
    BY <2>2 DEF AppendLabels
  <2> QED
    BY <1>2, <1>4, <2>1, <2>3, <2>4 DEF ConfirmInv
<1>11. CASE CleanTransactionList(p)
  <2>1. events' = events /\ txnList' = txnList \ proc[p].txs /\ Goto(p, "cleanUTXO")
    BY <1>11 DEF CleanTransactionList
  <2>2. proc'[p].at \notin AppendLabels
    BY <2>1, MoveFields DEF AppendLabels
  <2>3. \A u : Announced(u) => Announced(u)' \/ u \in proc[p].txs
    BY <1>2, <2>1 DEF Announced
  <2> QED
    BY <1>2, <1>4, <2>1, <2>2, <2>3 DEF ConfirmInv
<1>12. CASE CleanUTXOList(p)
  <2>1. /\ UNCHANGED <<txnList, events>> /\ proc[p].at = "cleanUTXO" /\ Goto(p, "cleanMainchain")
    BY <1>12 DEF CleanUTXOList, At
  <2>2. proc'[p].at \notin AppendLabels
    BY <2>1, MoveFields DEF AppendLabels
  <2> QED
    BY <1>5, <2>1, <2>2
<1>13. CASE CleanMainchainTx(p)
  <2>1. /\ txnList' \subseteq txnList /\ events' = events
        /\ proc[p].at = "cleanMainchain" /\ proc'[p].at = "idle"
    BY <1>1, <1>13 DEF CleanMainchainTx, At, Idle
  <2> QED
    BY <1>5, <2>1 DEF AppendLabels
<1> QED
  BY <1>6, <1>7, <1>8, <1>9, <1>10, <1>11, <1>12, <1>13 DEF Step

LEMMA NextConfirm == Shape /\ ConfirmInv /\ [Next]_vars => ConfirmInv'
<1> SUFFICES ASSUME Shape, ConfirmInv, [Next]_vars PROVE ConfirmInv'
  OBVIOUS
<1>1. ASSUME NEW block \in (SUBSET Txs) \ {{}}, PersistBlock(block)
      PROVE  ConfirmInv'
  <2>1. /\ confirmed' = confirmed \cup block /\ UNCHANGED <<txnList, proc>>
        /\ overtaken' = overtaken \cup (block \cap BeingAppended)
    BY <1>1, PersistLedger DEF PersistBlock
  <2>2. \A t : Announced(t) \/ t \in block => Announced(t)'
    BY <1>1, <2>1, PersistLedger DEF Announced
  <2>3. BeingAppended' = BeingAppended
    BY <2>1 DEF BeingAppended
  <2> QED
    BY <2>1, <2>2, <2>3 DEF ConfirmInv
<1>2. CASE RollbackBlock
  <2>1. /\ confirmed' \subseteq confirmed /\ UNCHANGED <<txnList, proc, overtaken>>
        /\ events \subseteq events'
    BY <1>2, RollbackLedger
  <2>2. \A t : Announced(t) => Announced(t)'
    BY <2>1 DEF Announced
  <2>3. BeingAppended' = BeingAppended
    BY <2>1 DEF BeingAppended
  <2> QED
    BY <2>1, <2>2, <2>3 DEF ConfirmInv
<1>3. CASE UNCHANGED vars
  BY <1>3 DEF vars, poolVars, ledgerVars, ConfirmInv, confirmed, BeingAppended, Announced
<1> QED
  BY <1>1, <1>2, <1>3, StepConfirm DEF Next

\* Whatever blocks are persisted and rolled back, and however many goroutines
\* append, clean and roll back at the same time: once the events are handled,
\* the pool holds no transaction of the ledger but those that a block overtook
\* between the check of AppendToTxnPool and its entry into the list.
THEOREM PoolLosesConfirmed == Spec => []ConfirmedLeavesPool
<1>1. Init => ConfirmInv
  <2> SUFFICES ASSUME Init PROVE ConfirmInv
    OBVIOUS
  <2>1. confirmed = {}
    BY DEF Init, confirmed
  <2> QED
    BY <2>1 DEF ConfirmInv
<1>2. ConfirmInv => ConfirmedLeavesPool
  BY DEF ConfirmInv, ConfirmedLeavesPool, Quiet, AllIdle, At, Announced
<1> QED
  BY <1>1, <1>2, InitShape, NextShape, NextConfirm, PTL DEF Spec

-----------------------------------------------------------------------------
(* Claims and their owners.                                                *)

\* Goroutine q answers for the claims of t: it goes on to put t into the list,
\* or to free what t claims.
HoldsInputs(q, t) ==
  \/ q.at \in {"claim", "list"} /\ q.tx = t
  \/ q.at = "cleanUTXO" /\ t \in q.txs
HoldsMain(q, t) ==
  \/ q.at \in {"reference", "list"} /\ q.tx = t
  \/ q.at \in {"cleanUTXO", "cleanMainchain"} /\ t \in q.txs

InputsOwned(t) == t \in txnList \/ Uprooted(t) \/ \E p \in Procs : HoldsInputs(proc[p], t)
MainOwned(t) == t \in txnList \/ Inputs[t] # {} \/ \E p \in Procs : HoldsMain(proc[p], t)

OwnInv ==
  \A t \in Txs : /\ \A i \in Outputs : inputUTXOList[i] = t => InputsOwned(t)
                 /\ \A m \in MainTxs : mainchainTxList[m] = t => MainOwned(t)

\* A step of p keeps the owners of the claims if p gives up none without putting
\* it into the list or freeing what it claimed.
LEMMA OwnersStay ==
  ASSUME OwnInv, NEW p \in Procs, undone \subseteq undone',
         \A q \in Procs \ {p} : proc'[q] = proc[q],
         \A t \in Txs : \A i \in Outputs : inputUTXOList'[i] = t =>
           \/ /\ inputUTXOList[i] = t
              /\ t \in txnList \/ HoldsInputs(proc[p], t) =>
                   t \in txnList' \/ Uprooted(t) \/ HoldsInputs(proc'[p], t)
           \/ HoldsInputs(proc'[p], t),
         \A t \in Txs : \A m \in MainTxs : mainchainTxList'[m] = t =>
           \/ /\ mainchainTxList[m] = t
              /\ t \in txnList \/ HoldsMain(proc[p], t) =>
                   t \in txnList' \/ Inputs[t] # {} \/ HoldsMain(proc'[p], t)
           \/ HoldsMain(proc'[p], t)
  PROVE  OwnInv'
<1>1. ASSUME NEW t \in Txs PROVE Uprooted(t) => Uprooted(t)'
  BY DEF Uprooted
<1>2. ASSUME NEW t \in Txs, NEW i \in Outputs, inputUTXOList'[i] = t
      PROVE  InputsOwned(t)'
  <2>1. CASE HoldsInputs(proc'[p], t)
    BY <2>1 DEF InputsOwned, HoldsInputs
  <2>2. CASE /\ inputUTXOList[i] = t
             /\ t \in txnList \/ HoldsInputs(proc[p], t) =>
                  t \in txnList' \/ Uprooted(t) \/ HoldsInputs(proc'[p], t)
    <3>1. InputsOwned(t)
      BY <2>2 DEF OwnInv
    <3>2. ASSUME NEW q \in Procs \ {p}, HoldsInputs(proc[q], t)
          PROVE  InputsOwned(t)'
      BY <3>2 DEF InputsOwned, HoldsInputs
    <3> QED
      BY <1>1, <2>1, <2>2, <3>1, <3>2 DEF InputsOwned
  <2> QED
    BY <1>2, <2>1, <2>2
<1>3. ASSUME NEW t \in Txs, NEW m \in MainTxs, mainchainTxList'[m] = t
      PROVE  MainOwned(t)'
  <2>1. CASE HoldsMain(proc'[p], t)
    BY <2>1 DEF MainOwned, HoldsMain
  <2>2. CASE /\ mainchainTxList[m] = t
             /\ t \in txnList \/ HoldsMain(proc[p], t) =>
                  t \in txnList' \/ Inputs[t] # {} \/ HoldsMain(proc'[p], t)
    <3>1. MainOwned(t)
      BY <2>2 DEF OwnInv
    <3>2. ASSUME NEW q \in Procs \ {p}, HoldsMain(proc[q], t)
          PROVE  MainOwned(t)'
      BY <3>2 DEF MainOwned, HoldsMain
    <3> QED
      BY <2>1, <2>2, <3>1, <3>2 DEF MainOwned
  <2> QED
    BY <1>3, <2>1, <2>2
<1> QED
  BY <1>2, <1>3 DEF OwnInv

LEMMA StepOwn ==
  ASSUME Shape, JobInv, OwnInv, NEW p \in Procs, Step(p)
  PROVE  OwnInv'
<1>0. PICK t : t = proc[p].tx
  OBVIOUS
<1>1. /\ proc[p] \in ProcState /\ ProcShape(proc[p]) /\ ProcJob(proc[p])
      /\ txnList \subseteq Txs
      /\ inputUTXOList \in [Outputs -> Txs \cup {NoTx}]
      /\ mainchainTxList \in [MainTxs -> Txs \cup {NoTx}]
      /\ proc \in [Procs -> ProcState]
      /\ proc[p].txs \subseteq Txs
  BY DEF Shape, TypeOK, JobInv, ProcState
<1>2. proc[p].at \in TxLabels => t \in Txs /\ Inputs[t] \subseteq Outputs /\ t # NoTx
  BY <1>0, <1>1 DEF ProcShape
<1>3. /\ seen' = seen /\ undone' = undone
      /\ \A q \in Procs \ {p} : proc'[q] = proc[q]
  BY StepFrame DEF ledgerVars
<1>4. ASSUME UNCHANGED <<inputUTXOList, mainchainTxList>>, txnList \subseteq txnList',
             \A u \in Txs : HoldsInputs(proc[p], u) => u \in txnList' \/ HoldsInputs(proc'[p], u),
             \A u \in Txs : HoldsMain(proc[p], u) =>
               u \in txnList' \/ Inputs[u] # {} \/ HoldsMain(proc'[p], u)
      PROVE  OwnInv'
  BY <1>3, <1>4, OwnersStay
<1>5. ASSUME NEW u \in Txs, AppendToTxnPool(p, u) \/ MaybeAcceptTransaction(p, u)
      PROVE  OwnInv'
  <2>1. UNCHANGED <<txnList, inputUTXOList, mainchainTxList>> /\ proc[p].at \in {"idle", "next"}
    BY <1>5 DEF AppendToTxnPool, MaybeAcceptTransaction, poolVars, At
  <2>2. \A v \in Txs : ~HoldsInputs(proc[p], v) /\ ~HoldsMain(proc[p], v)
    BY <2>1 DEF HoldsInputs, HoldsMain
  <2> QED
    BY <1>4, <2>1, <2>2
<1>6. CASE VerifyDuplicateMainchainTx(p)
  <2>1. UNCHANGED <<txnList, inputUTXOList, mainchainTxList>> /\ proc[p].at = "mainRead"
    BY <1>6 DEF VerifyDuplicateMainchainTx, poolVars, At
  <2>2. \A v \in Txs : ~HoldsInputs(proc[p], v) /\ ~HoldsMain(proc[p], v)
    BY <2>1 DEF HoldsInputs, HoldsMain
  <2> QED
    BY <1>4, <2>1, <2>2
<1>7. CASE AddMainchainTx(p)
  <2>1. /\ UNCHANGED <<txnList, inputUTXOList>> /\ proc[p].at = "mainClaim" /\ Goto(p, "reference")
    BY <1>7 DEF AddMainchainTx, At
  <2>2. \A m \in MainTxs : mainchainTxList'[m] \in {mainchainTxList[m], t}
    BY <1>0, <1>1, <1>7 DEF AddMainchainTx
  <2>3. proc'[p].at = "reference" /\ proc'[p].tx = t
    BY <1>0, <2>1, MoveFields
  <2>4. HoldsMain(proc'[p], t) /\ \A v : ~HoldsInputs(proc[p], v) /\ ~HoldsMain(proc[p], v)
    BY <2>1, <2>3 DEF HoldsInputs, HoldsMain
  <2> QED
    BY <1>3, <2>1, <2>2, <2>4, OwnersStay
<1>8. CASE GetTxReference(p)
  <2>1. /\ UNCHANGED <<txnList, inputUTXOList, mainchainTxList>> /\ proc[p].at = "reference"
        /\ \/ Inputs[t] # {}
           \/ Goto(p, "list")
    BY <1>0, <1>8 DEF GetTxReference, HasTxReference, poolVars, At
  <2>2. \A v \in Txs : ~HoldsInputs(proc[p], v) /\ (HoldsMain(proc[p], v) => v = t)
    BY <1>0, <2>1 DEF HoldsInputs, HoldsMain
  <2>3. Inputs[t] # {} \/ HoldsMain(proc'[p], t)
    BY <1>0, <2>1, MoveFields DEF HoldsMain
  <2> QED
    BY <1>4, <2>1, <2>2, <2>3
<1>9. ASSUME NEW i \in Outputs, GetInputUTXOList(p, i)
      PROVE  OwnInv'
  <2>1. UNCHANGED <<txnList, inputUTXOList, mainchainTxList>> /\ proc[p].at = "verify"
    BY <1>9 DEF GetInputUTXOList, poolVars, At
  <2>2. \A v \in Txs : ~HoldsInputs(proc[p], v) /\ ~HoldsMain(proc[p], v)
    BY <2>1 DEF HoldsInputs, HoldsMain
  <2> QED
    BY <1>4, <2>1, <2>2
<1>10. ASSUME NEW i \in Outputs, AddInputUTXOList(p, i)
       PROVE  OwnInv'
  <2>1. /\ UNCHANGED <<txnList, mainchainTxList>> /\ proc[p].at = "claim"
        /\ GotoLoop(p, "list", {}) \/ GotoLoop(p, "claim", proc[p].todo \ {i})
    BY <1>10 DEF AddInputUTXOList, At
  <2>2. \A j \in Outputs : inputUTXOList'[j] \in {inputUTXOList[j], t}
    BY <1>0, <1>1, <1>10 DEF AddInputUTXOList
  <2>3. proc'[p].at \in {"claim", "list"} /\ proc'[p].tx = t
    BY <1>0, <2>1, MoveFields
  <2>4. /\ HoldsInputs(proc'[p], t)
        /\ \A v : ~HoldsMain(proc[p], v) /\ (HoldsInputs(proc[p], v) => v = t)
    BY <1>0, <2>1, <2>3 DEF HoldsInputs, HoldsMain
  <2> QED
    BY <1>3, <2>1, <2>2, <2>4, OwnersStay
<1>11. ASSUME NEW i \in Outputs, RemoveTransaction(p, i)
       PROVE  OwnInv'
  <2>1. /\ proc[p].at = "remove" /\ i \in proc[p].todo /\ UNCHANGED mainchainTxList
        /\ txnList' = txnList \ {inputUTXOList[i]}
    BY <1>11 DEF RemoveTransaction, At
  <2>2. \A j \in Outputs : inputUTXOList'[j] \in {inputUTXOList[j], NoTx}
    BY <1>1, <1>11 DEF RemoveTransaction, Free
  <2>3. \A v \in Txs : ~HoldsInputs(proc[p], v) /\ ~HoldsMain(proc[p], v)
    BY <2>1 DEF HoldsInputs, HoldsMain
  <2>4. \A v \in Txs : v = inputUTXOList[i] => Inputs[v] # {} /\ Uprooted(v)
    BY <1>1, <2>1 DEF JobInv, ProcJob, OutputsOf, Uprooted
  <2> QED
    BY <1>3, <2>1, <2>2, <2>3, <2>4, OwnersStay
<1>12. CASE AddToTxList(p)
  <2>1. /\ UNCHANGED <<inputUTXOList, mainchainTxList>>
        /\ proc[p].at = "list" /\ txnList' = txnList \cup {t}
    BY <1>0, <1>12 DEF AddToTxList, At
  <2>2. \A v \in Txs : HoldsInputs(proc[p], v) \/ HoldsMain(proc[p], v) => v = t
    BY <1>0, <2>1 DEF HoldsInputs, HoldsMain
  <2> QED
    BY <1>4, <2>1, <2>2
<1>13. ASSUME NEW e \in events, HandleEvent(p, e)
       PROVE  OwnInv'
  <2>1. UNCHANGED <<txnList, inputUTXOList, mainchainTxList>> /\ proc[p].at = "idle"
    BY <1>13 DEF HandleEvent, poolVars, At
  <2>2. \A v \in Txs : ~HoldsInputs(proc[p], v) /\ ~HoldsMain(proc[p], v)
    BY <2>1 DEF HoldsInputs, HoldsMain
  <2> QED
    BY <1>4, <2>1, <2>2
<1>14. CASE CleanTransactionList(p)
  <2>1. /\ UNCHANGED <<inputUTXOList, mainchainTxList>> /\ proc[p].at = "cleanList"
        /\ txnList' = txnList \ proc[p].txs /\ Goto(p, "cleanUTXO")
    BY <1>14 DEF CleanTransactionList, At
  <2>2. proc'[p].at = "cleanUTXO" /\ proc'[p].txs = proc[p].txs
    BY <2>1, MoveFields
  <2>3. \A v \in Txs : ~HoldsInputs(proc[p], v) /\ ~HoldsMain(proc[p], v)
    BY <2>1 DEF HoldsInputs, HoldsMain
  <2>4. \A v \in proc[p].txs : HoldsInputs(proc'[p], v) /\ HoldsMain(proc'[p], v)
    BY <2>2 DEF HoldsInputs, HoldsMain
  <2> QED
    BY <1>3, <2>1, <2>3, <2>4, OwnersStay
<1>15. CASE CleanUTXOList(p)
  <2>1. /\ UNCHANGED <<txnList, mainchainTxList>> /\ proc[p].at = "cleanUTXO"
        /\ Goto(p, "cleanMainchain") /\ proc[p].txs \subseteq seen
    BY <1>1, <1>15 DEF CleanUTXOList, At, ProcJob, CleanLabels
  <2>2. proc'[p].at = "cleanMainchain" /\ proc'[p].txs = proc[p].txs
    BY <2>1, MoveFields
  <2>3. \A v \in Txs : /\ HoldsInputs(proc[p], v) => v \in proc[p].txs
                       /\ HoldsMain(proc[p], v) => HoldsMain(proc'[p], v)
    BY <2>1, <2>2 DEF HoldsInputs, HoldsMain
  <2>4. \A j \in Outputs :
          inputUTXOList'[j] = IF \E v \in proc[p].txs : HasTxReference(v) /\ j \in Inputs[v]
                                THEN NoTx ELSE inputUTXOList[j]
    BY <1>1, <1>15 DEF CleanUTXOList, Free
  <2>5. \A v \in proc[p].txs : HasTxReference(v) \/ Uprooted(v)
    BY <2>1 DEF JobInv, HasTxReference, Uprooted, seen
  <2>6. \A v \in Txs : \A j \in Outputs : inputUTXOList'[j] = v =>
          inputUTXOList[j] = v /\ (v \in proc[p].txs => Uprooted(v))
    BY <1>1, <2>4, <2>5 DEF JobInv
  <2> QED
    BY <1>3, <2>1, <2>3, <2>6, OwnersStay
<1>16. CASE CleanMainchainTx(p)
  <2> DEFINE mainTxs == {MainTx[u] : u \in {v \in proc[p].txs : IsRechargeToSideChainTx(v)}}
             poolTxs == {mainchainTxList[m] : m \in mainTxs} \ {NoTx}
  <2>1. /\ txnList' = txnList \ poolTxs
        /\ inputUTXOList' = Free(inputUTXOList, UNION {Inputs[u] : u \in poolTxs})
        /\ mainchainTxList' = Free(mainchainTxList, mainTxs)
        /\ proc[p].at = "cleanMainchain"
    BY <1>16 DEF CleanMainchainTx, At
  <2>2. mainTxs \subseteq MainTxs
    BY <1>1 DEF IsRechargeToSideChainTx
  <2>3. \A u \in poolTxs : u \in Txs /\ MainTx[u] \in mainTxs
    BY <1>1, <2>2 DEF Shape, MainListShape
  <2>4. \A v \in Txs : HoldsMain(proc[p], v) /\ IsRechargeToSideChainTx(v) => MainTx[v] \in mainTxs
    BY <2>1 DEF HoldsMain
  <2> HIDE DEF mainTxs, poolTxs
  <2>5. \A v \in Txs : ~HoldsInputs(proc[p], v)
    BY <2>1 DEF HoldsInputs
  <2>6. \A v \in Txs : \A i \in Outputs : inputUTXOList'[i] = v =>
          inputUTXOList[i] = v /\ v \notin poolTxs
    BY <1>1, <2>1 DEF Free, JobInv
  <2>7. \A v \in Txs : \A m \in MainTxs : mainchainTxList'[m] = v =>
          /\ mainchainTxList[m] = v /\ m \notin mainTxs
          /\ MainTx[v] = m /\ IsRechargeToSideChainTx(v)
    BY <1>1, <2>1 DEF Free, Shape, MainListShape, IsRechargeToSideChainTx
  <2>8. \A v \in Txs : \A m \in MainTxs : mainchainTxList'[m] = v =>
          mainchainTxList[m] = v /\ v \notin poolTxs /\ ~HoldsMain(proc[p], v)
    BY <2>3, <2>4, <2>7
  <2> QED
    BY <1>3, <2>1, <2>5, <2>6, <2>8, OwnersStay
<1> QED
  BY <1>5, <1>6, <1>7, <1>8, <1>9, <1>10, <1>11, <1>12, <1>13, <1>14, <1>15, <1>16 DEF Step

LEMMA NextOwn == Shape /\ JobInv /\ OwnInv /\ [Next]_vars => OwnInv'
<1> SUFFICES ASSUME Shape, JobInv, OwnInv, [Next]_vars PROVE OwnInv'
  OBVIOUS
<1>1. ASSUME undone \subseteq undone',
             UNCHANGED <<txnList, inputUTXOList, mainchainTxList, proc>>
      PROVE  OwnInv'
  <2>1. \A t \in Txs : /\ InputsOwned(t) => InputsOwned(t)'
                       /\ MainOwned(t) => MainOwned(t)'
    BY <1>1 DEF InputsOwned, MainOwned, HoldsInputs, HoldsMain, Uprooted
  <2> QED
    BY <1>1, <2>1 DEF OwnInv
<1>2. ASSUME NEW block \in (SUBSET Txs) \ {{}}, PersistBlock(block)  PROVE OwnInv'
  BY <1>1, <1>2, PersistLedger
<1>3. CASE RollbackBlock
  BY <1>1, <1>3, RollbackLedger
<1>4. CASE UNCHANGED vars
  BY <1>1, <1>4 DEF vars, poolVars, ledgerVars
<1> QED
  BY <1>2, <1>3, <1>4, StepOwn DEF Next

\* However many goroutines append, clean and roll back at the same time, and
\* whatever the order of the events, the claims that outlive their transaction
\* are those of a transaction with an input that was rolled back, and those on
\* a main chain transaction by a recharge that spends outputs.
THEOREM PoolClaimsOwned == Spec => []ClaimsOwned
<1>1. Init => OwnInv
  BY DEF Init, OwnInv
<1>2. Shape /\ OwnInv => ClaimsOwned
  <2> SUFFICES ASSUME Shape, OwnInv, AllIdle PROVE ClaimsOwned
    BY DEF ClaimsOwned
  <2>1. \A p \in Procs : \A t : ~HoldsInputs(proc[p], t) /\ ~HoldsMain(proc[p], t)
    BY DEF AllIdle, At, HoldsInputs, HoldsMain
  <2>2. /\ inputUTXOList \in [Outputs -> Txs \cup {NoTx}]
        /\ mainchainTxList \in [MainTxs -> Txs \cup {NoTx}]
    BY DEF Shape, TypeOK
  <2> QED
    BY <2>1, <2>2 DEF ClaimsOwned, OwnInv, InputsOwned, MainOwned
<1> QED
  BY <1>1, <1>2, InitShape, NextShape, InitJobs, NextJobs, NextOwn, PTL DEF Spec

-----------------------------------------------------------------------------
(* Conflicts.                                                              *)

\* What t and u both spend, apart from the outputs in todo, has been released, ...
InputsSafe(t, u, todo) == \A i \in (Inputs[t] \cap Inputs[u]) \ todo : Released(i)

\* ... and so has the main chain transaction that both redeem.
MainSafe(t, u) ==
  IsRechargeToSideChainTx(t) /\ MainTx[t] = MainTx[u] => MainTxReleased(MainTx[t])

\* What goroutine q has found out so far about a transaction u of the pool.
NoRival(q, u) ==
  q.tx # u /\ {q.tx, u} \notin overlapped =>
    /\ q.at = "verify" => InputsSafe(q.tx, u, q.todo)
    /\ q.at \in {"claim", "list"} => InputsSafe(q.tx, u, {})
    /\ q.at \in AppendLabels \ {"mainRead"} => MainSafe(q.tx, u)

\* Transactions in two goroutines at once are noted where they conflict.
Noted(q, r) ==
  q.at \in AppendLabels /\ r.at \in AppendLabels /\ q.tx # r.tx /\ Conflict(q.tx, r.tx) =>
    {q.tx, r.tx} \in overlapped

ConflictInv ==
  /\ \A t, u \in txnList :
       t # u /\ {t, u} \notin overlapped => InputsSafe(t, u, {}) /\ MainSafe(t, u)
  /\ \A p \in Procs : \A u \in txnList : NoRival(proc[p], u)
  /\ \A p, q \in Procs : p # q => Noted(proc[p], proc[q])

LEMMA SafetyStays ==
  ASSUME seen \subseteq seen', undone \subseteq undone'
  PROVE  /\ \A t, u, todo : InputsSafe(t, u, todo) => InputsSafe(t, u, todo)'
         /\ \A t, u : MainSafe(t, u) => MainSafe(t, u)'
<1>1. /\ \A i : Released(i) => Released(i)'
      /\ \A m : MainTxReleased(m) => MainTxReleased(m)'
  BY ReleasesStay
<1>2. ASSUME NEW t, NEW u, NEW todo, InputsSafe(t, u, todo)
      PROVE  InputsSafe(t, u, todo)'
  BY <1>1, <1>2 DEF InputsSafe
<1>3. ASSUME NEW t, NEW u, MainSafe(t, u)
      PROVE  MainSafe(t, u)'
  BY <1>1, <1>3 DEF MainSafe, IsRechargeToSideChainTx
<1> QED
  BY <1>2, <1>3

\* A goroutine that does not move keeps what it has found out.
LEMMA OthersStay ==
  ASSUME seen \subseteq seen', undone \subseteq undone', overlapped \subseteq overlapped',
         NEW q \in Procs, proc'[q] = proc[q]
  PROVE  /\ \A u : NoRival(proc[q], u) => NoRival(proc[q], u)'
         /\ \A r \in Procs : proc'[r] = proc[r] /\ Noted(proc[q], proc[r]) =>
              Noted(proc[q], proc[r])'
<1>1. ASSUME NEW u, NoRival(proc[q], u)
      PROVE  NoRival(proc[q], u)'
  <2>1. ASSUME NEW t, t = proc[q].tx, NEW todo, todo = proc[q].todo
        PROVE  NoRival(proc[q], u)'
    <3>1. /\ InputsSafe(t, u, todo) => InputsSafe(t, u, todo)'
          /\ InputsSafe(t, u, {}) => InputsSafe(t, u, {})'
          /\ MainSafe(t, u) => MainSafe(t, u)'
      BY SafetyStays
    <3> QED
      BY <1>1, <2>1, <3>1 DEF NoRival, InputsSafe, MainSafe
  <2> QED
    BY <2>1
<1>2. ASSUME NEW r \in Procs, proc'[r] = proc[r], Noted(proc[q], proc[r])
      PROVE  Noted(proc[q], proc[r])'
  BY <1>2 DEF Noted, Conflict, IsRechargeToSideChainTx
<1> QED
  BY <1>1, <1>2

\* Conflicts have no direction.
LEMMA ConflictSymmetric ==
  ASSUME NEW t, NEW u
  PROVE  Conflict(t, u) => Conflict(u, t)
  BY DEF Conflict, IsRechargeToSideChainTx

\* What a step of p keeps where p starts no append without noting conflicts.
LEMMA ConflictFrame ==
  ASSUME ConflictInv, NEW p \in Procs,
         seen \subseteq seen', undone \subseteq undone', overlapped \subseteq overlapped',
         \A q \in Procs \ {p} : proc'[q] = proc[q],
         \/ proc'[p].at \notin AppendLabels
         \/ proc[p].at \in AppendLabels /\ proc'[p].tx = proc[p].tx
         \/ \A u \in BeingAppended : u # proc'[p].tx /\ Conflict(proc'[p].tx, u) =>
              {proc'[p].tx, u} \in overlapped'
  PROVE  /\ \A t, u \in txnList :
              t # u /\ {t, u} \notin overlapped' => InputsSafe(t, u, {})' /\ MainSafe(t, u)'
         /\ \A q \in Procs \ {p} : \A u \in txnList : NoRival(proc[q], u)'
         /\ \A q, r \in Procs : q # r => Noted(proc[q], proc[r])'
<1>1. ASSUME NEW t \in txnList, NEW u \in txnList, t # u, {t, u} \notin overlapped'
      PROVE  InputsSafe(t, u, {})' /\ MainSafe(t, u)'
  <2>1. InputsSafe(t, u, {}) /\ MainSafe(t, u)
    BY <1>1 DEF ConflictInv
  <2> QED
    BY <2>1, SafetyStays
<1>2. \A q \in Procs \ {p} : \A u \in txnList : NoRival(proc[q], u)'
  BY OthersStay DEF ConflictInv
<1>3. ASSUME NEW q \in Procs \ {p}
      PROVE  Noted(proc[p], proc[q])'
  <2> SUFFICES ASSUME proc'[p].at \in AppendLabels, proc'[q].at \in AppendLabels,
                      proc'[p].tx # proc'[q].tx, Conflict(proc'[p].tx, proc'[q].tx)
               PROVE  {proc'[p].tx, proc'[q].tx} \in overlapped'
    BY DEF Noted, Conflict, IsRechargeToSideChainTx
  <2>1. proc'[q] = proc[q]
    OBVIOUS
  <2>2. CASE proc[p].at \in AppendLabels /\ proc'[p].tx = proc[p].tx
    <3>1. Noted(proc[p], proc[q])
      BY DEF ConflictInv
    <3> QED
      BY <2>1, <2>2, <3>1 DEF Noted
  <2>3. CASE \A u \in BeingAppended : u # proc'[p].tx /\ Conflict(proc'[p].tx, u) =>
               {proc'[p].tx, u} \in overlapped'
    <3>1. proc[q].tx \in BeingAppended
      BY <2>1 DEF BeingAppended
    <3> QED
      BY <2>1, <2>3, <3>1
  <2> QED
    BY <2>2, <2>3
<1>4. ASSUME NEW q \in Procs \ {p}
      PROVE  Noted(proc[q], proc[p])'
  <2> SUFFICES ASSUME proc'[p].at \in AppendLabels, proc'[q].at \in AppendLabels,
                      proc'[q].tx # proc'[p].tx, Conflict(proc'[q].tx, proc'[p].tx)
               PROVE  {proc'[q].tx, proc'[p].tx} \in overlapped'
    BY DEF Noted, Conflict, IsRechargeToSideChainTx
  <2>1. Conflict(proc'[p].tx, proc'[q].tx)
    BY ConflictSymmetric
  <2>2. {proc'[p].tx, proc'[q].tx} \in overlapped'
    BY <1>3, <2>1 DEF Noted, Conflict, IsRechargeToSideChainTx
  <2>3. {proc'[p].tx, proc'[q].tx} = {proc'[q].tx, proc'[p].tx}
    OBVIOUS
  <2> QED
    BY <2>2, <2>3
<1>5. \A q, r \in Procs \ {p} : q # r => Noted(proc[q], proc[r])'
  BY OthersStay DEF ConflictInv
<1> QED
  BY <1>1, <1>2, <1>3, <1>4, <1>5

LEMMA StepConflict ==
  ASSUME Shape, GuardInv, ConflictInv, NEW p \in Procs, Step(p)
  PROVE  ConflictInv'
<1>0. PICK t : t = proc[p].tx
  OBVIOUS
<1>1. /\ proc[p] \in ProcState /\ ProcShape(proc[p]) /\ proc \in [Procs -> ProcState]
      /\ \A u \in txnList : NoRival(proc[p], u)
  BY DEF Shape, TypeOK, ConflictInv
<1>2. /\ seen' = seen /\ undone' = undone /\ overlapped \subseteq overlapped'
      /\ \A q \in Procs \ {p} : proc'[q] = proc[q]
  BY StepFrame, OverlapStep DEF ledgerVars
<1>3. /\ \A v, u, todo : InputsSafe(v, u, todo) => InputsSafe(v, u, todo)'
      /\ \A v, u : MainSafe(v, u) => MainSafe(v, u)'
  BY <1>2, SafetyStays
<1>4. ASSUME txnList' \subseteq txnList, \A u \in txnList : NoRival(proc[p], u)',
             \/ proc'[p].at \notin AppendLabels
             \/ proc[p].at \in AppendLabels /\ proc'[p].tx = proc[p].tx
             \/ \A u \in BeingAppended : u # proc'[p].tx /\ Conflict(proc'[p].tx, u) =>
                  {proc'[p].tx, u} \in overlapped'
      PROVE  ConflictInv'
  <2>1. /\ \A v, u \in txnList :
             v # u /\ {v, u} \notin overlapped' => InputsSafe(v, u, {})' /\ MainSafe(v, u)'
        /\ \A q \in Procs \ {p} : \A u \in txnList : NoRival(proc[q], u)'
        /\ \A q, r \in Procs : q # r => Noted(proc[q], proc[r])'
    BY <1>2, <1>4, ConflictFrame
  <2> QED
    BY <1>4, <2>1 DEF ConflictInv
<1>5. ASSUME txnList' \subseteq txnList, proc'[p].at \notin AppendLabels
      PROVE  ConflictInv'
  <2>1. \A u : NoRival(proc[p], u)'
    BY <1>5 DEF NoRival, AppendLabels
  <2> QED
    BY <1>4, <1>5, <2>1
<1>6. ASSUME txnList' \subseteq txnList, Finished(p, t)
      PROVE  ConflictInv'
  BY <1>5, <1>6, MoveFields DEF AppendLabels
<1>7. ASSUME UNCHANGED txnList, proc[p].at \in AppendLabels,
             NEW label \in AppendLabels, NEW todo,
             (Goto(p, label) /\ label # "verify") \/ GotoLoop(p, label, todo),
             \A u \in txnList : t # u /\ {t, u} \notin overlapped =>
               /\ label = "verify" => InputsSafe(t, u, todo)
               /\ label \in {"claim", "list"} => InputsSafe(t, u, {})
               /\ MainSafe(t, u)
      PROVE  ConflictInv'
  <2>1. proc'[p].at = label /\ proc'[p].tx = t /\ (label = "verify" => proc'[p].todo = todo)
    BY <1>0, <1>7, MoveFields
  <2>2. ASSUME NEW u \in txnList
        PROVE  NoRival(proc[p], u)'
    <3>1. /\ InputsSafe(t, u, todo) => InputsSafe(t, u, todo)'
          /\ InputsSafe(t, u, {}) => InputsSafe(t, u, {})'
          /\ MainSafe(t, u) => MainSafe(t, u)'
      BY <1>3
    <3>2. t # u /\ {t, u} \notin overlapped' =>
            /\ label = "verify" => InputsSafe(t, u, todo)'
            /\ label \in {"claim", "list"} => InputsSafe(t, u, {})'
            /\ MainSafe(t, u)'
      BY <1>2, <1>7, <3>1
    <3> QED
      BY <2>1, <3>2 DEF NoRival, InputsSafe, MainSafe
  <2> QED
    BY <1>0, <1>4, <1>7, <2>1, <2>2
<1>8. ASSUME NEW u \in Txs, AppendToTxnPool(p, u) \/ MaybeAcceptTransaction(p, u)
      PROVE  ConflictInv'
  <2>1. UNCHANGED txnList /\ proc[p].at \in {"idle", "next"}
    BY <1>8 DEF AppendToTxnPool, MaybeAcceptTransaction, poolVars, At
  <2>2. CASE UNCHANGED proc \/ Finished(p, u)
    BY <1>5, <2>1, <2>2, MoveFields DEF AppendLabels
  <2>3. ASSUME NEW job, NEW txs, StartAppend(p, u, job, txs)
        PROVE  ConflictInv'
    <3>1. /\ proc'[p].at = IF IsRechargeToSideChainTx(u) THEN "mainRead" ELSE "reference"
          /\ proc'[p].tx = u
      BY <2>3, MoveFields
    <3>2. \A v : NoRival(proc[p], v)'
      BY <3>1 DEF NoRival, MainSafe
    <3>3. \A v \in BeingAppended : v # u /\ Conflict(u, v) => {u, v} \in overlapped'
      BY <2>3 DEF StartAppend
    <3> QED
      BY <1>4, <2>1, <3>1, <3>2, <3>3
  <2> QED
    BY <1>8, <2>2, <2>3 DEF AppendToTxnPool, MaybeAcceptTransaction
<1>9. CASE VerifyDuplicateMainchainTx(p)
  <2>1. /\ UNCHANGED txnList /\ proc[p].at = "mainRead"
        /\ \/ Finished(p, t)
           \/ Goto(p, "mainClaim") /\ mainchainTxList[MainTx[t]] = NoTx
    BY <1>0, <1>9 DEF VerifyDuplicateMainchainTx, poolVars, At
  <2>2. ASSUME mainchainTxList[MainTx[t]] = NoTx
        PROVE  \A u \in txnList : MainSafe(t, u)
    BY <2>2 DEF GuardInv, TxGuarded, MainTxGuarded, MainSafe, IsRechargeToSideChainTx
  <2> QED
    BY <1>6, <1>7, <2>1, <2>2 DEF AppendLabels
<1>10. CASE AddMainchainTx(p)
  <2>1. UNCHANGED txnList /\ proc[p].at = "mainClaim" /\ Goto(p, "reference")
    BY <1>10 DEF AddMainchainTx, At
  <2>2. \A u \in txnList : t # u /\ {t, u} \notin overlapped => MainSafe(t, u)
    BY <1>0, <1>1, <2>1 DEF NoRival, AppendLabels
  <2> QED
    BY <1>7, <2>1, <2>2 DEF AppendLabels
<1>11. CASE GetTxReference(p)
  <2>1. /\ UNCHANGED txnList /\ proc[p].at = "reference"
        /\ \/ Finished(p, t)
           \/ Goto(p, "list") /\ Inputs[t] = {}
           \/ GotoLoop(p, "verify", Inputs[t])
    BY <1>0, <1>11 DEF GetTxReference, poolVars, At
  <2>2. \A u \in txnList : t # u /\ {t, u} \notin overlapped => MainSafe(t, u)
    BY <1>0, <1>1, <2>1 DEF NoRival, AppendLabels
  <2>3. \A u : /\ InputsSafe(t, u, Inputs[t])
               /\ Inputs[t] = {} => InputsSafe(t, u, {})
    BY DEF InputsSafe
  <2> QED
    BY <1>6, <1>7, <2>1, <2>2, <2>3 DEF AppendLabels
<1>12. ASSUME NEW i \in Outputs, GetInputUTXOList(p, i)
       PROVE  ConflictInv'
  <2>1. /\ UNCHANGED txnList /\ proc[p].at = "verify"
        /\ \/ Finished(p, t)
           \/ /\ GotoLoop(p, "claim", Inputs[t]) /\ proc[p].todo = {i}
              /\ inputUTXOList[i] = NoTx
           \/ /\ GotoLoop(p, "verify", proc[p].todo \ {i})
              /\ inputUTXOList[i] = NoTx
    BY <1>0, <1>12 DEF GetInputUTXOList, poolVars, At
  <2>2. \A u \in txnList : t # u /\ {t, u} \notin overlapped =>
          MainSafe(t, u) /\ InputsSafe(t, u, proc[p].todo)
    BY <1>0, <1>1, <2>1 DEF NoRival, AppendLabels
  <2>3. ASSUME inputUTXOList[i] = NoTx
        PROVE  \A u \in txnList : i \in Inputs[u] => Released(i)
    BY <2>3 DEF GuardInv, TxGuarded, Guarded
  <2>4. ASSUME inputUTXOList[i] = NoTx, NEW u \in txnList, t # u, {t, u} \notin overlapped
        PROVE  /\ InputsSafe(t, u, proc[p].todo \ {i})
               /\ proc[p].todo = {i} => InputsSafe(t, u, {})
    BY <2>2, <2>3, <2>4 DEF InputsSafe
  <2> QED
    BY <1>6, <1>7, <2>1, <2>2, <2>4 DEF AppendLabels
<1>13. ASSUME NEW i \in Outputs, AddInputUTXOList(p, i)
       PROVE  ConflictInv'
  <2>1. /\ UNCHANGED txnList /\ proc[p].at = "claim"
        /\ GotoLoop(p, "list", {}) \/ GotoLoop(p, "claim", proc[p].todo \ {i})
    BY <1>13 DEF AddInputUTXOList, At
  <2>2. \A u \in txnList : t # u /\ {t, u} \notin overlapped =>
          MainSafe(t, u) /\ InputsSafe(t, u, {})
    BY <1>0, <1>1, <2>1 DEF NoRival, AppendLabels
  <2> QED
    BY <1>7, <2>1, <2>2 DEF AppendLabels
<1>14. ASSUME NEW i \in Outputs, RemoveTransaction(p, i)
       PROVE  ConflictInv'
  <2>1. /\ txnList' \subseteq txnList
        /\ Finished(p, t) \/ GotoLoop(p, "remove", proc[p].todo \ {i})
    BY <1>0, <1>14 DEF RemoveTransaction
  <2> QED
    BY <1>5, <2>1, MoveFields DEF AppendLabels
<1>15. CASE AddToTxList(p)
  <2>1. /\ proc[p].at = "list" /\ txnList' = txnList \cup {t}
        /\ Finished(p, t) \/ GotoLoop(p, "remove", OutputsOf(t))
    BY <1>0, <1>15 DEF AddToTxList, At
  <2>2. proc'[p].at \notin AppendLabels
    BY <2>1, MoveFields DEF AppendLabels
  <2>3. /\ \A v, u \in txnList :
             v # u /\ {v, u} \notin overlapped' => InputsSafe(v, u, {})' /\ MainSafe(v, u)'
        /\ \A q \in Procs \ {p} : \A u \in txnList : NoRival(proc[q], u)'
        /\ \A q, r \in Procs : q # r => Noted(proc[q], proc[r])'
    BY <1>2, <2>2, ConflictFrame
  <2>4. \A u : NoRival(proc[p], u)'
    BY <2>2 DEF NoRival, AppendLabels
  <2>5. ASSUME NEW u \in txnList, u # t, {t, u} \notin overlapped
        PROVE  InputsSafe(t, u, {}) /\ MainSafe(t, u) /\ InputsSafe(u, t, {}) /\ MainSafe(u, t)
    <3>1. InputsSafe(t, u, {}) /\ MainSafe(t, u)
      BY <1>0, <1>1, <2>1, <2>5 DEF NoRival, AppendLabels
    <3> QED
      BY <3>1 DEF InputsSafe, MainSafe, IsRechargeToSideChainTx
  <2>6. \A u \in txnList : u # t /\ {t, u} \notin overlapped' =>
          InputsSafe(t, u, {})' /\ MainSafe(t, u)' /\ InputsSafe(u, t, {})' /\ MainSafe(u, t)'
    BY <1>2, <1>3, <2>5
  <2>7. \A u : {t, u} = {u, t}
    OBVIOUS
  <2>8. \A v, u \in txnList' :
          v # u /\ {v, u} \notin overlapped' => InputsSafe(v, u, {})' /\ MainSafe(v, u)'
    BY <2>1, <2>3, <2>6, <2>7
  <2>9. ASSUME NEW q \in Procs \ {p}
        PROVE  NoRival(proc[q], t)'
    <3>1. PICK v : v = proc[q].tx
      OBVIOUS
    <3>2. CASE v # t /\ proc[q].at \in AppendLabels /\ Conflict(v, t)
      <4>1. Noted(proc[q], proc[p])
        BY DEF ConflictInv
      <4>2. {v, t} \in overlapped
        BY <1>0, <2>1, <3>1, <3>2, <4>1 DEF Noted, AppendLabels
      <4> QED
        BY <1>2, <3>1, <4>2 DEF NoRival
    <3>3. CASE v = t \/ proc[q].at \notin AppendLabels
      BY <1>2, <3>1, <3>3 DEF NoRival, AppendLabels
    <3>4. CASE ~Conflict(v, t)
      <4>1. \A todo : InputsSafe(v, t, todo)' /\ MainSafe(v, t)'
        BY <3>4 DEF Conflict, InputsSafe, MainSafe, IsRechargeToSideChainTx
      <4> QED
        BY <1>2, <3>1, <4>1 DEF NoRival, InputsSafe, MainSafe
    <3> QED
      BY <3>2, <3>3, <3>4
  <2>10. \A q \in Procs : \A u \in txnList' : NoRival(proc[q], u)'
    BY <2>1, <2>3, <2>4, <2>9
  <2> QED
    BY <2>3, <2>8, <2>10 DEF ConflictInv
<1>16. ASSUME NEW e \in events, HandleEvent(p, e)
       PROVE  ConflictInv'
  <2>1. UNCHANGED txnList
    BY <1>16 DEF HandleEvent, poolVars
  <2>2. proc'[p].at \in {"cleanList", "next"}
    BY <1>16, HandleEventStep
  <2> QED
    BY <1>5, <2>1, <2>2 DEF AppendLabels
<1>17. CASE CleanTransactionList(p) \/ CleanUTXOList(p)
  <2>1. /\ txnList' \subseteq txnList
        /\ Goto(p, "cleanUTXO") \/ Goto(p, "cleanMainchain")
    BY <1>17 DEF CleanTransactionList, CleanUTXOList
  <2> QED
    BY <1>5, <2>1, MoveFields DEF AppendLabels
<1>18. CASE CleanMainchainTx(p)
  <2>1. txnList' \subseteq txnList /\ proc'[p].at = "idle"
    BY <1>1, <1>18 DEF CleanMainchainTx, Idle
  <2> QED
    BY <1>5, <2>1 DEF AppendLabels
<1> QED
  BY <1>8, <1>9, <1>10, <1>11, <1>12, <1>13, <1>14, <1>15, <1>16, <1>17, <1>18 DEF Step

LEMMA NextConflict == Shape /\ GuardInv /\ ConflictInv /\ [Next]_vars => ConflictInv'
<1> SUFFICES ASSUME Shape, GuardInv, ConflictInv, [Next]_vars PROVE ConflictInv'
  OBVIOUS
<1>1. ASSUME seen \subseteq seen', undone \subseteq undone',
             UNCHANGED <<txnList, overlapped, proc>>
      PROVE  ConflictInv'
  <2>1. \A t, u \in txnList : t # u /\ {t, u} \notin overlapped =>
          InputsSafe(t, u, {})' /\ MainSafe(t, u)'
    BY <1>1, SafetyStays DEF ConflictInv
  <2>2. \A p \in Procs : \A u \in txnList : NoRival(proc[p], u)'
    BY <1>1, OthersStay DEF ConflictInv
  <2>3. \A p, q \in Procs : p # q => Noted(proc[p], proc[q])'
    BY <1>1, OthersStay DEF ConflictInv
  <2> QED
    BY <1>1, <2>1, <2>2, <2>3 DEF ConflictInv
<1>2. ASSUME NEW block \in (SUBSET Txs) \ {{}}, PersistBlock(block)  PROVE ConflictInv'
  BY <1>1, <1>2, PersistLedger
<1>3. CASE RollbackBlock
  BY <1>1, <1>3, RollbackLedger
<1>4. CASE UNCHANGED vars
  BY <1>1, <1>4 DEF vars, poolVars, ledgerVars, seen, confirmed
<1> QED
  BY <1>2, <1>3, <1>4, StepConflict DEF Next

\* However many goroutines use the pool at the same time, and whatever blocks
\* are persisted and rolled back between their steps: two transactions of the
\* pool spend the same output or redeem the same main chain transaction only
\* if AppendToTxnPool ran for both at the same time, or a block has released
\* what they have in common.
THEOREM PoolWithoutConflicts == Spec => []NoConflictInPool
<1>1. Init => ConflictInv
  <2> SUFFICES ASSUME Init PROVE ConflictInv
    OBVIOUS
  <2>1. \A p \in Procs : proc[p].at = "idle"
    BY DEF Init, Idle
  <2> QED
    BY <2>1 DEF Init, ConflictInv, Noted, AppendLabels
<1>2. ConflictInv => NoConflictInPool
  BY DEF ConflictInv, NoConflictInPool, InputsSafe, MainSafe
<1> QED
  BY <1>1, <1>2, InitShape, NextShape, InitJobs, NextJobs, InitGuards, NextGuards, NextConflict, PTL
  DEF Spec
=============================================================================
