------------------------------ MODULE MCTxPool ------------------------------
(***************************************************************************)
(* t1 and t2 both spend i1, t2 spends i2 as well, and r1 and r2 redeem the  *)
(* same main chain transaction m.  Nobody checks the inputs of r1: it       *)
(* spends i2, as t2 does, and the output o1 of t1.                          *)
(***************************************************************************)
EXTENDS TxPool, TLC

CONSTANTS t1, t2, r1, r2, i1, i2, o1, m, p1, p2

MCInputs == t1 :> {i1} @@ t2 :> {i1, i2} @@ r1 :> {i2, o1} @@ r2 :> {}
MCCreator == i1 :> NoTx @@ i2 :> NoTx @@ o1 :> t1
MCMainTx == t1 :> NoMainTx @@ t2 :> NoMainTx @@ r1 :> m @@ r2 :> m

\* The goroutines can change places.
Swaps == Permutations(Procs)
=============================================================================
