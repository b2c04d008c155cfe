------------------------------ MODULE MCLedger ------------------------------
(***************************************************************************)
(* Two recharges of one deposit, of which the second pays its address      *)
(* twice and spends the output of a coinbase, there or not, a transfer and *)
(* a cross chain transfer of the output of the first, spenders of the two  *)
(* outputs of the transfer (one of which is locked) that keep and that     *)
(* break the rules, and a spender of the coinbase.                         *)
(***************************************************************************)
EXTENDS Ledger

Out(owner, value, lock) == [owner |-> owner, value |-> value, lock |-> lock]
In(tx, index) == [tx |-> tx, index |-> index]

Plain(id, type, ins, outs, programs) ==
  [id |-> id, type |-> type, ins |-> ins, outs |-> outs, programs |-> programs,
   lockTime |-> 0, sequence |-> "final", keys |-> {}, cross |-> << >>]

Deposit == [id |-> "m", deposits |-> <<[owner |-> "A", value |-> 20, amount |-> 10]>>]

Recharge(id, ins, outs) ==
  [id |-> id, type |-> "recharge", ins |-> ins, outs |-> outs, programs |-> {},
   lockTime |-> 0, sequence |-> "final", keys |-> {}, main |-> Deposit]

MCTxs ==
  {Recharge("r1", << >>, <<Out("A", 10, 0)>>),
   Recharge("r2", <<In("c1", 2)>>, <<Out("A", 10, 0), Out("A", 0, 0)>>),
   Plain("t1", "transfer", <<In("r1", 1)>>, <<Out("B", 5, 3), Out("A", 4, 0)>>, {"A"}),
   [Plain("x1", "crosschain", <<In("r1", 1)>>, <<Out("nobody", 9, 0)>>, {"A"})
      EXCEPT !.cross = <<[amount |-> 8, index |-> 1]>>],
   [Plain("t2", "transfer", <<In("t1", 1), In("t1", 2)>>, <<Out("A", 8, 0)>>, {"A", "B"})
      EXCEPT !.lockTime = 3, !.sequence = "locked"],
   [Plain("t3", "transfer", <<In("t1", 1)>>, <<Out("A", 4, 0)>>, {"B"})
      EXCEPT !.lockTime = 3],
   Plain("t4", "transfer", <<In("t1", 2), In("c1", 2)>>, <<Out("B", 10, 0)>>, {"A"}),
   [Plain("i1", "registerid", <<In("c1", 2)>>, <<Out("id", 6, 0)>>, {"miner", "id"})
      EXCEPT !.keys = {"key"}]}

MCCoinbaseIds == <<"c1", "c2", "c3", "c4">>
=============================================================================
