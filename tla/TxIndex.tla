------------------------------- MODULE TxIndex -------------------------------
(***************************************************************************)
(* What the chain store keeps of the transactions of the main chain, and   *)
(* how a block is written to it and taken off again                        *)
(* (blockchain/chaindata.go, blockchain/chainstore.go).  A database is a   *)
(* record with one function for each kind of key:                          *)
(*   txs      DATA_Transaction: the height and the body of a transaction   *)
(*   unspent  IX_Unspent: the list of its outputs that are not spent       *)
(*   utxo     IX_Unspent_UTXO: those lists again, by owner and height      *)
(*   mainTxs  IX_MainChain_Tx: the main chain transactions redeemed        *)
(*   ids      IX_IDENTIFICATION: the registration of a key                 *)
(* A block is written as one batch, and the batch is read from the         *)
(* database, never from what it has written itself.                        *)
(***************************************************************************)
EXTENDS Integers, Sequences, SequencesExt, Functions

EmptyDB == [txs |-> << >>, unspent |-> << >>, utxo |-> << >>, mainTxs |-> {},
            ids |-> << >>]

\* What g has, except where f has something.
Over(f, g) == [x \in DOMAIN f \cup DOMAIN g |-> IF x \in DOMAIN f THEN f[x] ELSE g[x]]

Put(f, k, v) == [x \in DOMAIN f \cup {k} |-> IF x = k THEN v ELSE f[x]]
Delete(f, keys) == Restrict(f, DOMAIN f \ keys)

\* RegisterAsset transactions have no part in the two indices of outputs.
Accountable(t) == t.type # "registerasset"

Spends(t) == IF t.type = "coinbase" THEN << >> ELSE t.ins

Utxo(t, i) == [tx |-> t.id, index |-> i]

\* No output is spent twice in a block.
DistinctInputs(b) ==
  \A k, j \in DOMAIN b.txs : \A x \in DOMAIN b.txs[k].ins, y \in DOMAIN b.txs[j].ins :
    b.txs[k].ins[x] = b.txs[j].ins[y] => k = j /\ x = y

\* The last element takes the place of the one that is removed.
Take(list, e) ==
  LET k == SelectInSeq(list, LAMBDA x : x = e)
  IN  IF k = 0 THEN list ELSE Front([list EXCEPT ![k] = Last(list)])

\* An element that is not in its list is taken for the first one there.
CutOut(list, e) ==
  LET k == SelectInSeq(list, LAMBDA x : x = e)
  IN  RemoveAt(list, IF k = 0 THEN 1 ELSE k)

-----------------------------------------------------------------------------
(* The lists of an index, read from the database where the batch has none  *)
(* yet.  Each loop goes through a sequence of entries: an element and the  *)
(* key of its list.                                                        *)

Entry(key, elem) == [key |-> key, elem |-> elem]

Listed(batch, index, key) ==
  CASE key \in DOMAIN batch -> batch[key]
    [] key \notin DOMAIN batch /\ key \in DOMAIN index -> index[key]
    [] OTHER -> << >>

\* What is done to a list: an element is appended, taken or cut out.
Edit(how, list, e) ==
  CASE how = "append" -> Append(list, e)
    [] how = "take" -> Take(list, e)
    [] how = "cut" -> CutOut(list, e)

EditOne(how, index, batch, e) ==
  Put(batch, e.key, Edit(how, Listed(batch, index, e.key), e.elem))

EditAll(how, index, batch, entries) ==
  LET after[k \in 0..Len(entries)] ==
        IF k = 0 THEN batch ELSE EditOne(how, index, after[k - 1], entries[k])
  IN  after[Len(entries)]

\* Transaction by transaction, with the entries that it creates and then with
\* those that it spends; base and index are where their lists are read from.
BlockBatch(onCreated, base, created, onSpent, index, spent) ==
  LET after[k \in 0..Len(created)] ==
        IF k = 0 THEN << >>
        ELSE EditAll(onSpent, index, EditAll(onCreated, base, after[k - 1], created[k]),
                     spent[k])
  IN  after[Len(created)]

\* A list that is empty is deleted, the others are put.
WriteBatch(index, batch) ==
  LET empty == {k \in DOMAIN batch : batch[k] = << >>}
  IN  Delete(Over(batch, index), empty)

-----------------------------------------------------------------------------
(* What is asked of the database.                                          *)

IsTxHashDuplicate(db, id) == id \in DOMAIN db.txs

HasTxReference(db, t) ==
  \A k \in DOMAIN t.ins :
    /\ t.ins[k].tx \in DOMAIN db.txs
    /\ t.ins[k].index \in DOMAIN db.txs[t.ins[k].tx].tx.outs

Output(db, in) == db.txs[in.tx].tx.outs[in.index]

\* Mutant: a transaction without a list has no spent outputs.
IsDoubleSpendListed(db, t) ==
  \E k \in DOMAIN t.ins :
    /\ t.ins[k].tx \in DOMAIN db.unspent
    /\ ~Contains(db.unspent[t.ins[k].tx], t.ins[k].index)

IsDoubleSpend(db, t) ==
  \E k \in DOMAIN t.ins :
    \/ t.ins[k].tx \notin DOMAIN db.unspent
    \/ ~Contains(db.unspent[t.ins[k].tx], t.ins[k].index)

IsMainchainTxHashDuplicate(db, m) == m \in db.mainTxs

\* Where the list with an output is.
UTXOKey(db, in) == <<Output(db, in).owner, db.txs[in.tx].height>>

-----------------------------------------------------------------------------
(* The entries of a block, transaction by transaction.                     *)

CreatedUnspent(b) ==
  [k \in DOMAIN b.txs |->
     LET t == b.txs[k]
     IN  IF Accountable(t) THEN [i \in DOMAIN t.outs |-> Entry(t.id, i)] ELSE << >>]

SpentUnspent(b) ==
  [k \in DOMAIN b.txs |->
     LET t == b.txs[k]
     IN  IF Accountable(t)
           THEN [x \in DOMAIN Spends(t) |-> Entry(Spends(t)[x].tx, Spends(t)[x].index)]
           ELSE << >>]

CreatedUTXOs(b) ==
  [k \in DOMAIN b.txs |->
     LET t == b.txs[k]
     IN  IF Accountable(t)
           THEN [i \in DOMAIN t.outs |-> Entry(<<t.outs[i].owner, b.height>>, Utxo(t, i))]
           ELSE << >>]

SpentUTXOs(db, b) ==
  [k \in DOMAIN b.txs |->
     LET t == b.txs[k]
     IN  IF Accountable(t)
           THEN [x \in DOMAIN Spends(t) |-> Entry(UTXOKey(db, Spends(t)[x]), Spends(t)[x])]
           ELSE << >>]

TxIdsOf(b) == {b.txs[k].id : k \in DOMAIN b.txs}

-----------------------------------------------------------------------------
(* A block is written.  What is put last under a key stays.                *)

LastOf(P) == CHOOSE k \in P : \A j \in P : j <= k

PersistTransactions(db, b) ==
  LET OfId(id) == {k \in DOMAIN b.txs : b.txs[k].id = id}
      OfKey(key) == {k \in DOMAIN b.txs : key \in b.txs[k].keys}
      keys == UNION {b.txs[k].keys : k \in DOMAIN b.txs}
      recharges == {k \in DOMAIN b.txs : b.txs[k].type = "recharge"}
  IN  [db EXCEPT
         !.txs = Over([id \in TxIdsOf(b) |->
                         [height |-> b.height, tx |-> b.txs[LastOf(OfId(id))]]], @),
         !.mainTxs = @ \cup {b.txs[k].main.id : k \in recharges},
         !.ids = Over([key \in keys |-> b.txs[LastOf(OfKey(key))].id], @)]

PersistUnspendUTXOs(db, b) ==
  WriteBatch(db.utxo, BlockBatch("append", db.utxo, CreatedUTXOs(b),
                                 "take", db.utxo, SpentUTXOs(db, b)))

\* The list of a new transaction is not looked for in the database.
PersistUnspend(db, b) ==
  WriteBatch(db.unspent,
             BlockBatch("append", << >>, CreatedUnspent(b),
                        "take", db.unspent, SpentUnspent(b)))

\* The batch is given up at an output that is not found, or not found any more.
Found(db, in) ==
  /\ in.tx \in DOMAIN db.txs
  /\ in.index \in DOMAIN db.txs[in.tx].tx.outs =>
       /\ UTXOKey(db, in) \in DOMAIN db.utxo
       /\ Contains(db.utxo[UTXOKey(db, in)], in)
       /\ in.tx \in DOMAIN db.unspent

PersistFails(db, b) ==
  \/ ~DistinctInputs(b)
  \/ \E k \in DOMAIN b.txs : \E in \in Range(Spends(b.txs[k])) :
       Accountable(b.txs[k]) /\ ~Found(db, in)

\* An index beyond the outputs of its transaction is not looked at before it is
\* used: the program ends where persist comes to such an input.
PersistPanics(db, b) ==
  \E k \in DOMAIN b.txs : \E x \in DOMAIN Spends(b.txs[k]) :
    LET in == Spends(b.txs[k])[x]
    IN  /\ Accountable(b.txs[k]) /\ in.tx \in DOMAIN db.txs
        /\ in.index \notin DOMAIN db.txs[in.tx].tx.outs
        /\ \A j \in 1..k : \A y \in DOMAIN Spends(b.txs[j]) :
             (j < k \/ y < x) => Found(db, Spends(b.txs[j])[y])

Persist(db, b) ==
  [PersistTransactions(db, b) EXCEPT !.utxo = PersistUnspendUTXOs(db, b),
                                     !.unspent = PersistUnspend(db, b)]

-----------------------------------------------------------------------------
(* A block is taken off.  No error ends it, and the registrations stay.    *)

RollbackTransactions(db, b) ==
  LET redeemed == {b.txs[k].main.id : k \in {j \in DOMAIN b.txs :
                                              b.txs[j].type = "recharge"}}
  IN  [db EXCEPT !.txs = Delete(@, TxIdsOf(b)), !.mainTxs = @ \ redeemed]

RollbackUnspendUTXOs(db, b) ==
  WriteBatch(db.utxo, BlockBatch("cut", db.utxo, CreatedUTXOs(b),
                                 "append", db.utxo, SpentUTXOs(db, b)))

\* What the block spent goes back into its lists; the lists of its own outputs go
\* as a whole.
RestoredUnspent(db, b) ==
  BlockBatch("cut", db.unspent, [k \in DOMAIN b.txs |-> << >>],
             "append", db.unspent, SpentUnspent(b))

Dropped(b) == {b.txs[k].id : k \in {j \in DOMAIN b.txs : Accountable(b.txs[j])}}

\* Mutant: a list that was deleted, its last output being spent, is not made again.
RollbackUnspendListed(db, b) ==
  LET batch == RestoredUnspent(db, b)
      listed == Restrict(batch, DOMAIN batch \cap DOMAIN db.unspent)
  IN  WriteBatch(Delete(db.unspent, Dropped(b)), listed)

RollbackUnspend(db, b) ==
  WriteBatch(Delete(db.unspent, Dropped(b)), RestoredUnspent(db, b))

Rollback(db, b) ==
  [RollbackTransactions(db, b) EXCEPT !.utxo = RollbackUnspendUTXOs(db, b),
                                      !.unspent = RollbackUnspend(db, b)]
=============================================================================
