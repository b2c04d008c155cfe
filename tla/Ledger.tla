------------------------------- MODULE Ledger -------------------------------
(***************************************************************************)
(* The rules for transactions and blocks (blockchain/txvalidator.go,       *)
(* blockvalidator.go, validation.go, the fees of txpool.go) together with  *)
(* the database that they read and that the blocks they pass are written   *)
(* to.                                                                     *)
(*                                                                         *)
(* A block is checked twice.  PowCheckBlockSanity, the fees included, runs *)
(* when it arrives, on whatever chain is the main chain then; the context  *)
(* of its transactions is checked when it is connected, perhaps after a    *)
(* reorganisation.  Which branch is the main chain is left open here (see  *)
(* Blockchain.tla): any block can be connected to its parent, and the tip  *)
(* can be disconnected at any time, if the store has it.                   *)
(*                                                                         *)
(* Nothing is asked of the inputs of a recharge, but they are spent like   *)
(* the others: a block whose recharge spends what is not there passes, is  *)
(* not written, and is on the main chain in memory all the same.           *)
(*                                                                         *)
(* Proof of work, times, sizes, Merkle roots, attributes and precisions    *)
(* are those of a well made block.                                         *)
(***************************************************************************)
EXTENDS TxIndex, FiniteSetsExt

CONSTANTS
  Txs,         \* the transactions, other than coinbases, that are around
  CoinbaseIds, \* bound: the hashes of the coinbases, one for each block
  MaxTxs,      \* bound: transactions in a block, the coinbase not counted
  Rewards,     \* what the coinbase of a block that arrives may pay
  Foundation, Miner, Nobody, RegisterId, \* owners; Nobody is the empty hash
  Proven,      \* the main chain transactions that the SPV service knows
  ExchangeRate, MinCrossChainTxFee, MinTxFee, SpendCoinbaseSpan

VARIABLES
  db,      \* the chain store
  blocks,  \* the blocks that arrived and passed, in that order
  chain,   \* the main chain, as places in blocks
  unwritten,         \* those of its blocks that the store could not write
  currentBlockHeight \* of the store: the height that was written last

vars == <<db, blocks, chain, unwritten, currentBlockHeight>>

ASSUME LedgerAssumption ==
  /\ \A t \in Txs : t.type # "coinbase" /\ t.id \notin Range(CoinbaseIds)
  /\ \A t, u \in Txs : t.id = u.id => t = u
  /\ IsInjective(CoinbaseIds)
  /\ {MaxTxs, MinCrossChainTxFee, MinTxFee, SpendCoinbaseSpan, ExchangeRate} \subseteq Nat
  /\ Rewards \subseteq Nat
  /\ \A t \in Txs : \A k \in DOMAIN t.outs : t.outs[k].value \in Nat

\* What a transaction is made of.  One that registers an asset after the genesis
\* block is refused: it counts as spending nothing, so that its fee is too low
\* (chainstore.go:429, txvalidator.go:304).
ASSUME TxAssumption ==
  /\ IsFiniteSet(Txs) /\ CoinbaseIds \in Seq(Range(CoinbaseIds))
  /\ \A t \in Txs :
       /\ t.type # "registerasset" /\ t.lockTime \in Nat
       /\ t.ins \in Seq(Range(t.ins)) /\ t.outs \in Seq(Range(t.outs))
       /\ \A in \in Range(t.ins) : in = [tx |-> in.tx, index |-> in.index]
       /\ \A o \in Range(t.outs) : o.lock \in Nat

ASSUME DepositAssumption ==
  \A t \in Txs : t.type = "recharge" =>
    /\ t.main.deposits \in Seq(Range(t.main.deposits))
    /\ \A p \in Range(t.main.deposits) : p.value \in Int /\ p.amount \in Int

Total(outs) == SumFunction([k \in DOMAIN outs |-> outs[k].value])

References(d, t) == [k \in DOMAIN t.ins |-> Output(d, t.ins[k])]

-----------------------------------------------------------------------------
(* Transactions.                                                           *)

CheckTransactionInput(t) ==
  t.type \notin {"coinbase", "recharge"} => t.ins # << >> /\ IsInjective(t.ins)

CheckTransactionOutput(t) ==
  CASE t.type = "coinbase" ->
         /\ Len(t.outs) >= 2
         /\ Total(SelectSeq(t.outs, LAMBDA o : o.owner = Foundation))
              >= (3 * Total(t.outs)) \div 10
    [] t.type = "recharge" -> TRUE
    [] OTHER -> t.outs # << >>

CheckTransactionSanity(t) == CheckTransactionInput(t) /\ CheckTransactionOutput(t)

\* What a deposit is worth here: the fee of a recharge is what is left of it, as
\* often as it has an output to its address.
RechargeFee(t) ==
  LET Left(p, o) == IF p.owner = o.owner THEN ExchangeRate * p.value - o.value ELSE 0
  IN  SumFunction([k \in DOMAIN t.outs |->
        SumFunction([i \in DOMAIN t.main.deposits |-> Left(t.main.deposits[i], t.outs[k])])])

\* No fee where an output that is spent is not on the main chain.
GetTxFee(d, t) ==
  CASE t.type = "recharge" -> RechargeFee(t)
    [] t.type # "recharge" /\ HasTxReference(d, t) -> Total(References(d, t)) - Total(t.outs)
    [] OTHER -> 0

\* Mutant: the owner of the first output that is spent is enough.
GetTxProgramHashesOfFirst(d, t) ==
  {Output(d, t.ins[1]).owner}
    \cup (IF t.type = "registerid" /\ \E k \in DOMAIN t.outs : t.outs[k].owner = RegisterId
            THEN {RegisterId} ELSE {})

\* Whose programs have to run: with an identification the one that is registered.
GetTxProgramHashes(d, t) ==
  {o.owner : o \in Range(References(d, t))}
    \cup (IF t.type = "registerid" /\ \E k \in DOMAIN t.outs : t.outs[k].owner = RegisterId
            THEN {RegisterId} ELSE {})

\* Both lists are sorted and compared, and every program has to succeed.
VerifySignature(d, t) ==
  IF t.type = "recharge" THEN t.main.id \in Proven
  ELSE HasTxReference(d, t) /\ t.programs = GetTxProgramHashes(d, t)

CheckRechargeToSideChainTransaction(d, t) ==
  /\ ~IsMainchainTxHashDuplicate(d, t.main.id)
  /\ \A k \in DOMAIN t.main.deposits :
       LET p == t.main.deposits[k] IN
         /\ p.amount <= p.value - MinCrossChainTxFee
         /\ \E o \in Range(t.outs) : o.owner = p.owner /\ o.value = p.amount * ExchangeRate
  /\ Total(t.outs) = SumFunction([k \in DOMAIN t.main.deposits |->
                                    t.main.deposits[k].amount * ExchangeRate])

CheckTransferCrossChainAssetTransaction(d, t) ==
  /\ t.cross # << >>
  /\ IsInjective([k \in DOMAIN t.cross |-> t.cross[k].index])
  /\ Len(t.cross) = Len(SelectSeq(t.outs, LAMBDA o : o.owner = Nobody))
  /\ \A c \in Range(t.cross) :
       /\ c.index \in DOMAIN t.outs /\ t.outs[c.index].owner = Nobody
       /\ c.amount <= t.outs[c.index].value - MinCrossChainTxFee
  /\ Total(References(d, t)) - Total(t.outs) >= MinCrossChainTxFee

\* Mutant: the sequence of the input is not looked at.
CheckLockTimeAlone(d, t) == \A o \in Range(References(d, t)) : o.lock # 0 => t.lockTime >= o.lock

CheckTransactionUTXOLock(d, t) ==
  \A o \in Range(References(d, t)) :
    o.lock # 0 => t.sequence = "locked" /\ t.lockTime >= o.lock

CheckTransactionBalance(d, t) == GetTxFee(d, t) >= MinTxFee

\* The reward of a coinbase can be spent some blocks later.
Effective(d, height, in) ==
  LET refer == d.txs[in.tx].tx
  IN  refer.type = "coinbase" => height - refer.lockTime >= SpendCoinbaseSpan

CheckTransactionContext(d, height, t) ==
  /\ ~IsTxHashDuplicate(d, t.id)
  /\ t.type # "coinbase" =>
       /\ VerifySignature(d, t)
       /\ IF t.type = "recharge" THEN CheckRechargeToSideChainTransaction(d, t)
          ELSE /\ t.type = "crosschain" => CheckTransferCrossChainAssetTransaction(d, t)
               /\ ~IsDoubleSpend(d, t)
               /\ CheckTransactionUTXOLock(d, t)
               /\ CheckTransactionBalance(d, t)
               /\ \A k \in DOMAIN t.ins : Effective(d, height, t.ins[k])

IsFinalizedTransaction(t, height) ==
  t.lockTime = 0 \/ t.lockTime < height \/ t.sequence = "final"

-----------------------------------------------------------------------------
(* Blocks.                                                                 *)

Fees(d, b) == SumFunction([k \in 2..Len(b.txs) |-> GetTxFee(d, b.txs[k])])

\* Mutant: only a reward that is too low is wrong.
RewardAtLeastFees(d, b) == Total(b.txs[1].outs) >= Fees(d, b)

RewardMatchesFees(d, b) == Total(b.txs[1].outs) = Fees(d, b)

PowCheckBlockSanity(d, b) ==
  LET recharges == {k \in DOMAIN b.txs : b.txs[k].type = "recharge"}
  IN  /\ b.txs # << >> /\ Len(b.txs) <= MaxTxs + 1
      /\ \A k \in DOMAIN b.txs : b.txs[k].type = "coinbase" <=> k = 1
      /\ RewardMatchesFees(d, b)
      /\ IsInjective([k \in DOMAIN b.txs |-> b.txs[k].id])
      /\ \A k \in DOMAIN b.txs : CheckTransactionSanity(b.txs[k])
      /\ DistinctInputs(b)
      /\ IsInjective([k \in recharges |-> b.txs[k].main.id])

PowCheckBlockContext(b) ==
  \A k \in DOMAIN b.txs : k > 1 => IsFinalizedTransaction(b.txs[k], b.height)

\* The transaction that the miner of block n puts first, see CreateCoinBaseTx.
CreateCoinBaseTx(n, height, reward, foundation) ==
  [id |-> CoinbaseIds[n], type |-> "coinbase", ins |-> << >>,
   outs |-> <<[owner |-> Foundation, value |-> foundation, lock |-> 0],
              [owner |-> Miner, value |-> reward - foundation, lock |-> 0]>>,
   lockTime |-> height, sequence |-> "final", programs |-> {}, keys |-> {}]

HeightOf(n) == IF n = 0 THEN 0 ELSE blocks[n].height
Tip == IF chain = << >> THEN 0 ELSE Last(chain)

ParentOf(n) == IF n = 0 THEN 0 ELSE blocks[n].parent

\* Bound: a block that arrives extends the tip, is a rival of it, or extends the
\* block that arrived last.
Near == {Tip, ParentOf(Tip), Len(blocks)}

\* A block of a peer or a miner passes the checks of ProcessBlock.  Its parent may
\* be on a side chain.
ReceiveBlock(parent, txs, reward, foundation) ==
  LET n == Len(blocks) + 1
      height == HeightOf(parent) + 1
      b == [parent |-> parent, height |-> height,
            txs |-> <<CreateCoinBaseTx(n, height, reward, foundation)>> \o SetToSeq(txs)]
  IN  /\ n <= Len(CoinbaseIds)
      /\ PowCheckBlockSanity(db, b)
      /\ PowCheckBlockContext(b)
      /\ blocks' = Append(blocks, b)
      /\ UNCHANGED <<db, chain, unwritten, currentBlockHeight>>

Connectable(n) ==
  /\ n \notin Range(chain) /\ blocks[n].parent = Tip
  /\ \A t \in Range(blocks[n].txs) : CheckTransactionContext(db, currentBlockHeight, t)

\* An error of persist is logged and forgotten (chainstore.go:597): the block is on
\* the main chain without being in the store.  Its height is above that of the
\* store, so that handlePersistBlockTask never leaves it out.
ConnectBlock(n) ==
  /\ Connectable(n)
  /\ ~PersistPanics(db, blocks[n])
  /\ \/ /\ ~PersistFails(db, blocks[n])
        /\ db' = Persist(db, blocks[n])
        /\ currentBlockHeight' = blocks[n].height
        /\ UNCHANGED unwritten
     \/ /\ PersistFails(db, blocks[n])
        /\ unwritten' = unwritten \cup {n}
        /\ UNCHANGED <<db, currentBlockHeight>>
  /\ chain' = Append(chain, n)
  /\ UNCHANGED blocks

\* ReorganizeChain ends at a block that it does not find in the store.
DisconnectBlock ==
  /\ chain # << >> /\ Tip \notin unwritten
  /\ db' = Rollback(db, blocks[Tip])
  /\ currentBlockHeight' = blocks[Tip].height - 1
  /\ chain' = Front(chain)
  /\ UNCHANGED <<blocks, unwritten>>

\* The genesis block registers the asset and pays nobody.
GetGenesisBlock ==
  [parent |-> 0, height |-> 0,
   txs |-> <<[id |-> "asset", type |-> "registerasset", ins |-> << >>, outs |-> << >>,
              lockTime |-> 0, sequence |-> "final", programs |-> {}, keys |-> {}]>>]

Init ==
  /\ db = Persist(EmptyDB, GetGenesisBlock)
  /\ blocks = << >> /\ chain = << >>
  /\ unwritten = {} /\ currentBlockHeight = 0

Next ==
  \/ \E parent \in Near, k \in 0..MaxTxs, reward \in Rewards :
       \E txs \in kSubset(k, Txs), foundation \in {0, (3 * reward) \div 10} :
         ReceiveBlock(parent, txs, reward, foundation)
  \/ \E n \in DOMAIN blocks : ConnectBlock(n)
  \/ DisconnectBlock

Spec == Init /\ [][Next]_vars

-----------------------------------------------------------------------------
(* Properties.  The blocks that were written, not the database, say what   *)
(* is right.                                                               *)

TxsOf(n) == Range(blocks[n].txs)
Written == {h \in DOMAIN chain : chain[h] \notin unwritten}
ChainTxs == UNION {TxsOf(chain[h]) : h \in Written}
HeightOfTx(t) == CHOOSE h \in Written : t \in TxsOf(chain[h])
SpentOutputs == UNION {Range(t.ins) : t \in ChainTxs}
AllOutputs == UNION {{Utxo(t, i) : i \in DOMAIN t.outs} : t \in ChainTxs}
UnspentOutputs == AllOutputs \ SpentOutputs
TxWithId(id) == CHOOSE t \in ChainTxs : t.id = id

\* A list of an index has these elements, once each, or is not there.
ListIs(index, key, S) ==
  IF key \in DOMAIN index THEN S # {} /\ Range(index[key]) = S /\ IsInjective(index[key])
                          ELSE S = {}

UnspentMatches ==
  LET unspent == UnspentOutputs
  IN  /\ DOMAIN db.unspent \subseteq {t.id : t \in ChainTxs}
      /\ \A t \in ChainTxs :
           ListIs(db.unspent, t.id, {i \in DOMAIN t.outs : Utxo(t, i) \in unspent})

UTXOMatches ==
  LET KeyOf(o) == <<TxWithId(o.tx).outs[o.index].owner, HeightOfTx(TxWithId(o.tx))>>
      filed == {<<KeyOf(o), o>> : o \in UnspentOutputs}
  IN  \A key \in DOMAIN db.utxo \cup {f[1] : f \in filed} :
        ListIs(db.utxo, key, {f[2] : f \in {g \in filed : g[1] = key}})

\* Whatever blocks were connected and disconnected, in whatever order
\* (chaindata.go:109, :207, :293, :325, :375, :428), the database says of every
\* output of the main chain, in both of its indices, whether it is spent; it knows
\* the transactions of the main chain and no others, and which main chain
\* transactions they redeem.  A block that could not be written leaves no trace.
IndicesMatchChain ==
  /\ UnspentMatches
  /\ UTXOMatches
  /\ DOMAIN db.txs = {t.id : t \in ChainTxs} \cup {"asset"}
  /\ \A t \in ChainTxs : db.txs[t.id] = [height |-> HeightOfTx(t), tx |-> t]
  /\ db.mainTxs = {t.main.id : t \in {u \in ChainTxs : u.type = "recharge"}}

\* A block that ConnectBlock lets through can be written: persist, whose errors
\* are only logged (chainstore.go:597), finds every output that it spends.  Only an
\* input of a recharge, which nobody looked at (txvalidator.go:79), may be spent
\* already, or of no transaction of the main chain.
ConnectedBlockPersists ==
  \A n \in DOMAIN blocks :
    /\ Connectable(n)
    /\ PersistFails(db, blocks[n]) \/ PersistPanics(db, blocks[n])
    => \E t \in TxsOf(n) : t.type = "recharge" /\ ~(Range(t.ins) \subseteq UnspentOutputs)

\* The deposits of a recharge go to as many addresses, and of its outputs only one
\* goes to each of them.
PaysOnce(t) ==
  LET deposits == t.main.deposits
  IN  /\ \A i, j \in DOMAIN deposits : deposits[i].owner = deposits[j].owner => i = j
      /\ \A i \in DOMAIN deposits : \A j, k \in DOMAIN t.outs :
           t.outs[j].owner = deposits[i].owner /\ t.outs[k].owner = deposits[i].owner
             => j = k

\* What a recharge brings to this chain: its deposits, but where an address has
\* several outputs or deposits what the rule for fees makes of them
\* (txpool.go:394-410).
Brought(t) ==
  IF PaysOnce(t) THEN ExchangeRate * Total(t.main.deposits)
                 ELSE Total(t.outs) + RechargeFee(t)

\* There is never more in the unspent outputs than the recharges of the main chain
\* brought, each of another deposit that the SPV service knows, although the
\* reward of a block is compared with its fees (blockvalidator.go:92) on another
\* chain than the one it is connected to.
NoMoneyCreated ==
  LET recharges == {t \in ChainTxs : t.type = "recharge"}
  IN  /\ \A t \in recharges : t.main.id \in Proven
      /\ \A t, u \in recharges : t.main.id = u.main.id => t = u
      /\ SumFunction([o \in UnspentOutputs |-> TxWithId(o.tx).outs[o.index].value])
           <= SumFunction([t \in recharges |-> Brought(t)])

\* Every output that is spent on the main chain was there at a lower height and was
\* spent once, and its owner signed (validation.go:16).  Only a recharge spends
\* unsigned (validation.go:17).
OnlyOwnersSpend ==
  \A t \in ChainTxs : \A in \in Range(t.ins) :
    /\ \A u \in ChainTxs : u # t => in \notin Range(u.ins)
    /\ \E u \in ChainTxs :
         /\ u.id = in.tx /\ in.index \in DOMAIN u.outs /\ HeightOfTx(u) < HeightOfTx(t)
         /\ t.type # "recharge" => u.outs[in.index].owner \in t.programs

\* An output with a lock is spent in a block above that height: the rules on the
\* sequence and the lock time of the transaction (txvalidator.go:233) and the one
\* that its block is final (blockvalidator.go:180) leave no way round it, except in
\* a recharge, which passes before they are looked at (txvalidator.go:79).
OutputLockHonoured ==
  \A t \in ChainTxs : \A in \in Range(t.ins) :
    t.type # "recharge" => TxWithId(in.tx).outs[in.index].lock < HeightOfTx(t)
=============================================================================
