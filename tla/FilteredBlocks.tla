--------------------------- MODULE FilteredBlocks ---------------------------
(***************************************************************************)
(* Filtered blocks for light clients: the bloom filter a client loads      *)
(* (bloom/filter.go), the partial Merkle trees built with it (mblock.go,   *)
(* merkleblock.go) and the handlers that serve them (msghandler.go).       *)
(*                                                                         *)
(* A hash is a sequence: <<id>> of a transaction, <<left, right>> of an    *)
(* inner node, <<>> for none (nil).  A filter is the set of bits that are  *)
(* on; the murmur hashes of its entries are the constant HashBits, in      *)
(* which entries may collide.  The server has OpenService.                 *)
(***************************************************************************)
EXTENDS Integers, Sequences, FiniteSets, Bitwise, SequencesExt

CONSTANTS
  Chains,     \* the chains a client may ask for: sequences of blocks, which are
              \* sequences of transactions [id, Outputs, Inputs]
  Watched,    \* the client's addresses
  HashBits(_) \* the bits of an entry: an address, a transaction id, an outpoint

ASSUME FilterAssumption ==
  \A c \in Chains : \A b \in Range(c) : b # <<>>

NoFilter == [loaded |-> FALSE, bits |-> {}]
NoHash == <<>>

VARIABLES
  served,     \* the chain of the server
  filter,     \* node.filter of the client's connection
  next,       \* the height the client asks for next
  reply,      \* the last merkleblock and the transactions that followed it
  received    \* the transactions the client has verified

filterVars == <<served, filter, next, reply, received>>

TxHash(tx) == <<tx.id>>
AddressEntry(a) == [type |-> "address", address |-> a]
TxEntry(tx) == [type |-> "tx", id |-> tx.id]
OutPoint(id, i) == [type |-> "outpoint", id |-> id, index |-> i]

-----------------------------------------------------------------------------
(* The filter.                                                             *)

Matches(f, entry) == f.loaded /\ HashBits(entry) \subseteq f.bits
Add(f, entry) == IF f.loaded THEN [f EXCEPT !.bits = @ \cup HashBits(entry)] ELSE f

\* The outputs of tx that match, each tried with the outpoints of those before it.
AddMatchedOutputs(f, tx) ==
  FoldLeft(LAMBDA acc, i : IF Matches(acc.filter, AddressEntry(tx.Outputs[i]))
                             THEN [filter |-> Add(acc.filter, OutPoint(tx.id, i)), matched |-> TRUE]
                             ELSE acc,
           [filter |-> f, matched |-> Matches(f, TxEntry(tx))],
           [i \in DOMAIN tx.Outputs |-> i])

\* Mutant: an output that matches is not added to the filter.
MatchTxOnly(f, tx) ==
  [filter |-> f,
   matched |-> AddMatchedOutputs(f, tx).matched \/ \E in \in tx.Inputs : Matches(f, in)]

MatchTxAndUpdate(f, tx) ==
  LET outputs == AddMatchedOutputs(f, tx)
  IN  [outputs EXCEPT !.matched = @ \/ \E in \in tx.Inputs : Matches(outputs.filter, in)]

-----------------------------------------------------------------------------
(* The partial Merkle tree of a block.                                     *)

CalcTreeWidth(n, height) == (n + 2 ^ height - 1) \div 2 ^ height

HashMerkleBranches(left, right) == <<left, right>>

RECURSIVE CalcHash(_, _, _)
CalcHash(hashes, height, pos) ==
  IF height = 0 THEN hashes[pos + 1]
  ELSE LET left == CalcHash(hashes, height - 1, pos * 2)
           right == IF pos * 2 + 1 < CalcTreeWidth(Len(hashes), height - 1)
                      THEN CalcHash(hashes, height - 1, pos * 2 + 1) ELSE left
       IN  HashMerkleBranches(left, right)

\* The bits and the hashes of the node at height and pos, depth first.
RECURSIVE TraverseAndBuild(_, _, _, _)
TraverseAndBuild(hashes, matched, height, pos) ==
  LET isParent == \E i \in matched : pos * 2 ^ height < i /\ i <= (pos + 1) * 2 ^ height
      left == TraverseAndBuild(hashes, matched, height - 1, pos * 2)
      right == IF pos * 2 + 1 < CalcTreeWidth(Len(hashes), height - 1)
                 THEN TraverseAndBuild(hashes, matched, height - 1, pos * 2 + 1)
                 ELSE [bits |-> <<>>, hashes |-> <<>>]
  IN  IF height = 0 \/ ~isParent
        THEN [bits |-> <<isParent>>, hashes |-> <<CalcHash(hashes, height, pos)>>]
        ELSE [bits |-> <<isParent>> \o left.bits \o right.bits,
              hashes |-> left.hashes \o right.hashes]

\* crypto.ComputeRoot of the Utility repository, which fills in MerkleRoot: pairs
\* are hashed level by level, an odd one with itself.
RECURSIVE ComputeRoot(_)
ComputeRoot(level) ==
  IF Len(level) = 1 THEN Head(level)
  ELSE ComputeRoot([i \in 1 .. (Len(level) + 1) \div 2 |->
         <<level[2 * i - 1], level[IF 2 * i <= Len(level) THEN 2 * i ELSE 2 * i - 1]>>])

\* The flag bits fill whole bytes.
FlagBytes(bits) ==
  bits \o [i \in 1 .. (8 - (Len(bits) % 8)) % 8 |-> FALSE]

\* The filter's answers for the block's transactions, in order.
MatchBlock(f, block) ==
  FoldLeft(LAMBDA acc, i :
             LET m == MatchTxAndUpdate(acc.filter, block[i])
             IN  [filter |-> m.filter,
                  matched |-> IF m.matched THEN acc.matched \cup {i} ELSE acc.matched],
           [filter |-> f, matched |-> {}], [i \in DOMAIN block |-> i])

NewMerkleBlock(block, matched) ==
  LET hashes == [i \in DOMAIN block |-> TxHash(block[i])]
      height == CHOOSE h \in 0 .. Len(block) :
                  /\ CalcTreeWidth(Len(block), h) <= 1
                  /\ \A k \in 0 .. h - 1 : CalcTreeWidth(Len(block), k) > 1
      tree == TraverseAndBuild(hashes, matched, height, 0)
  IN  [Transactions |-> Len(block), MerkleRoot |-> ComputeRoot(hashes),
       Hashes |-> tree.hashes, Flags |-> FlagBytes(tree.bits)]

-----------------------------------------------------------------------------
(* The check of a partial Merkle tree.  A position has the row in its high *)
(* bits; a stack of nodes [p, h] stands for the recursion.                 *)

nextPowerOfTwo(n) == CHOOSE p \in {2 ^ e : e \in 0 .. n} : n <= p /\ 2 * n > p

\* Mutant: a position after the last node of its row is taken for one of the tree.
InDeadZoneOfRootOnly(pos, size) == pos > 2 * nextPowerOfTwo(size) - 2

\* Climbs to the row of pos: its first position after it, and its last node.
RECURSIVE LastOfRow(_, _, _, _)
LastOfRow(pos, h, last, msb) ==
  IF pos >= h THEN LastOfRow(pos, (h \div 2) | msb, (last \div 2) | msb, msb) ELSE last

inDeadZone(pos, size) ==
  LET msb == nextPowerOfTwo(size)
  IN  pos > 2 * msb - 2 \/ pos > LastOfRow(pos, msb, size - 1, msb)

MakeMerkleParent(left, right) ==
  CASE left = NoHash \/ left = right -> NoHash   \* an error
    [] left # NoHash /\ right = NoHash -> <<left, left>>
    [] OTHER -> <<left, right>>

Failed == [ok |-> FALSE, txs |-> <<>>]

\* The loop: s the stack, pos the position, hashes and flags what is left of them,
\* r the transactions found.
RECURSIVE CheckLoop(_, _, _, _, _, _)
CheckLoop(m, s, pos, hashes, flags, r) ==
  LET len == Len(s)
      msb == nextPowerOfTwo(m.Transactions)
      \* The last n nodes of the stack give way to their parent.
      Parent(h, n) ==
        LET t == [SubSeq(s, 1, len - n) EXCEPT ![len - n].h = h]
        IN  IF h = NoHash THEN Failed
            ELSE CheckLoop(m, t, t[len - n].p | 1, hashes, flags, r)
      Push(h, p, rest, found) ==
        CheckLoop(m, Append(s, [p |-> pos, h |-> h]), p, rest, Tail(flags), found)
      hash == Head(hashes)
      sibling == IF pos % 2 = 0 THEN pos | 1 ELSE pos
  IN  CASE len = 1 /\ s[1].h # NoHash ->
             IF s[1].h = m.MerkleRoot THEN [ok |-> TRUE, txs |-> r] ELSE Failed
        [] inDeadZone(pos, m.Transactions) -> Parent(MakeMerkleParent(s[len].h, NoHash), 1)
        [] len > 2 /\ s[len - 1].h # NoHash /\ s[len].h # NoHash ->
             Parent(MakeMerkleParent(s[len - 1].h, s[len].h), 2)
        [] hashes = <<>> \/ flags = <<>> -> Failed
        [] pos & msb # 0 ->      \* an inner node: its hash, or descend to the left
             IF ~Head(flags)
               THEN Push(hash, IF pos % 2 = 1 THEN (pos \div 2) | msb ELSE sibling, Tail(hashes), r)
               ELSE Push(NoHash, 2 * (pos ^^ msb), hashes, r)
        [] OTHER ->              \* a transaction
             Push(hash, sibling, Tail(hashes), IF Head(flags) THEN Append(r, hash) ELSE r)

CheckMerkleBlock(m) ==
  IF m.Transactions = 0 \/ m.Flags = <<>> THEN Failed
  ELSE CheckLoop(m, <<>>, 2 * nextPowerOfTwo(m.Transactions) - 2, m.Hashes, m.Flags, <<>>)

-----------------------------------------------------------------------------
(* The connection with the client.                                         *)

NoReply == [check |-> [ok |-> TRUE, txs |-> <<>>], matched |-> <<>>]

FilterInit ==
  /\ served \in Chains
  /\ filter = NoFilter /\ next = 1 /\ reply = NoReply /\ received = {}

\* What a client puts into a filter: its addresses and the outputs it knows of.
ClientFilter ==
  LET txs == {tx \in UNION {Range(served[b]) : b \in 1 .. next - 1} : tx.id \in received}
      known == UNION {{OutPoint(tx.id, i) : i \in {k \in DOMAIN tx.Outputs : tx.Outputs[k] \in Watched}}
                        : tx \in txs}
  IN  UNION {HashBits(e) : e \in {AddressEntry(a) : a \in Watched} \cup known}

OnFilterLoad ==
  /\ filter' = [loaded |-> TRUE, bits |-> ClientFilter]
  /\ UNCHANGED <<served, next, reply, received>>

\* The part of onGetData for a filtered block, and the client's check of what it
\* gets; without a filter nothing is sent.
OnGetFilteredBlock ==
  /\ filter.loaded /\ next <= Len(served)
  /\ LET block == served[next]
         match == MatchBlock(filter, block)
         check == CheckMerkleBlock(NewMerkleBlock(block, match.matched))
         sent == SelectSeq([i \in DOMAIN block |-> i], LAMBDA i : i \in match.matched)
     IN  /\ filter' = match.filter
         /\ reply' = [check |-> check, matched |-> [k \in DOMAIN sent |-> block[sent[k]]]]
         /\ received' = received \cup {h[1] : h \in Range(check.txs)}
  /\ next' = next + 1
  /\ UNCHANGED served

FilterNext == OnFilterLoad \/ OnGetFilteredBlock

-----------------------------------------------------------------------------
(* Properties.                                                             *)

\* The client's check of the partial Merkle tree succeeds, whatever the number of
\* transactions and those that match, and finds the transactions that the node
\* sends after it, in their order.
ProofsVerify ==
  reply.check = [ok |-> TRUE, txs |-> [i \in DOMAIN reply.matched |-> TxHash(reply.matched[i])]]

Owned(tx) == {OutPoint(tx.id, i) : i \in {k \in DOMAIN tx.Outputs : tx.Outputs[k] \in Watched}}

\* A client that asks for the blocks in their order has every transaction of them
\* that pays to one of its addresses or spends what one of its addresses was paid,
\* though it never told the node about outputs it did not know of.
NothingMissed ==
  LET txs == UNION {Range(served[b]) : b \in 1 .. next - 1}
      owned == UNION {Owned(tx) : tx \in txs}
  IN  \A tx \in txs : Owned(tx) # {} \/ tx.Inputs \cap owned # {} => tx.id \in received
=============================================================================
