------------------------------ MODULE Locator ------------------------------
(***************************************************************************)
(* How two nodes find out what one of them lacks: block locators           *)
(* (blockchain.go) and the hashes that answer them (msghandler.go).        *)
(*                                                                         *)
(* A main chain is a sequence of hashes, chain[h + 1] being the block at   *)
(* height h; chain[1] is the genesis block.                                *)
(***************************************************************************)
EXTENDS Integers, Sequences, FiniteSets, Functions, SequencesExt

CONSTANTS
  EmptyHash,
  DenseLocators,           \* 10: locators before the distance doubles
  MaxBlockLocatorsPerMsg,  \* 500
  MaxBlocksPerMsg          \* 500, of p2p

ASSUME LocatorAssumption ==
  DenseLocators \in Nat /\ MaxBlockLocatorsPerMsg \in Nat \ {0} /\ MaxBlocksPerMsg \in Nat \ {0}

Height(chain) == Len(chain) - 1
InStore(chain, hash) == hash \in Range(chain)
HeightOf(chain, hash) == (CHOOSE i \in DOMAIN chain : chain[i] = hash) - 1
GetBlockHash(chain, height) == chain[height + 1]

\* Mutant: the distance doubles from the first locator on.
SparseIncrement(len, increment) == 2 * increment

NextIncrement(len, increment) == IF len > DenseLocators THEN 2 * increment ELSE increment

LocatorLoop == [len : Nat, h : Int, increment : Nat \ {0}, top : Nat]

\* The heights between the block and the genesis block that the loop picks:
\* it has len locators, is at height h and looks increment blocks back.  A height
\* above top, the end of the main chain, cannot be looked up and is left out.
LocatorHeights[s \in LocatorLoop] ==
  LET inc == NextIncrement(s.len, s.increment)
      h == s.h - inc
      after(len) == [len |-> len, h |-> h, increment |-> inc, top |-> s.top]
  IN  IF s.len >= MaxBlockLocatorsPerMsg - 1 \/ h < 1 THEN <<>>
      ELSE IF h > s.top THEN LocatorHeights[after(s.len)]
      ELSE <<h>> \o LocatorHeights[after(s.len + 1)]

\* height is that of the hash in the index or the store, -1 if it has neither.
BlockLocatorFromHash(chain, hash, height) ==
  IF hash = chain[1] \/ height = -1
    THEN <<hash>>
    ELSE LET heights == LocatorHeights[[len |-> 1, h |-> height, increment |-> 1,
                                        top |-> Height(chain)]]
         IN  <<hash>> \o [i \in DOMAIN heights |-> GetBlockHash(chain, heights[i])] \o <<chain[1]>>

\* The first hash of the locator that is in the store.
LatestLocatorHash(chain, locator) ==
  LET found == {i \in DOMAIN locator : InStore(chain, locator[i])}
  IN  IF found = {} THEN EmptyHash ELSE locator[Min(found)]

HashesAfter(chain, startHeight, count) ==
  [i \in 1 .. count |-> GetBlockHash(chain, startHeight + i)]

StartHeight(chain, start) == IF start = EmptyHash THEN 0 ELSE HeightOf(chain, start)

\* The hashes after start, up to stop or to the end, but not more than max.
\* An error (a hash that is not stored, stop below start) is the empty answer:
\* the handler sends nothing in either case.
GetBlockHashes(chain, start, stop, max) ==
  LET stopHeight == IF stop = EmptyHash THEN Height(chain) ELSE HeightOf(chain, stop)
      count == stopHeight - StartHeight(chain, start)
  IN  IF \/ \E hash \in {start, stop} \ {EmptyHash} : ~InStore(chain, hash)
         \/ count < 0
        THEN <<>>
        ELSE HashesAfter(chain, StartHeight(chain, start), IF count > max THEN max ELSE count)
=============================================================================
