-------------------------- MODULE LocatorExchange --------------------------
(***************************************************************************)
(* One getblocks between two nodes whose main chains share a prefix: the   *)
(* locator of the one and the hashes that the other answers with.          *)
(***************************************************************************)
EXTENDS Locator

CONSTANTS MaxShared, MaxOwn  \* bounds: blocks of both chains, blocks of one

ASSUME ExchangeAssumption ==
  /\ MaxShared \in Nat \ {0} /\ MaxOwn \in Nat
  /\ \A i \in 1 .. MaxShared + MaxOwn, branch \in 0 .. 2 : <<i, branch>> # EmptyHash

VARIABLES asker, server, answer

exchangeVars == <<asker, server, answer>>

\* The shared blocks are of branch 0.
MainChain(shared, own, branch) ==
  [i \in 1 .. shared + own |-> <<i, IF i <= shared THEN 0 ELSE branch>>]

ExchangeInit == asker = <<>> /\ server = <<>> /\ answer = <<>>

\* LatestBlockLocator of the asker, onGetBlocks of the server.
GetBlocks(mine, theirs) ==
  LET locator == BlockLocatorFromHash(mine, Last(mine), Height(mine))
  IN  /\ asker' = mine /\ server' = theirs
      /\ answer' = GetBlockHashes(theirs, LatestLocatorHash(theirs, locator), EmptyHash, MaxBlocksPerMsg)

ExchangeNext ==
  /\ asker = <<>>
  /\ \E shared \in 1 .. MaxShared, own, other \in 0 .. MaxOwn :
       GetBlocks(MainChain(shared, own, 1), MainChain(shared, other, 2))

Shared == Cardinality({i \in DOMAIN asker \cap DOMAIN server : asker[i] = server[i]})
Own == Len(asker) - Shared

\* What the server answers continues a block that the asker has.  It repeats no
\* block of the asker's when the fork is in the dense part of the locator, and no
\* more than the fork is deep below it.  When the server has blocks that the asker
\* lacks, the answer brings some of them.
LocatorFindsFork ==
  LET known == {i \in DOMAIN answer : InStore(asker, answer[i])}
  IN  asker # <<>> =>
        /\ answer # <<>> => server[HeightOf(server, answer[1])] \in Range(asker)
        /\ Cardinality(known) <= IF Own <= DenseLocators THEN 0 ELSE Own
        /\ Len(server) > Shared /\ Own < MaxBlocksPerMsg => known # DOMAIN answer
=============================================================================
