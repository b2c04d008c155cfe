----------------------------- MODULE OrphanPool -----------------------------
(***************************************************************************)
(* The pool of orphan blocks of blockchain/blockchain.go: the map Orphans, *)
(* its index PrevOrphans by parent hash, and the pointer OldestOrphan that *)
(* says what to evict when the pool is full.                               *)
(*                                                                         *)
(* AddOrphanBlock and ProcessOrphans run under bc.mutex.  What the chain   *)
(* answers to maybeAcceptBlock is left open here: module Blockchain        *)
(* decides it.  An OrphanBlock is a record; time.Now() differs between two *)
(* calls, so its expiration tells it from any other, as its address does.  *)
(***************************************************************************)
EXTENDS Naturals, Sequences, FiniteSets

CONSTANTS
  Blocks,           \* the blocks peers send
  Root,             \* the block the chain starts with
  Previous,         \* Header.Previous
  MaxOrphanBlocks,  \* ChainParam.MaxOrphanBlocks
  Lifetime,         \* how long an orphan is kept: one hour
  MaxTime           \* bound: when the model stops

VARIABLES
  Orphans,          \* bc.Orphans, as the set of its values
  PrevOrphans,      \* bc.PrevOrphans: parent -> list; << >> for no entry
  OldestOrphan,     \* bc.OldestOrphan
  accepted,         \* the blocks that BlockExists knows
  processHashes,    \* the queue of ProcessOrphans
  refused,          \* history: the blocks whose orphans a call that failed left alone
  now               \* the clock

vars == <<Orphans, PrevOrphans, OldestOrphan, accepted, processHashes, refused, now>>

ASSUME OrphanAssumption ==
  /\ Root \notin Blocks
  /\ Previous \in [Blocks -> Blocks \cup {Root}]
  \* The hash of a block covers Header.Previous: no block is its own ancestor.
  /\ \A S \in SUBSET Blocks : S # {} => \E b \in S : Previous[b] \notin S
  /\ MaxOrphanBlocks \in Nat \ {0}
  /\ Lifetime \in Nat /\ MaxTime \in Nat

OrphanBlock == [block : Blocks, expiration : Nat]

\* The nil pointer.
Nil == [block |-> Root, expiration |-> 0]

OrphanHashes == {o.block : o \in Orphans}

Init ==
  /\ Orphans = {}
  /\ PrevOrphans = [h \in Blocks \cup {Root} |-> << >>]
  /\ OldestOrphan = Nil
  /\ accepted = {Root}
  /\ processHashes = << >>
  /\ refused = {}
  /\ now = 0

\* RemoveOrphanBlock, for every orphan of a set: out of the map by its hash,
\* and out of the list of its parent.
Without(removed) ==
  {o \in Orphans : \A r \in removed : o.block # r.block}

\* Mutant: the list of the parent is left alone.
IndexUnchanged(removed) == PrevOrphans

\* The loop over the list of one parent.
ListWithout(list, removed) ==
  LET kept[i \in 0..Len(list)] ==
        IF i = 0 THEN << >>
        ELSE IF \E r \in removed : list[i].block = r.block THEN kept[i - 1]
        ELSE Append(kept[i - 1], list[i])
  IN  kept[Len(list)]

IndexWithout(removed) ==
  [h \in DOMAIN PrevOrphans |-> ListWithout(PrevOrphans[h], removed)]

\* The first loop of AddOrphanBlock.
Expired == {o \in Orphans : now > o.expiration}

\* Mutant: Expiration.After in place of Expiration.Before.
Latest(S) ==
  IF S = {} THEN Nil
  ELSE CHOOSE o \in S : \A p \in S : o.expiration >= p.expiration

\* The orphan with the earliest expiration of a set, Nil if there is none.
Earliest(S) ==
  IF S = {} THEN Nil
  ELSE CHOOSE o \in S : \A p \in S : o.expiration <= p.expiration

\* The second loop: OldestOrphan keeps its value unless it has expired, even
\* if ProcessOrphans took it out of the pool in the meantime.
Oldest ==
  Earliest((Orphans \ Expired) \cup ({OldestOrphan} \ (Expired \cup {Nil})))

\* Mutant: the new orphan is not counted.
FullWithoutNew == Cardinality(Without(Expired)) > MaxOrphanBlocks

\* Is the pool full once the expired orphans are gone?
Full == Cardinality(Without(Expired)) + 1 > MaxOrphanBlocks

AddOrphanBlock(b) ==
  /\ processHashes = << >> /\ now < MaxTime
  /\ b \notin accepted /\ b \notin OrphanHashes /\ Previous[b] \notin accepted
  /\ LET removed == IF Full THEN Expired \cup {Oldest} ELSE Expired
         oBlock == [block |-> b, expiration |-> now + Lifetime]
     IN  /\ Orphans' = Without(removed) \cup {oBlock}
         /\ PrevOrphans' =
              [IndexWithout(removed) EXCEPT ![Previous[b]] = Append(@, oBlock)]
  /\ OldestOrphan' = IF Full THEN Nil ELSE Oldest
  /\ now' = now + 1
  /\ UNCHANGED <<accepted, processHashes, refused>>

\* A block that maybeAcceptBlock takes.
ProcessBlock(b) ==
  /\ processHashes = << >>
  /\ b \notin accepted /\ b \notin OrphanHashes /\ Previous[b] \in accepted
  /\ accepted' = accepted \cup {b}
  /\ processHashes' = <<b>>
  /\ UNCHANGED <<Orphans, PrevOrphans, OldestOrphan, refused, now>>

\* A block that got its node and makes the chain reorganise, which fails: the
\* node stays, the call ends with the error, and ProcessOrphans is not run.
ReorganisationFails(b) ==
  /\ processHashes = << >>
  /\ b \notin accepted /\ b \notin OrphanHashes /\ Previous[b] \in accepted
  /\ accepted' = accepted \cup {b}
  /\ refused' = refused \cup {b}
  /\ UNCHANGED <<Orphans, PrevOrphans, OldestOrphan, processHashes, now>>

\* A block that is known, as accepted or as an orphan, or that
\* maybeAcceptBlock does not take: nothing happens to the pool.
RefuseBlock(b) ==
  /\ processHashes = << >>
  /\ b \in accepted \cup OrphanHashes \/ Previous[b] \in accepted
  /\ UNCHANGED vars

\* One orphan of the block at the head of the queue: it leaves the pool, and
\* then it is accepted, or ProcessOrphans returns with the error; where that came
\* from a reorganisation, the orphan has its node all the same.
ProcessOrphan ==
  /\ processHashes # << >>
  /\ PrevOrphans[Head(processHashes)] # << >>
  /\ LET orphan == PrevOrphans[Head(processHashes)][1] IN
       /\ Orphans' = Without({orphan})
       /\ PrevOrphans' = IndexWithout({orphan})
       /\ \/ /\ accepted' = accepted \cup {orphan.block}
             /\ processHashes' = Append(processHashes, orphan.block)
             /\ UNCHANGED refused
          \/ /\ processHashes' = << >>
             /\ refused' = refused \cup {processHashes[i] : i \in DOMAIN processHashes}
             /\ UNCHANGED accepted
          \/ /\ processHashes' = << >>
             /\ refused' = refused \cup {orphan.block}
                                   \cup {processHashes[i] : i \in DOMAIN processHashes}
             /\ accepted' = accepted \cup {orphan.block}
  /\ UNCHANGED <<OldestOrphan, now>>

NextProcessHash ==
  /\ processHashes # << >>
  /\ PrevOrphans[Head(processHashes)] = << >>
  /\ processHashes' = Tail(processHashes)
  /\ UNCHANGED <<Orphans, PrevOrphans, OldestOrphan, accepted, refused, now>>

\* Time passes between two calls.
Tick ==
  /\ processHashes = << >> /\ now < MaxTime
  /\ now' = now + 1
  /\ UNCHANGED <<Orphans, PrevOrphans, OldestOrphan, accepted, processHashes, refused>>

Next ==
  \/ \E b \in Blocks : \/ AddOrphanBlock(b) \/ ProcessBlock(b)
                      \/ ReorganisationFails(b) \/ RefuseBlock(b)
  \/ ProcessOrphan
  \/ NextProcessHash
  \/ Tick

Spec == Init /\ [][Next]_vars

-----------------------------------------------------------------------------
(* GetOrphanRoot, which says where to ask peers for the missing blocks.    *)

\* Mutant: the walk stops before its first step.
GetOrphanRootAtOnce(b) == b

\* The last orphan on the way up from b.
GetOrphanRoot(b) ==
  LET root[h \in Blocks] ==
        IF h \in OrphanHashes /\ Previous[h] \in OrphanHashes THEN root[Previous[h]] ELSE h
  IN  root[b]

-----------------------------------------------------------------------------
(* Properties.                                                             *)

\* Every variable has its type.
TypeOK ==
  /\ Orphans \subseteq OrphanBlock
  /\ PrevOrphans \in [Blocks \cup {Root} -> Seq(OrphanBlock)]
  /\ OldestOrphan \in OrphanBlock \cup {Nil}
  /\ accepted \subseteq Blocks \cup {Root}
  /\ processHashes \in Seq(Blocks)
  /\ refused \subseteq Blocks
  /\ now \in Nat

\* PrevOrphans and Orphans hold the same orphans, each once and under its own
\* parent: an orphan that only one of them knew would never be processed, or
\* be processed after it was evicted.
IndexMatchesPool ==
  /\ \A h \in DOMAIN PrevOrphans : \A i \in DOMAIN PrevOrphans[h] :
       LET o == PrevOrphans[h][i] IN
         /\ o \in Orphans /\ Previous[o.block] = h
         /\ \A j \in DOMAIN PrevOrphans[h] : PrevOrphans[h][j].block = o.block => j = i
  /\ \A o \in Orphans : \E i \in DOMAIN PrevOrphans[Previous[o.block]] :
       PrevOrphans[Previous[o.block]][i] = o

\* The pool never holds more than one orphan too many: when OldestOrphan is an
\* orphan that ProcessOrphans took, the eviction removes nothing, but the next
\* one starts from a fresh pointer.
PoolBound == Cardinality(Orphans) <= MaxOrphanBlocks + 1

\* An orphan that has not expired is evicted only as the oldest of the pool.
EvictsOldest ==
  [][now' > now =>
       \A o \in Orphans \ Orphans' :
         o \in Expired \/ \A p \in Orphans \ Expired : o.expiration <= p.expiration]_vars

\* The root of an orphan waits for a block that is really missing, so that the
\* blocks SendGetBlocks asks for are of use; unless the call that gave its parent
\* a node, or the one that should have processed its orphans, ended with an error.
RootIsMissing ==
  processHashes = << >> =>
    \A b \in OrphanHashes :
      LET parent == Previous[GetOrphanRoot(b)] IN
        parent \notin OrphanHashes /\ (parent \in accepted => parent \in refused)

=============================================================================
