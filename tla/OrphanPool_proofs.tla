-------------------------- MODULE OrphanPool_proofs --------------------------
(***************************************************************************)
(* The pool of orphans, whatever its limit, the blocks and the order in    *)
(* which they come, expire and go: it holds at most one orphan too many,   *)
(* its index matches the map, it evicts the oldest orphan, and the root of *)
(* an orphan waits for a block that is missing.                            *)
(***************************************************************************)
EXTENDS OrphanPool, FiniteSetTheorems, WellFoundedInduction, TLAPS

\* The values of the map are orphans with different hashes, and OldestOrphan
\* is nil whenever the pool is over its limit: an eviction that removed
\* nothing is followed by one that removes an orphan.
PoolInv ==
  /\ IsFiniteSet(Orphans)
  /\ Orphans \subseteq OrphanBlock
  /\ \A o, p \in Orphans : o.block = p.block => o = p
  /\ OldestOrphan \in OrphanBlock \cup {Nil}
  /\ now \in Nat
  /\ Cardinality(Orphans) <= MaxOrphanBlocks + 1
  /\ OldestOrphan # Nil => Cardinality(Orphans) <= MaxOrphanBlocks

\* A set of naturals that is not empty has a least element.
LEMMA LeastNat ==
  ASSUME NEW T \in SUBSET Nat, T # {}
  PROVE  \E x \in T : \A y \in T : x <= y
<1>1. IsWellFoundedOn(OpToRel(<, Nat), Nat)
  BY NatLessThanWellFounded
<1>2. PICK x \in T : \A y \in T : ~(<<y, x>> \in OpToRel(<, Nat))
  BY <1>1, WFMin
<1>3. \A y \in T : ~(y < x)
  BY <1>2 DEF OpToRel
<1> QED
  BY <1>3

\* Earliest picks the first orphan to expire of a set that is not empty.
LEMMA EarliestIsMember ==
  ASSUME NEW S \in SUBSET OrphanBlock, S # {}
  PROVE  Earliest(S) \in S /\ \A p \in S : Earliest(S).expiration <= p.expiration
<1> DEFINE T == {o.expiration : o \in S}
<1>1. T \in SUBSET Nat /\ T # {}
  BY DEF OrphanBlock
<1>2. PICK x \in T : \A y \in T : x <= y
  BY <1>1, LeastNat
<1>3. PICK o \in S : o.expiration = x
  BY <1>2
<1>4. \A p \in S : o.expiration <= p.expiration
  BY <1>2, <1>3
<1>5. \E q \in S : \A p \in S : q.expiration <= p.expiration
  BY <1>4
<1> DEFINE e == CHOOSE q \in S : \A p \in S : q.expiration <= p.expiration
<1>6. e \in S /\ \A p \in S : e.expiration <= p.expiration
  BY <1>5
<1> QED
  BY <1>6 DEF Earliest

\* An orphan that joins the pool.
LEMMA AddOrphanBlockPool ==
  ASSUME PoolInv, NEW b \in Blocks, AddOrphanBlock(b)
  PROVE  PoolInv'
<1> USE OrphanAssumption
<1> DEFINE S == Without(Expired)
           removed == IF Full THEN Expired \cup {Oldest} ELSE Expired
           oBlock == [block |-> b, expiration |-> now + Lifetime]
           kept == Without(removed)
<1>1. /\ Orphans' = kept \cup {oBlock} /\ now' = now + 1
      /\ OldestOrphan' = IF Full THEN Nil ELSE Oldest
      /\ b \notin OrphanHashes
  BY DEF AddOrphanBlock
<1>2. S \subseteq Orphans /\ kept \subseteq S
  BY DEF Without
<1>3. /\ IsFiniteSet(S) /\ IsFiniteSet(kept)
      /\ Cardinality(S) \in Nat /\ Cardinality(kept) \in Nat /\ Cardinality(Orphans) \in Nat
      /\ Cardinality(kept) <= Cardinality(S) /\ Cardinality(S) <= Cardinality(Orphans)
  BY <1>2, FS_Subset, FS_CardinalityType DEF PoolInv
<1>4. /\ IsFiniteSet(Orphans') /\ Cardinality(Orphans') \in Nat
      /\ Cardinality(Orphans') <= Cardinality(kept) + 1
  <2>1. /\ IsFiniteSet(kept \cup {oBlock})
        /\ Cardinality(kept \cup {oBlock}) =
             IF oBlock \in kept THEN Cardinality(kept) ELSE Cardinality(kept) + 1
    BY <1>3, FS_AddElement
  <2> HIDE DEF kept, oBlock
  <2>2. Orphans' = kept \cup {oBlock}
    BY <1>1
  <2> QED
    BY <1>3, <2>1, <2>2
<1>5. S = Orphans \ Expired
  BY DEF Without, Expired, PoolInv
<1>6. Oldest \in OrphanBlock \cup {Nil}
  <2> DEFINE C == (Orphans \ Expired) \cup ({OldestOrphan} \ (Expired \cup {Nil}))
  <2>1. C \in SUBSET OrphanBlock /\ Oldest = Earliest(C)
    BY DEF PoolInv, Oldest
  <2> HIDE DEF C
  <2>2. CASE C = {}
    BY <2>1, <2>2 DEF Earliest
  <2>3. CASE C # {}
    BY <2>1, <2>3, EarliestIsMember
  <2> QED
    BY <2>2, <2>3
<1>7. /\ Cardinality(Orphans') <= MaxOrphanBlocks + 1
      /\ OldestOrphan' # Nil => Cardinality(Orphans') <= MaxOrphanBlocks
  <2>1. CASE ~Full
    BY <1>3, <1>4, <2>1 DEF Full
  <2>2. CASE Full /\ OldestOrphan \in Expired \cup {Nil}
    <3>1. Cardinality(S) > 0
      BY <1>3, <2>2 DEF Full
    <3>2. S # {}
      BY <3>1, FS_EmptySet
    <3>3. Oldest = Earliest(S)
      BY <1>5, <2>2 DEF Oldest
    <3>4. Oldest \in S
      BY <1>2, <3>2, <3>3, EarliestIsMember DEF PoolInv
    <3>5. kept \subseteq S \ {Oldest}
      BY <1>2, <2>2 DEF Without
    <3>6. IsFiniteSet(S \ {Oldest}) /\ Cardinality(S \ {Oldest}) = Cardinality(S) - 1
      BY <1>3, <3>4, FS_RemoveElement
    <3>7. Cardinality(kept) <= Cardinality(S) - 1
      <4> HIDE DEF kept, S
      <4>1. Cardinality(kept) <= Cardinality(S \ {Oldest})
        BY <3>5, <3>6, FS_Subset
      <4> QED
        BY <3>6, <4>1
    <3>8. OldestOrphan' = Nil
      BY <1>1, <2>2
    <3> QED
      BY <1>3, <1>4, <3>7, <3>8 DEF PoolInv
  <2>3. CASE Full /\ OldestOrphan \notin Expired \cup {Nil}
    BY <1>1, <1>3, <1>4, <2>3 DEF PoolInv
  <2> QED
    BY <2>1, <2>2, <2>3
<1>8. oBlock \in OrphanBlock /\ now' \in Nat
  BY <1>1 DEF OrphanBlock, PoolInv
<1>9. Orphans' \subseteq OrphanBlock /\ \A o, p \in Orphans' : o.block = p.block => o = p
  <2>1. kept \subseteq Orphans /\ \A o \in kept : o.block # b
    BY <1>1, <1>2 DEF OrphanHashes
  <2>2. oBlock.block = b
    OBVIOUS
  <2> HIDE DEF oBlock, kept
  <2> QED
    BY <1>1, <1>8, <2>1, <2>2 DEF PoolInv
<1> QED
  BY <1>1, <1>4, <1>6, <1>7, <1>8, <1>9 DEF PoolInv

\* An orphan that leaves the pool for the chain.
LEMMA ProcessOrphanPool ==
  ASSUME PoolInv, ProcessOrphan
  PROVE  PoolInv'
<1> USE OrphanAssumption
<1>1. Orphans' \subseteq Orphans /\ OldestOrphan' = OldestOrphan /\ now' = now
  BY DEF ProcessOrphan, Without
<1>2. /\ IsFiniteSet(Orphans') /\ Cardinality(Orphans') <= Cardinality(Orphans)
      /\ Cardinality(Orphans) \in Nat /\ Cardinality(Orphans') \in Nat
  BY <1>1, FS_Subset, FS_CardinalityType DEF PoolInv
<1> QED
  BY <1>1, <1>2 DEF PoolInv

\* The pool never outgrows MaxOrphanBlocks by more than one, although
\* ProcessOrphans leaves OldestOrphan pointing at an orphan it has taken out.
THEOREM PoolIsBounded == Spec => []PoolBound
<1>1. Init => PoolInv
  BY OrphanAssumption, FS_EmptySet DEF Init, PoolInv
<1>2. PoolInv /\ [Next]_vars => PoolInv'
  <2> SUFFICES ASSUME PoolInv, [Next]_vars PROVE PoolInv'
    OBVIOUS
  <2>1. CASE UNCHANGED <<Orphans, OldestOrphan, now>>
    BY <2>1 DEF PoolInv
  <2>2. CASE Tick
    BY <2>2 DEF Tick, PoolInv
  <2>3. ASSUME NEW b \in Blocks, AddOrphanBlock(b) PROVE PoolInv'
    BY <2>3, AddOrphanBlockPool
  <2>4. CASE ProcessOrphan
    BY <2>4, ProcessOrphanPool
  <2>5. ASSUME NEW b \in Blocks, ProcessBlock(b) \/ ReorganisationFails(b) \/ RefuseBlock(b)
        PROVE  PoolInv'
    BY <2>1, <2>5 DEF ProcessBlock, ReorganisationFails, RefuseBlock, vars
  <2>6. CASE NextProcessHash \/ UNCHANGED vars
    BY <2>1, <2>6 DEF NextProcessHash, vars
  <2> QED
    BY <2>2, <2>3, <2>4, <2>5, <2>6 DEF Next
<1>3. PoolInv => PoolBound
  BY DEF PoolInv, PoolBound
<1> QED
  BY <1>1, <1>2, <1>3, PTL DEF Spec

-----------------------------------------------------------------------------
(* What the loop of RemoveOrphanBlock leaves of a list.                    *)

IsRemoved(list, removed, i) == \E r \in removed : list[i].block = r.block

\* kept[i] is what is left of the first i orphans, for every i up to n.
KeepsUpTo(kept, list, removed, n) ==
  \A i \in 0..n :
    kept[i] = IF i = 0 THEN << >>
              ELSE IF IsRemoved(list, removed, i) THEN kept[i - 1]
              ELSE Append(kept[i - 1], list[i])

\* The recursion of the loop has a solution.
LEMMA KeptExists ==
  ASSUME NEW list \in Seq(OrphanBlock), NEW removed
  PROVE  \E kept \in [0..Len(list) -> Seq(OrphanBlock)] : KeepsUpTo(kept, list, removed, Len(list))
<1> DEFINE Some(n) == \E kept \in [0..n -> Seq(OrphanBlock)] : KeepsUpTo(kept, list, removed, n)
           T == {n \in 0..Len(list) : ~Some(n)}
<1>1. Some(0)
  <2> DEFINE first == [i \in 0..0 |-> << >>]
  <2>1. first \in [0..0 -> Seq(OrphanBlock)]
    OBVIOUS
  <2>2. KeepsUpTo(first, list, removed, 0)
    BY DEF KeepsUpTo
  <2> QED
    BY <2>1, <2>2
<1>2. ASSUME NEW n \in 1..Len(list), Some(n - 1) PROVE Some(n)
  <2>1. PICK kept \in [0..(n - 1) -> Seq(OrphanBlock)] : KeepsUpTo(kept, list, removed, n - 1)
    BY <1>2
  <2> DEFINE last == IF IsRemoved(list, removed, n) THEN kept[n - 1] ELSE Append(kept[n - 1], list[n])
             next == [i \in 0..n |-> IF i = n THEN last ELSE kept[i]]
  <2>2. list[n] \in OrphanBlock /\ kept[n - 1] \in Seq(OrphanBlock)
    OBVIOUS
  <2>3. last \in Seq(OrphanBlock)
    BY <2>2
  <2>4. \A i \in 0..n : next[i] = IF i = n THEN last ELSE kept[i]
    OBVIOUS
  <2>5. next \in [0..n -> Seq(OrphanBlock)]
    <3> HIDE DEF last
    <3> QED
      BY <2>3
  <2>6. ASSUME NEW i \in 0..n
        PROVE  next[i] = IF i = 0 THEN << >>
                         ELSE IF IsRemoved(list, removed, i) THEN next[i - 1]
                         ELSE Append(next[i - 1], list[i])
    <3> HIDE DEF next
    <3>1. CASE i = n
      <4>1. next[i] = last /\ next[i - 1] = kept[n - 1] /\ i # 0
        BY <2>4, <3>1
      <4> QED
        BY <3>1, <4>1
    <3>2. CASE i # n
      <4>1. i \in 0..(n - 1) /\ next[i] = kept[i] /\ (i # 0 => next[i - 1] = kept[i - 1])
        BY <2>4, <3>2
      <4> QED
        BY <2>1, <4>1 DEF KeepsUpTo
    <3> QED
      BY <3>1, <3>2
  <2>7. KeepsUpTo(next, list, removed, n)
    <3> HIDE DEF next
    <3> QED
      BY <2>6 DEF KeepsUpTo
  <2> QED
    BY <2>5, <2>7
<1> HIDE DEF Some
<1>3. T = {}
  <2> SUFFICES ASSUME T # {} PROVE FALSE
    OBVIOUS
  <2>1. Len(list) \in Nat
    OBVIOUS
  <2>2. T \in SUBSET Nat
    BY <2>1
  <2>3. PICK n \in T : \A m \in T : n <= m
    BY <2>2, LeastNat
  <2>4. n \in 0..Len(list) /\ ~Some(n)
    BY <2>3
  <2>5. n # 0
    BY <1>1, <2>4
  <2>6. n - 1 \in 0..Len(list) /\ n \in 1..Len(list)
    BY <2>1, <2>4, <2>5
  <2>7. Some(n - 1)
    BY <2>3, <2>6
  <2> QED
    BY <1>2, <2>4, <2>6, <2>7
<1>4. Len(list) \in 0..Len(list)
  OBVIOUS
<1>5. Some(Len(list))
  BY <1>3, <1>4
<1> QED
  BY <1>5 DEF Some

\* The loop leaves the orphans that are not removed, in the same list, and
\* none of them twice if none was there twice.
LEMMA ListWithoutKeeps ==
  ASSUME NEW list \in Seq(OrphanBlock), NEW removed
  PROVE  /\ ListWithout(list, removed) \in Seq(OrphanBlock)
         /\ \A k \in DOMAIN ListWithout(list, removed) : \E i \in DOMAIN list :
              ListWithout(list, removed)[k] = list[i] /\ ~IsRemoved(list, removed, i)
         /\ \A i \in DOMAIN list :
              ~IsRemoved(list, removed, i) =>
                \E k \in DOMAIN ListWithout(list, removed) :
                  ListWithout(list, removed)[k] = list[i]
         /\ (\A i, j \in DOMAIN list : list[i].block = list[j].block => i = j) =>
              \A i, j \in DOMAIN ListWithout(list, removed) :
                ListWithout(list, removed)[i].block = ListWithout(list, removed)[j].block => i = j
<1> DEFINE step(kept) ==
             [i \in 0..Len(list) |->
                IF i = 0 THEN << >>
                ELSE IF \E r \in removed : list[i].block = r.block THEN kept[i - 1]
                ELSE Append(kept[i - 1], list[i])]
           kept == CHOOSE kept : kept = step(kept)
<1>1. ListWithout(list, removed) = kept[Len(list)]
  BY DEF ListWithout
<1>2. \E f : f = step(f)
  <2>1. PICK f \in [0..Len(list) -> Seq(OrphanBlock)] : KeepsUpTo(f, list, removed, Len(list))
    BY KeptExists
  <2>2. f = step(f)
    BY <2>1 DEF KeepsUpTo, IsRemoved
  <2> QED
    BY <2>2
<1>3. kept = step(kept)
  <2> HIDE DEF step
  <2> QED
    BY <1>2
<1>4. KeepsUpTo(kept, list, removed, Len(list))
  <2> HIDE DEF kept
  <2> QED
    BY <1>3 DEF KeepsUpTo, IsRemoved
<1> HIDE DEF kept
<1> DEFINE Good(n) ==
             /\ kept[n] \in Seq(OrphanBlock)
             /\ \A k \in DOMAIN kept[n] : \E i \in 1..n :
                  kept[n][k] = list[i] /\ ~IsRemoved(list, removed, i)
             /\ \A i \in 1..n : ~IsRemoved(list, removed, i) =>
                  \E k \in DOMAIN kept[n] : kept[n][k] = list[i]
             /\ (\A i, j \in DOMAIN list : list[i].block = list[j].block => i = j) =>
                  \A i, j \in DOMAIN kept[n] : kept[n][i].block = kept[n][j].block => i = j
<1>5. Good(0)
  <2>1. kept[0] = << >>
    BY <1>4 DEF KeepsUpTo
  <2> QED
    BY <2>1
<1>6. ASSUME NEW n \in 1..Len(list), Good(n - 1) PROVE Good(n)
  <2> DEFINE before == kept[n - 1]
  <2>1. kept[n] = IF IsRemoved(list, removed, n) THEN before ELSE Append(before, list[n])
    BY <1>4 DEF KeepsUpTo
  <2>2. before \in Seq(OrphanBlock) /\ list[n] \in OrphanBlock
    BY <1>6
  <2>3. \A k \in DOMAIN before : \E i \in 1..(n - 1) :
          before[k] = list[i] /\ ~IsRemoved(list, removed, i)
    BY <1>6
  <2>4. \A i \in 1..(n - 1) : ~IsRemoved(list, removed, i) =>
          \E k \in DOMAIN before : before[k] = list[i]
    BY <1>6
  <2>5. (\A i, j \in DOMAIN list : list[i].block = list[j].block => i = j) =>
          \A i, j \in DOMAIN before : before[i].block = before[j].block => i = j
    BY <1>6
  <2> HIDE DEF before
  <2>6. CASE IsRemoved(list, removed, n)
    <3>1. kept[n] = before
      BY <2>1, <2>6
    <3>2. \A i \in 1..n : ~IsRemoved(list, removed, i) => i \in 1..(n - 1)
      BY <2>6
    <3> QED
      BY <2>2, <2>3, <2>4, <2>5, <3>1, <3>2
  <2>7. CASE ~IsRemoved(list, removed, n)
    <3> DEFINE after == Append(before, list[n])
    <3>1. kept[n] = after
      BY <2>1, <2>7
    <3>2. /\ after \in Seq(OrphanBlock)
          /\ DOMAIN before = 1..Len(before) /\ Len(before) \in Nat
          /\ DOMAIN after = 1..(Len(before) + 1)
          /\ \A k \in DOMAIN before : after[k] = before[k]
          /\ after[Len(before) + 1] = list[n]
      BY <2>2
    <3> HIDE DEF after
    <3>3. \A k \in DOMAIN after : k \in DOMAIN before \/ k = Len(before) + 1
      BY <3>2
    <3>4. \A k \in DOMAIN after : \E i \in 1..n :
            after[k] = list[i] /\ ~IsRemoved(list, removed, i)
      <4> TAKE k \in DOMAIN after
      <4>1. CASE k \in DOMAIN before
        <5>1. PICK i \in 1..(n - 1) : before[k] = list[i] /\ ~IsRemoved(list, removed, i)
          BY <2>3, <4>1
        <5>2. i \in 1..n
          OBVIOUS
        <5> QED
          BY <3>2, <4>1, <5>1, <5>2
      <4>2. CASE k = Len(before) + 1
        BY <2>7, <3>2, <4>2
      <4> QED
        BY <3>3, <4>1, <4>2
    <3>5. \A i \in 1..n : ~IsRemoved(list, removed, i) =>
            \E k \in DOMAIN after : after[k] = list[i]
      <4> SUFFICES ASSUME NEW i \in 1..n, ~IsRemoved(list, removed, i)
                   PROVE  \E k \in DOMAIN after : after[k] = list[i]
        OBVIOUS
      <4>1. CASE i = n
        BY <3>2, <4>1
      <4>2. CASE i # n
        <5>1. i \in 1..(n - 1)
          BY <4>2
        <5>2. PICK k \in DOMAIN before : before[k] = list[i]
          BY <2>4, <5>1
        <5> QED
          BY <3>2, <5>2
      <4> QED
        BY <4>1, <4>2
    <3>6. ASSUME \A i, j \in DOMAIN list : list[i].block = list[j].block => i = j
          PROVE  \A i, j \in DOMAIN after : after[i].block = after[j].block => i = j
      <4>1. \A k \in DOMAIN before : before[k].block # list[n].block
        <5> TAKE k \in DOMAIN before
        <5>1. PICK i \in 1..(n - 1) : before[k] = list[i]
          BY <2>3
        <5>2. i \in DOMAIN list /\ n \in DOMAIN list /\ i # n
          OBVIOUS
        <5> QED
          BY <3>6, <5>1, <5>2
      <4> QED
        BY <2>5, <3>2, <3>3, <3>6, <4>1
    <3> QED
      BY <3>1, <3>2, <3>4, <3>5, <3>6
  <2> QED
    BY <2>6, <2>7
<1> HIDE DEF Good
<1>7. Good(Len(list))
  <2> DEFINE T == {n \in 0..Len(list) : ~Good(n)}
  <2>1. Len(list) \in Nat
    OBVIOUS
  <2>2. T \in SUBSET Nat
    BY <2>1
  <2>3. T = {}
    <3> SUFFICES ASSUME T # {} PROVE FALSE
      OBVIOUS
    <3>1. PICK n \in T : \A m \in T : n <= m
      BY <2>2, LeastNat
    <3>2. n \in 0..Len(list) /\ ~Good(n)
      BY <3>1
    <3>3. n # 0
      BY <1>5, <3>2
    <3>4. n - 1 \in 0..Len(list) /\ n \in 1..Len(list)
      BY <2>1, <3>2, <3>3
    <3>5. Good(n - 1)
      BY <3>1, <3>4
    <3> QED
      BY <1>6, <3>2, <3>4, <3>5
  <2> QED
    BY <2>1, <2>3
<1>8. DOMAIN list = 1..Len(list)
  OBVIOUS
<1> QED
  BY <1>1, <1>7, <1>8 DEF Good

-----------------------------------------------------------------------------
(* The index of the pool.                                                  *)

\* IndexMatchesPool of an index and a pool.
Matches(index, pool) ==
  /\ \A h \in Blocks \cup {Root} : \A i \in DOMAIN index[h] :
       /\ index[h][i] \in pool /\ Previous[index[h][i].block] = h
       /\ \A j \in DOMAIN index[h] : index[h][j].block = index[h][i].block => j = i
  /\ \A o \in pool : \E i \in DOMAIN index[Previous[o.block]] :
       index[Previous[o.block]][i] = o

LEMMA IndexMatches ==
  ASSUME PrevOrphans \in [Blocks \cup {Root} -> Seq(OrphanBlock)]
  PROVE  IndexMatchesPool <=> Matches(PrevOrphans, Orphans)
BY DEF IndexMatchesPool, Matches

\* RemoveOrphanBlock keeps the index and the map together.
LEMMA RemovalMatches ==
  ASSUME PrevOrphans \in [Blocks \cup {Root} -> Seq(OrphanBlock)],
         Orphans \subseteq OrphanBlock,
         IndexMatchesPool, NEW removed
  PROVE  /\ IndexWithout(removed) \in [Blocks \cup {Root} -> Seq(OrphanBlock)]
         /\ Matches(IndexWithout(removed), Without(removed))
<1> USE OrphanAssumption
<1> DEFINE index == IndexWithout(removed)
<1>1. /\ index = [h \in Blocks \cup {Root} |-> ListWithout(PrevOrphans[h], removed)]
      /\ \A h \in Blocks \cup {Root} : PrevOrphans[h] \in Seq(OrphanBlock)
  BY DEF IndexWithout
<1>2. Matches(PrevOrphans, Orphans)
  BY IndexMatches
<1> HIDE DEF index
<1>3. index \in [Blocks \cup {Root} -> Seq(OrphanBlock)]
  BY <1>1, ListWithoutKeeps
<1>4. ASSUME NEW h \in Blocks \cup {Root}, NEW i \in DOMAIN index[h]
      PROVE  /\ index[h][i] \in Without(removed) /\ Previous[index[h][i].block] = h
             /\ \A j \in DOMAIN index[h] : index[h][j].block = index[h][i].block => j = i
  <2> DEFINE list == PrevOrphans[h]
  <2>1. list \in Seq(OrphanBlock) /\ index[h] = ListWithout(list, removed)
    BY <1>1
  <2>2. /\ \A k \in DOMAIN list : list[k] \in Orphans /\ Previous[list[k].block] = h
        /\ \A k, j \in DOMAIN list : list[k].block = list[j].block => k = j
    BY <1>2 DEF Matches
  <2> HIDE DEF list
  <2>3. PICK k \in DOMAIN list : index[h][i] = list[k] /\ ~IsRemoved(list, removed, k)
    BY <2>1, ListWithoutKeeps
  <2>4. \A j, l \in DOMAIN index[h] : index[h][j].block = index[h][l].block => j = l
    <3> DEFINE left == ListWithout(list, removed)
    <3>1. \A j, l \in DOMAIN left : left[j].block = left[l].block => j = l
      BY <2>1, <2>2, ListWithoutKeeps
    <3> QED
      BY <2>1, <3>1
  <2>5. list[k] \in Without(removed)
    BY <2>2, <2>3 DEF Without, IsRemoved
  <2> QED
    BY <2>2, <2>3, <2>4, <2>5
<1>5. ASSUME NEW o \in Without(removed)
      PROVE  \E i \in DOMAIN index[Previous[o.block]] : index[Previous[o.block]][i] = o
  <2> DEFINE h == Previous[o.block]
             list == PrevOrphans[h]
  <2>1. o \in Orphans /\ \A r \in removed : o.block # r.block
    BY DEF Without
  <2>2. h \in Blocks \cup {Root}
    BY <2>1 DEF OrphanBlock
  <2>3. PICK k \in DOMAIN list : list[k] = o
    BY <1>2, <2>1 DEF Matches
  <2>4. list \in Seq(OrphanBlock) /\ index[h] = ListWithout(list, removed)
    BY <1>1, <2>2
  <2>5. ~IsRemoved(list, removed, k)
    BY <2>1, <2>3 DEF IsRemoved
  <2> HIDE DEF list, h
  <2>6. \E i \in DOMAIN index[h] : index[h][i] = o
    BY <2>3, <2>4, <2>5, ListWithoutKeeps
  <2> QED
    BY <2>6 DEF h
<1>6. Matches(index, Without(removed))
  BY <1>4, <1>5 DEF Matches
<1> QED
  BY <1>3, <1>6 DEF index

\* AddOrphanBlock appends an orphan whose hash the pool does not have.
LEMMA AdditionMatches ==
  ASSUME NEW index \in [Blocks \cup {Root} -> Seq(OrphanBlock)],
         NEW pool \in SUBSET OrphanBlock, Matches(index, pool),
         NEW new \in OrphanBlock, \A o \in pool : o.block # new.block
  PROVE  LET next == [index EXCEPT ![Previous[new.block]] = Append(@, new)]
         IN  /\ next \in [Blocks \cup {Root} -> Seq(OrphanBlock)]
             /\ Matches(next, pool \cup {new})
<1> USE OrphanAssumption
<1> DEFINE p == Previous[new.block]
           list == index[p]
           next == [index EXCEPT ![p] = Append(@, new)]
<1>1. p \in Blocks \cup {Root} /\ list \in Seq(OrphanBlock)
  BY DEF OrphanBlock
<1>2. next[p] = Append(list, new) /\ \A h \in Blocks \cup {Root} : h # p => next[h] = index[h]
  BY <1>1
<1>3. next \in [Blocks \cup {Root} -> Seq(OrphanBlock)]
  BY <1>1
<1>4. /\ DOMAIN list = 1..Len(list) /\ Len(list) \in Nat
      /\ DOMAIN next[p] = 1..(Len(list) + 1)
      /\ \A k \in DOMAIN list : next[p][k] = list[k]
      /\ next[p][Len(list) + 1] = new
  BY <1>1, <1>2
<1>5. \A k \in DOMAIN next[p] : k \in DOMAIN list \/ k = Len(list) + 1
  BY <1>4
<1> HIDE DEF next
<1>6. ASSUME NEW h \in Blocks \cup {Root}, NEW i \in DOMAIN next[h]
      PROVE  /\ next[h][i] \in pool \cup {new} /\ Previous[next[h][i].block] = h
             /\ \A j \in DOMAIN next[h] : next[h][j].block = next[h][i].block => j = i
  <2>1. CASE h # p
    BY <1>2, <2>1 DEF Matches
  <2>2. CASE h = p
    <3>1. \A k \in DOMAIN list : list[k] \in pool /\ Previous[list[k].block] = p
      BY <1>1 DEF Matches
    <3>2. \A k, j \in DOMAIN list : list[k].block = list[j].block => k = j
      BY <1>1 DEF Matches
    <3>3. \A k \in DOMAIN list : list[k].block # new.block
      BY <3>1
    <3> HIDE DEF list
    <3> DEFINE l == next[p]
               last == Len(list) + 1
    <3>4. \A k \in DOMAIN l : k \in DOMAIN list \/ k = last
      BY <1>5
    <3>5. l[last] = new /\ \A k \in DOMAIN list : l[k] = list[k]
      BY <1>4
    <3> HIDE DEF l, last
    <3>6. ASSUME NEW k \in DOMAIN l PROVE l[k] \in pool \cup {new} /\ Previous[l[k].block] = p
      BY <3>1, <3>4, <3>5
    <3>7. ASSUME NEW k \in DOMAIN l, NEW j \in DOMAIN l, l[j].block = l[k].block PROVE j = k
      BY <3>2, <3>3, <3>4, <3>5, <3>7
    <3> QED
      BY <2>2, <3>6, <3>7 DEF l
  <2> QED
    BY <2>1, <2>2
<1>7. ASSUME NEW o \in pool \cup {new}
      PROVE  \E i \in DOMAIN next[Previous[o.block]] : next[Previous[o.block]][i] = o
  <2>1. CASE o = new
    BY <1>4, <2>1
  <2>2. CASE o \in pool
    <3>1. PICK k \in DOMAIN index[Previous[o.block]] : index[Previous[o.block]][k] = o
      BY <2>2 DEF Matches
    <3>2. CASE Previous[o.block] = p
      <4>1. k \in DOMAIN list /\ list[k] = o
        BY <3>1, <3>2
      <4>2. k \in DOMAIN next[p] /\ next[p][k] = o
        <5> HIDE DEF list, p
        <5> QED
          BY <1>4, <4>1
      <4> QED
        BY <3>2, <4>2
    <3>3. CASE Previous[o.block] # p
      <4>1. Previous[o.block] \in Blocks \cup {Root}
        BY <2>2 DEF OrphanBlock
      <4>2. next[Previous[o.block]] = index[Previous[o.block]]
        BY <1>2, <3>3, <4>1
      <4> QED
        BY <3>1, <4>2
    <3> QED
      BY <3>2, <3>3
  <2> QED
    BY <2>1, <2>2
<1>8. Matches(next, pool \cup {new})
  BY <1>6, <1>7 DEF Matches
<1> QED
  BY <1>3, <1>8 DEF next

\* The queue of ProcessOrphans holds accepted blocks, and an orphan whose
\* parent is accepted waits for a block of the queue or for one that
\* ProcessOrphans gave up.
QueueInv ==
  /\ \A i \in DOMAIN processHashes : processHashes[i] \in accepted
  /\ \A o \in Orphans : Previous[o.block] \in accepted =>
       \/ Previous[o.block] \in refused
       \/ \E i \in DOMAIN processHashes : processHashes[i] = Previous[o.block]

\* OldestOrphan is in the pool, or ProcessOrphans took it: then its parent is
\* accepted, so that its block does not become an orphan again.
OldestInv ==
  OldestOrphan # Nil =>
    \/ OldestOrphan \in Orphans
    \/ Previous[OldestOrphan.block] \in accepted /\ OldestOrphan.block \notin OrphanHashes

OrphanInv == TypeOK /\ PoolInv /\ IndexMatchesPool /\ QueueInv /\ OldestInv

\* The oldest orphan is one of the pool that has not expired, or the one that
\* OldestOrphan points at, and none that has not expired is older.
LEMMA OldestIs ==
  ASSUME PoolInv
  PROVE  /\ Oldest = Nil \/ Oldest \in Orphans \ Expired
              \/ (Oldest = OldestOrphan /\ OldestOrphan \notin Expired)
         /\ Oldest = Nil => Orphans \subseteq Expired
         /\ \A p \in Orphans \ Expired : Oldest.expiration <= p.expiration
<1> DEFINE C == (Orphans \ Expired) \cup ({OldestOrphan} \ (Expired \cup {Nil}))
<1>1. C \in SUBSET OrphanBlock /\ Oldest = Earliest(C)
  BY DEF PoolInv, Oldest
<1>2. Nil \notin OrphanBlock
  BY OrphanAssumption DEF Nil, OrphanBlock
<1>3. Orphans \ Expired \subseteq C
        /\ \A o \in C : o \in Orphans \ Expired \/ (o = OldestOrphan /\ OldestOrphan \notin Expired)
  OBVIOUS
<1> HIDE DEF C
<1>4. CASE C = {}
  <2>1. Oldest = Nil
    BY <1>1, <1>4 DEF Earliest
  <2> QED
    BY <1>3, <1>4, <2>1
<1>5. CASE C # {}
  <2>1. Oldest \in C /\ \A p \in C : Oldest.expiration <= p.expiration
    BY <1>1, <1>5, EarliestIsMember
  <2>2. Oldest # Nil
    BY <1>1, <1>2, <2>1
  <2> QED
    BY <1>3, <2>1, <2>2
<1> QED
  BY <1>4, <1>5

\* An orphan that joins the pool.
LEMMA AddOrphanBlockInv ==
  ASSUME OrphanInv, NEW b \in Blocks, AddOrphanBlock(b)
  PROVE  OrphanInv'
<1> USE OrphanAssumption
<1> DEFINE removed == IF Full THEN Expired \cup {Oldest} ELSE Expired
           oBlock == [block |-> b, expiration |-> now + Lifetime]
           kept == Without(removed)
<1>1. /\ Orphans' = kept \cup {oBlock}
      /\ PrevOrphans' = [IndexWithout(removed) EXCEPT ![Previous[b]] = Append(@, oBlock)]
      /\ OldestOrphan' = (IF Full THEN Nil ELSE Oldest) /\ now' = now + 1
      /\ accepted' = accepted /\ processHashes' = processHashes /\ refused' = refused
      /\ b \notin OrphanHashes /\ Previous[b] \notin accepted
  BY DEF AddOrphanBlock
<1>2. PoolInv'
  BY AddOrphanBlockPool DEF OrphanInv
<1>3. oBlock \in OrphanBlock /\ oBlock.block = b
  BY DEF OrphanInv, TypeOK, OrphanBlock
<1>4. kept \subseteq Orphans /\ \A o \in kept : o.block # b
  BY <1>1 DEF Without, OrphanHashes
<1>5. kept \in SUBSET OrphanBlock
  BY <1>4 DEF OrphanInv, TypeOK
<1>6. /\ IndexWithout(removed) \in [Blocks \cup {Root} -> Seq(OrphanBlock)]
      /\ Matches(IndexWithout(removed), kept)
  BY RemovalMatches DEF OrphanInv, TypeOK
<1>7. /\ PrevOrphans' \in [Blocks \cup {Root} -> Seq(OrphanBlock)]
      /\ Matches(PrevOrphans', Orphans')
  <2> DEFINE index == IndexWithout(removed)
             next == [index EXCEPT ![Previous[oBlock.block]] = Append(@, oBlock)]
  <2>1. /\ oBlock \in OrphanBlock /\ kept \in SUBSET OrphanBlock
        /\ index \in [Blocks \cup {Root} -> Seq(OrphanBlock)]
        /\ Matches(index, kept) /\ \A o \in kept : o.block # oBlock.block
    BY <1>3, <1>4, <1>5, <1>6
  <2>2. PrevOrphans' = next /\ Orphans' = kept \cup {oBlock}
    BY <1>1, <1>3
  <2>3. /\ next \in [Blocks \cup {Root} -> Seq(OrphanBlock)]
        /\ Matches(next, kept \cup {oBlock})
    <3> HIDE DEF index, kept, oBlock
    <3> QED
      BY <2>1, AdditionMatches
  <2> HIDE DEF next, kept, oBlock
  <2> QED
    BY <2>2, <2>3
<1>8. IndexMatchesPool'
  BY <1>7 DEF IndexMatchesPool, Matches
<1>9. TypeOK'
  BY <1>1, <1>2, <1>7 DEF OrphanInv, TypeOK, PoolInv
<1> HIDE DEF oBlock
<1>10. QueueInv'
  <2> HIDE DEF kept
  <2>1. \A o \in Orphans' : o \in Orphans \/ (o = oBlock /\ Previous[o.block] \notin accepted)
    BY <1>1, <1>3, <1>4
  <2> QED
    BY <1>1, <2>1 DEF OrphanInv, QueueInv
<1>11. OldestInv'
  <2> SUFFICES ASSUME OldestOrphan' # Nil
               PROVE  \/ OldestOrphan' \in Orphans'
                      \/ /\ Previous[OldestOrphan'.block] \in accepted'
                         /\ OldestOrphan'.block \notin OrphanHashes'
    BY DEF OldestInv
  <2>1. ~Full /\ OldestOrphan' = Oldest /\ removed = Expired /\ Oldest # Nil
    BY <1>1
  <2>2. CASE Oldest \in Orphans \ Expired
    <3>1. \A r \in Expired : r \in Orphans /\ r.block # Oldest.block
      BY <2>2 DEF Expired, OrphanInv, PoolInv
    <3>2. Oldest \in kept
      BY <2>1, <2>2, <3>1 DEF Without
    <3> QED
      BY <1>1, <2>1, <3>2
  <2>3. CASE Oldest \notin Orphans
    <3>1. Oldest = OldestOrphan
      BY <2>1, <2>3, OldestIs DEF OrphanInv
    <3>2. Previous[Oldest.block] \in accepted /\ Oldest.block \notin OrphanHashes
      BY <2>1, <2>3, <3>1 DEF OrphanInv, OldestInv
    <3>3. Oldest.block # b
      BY <1>1, <3>2
    <3> HIDE DEF kept
    <3>4. \A o \in Orphans' : o.block # Oldest.block
      BY <1>1, <1>3, <1>4, <3>2, <3>3 DEF OrphanHashes
    <3> QED
      BY <1>1, <2>1, <3>2, <3>4 DEF OrphanHashes
  <2>4. CASE Oldest \in Expired
    BY <2>1, <2>4, OldestIs DEF OrphanInv
  <2> QED
    BY <2>2, <2>3, <2>4
<1> QED
  BY <1>2, <1>8, <1>9, <1>10, <1>11 DEF OrphanInv

\* An orphan that leaves the pool for the chain, or for good.
LEMMA ProcessOrphanInv ==
  ASSUME OrphanInv, ProcessOrphan
  PROVE  OrphanInv'
<1> USE OrphanAssumption
<1> DEFINE h == Head(processHashes)
           orphan == PrevOrphans[h][1]
<1>1. /\ processHashes # << >> /\ PrevOrphans[h] # << >>
      /\ Orphans' = Without({orphan}) /\ PrevOrphans' = IndexWithout({orphan})
      /\ OldestOrphan' = OldestOrphan /\ now' = now
      /\ \/ /\ accepted' = accepted \cup {orphan.block} /\ refused' = refused
            /\ processHashes' = Append(processHashes, orphan.block)
         \/ /\ processHashes' = << >> /\ accepted' = accepted
            /\ refused' = refused \cup {processHashes[i] : i \in DOMAIN processHashes}
         \/ /\ processHashes' = << >> /\ accepted' = accepted \cup {orphan.block}
            /\ refused' = refused \cup {orphan.block}
                                  \cup {processHashes[i] : i \in DOMAIN processHashes}
  BY DEF ProcessOrphan
<1>2. /\ h \in Blocks /\ h = processHashes[1] /\ 1 \in DOMAIN processHashes
      /\ PrevOrphans[h] \in Seq(OrphanBlock) /\ 1 \in DOMAIN PrevOrphans[h]
  BY <1>1 DEF OrphanInv, TypeOK
<1>3. orphan \in Orphans /\ orphan \in OrphanBlock /\ Previous[orphan.block] = h /\ h \in accepted
  <2>1. Matches(PrevOrphans, Orphans)
    BY IndexMatches DEF OrphanInv, TypeOK
  <2>2. orphan \in Orphans /\ Previous[orphan.block] = h
    BY <1>2, <2>1 DEF Matches
  <2> QED
    BY <1>2, <2>2 DEF OrphanInv, TypeOK, QueueInv
<1>4. PoolInv'
  BY ProcessOrphanPool DEF OrphanInv
<1>5. /\ PrevOrphans' \in [Blocks \cup {Root} -> Seq(OrphanBlock)]
      /\ Matches(PrevOrphans', Orphans')
  <2> HIDE DEF orphan
  <2> QED
    BY <1>1, RemovalMatches DEF OrphanInv, TypeOK
<1>6. IndexMatchesPool'
  BY <1>5 DEF IndexMatchesPool, Matches
<1>7. orphan.block \in Blocks
  BY <1>3 DEF OrphanBlock
<1> HIDE DEF orphan
<1>8. TypeOK'
  <2>1. processHashes' \in Seq(Blocks) /\ accepted' \subseteq Blocks \cup {Root}
    <3>1. processHashes \in Seq(Blocks) /\ accepted \subseteq Blocks \cup {Root}
      BY DEF OrphanInv, TypeOK
    <3>2. Append(processHashes, orphan.block) \in Seq(Blocks)
      BY <1>7, <3>1
    <3>3. << >> \in Seq(Blocks)
      OBVIOUS
    <3>4. processHashes' = Append(processHashes, orphan.block) \/ processHashes' = << >>
      BY <1>1
    <3>5. processHashes' \in Seq(Blocks)
      BY <3>2, <3>3, <3>4
    <3> QED
      BY <1>1, <1>7, <3>1, <3>5
  <2>2. {processHashes[i] : i \in DOMAIN processHashes} \subseteq Blocks
    BY DEF OrphanInv, TypeOK
  <2>3. refused' \subseteq Blocks
    BY <1>1, <1>7, <2>2 DEF OrphanInv, TypeOK
  <2> QED
    BY <1>4, <1>5, <2>1, <2>3 DEF TypeOK, PoolInv
<1>9. Orphans' \subseteq Orphans /\ \A o \in Orphans' : o.block # orphan.block
  BY <1>1 DEF Without
<1>10. QueueInv'
  <2> DEFINE Waits(x) == \E i \in DOMAIN processHashes : processHashes[i] = x
  <2>1. \A o \in Orphans' : Previous[o.block] \in accepted =>
          Previous[o.block] \in refused \/ Waits(Previous[o.block])
    BY <1>9 DEF OrphanInv, QueueInv
  <2>2. CASE /\ accepted' = accepted \cup {orphan.block} /\ refused' = refused
             /\ processHashes' = Append(processHashes, orphan.block)
    <3>1. /\ DOMAIN processHashes = 1..Len(processHashes) /\ Len(processHashes) \in Nat
          /\ DOMAIN processHashes' = 1..(Len(processHashes) + 1)
          /\ \A i \in DOMAIN processHashes : processHashes'[i] = processHashes[i]
          /\ processHashes'[Len(processHashes) + 1] = orphan.block
      BY <1>7, <2>2 DEF OrphanInv, TypeOK
    <3>2. \A i \in DOMAIN processHashes' :
            i \in DOMAIN processHashes \/ i = Len(processHashes) + 1
      BY <3>1
    <3>3. \A i \in DOMAIN processHashes' : processHashes'[i] \in accepted'
      BY <2>2, <3>1, <3>2 DEF OrphanInv, QueueInv
    <3>4. \A x : Waits(x) \/ x = orphan.block => Waits(x)'
      BY <3>1
    <3> HIDE DEF Waits
    <3>5. \A o \in Orphans' : Previous[o.block] \in accepted' =>
            Previous[o.block] \in refused' \/ Waits(Previous[o.block])'
      BY <2>1, <2>2, <3>4
    <3> QED
      BY <3>3, <3>5 DEF QueueInv, Waits
  <2>3. CASE /\ processHashes' = << >> /\ accepted' = accepted
             /\ refused' = refused \cup {processHashes[i] : i \in DOMAIN processHashes}
    <3>1. \A x : Waits(x) => x \in refused'
      BY <2>3
    <3> HIDE DEF Waits
    <3>2. \A o \in Orphans' : Previous[o.block] \in accepted' => Previous[o.block] \in refused'
      BY <2>1, <2>3, <3>1
    <3>3. DOMAIN processHashes' = {}
      BY <2>3
    <3> QED
      BY <3>2, <3>3 DEF QueueInv
  <2>4. CASE /\ processHashes' = << >> /\ accepted' = accepted \cup {orphan.block}
             /\ refused' = refused \cup {orphan.block}
                                   \cup {processHashes[i] : i \in DOMAIN processHashes}
    <3>1. \A x : Waits(x) \/ x = orphan.block => x \in refused'
      BY <2>4
    <3> HIDE DEF Waits
    <3>2. \A o \in Orphans' : Previous[o.block] \in accepted' => Previous[o.block] \in refused'
      BY <2>1, <2>4, <3>1
    <3>3. DOMAIN processHashes' = {}
      BY <2>4
    <3> QED
      BY <3>2, <3>3 DEF QueueInv
  <2> QED
    BY <1>1, <2>2, <2>3, <2>4
<1>11. OldestInv'
  <2> SUFFICES ASSUME OldestOrphan # Nil
               PROVE  \/ OldestOrphan \in Orphans'
                      \/ /\ Previous[OldestOrphan.block] \in accepted'
                         /\ OldestOrphan.block \notin OrphanHashes'
    BY <1>1 DEF OldestInv
  <2>1. accepted \subseteq accepted'
    BY <1>1
  <2>2. CASE OldestOrphan \in Orphans /\ OldestOrphan.block # orphan.block
    BY <1>1, <2>2 DEF Without
  <2>3. CASE OldestOrphan \in Orphans /\ OldestOrphan.block = orphan.block
    <3>1. OldestOrphan.block \notin OrphanHashes'
      BY <1>9, <2>3 DEF OrphanHashes
    <3> QED
      BY <1>3, <2>1, <2>3, <3>1
  <2>4. CASE OldestOrphan \notin Orphans
    <3>1. Previous[OldestOrphan.block] \in accepted /\ OldestOrphan.block \notin OrphanHashes
      BY <2>4 DEF OrphanInv, OldestInv
    <3> QED
      BY <1>9, <2>1, <3>1 DEF OrphanHashes
  <2> QED
    BY <2>2, <2>3, <2>4
<1> QED
  BY <1>4, <1>6, <1>8, <1>10, <1>11 DEF OrphanInv

\* A block of the queue without orphans.
LEMMA NextProcessHashInv ==
  ASSUME OrphanInv, NextProcessHash
  PROVE  OrphanInv'
<1> USE OrphanAssumption
<1> DEFINE h == Head(processHashes)
<1>1. /\ processHashes # << >> /\ PrevOrphans[h] = << >>
      /\ processHashes' = Tail(processHashes)
      /\ UNCHANGED <<Orphans, PrevOrphans, OldestOrphan, accepted, refused, now>>
  BY DEF NextProcessHash
<1>2. /\ processHashes \in Seq(Blocks) /\ processHashes' \in Seq(Blocks)
      /\ Len(processHashes) \in Nat /\ DOMAIN processHashes = 1..Len(processHashes)
      /\ DOMAIN processHashes' = 1..(Len(processHashes) - 1)
      /\ \A i \in DOMAIN processHashes' : processHashes'[i] = processHashes[i + 1]
      /\ h = processHashes[1]
  BY <1>1 DEF OrphanInv, TypeOK
<1>3. \A o \in Orphans : Previous[o.block] # h
  <2>1. Matches(PrevOrphans, Orphans)
    BY IndexMatches DEF OrphanInv, TypeOK
  <2> QED
    BY <1>1, <2>1 DEF Matches
<1> HIDE DEF h
<1>4. \A i \in DOMAIN processHashes' : processHashes'[i] \in accepted
  <2>1. \A i \in DOMAIN processHashes' : i + 1 \in DOMAIN processHashes
    BY <1>2
  <2> QED
    BY <1>2, <2>1 DEF OrphanInv, QueueInv
<1>5. \A i \in DOMAIN processHashes :
        processHashes[i] = h \/ \E j \in DOMAIN processHashes' : processHashes'[j] = processHashes[i]
  <2> TAKE i \in DOMAIN processHashes
  <2>1. CASE i = 1
    BY <1>2, <2>1
  <2>2. CASE i # 1
    <3>1. i - 1 \in DOMAIN processHashes' /\ (i - 1) + 1 = i
      BY <1>2, <2>2
    <3> QED
      BY <1>2, <3>1
  <2> QED
    BY <2>1, <2>2
<1>6. QueueInv'
  <2> SUFFICES ASSUME NEW o \in Orphans, Previous[o.block] \in accepted,
                      Previous[o.block] \notin refused
               PROVE  \E j \in DOMAIN processHashes' : processHashes'[j] = Previous[o.block]
    BY <1>1, <1>4 DEF QueueInv
  <2>1. PICK i \in DOMAIN processHashes : processHashes[i] = Previous[o.block]
    BY DEF OrphanInv, QueueInv
  <2> QED
    BY <1>3, <1>5, <2>1
<1>7. TypeOK' /\ PoolInv' /\ IndexMatchesPool' /\ OldestInv'
  BY <1>1, <1>2 DEF OrphanInv, TypeOK, PoolInv, IndexMatchesPool, OldestInv, OrphanHashes
<1> QED
  BY <1>6, <1>7 DEF OrphanInv

\* A block that becomes part of the chain.
LEMMA ProcessBlockInv ==
  ASSUME OrphanInv, NEW b \in Blocks, ProcessBlock(b)
  PROVE  OrphanInv'
<1>1. /\ processHashes = << >> /\ accepted' = accepted \cup {b} /\ processHashes' = <<b>>
      /\ UNCHANGED <<Orphans, PrevOrphans, OldestOrphan, refused, now>>
  BY DEF ProcessBlock
<1>2. processHashes' \in Seq(Blocks) /\ DOMAIN processHashes' = {1} /\ processHashes'[1] = b
  BY <1>1
<1>3. DOMAIN processHashes = {}
  BY <1>1
<1>4. QueueInv'
  BY <1>1, <1>2, <1>3 DEF OrphanInv, QueueInv
<1>5. TypeOK' /\ PoolInv' /\ IndexMatchesPool' /\ OldestInv'
  BY <1>1, <1>2 DEF OrphanInv, TypeOK, PoolInv, IndexMatchesPool, OldestInv, OrphanHashes
<1> QED
  BY <1>4, <1>5 DEF OrphanInv

\* A block whose reorganisation fails.
LEMMA ReorganisationFailsInv ==
  ASSUME OrphanInv, NEW b \in Blocks, ReorganisationFails(b)
  PROVE  OrphanInv'
<1>1. /\ processHashes = << >> /\ accepted' = accepted \cup {b} /\ refused' = refused \cup {b}
      /\ UNCHANGED <<Orphans, PrevOrphans, OldestOrphan, processHashes, now>>
  BY DEF ReorganisationFails
<1>2. QueueInv'
  BY <1>1 DEF OrphanInv, QueueInv
<1>3. TypeOK' /\ PoolInv' /\ IndexMatchesPool' /\ OldestInv'
  BY <1>1 DEF OrphanInv, TypeOK, PoolInv, IndexMatchesPool, OldestInv, OrphanHashes
<1> QED
  BY <1>2, <1>3 DEF OrphanInv

\* A state with the same pool, queue and chain, at whatever time.
LEMMA TimePassesInv ==
  ASSUME OrphanInv, now' \in Nat,
         UNCHANGED <<Orphans, PrevOrphans, OldestOrphan, accepted, processHashes, refused>>
  PROVE  OrphanInv'
BY DEF OrphanInv, TypeOK, PoolInv, IndexMatchesPool, QueueInv, OldestInv, OrphanHashes

LEMMA InitOrphanInv == Init => OrphanInv
<1> SUFFICES ASSUME Init PROVE OrphanInv
  OBVIOUS
<1>1. PoolInv
  BY OrphanAssumption, FS_EmptySet DEF Init, PoolInv
<1>2. \A h \in Blocks \cup {Root} : DOMAIN PrevOrphans[h] = {}
  BY DEF Init
<1>3. TypeOK /\ IndexMatchesPool /\ OldestInv
  BY <1>2 DEF Init, TypeOK, IndexMatchesPool, OldestInv
<1>4. QueueInv
  BY DEF Init, QueueInv
<1> QED
  BY <1>1, <1>3, <1>4 DEF OrphanInv

LEMMA NextOrphanInv == OrphanInv /\ [Next]_vars => OrphanInv'
<1> SUFFICES ASSUME OrphanInv, [Next]_vars PROVE OrphanInv'
  OBVIOUS
<1>1. now \in Nat
  BY DEF OrphanInv, TypeOK
<1>2. CASE Tick
  BY <1>1, <1>2, TimePassesInv DEF Tick
<1>3. CASE UNCHANGED vars
  BY <1>1, <1>3, TimePassesInv DEF vars
<1>4. ASSUME NEW b \in Blocks, AddOrphanBlock(b) PROVE OrphanInv'
  BY <1>4, AddOrphanBlockInv
<1>5. ASSUME NEW b \in Blocks, ProcessBlock(b) PROVE OrphanInv'
  BY <1>5, ProcessBlockInv
<1>6. ASSUME NEW b \in Blocks, RefuseBlock(b) PROVE OrphanInv'
  BY <1>3, <1>6 DEF RefuseBlock
<1>7. CASE ProcessOrphan
  BY <1>7, ProcessOrphanInv
<1>8. CASE NextProcessHash
  BY <1>8, NextProcessHashInv
<1>9. ASSUME NEW b \in Blocks, ReorganisationFails(b) PROVE OrphanInv'
  BY <1>9, ReorganisationFailsInv
<1> QED
  BY <1>2, <1>3, <1>4, <1>5, <1>6, <1>7, <1>8, <1>9 DEF Next

\* The variables of the pool keep their types: OldestOrphan is nil or an
\* orphan, and the queue of ProcessOrphans holds blocks that were sent.
THEOREM PoolTypeCorrect == Spec => []TypeOK
<1>1. OrphanInv => TypeOK
  BY DEF OrphanInv
<1> QED
  BY <1>1, InitOrphanInv, NextOrphanInv, PTL DEF Spec

\* Whatever blocks come, expire, are evicted or are processed, the map and the
\* index by parent hold the same orphans: RemoveOrphanBlock and AddOrphanBlock
\* never let one of them keep an orphan that the other has lost.
THEOREM IndexAlwaysMatches == Spec => []IndexMatchesPool
<1>1. OrphanInv => IndexMatchesPool
  BY DEF OrphanInv
<1> QED
  BY <1>1, InitOrphanInv, NextOrphanInv, PTL DEF Spec

\* An orphan that AddOrphanBlock drops has expired or is the oldest that has
\* not, although OldestOrphan may point at one that is long gone.
THEOREM EvictionTakesOldest == Spec => EvictsOldest
<1>1. ASSUME OrphanInv, [Next]_vars, now' > now, NEW o \in Orphans \ Orphans'
      PROVE  o \in Expired \/ \A p \in Orphans \ Expired : o.expiration <= p.expiration
  <2>1. now \in Nat
    BY <1>1 DEF OrphanInv, TypeOK
  <2>2. PICK b \in Blocks : AddOrphanBlock(b)
    BY <1>1, <2>1 DEF Next, vars, ProcessBlock, ReorganisationFails, RefuseBlock, ProcessOrphan,
                      NextProcessHash, Tick
  <2> DEFINE removed == IF Full THEN Expired \cup {Oldest} ELSE Expired
  <2>3. Without(removed) \subseteq Orphans'
    BY <2>2 DEF AddOrphanBlock
  <2>4. PICK r \in removed : o.block = r.block
    BY <1>1, <2>3 DEF Without
  <2>5. CASE r \in Expired
    BY <1>1, <2>4, <2>5 DEF Expired, OrphanInv, PoolInv
  <2>6. CASE r = Oldest /\ r \notin Expired
    <3>1. Oldest # Nil
      BY <1>1, <2>4, <2>6, OrphanAssumption DEF Nil, OrphanInv, TypeOK, OrphanBlock
    <3>2. Oldest \in Orphans
      <4> SUFFICES ASSUME Oldest \notin Orphans PROVE FALSE
        OBVIOUS
      <4>1. Oldest = OldestOrphan
        BY <1>1, <3>1, OldestIs DEF OrphanInv
      <4>2. Oldest.block \notin OrphanHashes
        BY <1>1, <3>1, <4>1 DEF OrphanInv, OldestInv
      <4> QED
        BY <2>4, <2>6, <4>2 DEF OrphanHashes
    <3>3. o = Oldest
      BY <1>1, <2>4, <2>6, <3>2 DEF OrphanInv, PoolInv
    <3> QED
      BY <1>1, <3>3, OldestIs DEF OrphanInv
  <2> QED
    BY <2>4, <2>5, <2>6
<1>2. OrphanInv /\ [Next]_vars =>
        [now' > now => \A o \in Orphans \ Orphans' :
           o \in Expired \/ \A p \in Orphans \ Expired : o.expiration <= p.expiration]_vars
  BY <1>1
<1> QED
  BY <1>2, InitOrphanInv, NextOrphanInv, PTL DEF Spec, EvictsOldest

-----------------------------------------------------------------------------
(* The root of an orphan.                                                  *)

\* The step up that GetOrphanRoot takes from a block.
GoesUp(h) == h \in OrphanHashes /\ Previous[h] \in OrphanHashes

\* The sets of blocks that no step up leaves.
ClosedUpwards(S) == \A x \in S : GoesUp(x) => Previous[x] \in S

\* The walk from h ends at r: it stops there, and cannot avoid it.
EndsAt(h, r) ==
  /\ r \in Blocks /\ ~GoesUp(r)
  /\ \A S \in SUBSET Blocks : h \in S /\ ClosedUpwards(S) => r \in S

EndOf(h) == CHOOSE r : EndsAt(h, r)

\* The recursion of GetOrphanRoot has a solution.
LEMMA RootExists ==
  ASSUME TypeOK
  PROVE  \E root : root = [h \in Blocks |-> IF GoesUp(h) THEN root[Previous[h]] ELSE h]
<1> USE OrphanAssumption
<1> DEFINE root == [h \in Blocks |-> EndOf(h)]
<1>1. \A h \in Blocks : GoesUp(h) => Previous[h] \in Blocks
  BY DEF GoesUp, OrphanHashes, TypeOK, OrphanBlock
<1>2. ASSUME NEW h \in Blocks, GoesUp(h)
      PROVE  root[h] = root[Previous[h]]
  <2>1. ASSUME NEW r, EndsAt(h, r) PROVE EndsAt(Previous[h], r)
    <3> SUFFICES ASSUME NEW S \in SUBSET Blocks, Previous[h] \in S, ClosedUpwards(S)
                 PROVE  r \in S
      BY <2>1 DEF EndsAt
    <3>1. S \cup {h} \in SUBSET Blocks /\ ClosedUpwards(S \cup {h})
      BY DEF ClosedUpwards
    <3>2. r \in S \cup {h}
      BY <2>1, <3>1 DEF EndsAt
    <3> QED
      BY <1>2, <2>1, <3>2 DEF EndsAt
  <2>2. ASSUME NEW r, EndsAt(Previous[h], r) PROVE EndsAt(h, r)
    <3> SUFFICES ASSUME NEW S \in SUBSET Blocks, h \in S, ClosedUpwards(S)
                 PROVE  r \in S
      BY <2>2 DEF EndsAt
    <3>1. Previous[h] \in S
      BY <1>2 DEF ClosedUpwards
    <3> QED
      BY <2>2, <3>1 DEF EndsAt
  <2>3. \A r : EndsAt(h, r) <=> EndsAt(Previous[h], r)
    BY <2>1, <2>2
  <2>4. EndOf(h) = EndOf(Previous[h])
    BY <2>3 DEF EndOf
  <2> QED
    BY <1>1, <1>2, <2>4
<1>3. ASSUME NEW h \in Blocks, ~GoesUp(h)
      PROVE  root[h] = h
  <2>1. EndsAt(h, h)
    BY <1>3 DEF EndsAt
  <2>2. ASSUME NEW r, EndsAt(h, r) PROVE r = h
    <3>1. {h} \in SUBSET Blocks /\ ClosedUpwards({h})
      BY <1>3 DEF ClosedUpwards
    <3> QED
      BY <2>2, <3>1 DEF EndsAt
  <2>3. EndsAt(h, EndOf(h))
    BY <2>1 DEF EndOf
  <2>4. EndOf(h) = h
    BY <2>2, <2>3
  <2> QED
    BY <2>4
<1>4. root = [h \in Blocks |-> IF GoesUp(h) THEN root[Previous[h]] ELSE h]
  <2>1. DOMAIN root = Blocks /\ root = [h \in Blocks |-> root[h]]
    OBVIOUS
  <2> HIDE DEF root
  <2> QED
    BY <1>2, <1>3, <2>1
<1> QED
  BY <1>4

\* No block is its own ancestor, so the walk from an orphan ends at an orphan
\* whose parent is not one.
LEMMA RootOfOrphan ==
  ASSUME TypeOK, NEW b \in OrphanHashes
  PROVE  /\ GetOrphanRoot(b) \in OrphanHashes
         /\ Previous[GetOrphanRoot(b)] \notin OrphanHashes
<1> USE OrphanAssumption
<1> DEFINE step(f) == [h \in Blocks |->
             IF h \in OrphanHashes /\ Previous[h] \in OrphanHashes THEN f[Previous[h]] ELSE h]
           root == CHOOSE f : f = step(f)
           Bad == {h \in OrphanHashes :
                     ~(root[h] \in OrphanHashes /\ Previous[root[h]] \notin OrphanHashes)}
<1>1. GetOrphanRoot(b) = root[b]
  BY DEF GetOrphanRoot
<1>2. \E f : f = step(f)
  BY RootExists DEF GoesUp
<1>3. root = step(root)
  <2> HIDE DEF step
  <2> QED
    BY <1>2
<1> HIDE DEF root
<1>4. OrphanHashes \subseteq Blocks
  BY DEF OrphanHashes, TypeOK, OrphanBlock
<1>5. Bad = {}
  <2> SUFFICES ASSUME Bad # {} PROVE FALSE
    OBVIOUS
  <2>1. Bad \in SUBSET Blocks
    BY <1>4
  <2>2. PICK h \in Bad : Previous[h] \notin Bad
    BY <2>1
  <2>3. h \in OrphanHashes /\ h \in Blocks
    BY <1>4, <2>2
  <2>4. CASE Previous[h] \in OrphanHashes
    <3>1. root[h] = root[Previous[h]]
      BY <1>3, <2>3, <2>4
    <3> QED
      BY <2>2, <2>4, <3>1
  <2>5. CASE Previous[h] \notin OrphanHashes
    <3>1. root[h] = h
      BY <1>3, <2>3, <2>5
    <3> QED
      BY <2>2, <2>3, <2>5, <3>1
  <2> QED
    BY <2>4, <2>5
<1> QED
  BY <1>1, <1>5

\* Between two calls, the block that GetOrphanRoot makes the node ask for is
\* no orphan and has no node either, unless a call that ended with an error, a
\* failed reorganisation's included (blockchain.go:996), left its orphans alone.
THEOREM OrphanRootIsMissing == Spec => []RootIsMissing
<1>1. OrphanInv => RootIsMissing
  <2> SUFFICES ASSUME OrphanInv, processHashes = << >>, NEW b \in OrphanHashes
               PROVE  LET parent == Previous[GetOrphanRoot(b)] IN
                        parent \notin OrphanHashes /\ (parent \in accepted => parent \in refused)
    BY DEF RootIsMissing
  <2> DEFINE r == GetOrphanRoot(b)
  <2>1. r \in OrphanHashes /\ Previous[r] \notin OrphanHashes
    BY RootOfOrphan DEF OrphanInv
  <2>2. PICK o \in Orphans : o.block = r
    BY <2>1 DEF OrphanHashes
  <2>3. DOMAIN processHashes = {}
    OBVIOUS
  <2>4. Previous[r] \in accepted => Previous[r] \in refused
    <3> HIDE DEF r
    <3> QED
      BY <2>2, <2>3 DEF OrphanInv, QueueInv
  <2> QED
    BY <2>1, <2>4
<1> QED
  BY <1>1, InitOrphanInv, NextOrphanInv, PTL DEF Spec

=============================================================================
