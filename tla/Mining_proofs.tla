---------------------------- MODULE Mining_proofs ----------------------------
(***************************************************************************)
(* Proofs about the mining service, for any number of mining goroutines    *)
(* and of tips, and about the median time that its templates and the       *)
(* blocks of others have to be after, for any number of timestamps.        *)
(***************************************************************************)
EXTENDS Mining, HeaderChain, FiniteSetTheorems, WellFoundedInduction, TLAPS

\* QuitIsOpen is inductive once the types of the flags are known.
QuitInv ==
  /\ started \in BOOLEAN /\ manualMining \in BOOLEAN /\ halting \in BOOLEAN
  /\ QuitIsOpen

\* No call of the auxiliary mining interface, of the chain or of a mining
\* goroutine touches the flags or the channel.
LEMMA OthersLeaveFlags ==
  ASSUME \/ BlockArrives
         \/ \E t \in Tips : BlockPersistCompleted(t) \/ SetHeight(t)
         \/ \E m \in Miners : Working(m)
         \/ ManualGenerates \/ ManualSolves \/ ManualNotAdded
         \/ AuxCall \/ AuxFails \/ TimePasses
         \/ \E b \in Tips : SubmitSideAuxBlock(b)
         \/ SubmitAddsBlock \/ SubmitClears
         \/ UNCHANGED vars
  PROVE  UNCHANGED <<started, manualMining, halting, quit>>
  BY DEF BlockArrives, BlockPersistCompleted, SetHeight, Working, Mine, SolveBlock, MinerAddsBlock,
         ManualGenerates, ManualSolves, ManualNotAdded, AuxCall, CreateAuxBlock,
         AuxGenerates, AuxRecords, AuxFails, TimePasses, SubmitSideAuxBlock,
         SubmitAddsBlock, SubmitClears, vars, powVars

LEMMA QuitInvInductive ==
  ASSUME QuitInv, [Next]_vars
  PROVE  QuitInv'
<1> USE DEF QuitInv, QuitIsOpen
<1>1. CASE \E m \in Miners : Start(m)
  BY <1>1 DEF Start
<1>2. CASE Halt
  BY <1>2 DEF Halt
<1>3. CASE HaltReturns
  BY <1>3 DEF HaltReturns
<1>4. CASE \E n \in Counts : DiscreteMining(n)
  BY <1>4 DEF DiscreteMining
<1>5. CASE ManualAddsBlock
  BY <1>5 DEF ManualAddsBlock
<1>6. CASE UNCHANGED <<started, manualMining, halting, quit>>
  BY <1>6
<1>7. QED
  BY <1>1, <1>2, <1>3, <1>4, <1>5, <1>6, OthersLeaveFlags DEF Next

\* Halt (pow.go:301) closes pow.quit only while it is open, however the calls of
\* Start, Halt and DiscreteMining follow each other.
THEOREM QuitStaysOpen == Spec => []QuitIsOpen
<1>1. Init => QuitInv
  BY DEF Init, QuitInv, QuitIsOpen
<1>2. QuitInv /\ [Next]_vars => QuitInv'
  BY QuitInvInductive
<1>3. QuitInv => QuitIsOpen
  BY DEF QuitInv
<1>4. QED
  BY <1>1, <1>2, <1>3, PTL DEF Spec

-----------------------------------------------------------------------------
(* The median time.                                                        *)

\* A set of naturals that is not empty has a least element.
LEMMA LeastNumber ==
  ASSUME NEW T \in SUBSET Nat, T # {}
  PROVE  \E x \in T : \A y \in T : x <= y
<1>1. IsWellFoundedOn(OpToRel(<, Nat), Nat)
  BY NatLessThanWellFounded
<1>2. PICK x \in T : \A y \in T : ~(<<y, x>> \in OpToRel(<, Nat))
  BY <1>1, WFMin
<1>3. \A y \in T : ~(y < x)
  BY <1>2 DEF OpToRel
<1> QED
  BY <1>3

\* A finite set of naturals that is not empty has a greatest element.
LEMMA GreatestNumber ==
  ASSUME NEW S \in SUBSET Nat, IsFiniteSet(S), S # {}
  PROVE  \E m \in S : \A x \in S : x <= m
<1> DEFINE Over(m) == {x \in S : m < x}
           C == {Cardinality(Over(m)) : m \in S}
<1>1. \A m \in S : IsFiniteSet(Over(m)) /\ Cardinality(Over(m)) \in Nat
  <2>1. \A m \in S : Over(m) \in SUBSET S
    OBVIOUS
  <2> HIDE DEF Over
  <2> QED
    BY <2>1, FS_Subset, FS_CardinalityType
<1>2. PICK m \in S : \A y \in S : Cardinality(Over(m)) <= Cardinality(Over(y))
  <2>1. C \in SUBSET Nat /\ C # {}
    BY <1>1
  <2>2. PICK c \in C : \A d \in C : c <= d
    <3> HIDE DEF C
    <3> QED
      BY <2>1, LeastNumber
  <2>3. PICK m \in S : c = Cardinality(Over(m))
    BY DEF C
  <2>4. \A y \in S : Cardinality(Over(y)) \in C
    BY DEF C
  <2> HIDE DEF C, Over
  <2> QED
    BY <2>2, <2>3, <2>4
<1>3. ASSUME NEW y \in S, m < y PROVE FALSE
  <2>0. m \in Nat /\ y \in Nat /\ \A z \in S : z \in Nat /\ (y < z => m < z)
    BY <1>3
  <2>1. Over(y) \subseteq Over(m) /\ y \in Over(m) /\ y \notin Over(y)
    <3>1. ~(y < y)
      BY <2>0
    <3> QED
      BY <1>3, <2>0, <3>1
  <2>2. Over(y) # Over(m)
    BY <2>1
  <2>3. Cardinality(Over(y)) < Cardinality(Over(m))
    <3>1. Over(y) \in SUBSET Over(m) /\ IsFiniteSet(Over(m))
      BY <1>1, <2>1
    <3> HIDE DEF Over
    <3>2. /\ Cardinality(Over(y)) <= Cardinality(Over(m))
          /\ Cardinality(Over(y)) # Cardinality(Over(m))
      BY <2>2, <3>1, FS_Subset
    <3> QED
      BY <1>1, <3>2
  <2> HIDE DEF Over
  <2> QED
    BY <1>1, <1>2, <2>3
<1> QED
  BY <1>3

Times(q) == q \in Seq(Nat) /\ Len(q) > 0

LEMMA TimesCount ==
  ASSUME NEW q, Times(q)
  PROVE  /\ Len(q) \in Nat \ {0} /\ DOMAIN q = 1..Len(q) /\ IsFiniteSet(DOMAIN q)
         /\ Cardinality(DOMAIN q) = Len(q) /\ \A i \in DOMAIN q : q[i] \in Nat
         /\ Range(q) \in SUBSET Nat /\ \A i \in DOMAIN q : q[i] \in Range(q)
         /\ \A x \in Range(q) : \E i \in DOMAIN q : q[i] = x
<1> DEFINE n == Len(q)
<1>1. n \in Nat \ {0} /\ DOMAIN q = 1..n /\ \A i \in DOMAIN q : q[i] \in Nat
  BY DEF Times
<1>2. (\A i \in DOMAIN q : q[i] \in Range(q)) /\ \A x \in Range(q) : \E i \in DOMAIN q : q[i] = x
  BY DEF Range
<1> HIDE DEF n
<1>3. IsFiniteSet(1..n) /\ Cardinality(1..n) = n
  BY <1>1, FS_Interval
<1> QED
  BY <1>1, <1>2, <1>3 DEF n

LEMMA CountsAreFinite ==
  ASSUME NEW q, Times(q), NEW x
  PROVE  /\ IsFiniteSet(Before(q, x)) /\ Cardinality(Before(q, x)) \in Nat
         /\ IsFiniteSet(UpTo(q, x)) /\ Cardinality(UpTo(q, x)) \in Nat
<1>1. Before(q, x) \in SUBSET (DOMAIN q) /\ UpTo(q, x) \in SUBSET (DOMAIN q)
  BY DEF Before, UpTo
<1>2. IsFiniteSet(Before(q, x)) /\ IsFiniteSet(UpTo(q, x))
  BY <1>1, TimesCount, FS_Subset
<1> QED
  BY <1>2, FS_CardinalityType

\* Some of them are the latest.
LEMMA GreatestOfSome ==
  ASSUME NEW q, Times(q), NEW I \in SUBSET (DOMAIN q), I # {}
  PROVE  \E m \in {q[i] : i \in I} : \A x \in {q[i] : i \in I} : x <= m
<1> DEFINE S == {q[i] : i \in I}
<1>1. S \in SUBSET Nat /\ S # {} /\ IsFiniteSet(I)
  BY TimesCount, FS_Subset
<1>2. IsFiniteSet(S)
  <2> DEFINE f == [i \in I |-> q[i]]
  <2>1. f \in Surjection(I, S)
    BY DEF Surjection
  <2> HIDE DEF f, S
  <2> QED
    BY <1>1, <2>1, FS_Surjection
<1> HIDE DEF S
<1>3. \E m \in S : \A x \in S : x <= m
  BY <1>1, <1>2, GreatestNumber
<1> QED
  BY <1>3 DEF S

\* There is something at every place.
LEMMA SortedExists ==
  ASSUME NEW q, Times(q), NEW k \in 1..Len(q)
  PROVE  \E t \in Range(q) : Cardinality(Before(q, t)) < k /\ Cardinality(UpTo(q, t)) >= k
<1> DEFINE Enough == {t \in Range(q) : Cardinality(UpTo(q, t)) >= k}
<1>1. /\ Len(q) \in Nat \ {0} /\ DOMAIN q = 1..Len(q) /\ IsFiniteSet(DOMAIN q)
      /\ Cardinality(DOMAIN q) = Len(q) /\ \A i \in DOMAIN q : q[i] \in Nat
      /\ Range(q) \in SUBSET Nat /\ \A i \in DOMAIN q : q[i] \in Range(q)
      /\ \A x \in Range(q) : \E i \in DOMAIN q : q[i] = x
  BY TimesCount
<1>2. Enough # {}
  <2>1. PICK m \in Range(q) : \A i \in DOMAIN q : q[i] <= m
    <3>1. DOMAIN q \in SUBSET (DOMAIN q) /\ DOMAIN q # {}
      BY <1>1
    <3>2. PICK m \in {q[i] : i \in DOMAIN q} : \A x \in {q[i] : i \in DOMAIN q} : x <= m
      BY <3>1, GreatestOfSome
    <3> QED
      BY <1>1, <3>2
  <2>2. UpTo(q, m) = DOMAIN q
    BY <1>1, <2>1 DEF UpTo
  <2>3. Cardinality(UpTo(q, m)) >= k
    BY <1>1, <2>2
  <2> QED
    BY <2>3
<1>3. PICK t \in Enough : \A x \in Enough : t <= x
  <2>1. Enough \in SUBSET Nat
    BY <1>1
  <2> HIDE DEF Enough
  <2> QED
    BY <1>2, <2>1, LeastNumber
<1>4. Cardinality(Before(q, t)) < k
  <2> SUFFICES ASSUME ~(Cardinality(Before(q, t)) < k) PROVE FALSE
    OBVIOUS
  <2>1. Cardinality(Before(q, t)) >= k /\ Before(q, t) # {}
    <3>1. Cardinality(Before(q, t)) \in Nat /\ k \in Nat /\ k >= 1
      BY <1>1, CountsAreFinite
    <3>2. Cardinality(Before(q, t)) >= k
      BY <3>1
    <3>3. Cardinality({}) = 0
      BY FS_EmptySet
    <3>4. Cardinality(Before(q, t)) # 0
      BY <3>1, <3>2
    <3> QED
      BY <3>2, <3>3, <3>4
  <2>2. PICK m \in {q[i] : i \in Before(q, t)} : \A x \in {q[i] : i \in Before(q, t)} : x <= m
    BY <2>1, GreatestOfSome DEF Before
  <2>3. m \in Range(q) /\ m < t /\ \A i \in DOMAIN q : q[i] < t => q[i] <= m
    BY <1>1, <2>2 DEF Before
  <2>4. UpTo(q, m) = Before(q, t)
    BY <1>1, <2>3 DEF UpTo, Before
  <2>5. m \in Enough
    BY <2>1, <2>3, <2>4
  <2>6. t \in Nat /\ m \in Nat
    BY <1>1, <2>3
  <2> QED
    BY <1>3, <2>3, <2>5, <2>6
<1> QED
  BY <1>3, <1>4

\* The median is one of the times, at most half of them are before it, and more
\* than half are not after it.
LEMMA MedianOf ==
  ASSUME NEW q, Times(q)
  PROVE  LET m == SortedAt(q, Len(q) \div 2 + 1)
         IN  /\ m \in Nat /\ m \in Range(q)
             /\ Cardinality(Before(q, m)) <= Len(q) \div 2
             /\ Cardinality(UpTo(q, m)) > Len(q) \div 2
<1> DEFINE k == Len(q) \div 2 + 1
           m == SortedAt(q, k)
<1>1. Len(q) \in Nat \ {0} /\ Range(q) \in SUBSET Nat
  BY TimesCount
<1>2. k \in 1..Len(q) /\ k \in Nat /\ Len(q) \div 2 \in Nat
  BY <1>1
<1> HIDE DEF k
<1>3. m \in Range(q) /\ Cardinality(Before(q, m)) < k /\ Cardinality(UpTo(q, m)) >= k
  BY <1>2, SortedExists DEF SortedAt
<1>4. Cardinality(Before(q, m)) \in Nat /\ Cardinality(UpTo(q, m)) \in Nat
  BY CountsAreFinite
<1> HIDE DEF m
<1>5. m \in Nat /\ m \in Range(q) /\ Cardinality(Before(q, m)) <= Len(q) \div 2
                /\ Cardinality(UpTo(q, m)) > Len(q) \div 2
  BY <1>1, <1>2, <1>3, <1>4 DEF k
<1> QED
  BY <1>5 DEF m, k

\* r is q with a time after x appended and perhaps its first time dropped.
Slides(q, r, x, shift) ==
  /\ shift \in {0, 1} /\ Len(r) = Len(q) + 1 - shift
  /\ \A i \in 1..Len(r) - 1 : r[i] = q[i + shift]
  /\ r[Len(r)] > x

\* No more times are before x when the window slides.
LEMMA SlidesKeepsBefore ==
  ASSUME NEW q, Times(q), NEW r, Times(r), NEW x \in Nat, NEW shift, Slides(q, r, x, shift)
  PROVE  Cardinality(Before(r, x)) <= Cardinality(Before(q, x))
<1> DEFINE f == [i \in Before(r, x) |-> i + shift]
           A == Before(r, x)
           B == Before(q, x)
<1>1. Len(q) \in Nat \ {0} /\ DOMAIN q = 1..Len(q)
  BY TimesCount
<1>2. Len(r) \in Nat \ {0} /\ DOMAIN r = 1..Len(r) /\ \A i \in DOMAIN r : r[i] \in Nat
  BY TimesCount
<1>3. \A i \in A : i \in 1..Len(r) - 1 /\ i \in Nat
  <2>1. \A i \in A : i \in 1..Len(r) /\ r[i] < x
    BY <1>2 DEF Before
  <2>2. Len(r) \notin A
    BY <1>2, <2>1 DEF Slides
  <2> HIDE DEF A
  <2> QED
    BY <1>2, <2>1, <2>2
<1>4. \A i \in A : i + shift \in B
  <2>1. \A i \in A : i + shift \in DOMAIN q
    <3> HIDE DEF A
    <3> QED
      BY <1>1, <1>2, <1>3 DEF Slides
  <2>2. \A i \in A : r[i] = q[i + shift]
    <3> HIDE DEF A
    <3> QED
      BY <1>3 DEF Slides
  <2>3. \A i \in A : r[i] < x
    BY DEF Before
  <2> QED
    BY <2>1, <2>2, <2>3 DEF Before
<1>5. shift \in Nat
  BY DEF Slides
<1>6. IsFiniteSet(B)
  BY CountsAreFinite
<1> HIDE DEF A, B
<1>7. f \in Injection(A, B)
  <2>1. f \in [A -> B] /\ \A i \in A : f[i] = i + shift
    BY <1>4 DEF A
  <2> HIDE DEF f
  <2>2. \A i, j \in A : f[i] = f[j] => i = j
    BY <1>3, <1>5, <2>1
  <2> QED
    BY <2>1, <2>2 DEF Injection, IsInjective
<1> HIDE DEF f
<1>8. Cardinality(A) <= Cardinality(B)
  BY <1>6, <1>7, FS_Injection
<1> QED
  BY <1>8 DEF A, B

\* So the median of the window does not fall.
LEMMA SlidesKeepsMedian ==
  ASSUME NEW q, Times(q), NEW r, Times(r), NEW shift,
         Slides(q, r, SortedAt(q, Len(q) \div 2 + 1), shift)
  PROVE  SortedAt(r, Len(r) \div 2 + 1) >= SortedAt(q, Len(q) \div 2 + 1)
<1> DEFINE m == SortedAt(q, Len(q) \div 2 + 1)
           t == SortedAt(r, Len(r) \div 2 + 1)
<1>1. m \in Nat /\ Cardinality(Before(q, m)) <= Len(q) \div 2
  BY MedianOf
<1>2. t \in Nat /\ Cardinality(UpTo(r, t)) > Len(r) \div 2
  BY MedianOf
<1>3. Slides(q, r, m, shift)
  OBVIOUS
<1> HIDE DEF m, t
<1>4. Cardinality(Before(r, m)) <= Cardinality(Before(q, m))
  BY <1>1, <1>3, SlidesKeepsBefore
<1>5. Len(q) \div 2 <= Len(r) \div 2
  <2>1. Len(q) \in Nat /\ Len(r) \in Nat
    BY TimesCount
  <2> QED
    BY <1>3, <2>1 DEF Slides
<1>6. ASSUME t < m PROVE FALSE
  <2>1. \A i \in DOMAIN r : r[i] \in Nat
    BY TimesCount
  <2>2. UpTo(r, t) \in SUBSET Before(r, m)
    BY <1>1, <1>2, <1>6, <2>1 DEF UpTo, Before
  <2>3. Cardinality(UpTo(r, t)) <= Cardinality(Before(r, m))
    BY <2>2, CountsAreFinite, FS_Subset
  <2>4. /\ Cardinality(UpTo(r, t)) \in Nat /\ Cardinality(Before(r, m)) \in Nat
        /\ Cardinality(Before(q, m)) \in Nat
    BY CountsAreFinite
  <2>5. Len(q) \in Nat /\ Len(r) \in Nat
    BY TimesCount
  <2> QED
    BY <1>1, <1>2, <1>4, <1>5, <2>3, <2>4, <2>5
<1>7. t >= m
  BY <1>1, <1>2, <1>6
<1> QED
  BY <1>7 DEF m, t

\* The branch is never empty and its timestamps are numbers.
BranchInv ==
  /\ branch \in Seq(Range(branch)) /\ Len(branch) > 0
  /\ \A i \in 1..Len(branch) : branch[i].timestamp \in Nat

LEMMA WindowOfBranch ==
  ASSUME NEW nodes, NEW S, nodes \in Seq(S), Len(nodes) > 0,
         \A i \in 1..Len(nodes) : nodes[i].timestamp \in Nat
  PROVE  LET first == IF Len(nodes) > medianTimeBlocks THEN Len(nodes) - medianTimeBlocks + 1
                                                       ELSE 1
             q == LastTimestamps(nodes)
         IN  /\ first \in 1..Len(nodes)
             /\ Times(q) /\ Len(q) = Len(nodes) - first + 1
             /\ \A i \in 1..Len(q) : q[i] = nodes[first + i - 1].timestamp
<1> DEFINE first == IF Len(nodes) > medianTimeBlocks THEN Len(nodes) - medianTimeBlocks + 1
                                                     ELSE 1
           n == Len(nodes) - first + 1
           q == [i \in 1..n |-> nodes[first + i - 1].timestamp]
<1>1. medianTimeBlocks \in Nat \ {0} /\ Len(nodes) \in Nat
  BY HeaderAssumption
<1>2. first \in 1..Len(nodes)
  BY <1>1
<1>3. LastTimestamps(nodes) = q
  BY DEF LastTimestamps
<1> HIDE DEF first
<1>4. n \in Nat \ {0} /\ \A i \in 1..n : first + i - 1 \in 1..Len(nodes)
  BY <1>1, <1>2
<1> HIDE DEF n
<1>5. q \in [1..n -> Nat] /\ \A i \in 1..n : q[i] = nodes[first + i - 1].timestamp
  BY <1>4
<1> HIDE DEF q
<1>6. Times(q) /\ Len(q) = n
  BY <1>4, <1>5 DEF Times
<1> QED
  BY <1>2, <1>3, <1>5, <1>6 DEF first, n

LEMMA WindowArithmetic ==
  ASSUME NEW i \in Int, NEW s \in Int, NEW l \in Int, NEW f \in Int, NEW m \in Int, NEW n \in Int,
         f >= 1, s = 0 \/ s = 1, m = l - f + 1, n = m + 1 - s, i >= 1, i <= n - 1
  PROVE  i \in 1..n /\ i + s \in 1..m /\ f + (i + s) - 1 \in 1..l
<1>1. i \in 1..n
  OBVIOUS
<1>2. i + s >= 1 /\ i + s <= m
  OBVIOUS
<1>3. f + (i + s) - 1 >= 1 /\ f + (i + s) - 1 <= l
  OBVIOUS
<1> QED
  BY <1>1, <1>2, <1>3

LEMMA ConnectKeepsMedian ==
  ASSUME BranchInv, NEW h, h.timestamp \in Nat, ConnectHeader(h)
  PROVE  BranchInv' /\ CalcPastMedianTime(branch') >= CalcPastMedianTime(branch)
<1> DEFINE B == Append(branch, h)
           q == LastTimestamps(branch)
           r == LastTimestamps(B)
           L == Len(branch)
           S == Range(branch) \cup {h}
           F(n) == IF n > medianTimeBlocks THEN n - medianTimeBlocks + 1 ELSE 1
           shift == F(L + 1) - F(L)
<1>1. /\ branch' = B /\ h.timestamp > CalcPastMedianTime(branch)
  BY DEF ConnectHeader, Accepted, PowCheckBlockContext
<1>2. /\ branch \in Seq(S) /\ L \in Nat /\ L > 0 /\ B \in Seq(S) /\ Len(B) = L + 1 /\ B[L + 1] = h
      /\ \A i \in 1..L : B[i] = branch[i]
  BY DEF BranchInv
<1>3. \A i \in 1..L : branch[i].timestamp \in Nat
  BY DEF BranchInv
<1>4. \A i \in 1..L + 1 : B[i].timestamp \in Nat
  <2>1. \A i \in 1..L + 1 : i \in 1..L \/ i = L + 1
    BY <1>2
  <2> HIDE DEF B, L
  <2> QED
    BY <1>2, <1>3, <2>1
<1> HIDE DEF B, S
<1>5. BranchInv'
  <2>1. DOMAIN B = 1..L + 1 /\ B \in Seq(Range(B))
    <3>1. DOMAIN B = 1..L + 1 /\ \A i \in 1..L + 1 : B[i] \in Range(B)
      BY <1>2 DEF Range
    <3> QED
      BY <1>2, <3>1
  <2> QED
    BY <1>1, <1>2, <1>4, <2>1 DEF BranchInv
<1>6. /\ F(L) \in 1..L /\ Times(q) /\ Len(q) = L - F(L) + 1
      /\ \A i \in 1..Len(q) : q[i] = branch[F(L) + i - 1].timestamp
  BY <1>2, <1>3, WindowOfBranch
<1>7. /\ F(L + 1) \in 1..L + 1 /\ Times(r) /\ Len(r) = L + 1 - F(L + 1) + 1
      /\ \A i \in 1..Len(r) : r[i] = B[F(L + 1) + i - 1].timestamp
  <2>1. Len(B) > 0 /\ \A i \in 1..Len(B) : B[i].timestamp \in Nat
    BY <1>2, <1>4
  <2>2. /\ F(Len(B)) \in 1..Len(B) /\ Times(r) /\ Len(r) = Len(B) - F(Len(B)) + 1
        /\ \A i \in 1..Len(r) : r[i] = B[F(Len(B)) + i - 1].timestamp
    BY <1>2, <2>1, WindowOfBranch
  <2> HIDE DEF F, r
  <2> QED
    BY <1>2, <2>2
<1>8. shift \in {0, 1} /\ F(L) \in Nat /\ F(L + 1) = F(L) + shift
  BY <1>2, HeaderAssumption
<1> HIDE DEF q, r, F, L
<1>9. Slides(q, r, SortedAt(q, Len(q) \div 2 + 1), shift)
  <2> HIDE DEF shift
  <2>0. /\ L \in Int /\ F(L) \in Int /\ shift \in Int /\ Len(q) = L - F(L) + 1
        /\ F(L + 1) = F(L) + shift /\ Len(r) = L + 1 - F(L + 1) + 1
    BY <1>2, <1>6, <1>7, <1>8
  <2>1. Len(r) = Len(q) + 1 - shift
    <3>1. \A l, f, s \in Int : l + 1 - (f + s) + 1 = l - f + 1 + 1 - s
      OBVIOUS
    <3>2. L \in Int /\ F(L) \in Int /\ shift \in Int
      BY <2>0
    <3>3. L + 1 - (F(L) + shift) + 1 = L - F(L) + 1 + 1 - shift
      BY <3>1, <3>2, Zenon
    <3>4. Len(r) = L + 1 - (F(L) + shift) + 1 /\ Len(q) = L - F(L) + 1
      BY <2>0, Zenon
    <3> QED
      BY <3>3, <3>4, Zenon
  <2>2. ASSUME NEW i \in 1..Len(r) - 1 PROVE r[i] = q[i + shift]
    <3>1. /\ i \in 1..Len(r) /\ i + shift \in 1..Len(q)
          /\ F(L + 1) + i - 1 \in 1..L /\ F(L + 1) + i - 1 = F(L) + (i + shift) - 1
      <4>1. F(L) >= 1 /\ (shift = 0 \/ shift = 1)
        BY <1>6, <1>8
      <4>2. Len(q) \in Int /\ Len(r) \in Int
        BY <2>0
      <4>3. i \in Int /\ i >= 1 /\ i <= Len(r) - 1
        BY <4>2
      <4>4. F(L) \in Int /\ L \in Int /\ shift \in Int /\ Len(q) = L - F(L) + 1
        BY <2>0
      <4>5. F(L + 1) + i - 1 = F(L) + (i + shift) - 1
        BY <2>0, <4>3
      <4>6. i \in 1..Len(r) /\ i + shift \in 1..Len(q) /\ F(L) + (i + shift) - 1 \in 1..L
        BY <2>1, <4>1, <4>2, <4>3, <4>4, WindowArithmetic
      <4> QED
        BY <4>5, <4>6
    <3>2. r[i] = B[F(L + 1) + i - 1].timestamp
      BY <1>7, <3>1
    <3>3. q[i + shift] = branch[F(L) + (i + shift) - 1].timestamp
      BY <1>6, <3>1
    <3> QED
      BY <1>2, <3>1, <3>2, <3>3
  <2>3. r[Len(r)] > SortedAt(q, Len(q) \div 2 + 1)
    <3>1. Len(r) \in 1..Len(r) /\ F(L + 1) + Len(r) - 1 = L + 1
      BY <1>2, <1>7
    <3>2. r[Len(r)] = h.timestamp
      BY <1>2, <1>7, <3>1
    <3> QED
      BY <1>1, <3>2 DEF CalcPastMedianTime, q
  <2> QED
    BY <1>8, <2>1, <2>2, <2>3 DEF Slides
<1> HIDE DEF shift
<1>10. SortedAt(r, Len(r) \div 2 + 1) >= SortedAt(q, Len(q) \div 2 + 1)
  BY <1>6, <1>7, <1>9, SlidesKeepsMedian
<1> QED
  BY <1>1, <1>5, <1>10 DEF CalcPastMedianTime, q, r

LEMMA HeaderStep ==
  ASSUME BranchInv, [HeaderNext]_headerVars
  PROVE  BranchInv' /\ [CalcPastMedianTime(branch') >= CalcPastMedianTime(branch)]_headerVars
<1>1. CASE branch' = branch
  <2>1. BranchInv'
    BY <1>1 DEF BranchInv
  <2>2. CalcPastMedianTime(branch) \in Nat
    BY MedianOf, WindowOfBranch DEF BranchInv, CalcPastMedianTime
  <2> QED
    BY <1>1, <2>1, <2>2
<1>2. CASE \E t \in Timestamps, bits \in Bits : ConnectHeader([timestamp |-> t, bits |-> bits])
  <2>1. PICK t \in Timestamps, bits \in Bits : ConnectHeader([timestamp |-> t, bits |-> bits])
    BY <1>2
  <2>2. t \in Nat
    BY DEF Timestamps
  <2> DEFINE h == [timestamp |-> t, bits |-> bits]
  <2>3. h.timestamp \in Nat /\ ConnectHeader(h)
    BY <2>1, <2>2
  <2> HIDE DEF h
  <2> QED
    BY <2>3, ConnectKeepsMedian
<1> QED
  BY <1>1, <1>2 DEF HeaderNext, Tick, RestartNode, headerVars

LEMMA HeaderInitBranch ==
  ASSUME HeaderInit
  PROVE  BranchInv
<1> DEFINE g == [timestamp |-> GenesisTime, bits |-> GenesisBits]
<1>1. branch = <<g>> /\ Len(branch) = 1 /\ branch[1] = g /\ DOMAIN branch = 1..1
  BY DEF HeaderInit
<1>2. g.timestamp \in Nat
  BY HeaderAssumption
<1> HIDE DEF g
<1>3. branch[1] \in Range(branch)
  BY <1>1 DEF Range
<1> QED
  BY <1>1, <1>2, <1>3 DEF BranchInv

\* However the miners stamp their blocks and however long the window is, the median
\* time past of the branch (CalcPastMedianTime) does not fall when a block is
\* connected: PowCheckBlockContext asks for a timestamp after the median, and that
\* is enough, whether the window is still growing or drops its oldest timestamp.
THEOREM MedianRises == HeaderInit /\ [][HeaderNext]_headerVars => MedianNeverFalls
<1>1. HeaderInit => BranchInv
  BY HeaderInitBranch
<1>2. BranchInv /\ [HeaderNext]_headerVars
        => BranchInv' /\ [CalcPastMedianTime(branch') >= CalcPastMedianTime(branch)]_headerVars
  BY HeaderStep
<1> QED
  BY <1>1, <1>2, PTL DEF MedianNeverFalls

-----------------------------------------------------------------------------
(* The time of a template.                                                 *)

\* The cached median is that of the branch or was lost by a restart, and no block
\* of the branch was further ahead of the clock than MaxTimeOffsetSeconds.
TimesInv ==
  /\ BranchInv /\ now \in Nat
  /\ MedianTimePast \in {0, CalcPastMedianTime(branch)}
  /\ \A i \in 1..Len(branch) : branch[i].timestamp <= now + MaxTimeOffsetSeconds

LEMMA MedianIsATimestamp ==
  ASSUME BranchInv
  PROVE  /\ CalcPastMedianTime(branch) \in Nat
         /\ \E i \in 1..Len(branch) : CalcPastMedianTime(branch) = branch[i].timestamp
<1> DEFINE q == LastTimestamps(branch)
           first == IF Len(branch) > medianTimeBlocks THEN Len(branch) - medianTimeBlocks + 1
                                                      ELSE 1
           m == CalcPastMedianTime(branch)
<1>1. /\ first \in 1..Len(branch) /\ Times(q) /\ Len(q) = Len(branch) - first + 1
      /\ \A i \in 1..Len(q) : q[i] = branch[first + i - 1].timestamp
  BY WindowOfBranch DEF BranchInv
<1> HIDE DEF q, first
<1>2. m \in Nat /\ m \in Range(q)
  BY <1>1, MedianOf DEF CalcPastMedianTime, q
<1> HIDE DEF m
<1>3. PICK i \in 1..Len(q) : m = q[i]
  BY <1>1, <1>2, TimesCount
<1>4. first + i - 1 \in 1..Len(branch)
  <2>1. Len(branch) \in Nat
    BY DEF BranchInv
  <2> QED
    BY <1>1, <2>1
<1> QED
  BY <1>1, <1>2, <1>3, <1>4 DEF m

LEMMA TimesInvInductive ==
  ASSUME TimesInv, [HeaderNext]_headerVars
  PROVE  TimesInv'
<1>1. BranchInv /\ now \in Nat /\ MaxTimeOffsetSeconds \in Nat
  BY HeaderAssumption DEF TimesInv
<1>2. BranchInv'
  BY <1>1, HeaderStep
<1>3. CASE UNCHANGED headerVars
  <2>1. UNCHANGED <<branch, MedianTimePast, now>>
    BY <1>3 DEF headerVars
  <2> QED
    BY <1>2, <2>1 DEF TimesInv
<1>4. CASE Tick
  <2>1. now' \in Nat /\ now' > now /\ branch' = branch /\ MedianTimePast' = MedianTimePast
    BY <1>1, <1>4 DEF Tick
  <2>2. ASSUME NEW i \in 1..Len(branch)
        PROVE  branch[i].timestamp <= now' + MaxTimeOffsetSeconds
    <3>1. branch[i].timestamp \in Nat /\ branch[i].timestamp <= now + MaxTimeOffsetSeconds
      BY DEF TimesInv, BranchInv
    <3> QED
      BY <1>1, <2>1, <3>1
  <2> QED
    BY <1>2, <2>1, <2>2 DEF TimesInv
<1>5. CASE RestartNode
  BY <1>2, <1>5 DEF RestartNode, TimesInv
<1>6. CASE \E t \in Timestamps, bits \in Bits : ConnectHeader([timestamp |-> t, bits |-> bits])
  <2>1. PICK t \in Timestamps, bits \in Bits : ConnectHeader([timestamp |-> t, bits |-> bits])
    BY <1>6
  <2> DEFINE h == [timestamp |-> t, bits |-> bits]
  <2>2. /\ branch' = Append(branch, h) /\ MedianTimePast' = CalcPastMedianTime(branch')
        /\ now' = now /\ h.timestamp <= now + MaxTimeOffsetSeconds
    BY <2>1 DEF ConnectHeader, Accepted, PowCheckBlockSanity
  <2> HIDE DEF h
  <2>3. ASSUME NEW i \in 1..Len(branch')
        PROVE  branch'[i].timestamp <= now + MaxTimeOffsetSeconds
    <3>1. /\ Len(branch) \in Nat /\ Len(branch') = Len(branch) + 1
          /\ branch'[Len(branch) + 1] = h
          /\ \A j \in 1..Len(branch) : branch'[j] = branch[j]
      BY <1>1, <2>2 DEF BranchInv
    <3>2. i \in 1..Len(branch) \/ i = Len(branch) + 1
      BY <3>1
    <3> QED
      BY <2>2, <3>1, <3>2 DEF TimesInv
  <2> QED
    BY <1>1, <1>2, <2>2, <2>3 DEF TimesInv
<1> QED
  BY <1>3, <1>4, <1>5, <1>6 DEF HeaderNext

\* The time half of TemplateAccepted: what GenerateBlock stamps is after the median
\* time past and no further ahead than MaxTimeOffsetSeconds a second later, unless
\* the node has just started and its clock is behind the median.
TemplateOnTime ==
  \/ /\ GenerateBlock.timestamp > CalcPastMedianTime(branch)
     /\ GenerateBlock.timestamp <= now + 1 + MaxTimeOffsetSeconds
  \/ MedianTimePast = 0 /\ now <= CalcPastMedianTime(branch)

\* The node's own templates never fail the time checks of PowCheckBlockSanity and
\* PowCheckBlockContext, however far others stamped their blocks ahead: the cached
\* MedianTimePast is that of the tip, and the median is one of the timestamps that
\* were checked against the clock.
THEOREM TemplatesOnTime == HeaderInit /\ [][HeaderNext]_headerVars => []TemplateOnTime
<1>1. HeaderInit => TimesInv
  <2> SUFFICES ASSUME HeaderInit PROVE TimesInv
    OBVIOUS
  <2>1. BranchInv
    BY HeaderInitBranch
  <2>2. /\ GenesisTime \in Nat /\ MaxTimeOffsetSeconds \in Nat /\ now = GenesisTime + 1
        /\ MedianTimePast = 0
    BY HeaderAssumption DEF HeaderInit
  <2>3. Len(branch) = 1 /\ branch[1].timestamp = GenesisTime
    BY DEF HeaderInit
  <2>4. \A i \in 1..Len(branch) : branch[i].timestamp <= now + MaxTimeOffsetSeconds
    BY <2>2, <2>3
  <2> QED
    BY <2>1, <2>2, <2>4 DEF TimesInv
<1>2. TimesInv /\ [HeaderNext]_headerVars => TimesInv'
  BY TimesInvInductive
<1>3. TimesInv => TemplateOnTime
  <2> SUFFICES ASSUME TimesInv PROVE TemplateOnTime
    OBVIOUS
  <2> DEFINE m == CalcPastMedianTime(branch)
  <2>1. PICK i \in 1..Len(branch) : m = branch[i].timestamp
    BY MedianIsATimestamp DEF TimesInv
  <2>2. m \in Nat /\ now \in Nat /\ MaxTimeOffsetSeconds \in Nat
    BY MedianIsATimestamp, HeaderAssumption DEF TimesInv
  <2>3. m <= now + MaxTimeOffsetSeconds /\ MedianTimePast \in {0, m}
    BY <2>1 DEF TimesInv
  <2>4. GenerateBlock.timestamp = IF now < MedianTimePast + 1 THEN MedianTimePast + 1 ELSE now
    BY DEF GenerateBlock, MedianAdjustedTime
  <2> HIDE DEF m
  <2>5. CASE MedianTimePast = m
    <3>1. GenerateBlock.timestamp > m
      BY <2>2, <2>4, <2>5
    <3>2. GenerateBlock.timestamp <= now + 1 + MaxTimeOffsetSeconds
      BY <2>2, <2>3, <2>4, <2>5
    <3> QED
      BY <3>1, <3>2 DEF TemplateOnTime, m
  <2>6. CASE MedianTimePast = 0 /\ now > m
    <3>1. GenerateBlock.timestamp = now
      BY <2>2, <2>4, <2>6
    <3>2. GenerateBlock.timestamp > m /\ GenerateBlock.timestamp <= now + 1 + MaxTimeOffsetSeconds
      BY <2>2, <2>6, <3>1
    <3> QED
      BY <3>2 DEF TemplateOnTime, m
  <2>7. CASE MedianTimePast = 0 /\ now <= m
    BY <2>7 DEF TemplateOnTime, m
  <2> QED
    BY <2>2, <2>3, <2>5, <2>6, <2>7
<1> QED
  BY <1>1, <1>2, <1>3, PTL
=============================================================================
