--------------------------- MODULE BlockSync_proofs ---------------------------
(***************************************************************************)
(* The synchronisation of blocks, for any number of peers, any tree of     *)
(* blocks and any length of messages: the node's own chain is a path whose *)
(* blocks all have a node, a peer is asked only for blocks that it has,    *)
(* and what was asked for is under way until it is there; and one          *)
(* getblocks between two chains of any length finds where they part.       *)
(***************************************************************************)
EXTENDS BlockSync, LocatorExchange, FiniteSetTheorems, WellFoundedInduction, TLAPS

-----------------------------------------------------------------------------
(* Numbers, loops and lists.                                               *)

\* A set of naturals that is not empty has a least element.
LEMMA LeastOf ==
  ASSUME NEW T \in SUBSET Nat, T # {}
  PROVE  \E x \in T : \A y \in T : x <= y
<1>1. IsWellFoundedOn(OpToRel(<, Nat), Nat)
  BY NatLessThanWellFounded
<1>2. PICK x \in T : \A y \in T : ~(<<y, x>> \in OpToRel(<, Nat))
  BY <1>1, WFMin
<1>3. \A y \in T : ~(y < x)
  BY <1>2 DEF OpToRel
<1> QED
  BY <1>3

\* What holds at 0 and is kept by each of n steps holds up to n.
LEMMA UpTo ==
  ASSUME NEW n \in Nat, NEW T, 0 \in T, \A k \in 1..n : k - 1 \in T => k \in T
  PROVE  \A k \in 0..n : k \in T
<1> DEFINE Bad == {k \in 0..n : k \notin T}
<1> SUFFICES ASSUME Bad # {} PROVE FALSE
  OBVIOUS
<1>1. PICK m \in Bad : \A l \in Bad : m <= l
  <2>1. Bad \in SUBSET Nat
    OBVIOUS
  <2> HIDE DEF Bad
  <2> QED
    BY <2>1, LeastOf
<1>2. m \in 1..n /\ m - 1 \in 0..n
  OBVIOUS
<1>3. m - 1 \notin Bad
  BY <1>1, <1>2
<1> QED
  BY <1>2, <1>3

IsStep(A, n, step) == step \in [(1..n) \X A -> A]
IsRun(A, base, n, step, f) ==
  /\ f \in [0..n -> A] /\ f[0] = base
  /\ \A k \in 1..n : f[k] = step[<<k, f[k - 1]>>]

\* A loop of n steps on the values of A has a run.
LEMMA LoopRuns ==
  ASSUME NEW A, NEW base \in A, NEW n \in Nat, NEW step, IsStep(A, n, step)
  PROVE  \E f : IsRun(A, base, n, step, f)
<1>0. step \in [(1..n) \X A -> A]
  BY DEF IsStep
<1> DEFINE Runs(f, m) == /\ f \in [0..m -> A] /\ f[0] = base
                         /\ \A k \in 1..m : f[k] = step[<<k, f[k - 1]>>]
           T == {m \in 0..n : \E f : Runs(f, m)}
<1>1. 0 \in T
  <2>1. Runs([k \in 0..0 |-> base], 0)
    OBVIOUS
  <2>2. 0 \in 0..n
    OBVIOUS
  <2> HIDE DEF Runs
  <2> QED
    BY <2>1, <2>2
<1>2. ASSUME NEW m \in 1..n, m - 1 \in T PROVE m \in T
  <2>1. PICK f : Runs(f, m - 1)
    BY <1>2
  <2> DEFINE new == step[<<m, f[m - 1]>>]
             g == [k \in 0..m |-> IF k = m THEN new ELSE f[k]]
  <2>2. m - 1 \in 0..m - 1 /\ m \in 0..m /\ m # 0
    OBVIOUS
  <2>3. new \in A
    BY <1>0, <2>1, <2>2
  <2>4. \A k \in 0..m - 1 : k \in 0..m /\ k # m
    OBVIOUS
  <2>5. \A k \in 0..m - 1 : g[k] = f[k]
    BY <2>4
  <2>6. g[m] = new
    BY <2>2
  <2>7. g \in [0..m -> A]
    <3> SUFFICES ASSUME NEW k \in 0..m, k # m PROVE f[k] \in A
      BY <2>3
    <3>1. k \in 0..m - 1
      OBVIOUS
    <3> QED
      BY <2>1, <3>1
  <2>8. g[0] = base
    BY <2>1, <2>5
  <2>9. ASSUME NEW k \in 1..m PROVE g[k] = step[<<k, g[k - 1]>>]
    <3>1. k - 1 \in 0..m - 1
      OBVIOUS
    <3>2. CASE k = m
      BY <2>5, <2>6, <3>1, <3>2
    <3>3. CASE k # m
      <4>1. k \in 1..m - 1 /\ k \in 0..m - 1
        BY <3>3
      <4> HIDE DEF g, new
      <4> QED
        BY <2>1, <2>5, <3>1, <4>1
    <3> QED
      BY <3>2, <3>3
  <2>10. Runs(g, m)
    BY <2>7, <2>8, <2>9
  <2>11. m \in 0..n
    OBVIOUS
  <2> QED
    BY <2>10, <2>11
<1>3. n \in T
  <2> HIDE DEF T
  <2>1. \A k \in 0..n : k \in T
    BY <1>1, <1>2, UpTo
  <2> QED
    BY <2>1
<1> QED
  BY <1>3 DEF IsRun

LEMMA RangeOfJoin ==
  ASSUME NEW X, NEW s \in Seq(X), NEW t \in Seq(X)
  PROVE  s \o t \in Seq(X) /\ Range(s \o t) = Range(s) \cup Range(t)
<1> DEFINE m == Len(s)
           n == Len(t)
           u == s \o t
<1>1. /\ m \in Nat /\ n \in Nat /\ u \in Seq(X)
      /\ DOMAIN s = 1..m /\ DOMAIN t = 1..n /\ DOMAIN u = 1..m + n
      /\ \A i \in 1..m : u[i] = s[i]
      /\ \A i \in 1..n : u[m + i] = t[i]
  OBVIOUS
<1> HIDE DEF m, n, u
<1>2. ASSUME NEW i \in 1..m + n PROVE i \in 1..m \/ \E j \in 1..n : i = m + j
  <2>1. CASE i > m
    <3>1. i - m \in 1..n /\ i = m + (i - m)
      BY <1>1, <2>1
    <3> QED
      BY <3>1
  <2>2. CASE ~(i > m)
    BY <1>1, <2>2
  <2> QED
    BY <2>1, <2>2
<1>3. \A i \in 1..m : i \in 1..m + n
  BY <1>1
<1>4. \A i \in 1..n : m + i \in 1..m + n
  BY <1>1
<1>5. Range(u) \subseteq Range(s) \cup Range(t)
  <2> SUFFICES ASSUME NEW i \in 1..m + n PROVE u[i] \in Range(s) \cup Range(t)
    BY <1>1 DEF Range
  <2>1. CASE i \in 1..m
    BY <1>1, <2>1 DEF Range
  <2>2. ASSUME NEW j \in 1..n, i = m + j PROVE u[i] \in Range(t)
    BY <1>1, <2>2 DEF Range
  <2> QED
    BY <1>2, <2>1, <2>2
<1>6. Range(s) \subseteq Range(u) /\ Range(t) \subseteq Range(u)
  BY <1>1, <1>3, <1>4 DEF Range
<1> QED
  BY <1>1, <1>5, <1>6 DEF u

\* The elements of a list that is put together from lists.
LEMMA Flattened ==
  ASSUME NEW X, NEW n \in Nat, NEW seqs \in [1..n -> Seq(X)]
  PROVE  /\ FlattenSeq(seqs) \in Seq(X)
         /\ \A i \in 1..n : Range(seqs[i]) \subseteq Range(FlattenSeq(seqs))
         /\ Range(FlattenSeq(seqs)) \subseteq UNION {Range(seqs[i]) : i \in 1..n}
<1>1. seqs \in Seq(Seq(X)) /\ Len(seqs) = n
  OBVIOUS
<1>2. CASE n = 0
  <2>1. FlattenSeq(seqs) = seqs
    BY <1>1, <1>2 DEF FlattenSeq
  <2>2. seqs = <<>>
    BY <1>1, <1>2
  <2> QED
    BY <1>2, <2>1, <2>2 DEF Range
<1>3. CASE n # 0
  <2> DEFINE step == [x \in (1..n) \X Seq(X) |-> x[2] \o seqs[x[1]]]
             eqn(f) == [i \in 1..n |-> IF i = 1 THEN seqs[i] ELSE f[i - 1] \o seqs[i]]
             flat == CHOOSE f : f = eqn(f)
  <2>1. step \in [(1..n) \X Seq(X) -> Seq(X)] /\ <<>> \in Seq(X)
    OBVIOUS
  <2>2. PICK f \in [0..n -> Seq(X)] :
           f[0] = <<>> /\ \A k \in 1..n : f[k] = step[<<k, f[k - 1]>>]
    <3> DEFINE A == Seq(X)
               base == <<>>
    <3>1. IsStep(A, n, step) /\ base \in A
      BY <2>1 DEF IsStep
    <3> HIDE DEF step, A, base
    <3>2. \E f : IsRun(A, base, n, step, f)
      BY <3>1, LoopRuns
    <3> QED
      BY <3>2 DEF A, base, IsRun
  <2>3. ASSUME NEW k \in 1..n PROVE f[k] = f[k - 1] \o seqs[k] /\ f[k] \in Seq(X)
    <3>1. k - 1 \in 0..n /\ k \in 0..n
      OBVIOUS
    <3> QED
      BY <2>2, <3>1
  <2>4. f[1] = seqs[1] /\ 1 \in 1..n
    <3>1. 1 \in 1..n /\ 1 - 1 = 0
      BY <1>3
    <3>2. f[1] = f[1 - 1] \o seqs[1]
      BY <2>3, <3>1
    <3>3. seqs[1] \in Seq(X)
      BY <3>1
    <3>4. f[1 - 1] = <<>>
      BY <2>2
    <3> QED
      BY <3>1, <3>2, <3>3, <3>4
  <2> HIDE DEF step
  <2>5. \E g : g = eqn(g)
    <3> DEFINE g == [i \in 1..n |-> f[i]]
    <3>1. ASSUME NEW i \in 1..n
          PROVE  g[i] = IF i = 1 THEN seqs[i] ELSE g[i - 1] \o seqs[i]
      <4>1. CASE i = 1
        BY <2>4, <4>1
      <4>2. CASE i # 1
        <5>1. i - 1 \in 1..n
          BY <4>2
        <5> QED
          BY <2>3, <4>2, <5>1
      <4> QED
        BY <4>1, <4>2
    <3>2. g = eqn(g)
      BY <3>1
    <3> QED
      BY <3>2
  <2>6. FlattenSeq(seqs) = flat[n]
    BY <1>1, <1>3 DEF FlattenSeq
  <2>7. flat = eqn(flat)
    <3> HIDE DEF eqn
    <3> QED
      BY <2>5
  <2> HIDE DEF flat
  <2>8. \A i \in 1..n : flat[i] = IF i = 1 THEN seqs[i] ELSE flat[i - 1] \o seqs[i]
    BY <2>7
  <2> DEFINE Good(k) == /\ flat[k] \in Seq(X)
                        /\ \A i \in 1..k : Range(seqs[i]) \subseteq Range(flat[k])
                        /\ Range(flat[k]) \subseteq UNION {Range(seqs[i]) : i \in 1..k}
             T == {k \in 0..n : k = 0 \/ Good(k)}
  <2>9. 0 \in T
    OBVIOUS
  <2>10. ASSUME NEW k \in 1..n, k - 1 \in T PROVE k \in T
    <3>1. CASE k = 1
      BY <2>4, <2>8, <3>1
    <3>2. CASE k # 1
      <4>0. k - 1 \in 1..n /\ k - 1 # 0
        BY <3>2
      <4>1. Good(k - 1)
        <5> HIDE DEF Good
        <5> QED
          BY <2>10, <4>0
      <4>2. flat[k] = flat[k - 1] \o seqs[k]
        BY <2>8, <3>2
      <4>3. flat[k] \in Seq(X) /\ Range(flat[k]) = Range(flat[k - 1]) \cup Range(seqs[k])
        BY <4>1, <4>2, RangeOfJoin
      <4>4. \A i \in 1..k : i \in 1..k - 1 \/ i = k
        OBVIOUS
      <4>5. \A i \in 1..k - 1 : i \in 1..k
        OBVIOUS
      <4>6. \A i \in 1..k : Range(seqs[i]) \subseteq Range(flat[k])
        BY <4>1, <4>3, <4>4
      <4>7. Range(flat[k]) \subseteq UNION {Range(seqs[i]) : i \in 1..k}
        <5> SUFFICES ASSUME NEW x \in Range(flat[k])
                     PROVE  \E i \in 1..k : x \in Range(seqs[i])
          OBVIOUS
        <5>1. CASE x \in Range(seqs[k])
          BY <5>1
        <5>2. CASE x \in Range(flat[k - 1])
          <6>1. PICK i \in 1..k - 1 : x \in Range(seqs[i])
            BY <4>1, <5>2
          <6> QED
            BY <4>5, <6>1
        <5> QED
          BY <4>3, <5>1, <5>2
      <4>8. Good(k)
        BY <4>3, <4>6, <4>7
      <4> HIDE DEF Good
      <4> QED
        BY <4>8
    <3> QED
      BY <3>1, <3>2
  <2>11. n \in T
    <3> HIDE DEF T
    <3>1. \A k \in 0..n : k \in T
      BY <2>9, <2>10, UpTo
    <3> QED
      BY <3>1
  <2> QED
    BY <1>3, <2>6, <2>11
<1> QED
  BY <1>2, <1>3

\* SendGetBlocks sends some of the messages.
LEMMA SentAll ==
  ASSUME NEW X, NEW msgs \in Seq(X)
  PROVE  SendAll(msgs).sent \in Seq(X)
<1> DEFINE n == Len(msgs)
           first == [start |-> StartHash, stop |-> StopHash, sent |-> <<>>]
           Send(acc, m) == IF acc.start = m.locator[1] /\ acc.stop = m.stop
                             THEN acc
                             ELSE [start |-> m.locator[1], stop |-> m.stop,
                                   sent |-> Append(acc.sent, m)]
           Starts == {StartHash} \cup {m.locator[1] : m \in X}
           Stops == {StopHash} \cup {m.stop : m \in X}
           A == [start : Starts, stop : Stops, sent : Seq(X)]
           step == [x \in (1..n) \X A |-> Send(x[2], msgs[x[1]])]
           eqn(f) == [k \in 0..n |-> IF k = 0 THEN first ELSE Send(f[k - 1], msgs[k])]
           after == CHOOSE f : f = eqn(f)
<1>1. n \in Nat /\ \A k \in 1..n : msgs[k] \in X
  OBVIOUS
<1>2. first \in A
  OBVIOUS
<1>3. ASSUME NEW acc \in A, NEW m \in X PROVE Send(acc, m) \in A
  <2>1. m.locator[1] \in Starts /\ m.stop \in Stops /\ Append(acc.sent, m) \in Seq(X)
    OBVIOUS
  <2> QED
    BY <2>1
<1> HIDE DEF n
<1>4. IsStep(A, n, step)
  <2> HIDE DEF A, Send
  <2> QED
    BY <1>1, <1>3 DEF IsStep
<1>5. PICK f : IsRun(A, first, n, step, f)
  <2> HIDE DEF A, first, step
  <2> QED
    BY <1>1, <1>2, <1>4, LoopRuns
<1>6. f[0] = first /\ \A k \in 0..n : f[k] \in A
  BY <1>5 DEF IsRun
<1>7. ASSUME NEW k \in 1..n PROVE f[k] = Send(f[k - 1], msgs[k])
  <2>1. k - 1 \in 0..n
    BY <1>1
  <2>2. f[k] = step[<<k, f[k - 1]>>] /\ f[k - 1] \in A
    BY <1>5, <1>6, <2>1 DEF IsRun
  <2> HIDE DEF A, Send
  <2>3. step[<<k, f[k - 1]>>] = Send(f[k - 1], msgs[k])
    BY <2>2
  <2> QED
    BY <2>2, <2>3
<1> HIDE DEF step, Send, first
<1>8. \E g : g = eqn(g)
  <2> DEFINE g == [k \in 0..n |-> f[k]]
  <2>1. ASSUME NEW k \in 0..n PROVE g[k] = IF k = 0 THEN first ELSE Send(g[k - 1], msgs[k])
    <3>1. CASE k = 0
      BY <1>6, <3>1
    <3>2. CASE k # 0
      <4>1. k - 1 \in 0..n /\ k \in 1..n
        BY <1>1, <3>2
      <4> QED
        BY <1>7, <3>2, <4>1
    <3> QED
      BY <3>1, <3>2
  <2>2. g = eqn(g)
    BY <2>1
  <2> QED
    BY <2>2
<1>9. SendAll(msgs) = after[n]
  BY DEF SendAll, Send, first, n
<1>10. after = eqn(after)
  <2> HIDE DEF eqn
  <2> QED
    BY <1>8
<1> HIDE DEF after
<1>11. after[0] = first /\ \A k \in 1..n : after[k] = Send(after[k - 1], msgs[k])
  BY <1>1, <1>10
<1> DEFINE T == {k \in 0..n : after[k] \in A}
<1>12. 0 \in T
  <2> HIDE DEF A
  <2> QED
    BY <1>1, <1>2, <1>11
<1>13. ASSUME NEW k \in 1..n, k - 1 \in T PROVE k \in T
  <2>1. k \in 0..n
    BY <1>1
  <2> HIDE DEF A
  <2> QED
    BY <1>1, <1>3, <1>11, <1>13, <2>1
<1>14. n \in T
  <2> HIDE DEF T
  <2>1. \A k \in 0..n : k \in T
    BY <1>1, <1>12, <1>13, UpTo
  <2> QED
    BY <1>1, <2>1
<1> QED
  BY <1>9, <1>14

\* The hashes that answer a getblocks are those of the chain.
LEMMA AnswerIsOwn ==
  ASSUME NEW X, NEW own \in Seq(X), NEW start, NEW stop, NEW max \in Nat
  PROVE  GetBlockHashes(own, start, stop, max) \in Seq(Range(own))
<1> DEFINE n == Len(own)
           from == StartHeight(own, start)
           to == IF stop = EmptyHash THEN Height(own) ELSE HeightOf(own, stop)
           count == to - from
           len == IF count > max THEN max ELSE count
           R == Range(own)
<1>1. n \in Nat /\ DOMAIN own = 1..n /\ \A i \in 1..n : own[i] \in R
  BY DEF Range
<1>2. <<>> \in Seq(R)
  OBVIOUS
<1>3. CASE \/ \E hash \in {start, stop} \ {EmptyHash} : ~InStore(own, hash)
           \/ count < 0
  BY <1>2, <1>3 DEF GetBlockHashes
<1>4. CASE ~ (\/ \E hash \in {start, stop} \ {EmptyHash} : ~InStore(own, hash)
              \/ count < 0)
  <2>1. GetBlockHashes(own, start, stop, max) = HashesAfter(own, from, len)
    BY <1>4 DEF GetBlockHashes
  <2> HIDE DEF n, R
  <2>2. ASSUME NEW hash, InStore(own, hash)
        PROVE  HeightOf(own, hash) \in 0..n - 1
    <3>1. \E i \in 1..n : own[i] = hash
      BY <1>1, <2>2 DEF InStore, Range
    <3>2. (CHOOSE i \in DOMAIN own : own[i] = hash) \in 1..n
      BY <1>1, <3>1
    <3> QED
      BY <1>1, <3>2 DEF HeightOf
  <2>3. start = EmptyHash \/ InStore(own, start)
    BY <1>4
  <2>4. stop = EmptyHash \/ InStore(own, stop)
    BY <1>4
  <2>5. from \in Nat
    BY <1>1, <2>2, <2>3 DEF StartHeight
  <2>6. to \in Int /\ to <= n - 1
    <3>1. Height(own) = n - 1
      BY DEF Height, n
    <3> QED
      BY <1>1, <2>2, <2>4, <3>1
  <2>7. count \in Int /\ ~(count < 0)
    <3> HIDE DEF from, to
    <3> QED
      BY <1>4, <2>5, <2>6 DEF from, to
  <2>8. count = to - from
    OBVIOUS
  <2> HIDE DEF from, to, count
  <2>9. len \in Nat /\ len <= count
    BY <2>7
  <2> HIDE DEF len
  <2>10. ASSUME NEW i \in 1..len PROVE own[from + i + 1] \in R
    <3>1. from + i + 1 \in 1..n
      BY <1>1, <2>5, <2>6, <2>7, <2>8, <2>9
    <3> QED
      BY <1>1, <3>1
  <2>11. HashesAfter(own, from, len) = [i \in 1..len |-> own[from + i + 1]]
    BY DEF HashesAfter, GetBlockHash
  <2>12. [i \in 1..len |-> own[from + i + 1]] \in [1..len -> R]
    BY <2>10
  <2>13. [i \in 1..len |-> own[from + i + 1]] \in Seq(R)
    BY <2>9, <2>12
  <2> QED
    BY <2>1, <2>11, <2>13 DEF R
<1> QED
  BY <1>3, <1>4

-----------------------------------------------------------------------------
(* The tree of blocks.                                                     *)

\* f gives the chain to every block up to height m.
Chains(f, m) ==
  /\ f[Genesis] = <<Genesis>>
  /\ \A b \in Blocks \ {Genesis} : BlockHeight[b] <= m => f[b] = Append(f[Previous[b]], b)

LEMMA ChainsExist ==
  ASSUME NEW n \in Nat
  PROVE  \E f : Chains(f, n)
<1> DEFINE T == {m \in 0..n : \E f : Chains(f, m)}
<1> USE BlockSyncAssumption, TreeAssumption
<1>1. 0 \in T
  <2> DEFINE f == [b \in Blocks |-> <<b>>]
  <2>1. \A b \in Blocks \ {Genesis} : ~(BlockHeight[b] <= 0)
    OBVIOUS
  <2>2. Chains(f, 0)
    BY <2>1 DEF Chains
  <2> QED
    BY <2>2
<1>2. ASSUME NEW m \in 1..n, m - 1 \in T PROVE m \in T
  <2>1. PICK f : Chains(f, m - 1)
    BY <1>2
  <2> DEFINE g == [b \in Blocks |-> IF b # Genesis /\ BlockHeight[b] = m
                                      THEN Append(f[Previous[b]], b) ELSE f[b]]
  <2>2. g[Genesis] = <<Genesis>>
    BY <2>1 DEF Chains
  <2>3. ASSUME NEW b \in Blocks \ {Genesis}, BlockHeight[b] <= m
        PROVE  g[b] = Append(g[Previous[b]], b)
    <3>1. Previous[b] \in Blocks /\ BlockHeight[Previous[b]] # m
          /\ BlockHeight[b] \in Nat /\ m \in Nat
      BY <2>3
    <3>2. g[Previous[b]] = f[Previous[b]]
      BY <3>1
    <3>3. CASE BlockHeight[b] = m
      BY <3>2, <3>3
    <3>4. CASE BlockHeight[b] # m
      <4>1. BlockHeight[b] <= m - 1
        BY <2>3, <3>1, <3>4
      <4>2. f[b] = Append(f[Previous[b]], b)
        BY <2>1, <4>1 DEF Chains
      <4> QED
        BY <3>2, <3>4, <4>2
    <3> QED
      BY <3>3, <3>4
  <2>4. Chains(g, m)
    BY <2>2, <2>3 DEF Chains
  <2>5. m \in 0..n
    OBVIOUS
  <2> QED
    BY <2>4, <2>5
<1>3. n \in T
  <2> HIDE DEF T
  <2>1. \A k \in 0..n : k \in T
    BY <1>1, <1>2, UpTo
  <2> QED
    BY <2>1
<1> QED
  BY <1>3

LEMMA ChainsAgree ==
  ASSUME NEW f, NEW g, NEW m \in Nat, NEW n \in Nat, Chains(f, m), Chains(g, n),
         NEW c \in Blocks, BlockHeight[c] <= m, BlockHeight[c] <= n
  PROVE  f[c] = g[c]
<1> USE BlockSyncAssumption, TreeAssumption
<1> DEFINE l == BlockHeight[c]
           T == {k \in 0..l : \A b \in Blocks : BlockHeight[b] = k => f[b] = g[b]}
<1>1. ASSUME NEW k \in 0..l, NEW b \in Blocks, BlockHeight[b] = k,
             b = Genesis \/ f[Previous[b]] = g[Previous[b]]
      PROVE  f[b] = g[b]
  <2>1. CASE b = Genesis
    BY <2>1 DEF Chains
  <2>2. CASE b # Genesis
    <3>1. BlockHeight[b] <= m /\ BlockHeight[b] <= n
      BY <1>1
    <3> QED
      BY <1>1, <2>2, <3>1 DEF Chains
  <2> QED
    BY <2>1, <2>2
<1>2. 0 \in T
  <2>1. \A b \in Blocks : BlockHeight[b] = 0 => b = Genesis
    OBVIOUS
  <2>2. 0 \in 0..l
    OBVIOUS
  <2> HIDE DEF l
  <2> QED
    BY <1>1, <2>1, <2>2
<1>3. ASSUME NEW k \in 1..l, k - 1 \in T PROVE k \in T
  <2>1. k \in 0..l
    OBVIOUS
  <2>2. ASSUME NEW b \in Blocks, BlockHeight[b] = k PROVE f[b] = g[b]
    <3>1. CASE b = Genesis
      BY <1>1, <2>1, <2>2, <3>1
    <3>2. CASE b # Genesis
      <4>1. Previous[b] \in Blocks /\ BlockHeight[Previous[b]] = k - 1
        BY <2>2, <3>2
      <4>2. f[Previous[b]] = g[Previous[b]]
        BY <1>3, <4>1
      <4> QED
        BY <1>1, <2>1, <2>2, <4>2
    <3> QED
      BY <3>1, <3>2
  <2> QED
    BY <2>1, <2>2
<1>4. l \in T
  <2>0. l \in Nat
    OBVIOUS
  <2> HIDE DEF T, l
  <2>1. \A k \in 0..l : k \in T
    BY <1>2, <1>3, <2>0, UpTo
  <2> QED
    BY <2>0, <2>1
<1> QED
  BY <1>4

\* ChainTo is what its definition says.
LEMMA ChainToDef ==
  ASSUME NEW b \in Blocks
  PROVE  ChainTo[b] = IF b = Genesis THEN <<b>> ELSE Append(ChainTo[Previous[b]], b)
<1> USE BlockSyncAssumption, TreeAssumption
<1> DEFINE F(m) == CHOOSE f : Chains(f, m)
           eqn(f) == [c \in Blocks |-> IF c = Genesis THEN <<c>> ELSE Append(f[Previous[c]], c)]
           g == [c \in Blocks |-> F(BlockHeight[c])[c]]
<1>1. \A m \in Nat : Chains(F(m), m)
  BY ChainsExist
<1> HIDE DEF F
<1>2. ASSUME NEW c \in Blocks
      PROVE  g[c] = IF c = Genesis THEN <<c>> ELSE Append(g[Previous[c]], c)
  <2>0. BlockHeight[c] \in Nat /\ Chains(F(BlockHeight[c]), BlockHeight[c])
    BY <1>1
  <2>1. CASE c = Genesis
    BY <2>0, <2>1 DEF Chains
  <2>2. CASE c # Genesis
    <3> DEFINE p == Previous[c]
               m == BlockHeight[c]
               k == BlockHeight[p]
    <3>1. p \in Blocks /\ m \in Nat /\ k \in Nat /\ m = k + 1
      BY <2>2
    <3>2. F(m)[c] = Append(F(m)[p], c)
      BY <2>0, <2>2 DEF Chains
    <3>3. Chains(F(m), m) /\ Chains(F(k), k) /\ k <= m /\ k <= k
      BY <1>1, <3>1
    <3>4. F(m)[p] = F(k)[p]
      BY <3>1, <3>3, ChainsAgree
    <3>5. g[c] = F(m)[c] /\ g[p] = F(k)[p]
      BY <3>1
    <3> QED
      BY <2>2, <3>2, <3>4, <3>5
  <2> QED
    BY <2>1, <2>2
<1>3. \E f : f = eqn(f)
  <2>1. g = eqn(g)
    BY <1>2
  <2> QED
    BY <2>1
<1>4. ChainTo = CHOOSE f : f = eqn(f)
  BY DEF ChainTo
<1>5. ChainTo = eqn(ChainTo)
  <2> HIDE DEF eqn
  <2> QED
    BY <1>3, <1>4
<1> QED
  BY <1>5

\* What holds of the genesis block and of a block after one of which it holds,
\* holds of every block.
LEMMA EveryBlock ==
  ASSUME NEW S, \A b \in Blocks : (b = Genesis \/ Previous[b] \in S) => b \in S
  PROVE  Blocks \subseteq S
<1> USE BlockSyncAssumption, TreeAssumption
<1> SUFFICES ASSUME NEW c \in Blocks PROVE c \in S
  OBVIOUS
<1> DEFINE n == BlockHeight[c]
           T == {k \in 0..n : \A b \in Blocks : BlockHeight[b] = k => b \in S}
<1>1. 0 \in T
  <2>1. \A b \in Blocks : BlockHeight[b] = 0 => b = Genesis
    OBVIOUS
  <2>2. 0 \in 0..n
    OBVIOUS
  <2> QED
    BY <2>1, <2>2
<1>2. ASSUME NEW k \in 1..n, k - 1 \in T PROVE k \in T
  <2>1. k \in 0..n
    OBVIOUS
  <2>2. ASSUME NEW b \in Blocks, BlockHeight[b] = k PROVE b \in S
    <3>1. CASE b = Genesis
      BY <3>1
    <3>2. CASE b # Genesis
      <4>1. Previous[b] \in Blocks /\ BlockHeight[Previous[b]] = k - 1
        BY <2>2, <3>2
      <4> QED
        BY <1>2, <4>1
    <3> QED
      BY <3>1, <3>2
  <2> QED
    BY <2>1, <2>2
<1>3. n \in T
  <2>0. n \in Nat
    OBVIOUS
  <2> HIDE DEF T, n
  <2>1. \A k \in 0..n : k \in T
    BY <1>1, <1>2, <2>0, UpTo
  <2> QED
    BY <2>0, <2>1
<1> QED
  BY <1>3

LEMMA Appended ==
  ASSUME NEW X, NEW s \in Seq(X), NEW x \in X
  PROVE  /\ Append(s, x) \in Seq(X) /\ Append(s, x) # <<>>
         /\ Len(Append(s, x)) = Len(s) + 1 /\ Last(Append(s, x)) = x
         /\ Range(Append(s, x)) = Range(s) \cup {x}
<1> DEFINE n == Len(s)
           t == Append(s, x)
<1>1. /\ n \in Nat /\ t \in Seq(X) /\ Len(t) = n + 1 /\ t # <<>>
      /\ DOMAIN s = 1..n /\ DOMAIN t = 1..n + 1
      /\ t[n + 1] = x /\ \A i \in 1..n : t[i] = s[i]
  OBVIOUS
<1>2. Last(t) = x
  BY <1>1 DEF Last
<1>3. Len(t) = Len(s) + 1
  BY <1>1
<1> HIDE DEF t, n
<1>4. Range(t) = Range(s) \cup {x}
  BY <1>1 DEF Range
<1> QED
  BY <1>1, <1>2, <1>3, <1>4 DEF t

\* The chain to a block ends with it, and goes through the block before it.
LEMMA ChainToIs ==
  ASSUME NEW b \in Blocks
  PROVE  /\ ChainTo[b] \in Seq(Blocks) /\ ChainTo[b] # <<>> /\ Last(ChainTo[b]) = b
         /\ b = Genesis => Range(ChainTo[b]) = {b}
         /\ b # Genesis => Range(ChainTo[b]) = Range(ChainTo[Previous[b]]) \cup {b}
<1> USE BlockSyncAssumption, TreeAssumption
<1> DEFINE Is(c) == /\ ChainTo[c] \in Seq(Blocks) /\ ChainTo[c] # <<>> /\ Last(ChainTo[c]) = c
                    /\ c = Genesis => Range(ChainTo[c]) = {c}
                    /\ c # Genesis => Range(ChainTo[c]) = Range(ChainTo[Previous[c]]) \cup {c}
           S == {c \in Blocks : Is(c)}
<1>1. ASSUME NEW c \in Blocks, c = Genesis \/ Previous[c] \in S PROVE c \in S
  <2>1. CASE c = Genesis
    <3>1. ChainTo[c] = <<c>>
      BY <2>1, ChainToDef
    <3>2. <<c>> \in Seq(Blocks) /\ <<c>> # <<>> /\ Last(<<c>>) = c /\ Range(<<c>>) = {c}
      BY DEF Last, Range
    <3> QED
      BY <2>1, <3>1, <3>2
  <2>2. CASE c # Genesis
    <3> DEFINE q == ChainTo[Previous[c]]
    <3>1. q \in Seq(Blocks)
      BY <1>1, <2>2
    <3>2. ChainTo[c] = Append(q, c)
      BY <2>2, ChainToDef
    <3> HIDE DEF q
    <3>3. /\ Append(q, c) \in Seq(Blocks) /\ Append(q, c) # <<>> /\ Last(Append(q, c)) = c
          /\ Range(Append(q, c)) = Range(q) \cup {c}
      BY <3>1, Appended
    <3> QED
      BY <2>2, <3>2, <3>3 DEF q
  <2> QED
    BY <2>1, <2>2
<1>2. Blocks \subseteq S
  <2> HIDE DEF S
  <2> QED
    BY <1>1, EveryBlock
<1> QED
  BY <1>2

Closed(S) == \A x \in S \ {Genesis} : Previous[x] \in S

\* A set that holds what is before its blocks holds their chains.
LEMMA ChainInside ==
  ASSUME NEW S \in SUBSET Blocks, Closed(S), NEW b \in S
  PROVE  Range(ChainTo[b]) \subseteq S
<1> DEFINE Q == {c \in Blocks : c \in S => Range(ChainTo[c]) \subseteq S}
<1>1. ASSUME NEW c \in Blocks, c = Genesis \/ Previous[c] \in Q PROVE c \in Q
  <2> SUFFICES ASSUME c \in S PROVE Range(ChainTo[c]) \subseteq S
    OBVIOUS
  <2>1. CASE c = Genesis
    <3>1. Range(ChainTo[c]) = {c}
      BY <2>1, ChainToIs
    <3> QED
      BY <3>1
  <2>2. CASE c # Genesis
    <3>1. Range(ChainTo[c]) = Range(ChainTo[Previous[c]]) \cup {c}
      BY <2>2, ChainToIs
    <3>2. Range(ChainTo[Previous[c]]) \subseteq S
      BY <1>1, <2>2 DEF Closed
    <3> QED
      BY <3>1, <3>2
  <2> QED
    BY <2>1, <2>2
<1>2. Blocks \subseteq Q
  <2> HIDE DEF Q
  <2> QED
    BY <1>1, EveryBlock
<1> QED
  BY <1>2

LEMMA ChainClosed ==
  ASSUME NEW b \in Blocks
  PROVE  Range(ChainTo[b]) \subseteq Blocks /\ Closed(Range(ChainTo[b])) /\ b \in Range(ChainTo[b])
<1> USE BlockSyncAssumption, TreeAssumption
<1> DEFINE Q == {c \in Blocks : /\ Range(ChainTo[c]) \subseteq Blocks /\ c \in Range(ChainTo[c])
                                /\ Closed(Range(ChainTo[c]))}
<1>1. ASSUME NEW c \in Blocks, c = Genesis \/ Previous[c] \in Q PROVE c \in Q
  <2>1. CASE c = Genesis
    <3>1. Range(ChainTo[c]) = {c}
      BY <2>1, ChainToIs
    <3> QED
      BY <2>1, <3>1 DEF Closed
  <2>2. CASE c # Genesis
    <3> DEFINE R == Range(ChainTo[Previous[c]])
    <3>1. Range(ChainTo[c]) = R \cup {c}
      BY <2>2, ChainToIs
    <3>2. R \subseteq Blocks /\ Previous[c] \in R /\ Closed(R)
      BY <1>1, <2>2
    <3> HIDE DEF R
    <3>3. Closed(R \cup {c})
      BY <3>2 DEF Closed
    <3> QED
      BY <3>1, <3>2, <3>3
  <2> QED
    BY <2>1, <2>2
<1>2. Blocks \subseteq Q
  <2> HIDE DEF Q
  <2> QED
    BY <1>1, EveryBlock
<1> QED
  BY <1>2

\* The chain to a block of a chain is a part of it.
LEMMA ChainNested ==
  ASSUME NEW b \in Blocks, NEW c \in Range(ChainTo[b])
  PROVE  Range(ChainTo[c]) \subseteq Range(ChainTo[b])
  BY ChainClosed, ChainInside

LEMMA FirstPart ==
  ASSUME NEW X, NEW q \in Seq(X), Len(q) # 0
  PROVE  SubSeq(q, 1, 1) = <<q[1]>>
<1> DEFINE s == SubSeq(q, 1, 1)
<1>1. s \in Seq(X) /\ Len(s) = 1 /\ s[1] = q[1]
  OBVIOUS
<1> HIDE DEF s
<1>2. s = <<q[1]>>
  BY <1>1
<1> QED
  BY <1>2 DEF s

LEMMA NextPart ==
  ASSUME NEW X, NEW q \in Seq(X), NEW k \in 2..Len(q)
  PROVE  SubSeq(q, 1, k) = Append(SubSeq(q, 1, k - 1), q[k])
  OBVIOUS

\* The chain that the node starts with.
LEMMA ChainIsChainTo ==
  ASSUME NEW q, IsChain(q)
  PROVE  /\ q = ChainTo[Last(q)] /\ Last(q) \in Range(q)
         /\ Range(q) \subseteq Blocks /\ Genesis \in Range(q) /\ Closed(Range(q))
<1> DEFINE n == Len(q)
           T == {k \in 0..n : k = 0 \/ SubSeq(q, 1, k) = ChainTo[q[k]]}
<1>1. /\ n \in Nat \ {0} /\ DOMAIN q = 1..n /\ q \in Seq(Blocks) /\ q[1] = Genesis
      /\ \A i \in 1..n : q[i] \in Blocks /\ q[i] \in Range(q)
      /\ \A i \in 2..n : q[i] # Genesis /\ Previous[q[i]] = q[i - 1]
  BY DEF IsChain, Range
<1>2. 0 \in T
  BY <1>1
<1>3. ASSUME NEW k \in 1..n, k - 1 \in T PROVE k \in T
  <2>1. CASE k = 1
    <3>0. 1 \in 1..n /\ q[1] \in Blocks
      BY <1>1
    <3>1. SubSeq(q, 1, 1) = <<q[1]>>
      BY <1>1, <3>0, FirstPart
    <3>2. ChainTo[q[1]] = <<q[1]>>
      BY <1>1, <3>0, ChainToDef
    <3> QED
      BY <2>1, <3>1, <3>2
  <2>2. CASE k # 1
    <3>1. k \in 2..n /\ k - 1 # 0 /\ k - 1 \in 1..n
      BY <2>2
    <3>2. SubSeq(q, 1, k - 1) = ChainTo[q[k - 1]]
      BY <1>3, <3>1
    <3>3. ChainTo[q[k]] = Append(ChainTo[q[k - 1]], q[k])
      BY <1>1, <3>1, ChainToDef
    <3>4. SubSeq(q, 1, k) = Append(SubSeq(q, 1, k - 1), q[k])
      BY <1>1, <3>1, NextPart
    <3>5. SubSeq(q, 1, k) = ChainTo[q[k]]
      BY <3>2, <3>3, <3>4, Zenon
    <3>6. k \in 0..n
      BY <1>1
    <3> HIDE DEF n
    <3> QED
      BY <3>5, <3>6
  <2> QED
    BY <2>1, <2>2
<1>4. n \in T
  <2> HIDE DEF T, n
  <2>1. \A k \in 0..n : k \in T
    BY <1>1, <1>2, <1>3, UpTo
  <2> QED
    BY <1>1, <2>1
<1>5. Last(q) = q[n]
  BY DEF Last
<1>6. SubSeq(q, 1, n) = q
  BY <1>1
<1>7. q = ChainTo[Last(q)]
  BY <1>1, <1>4, <1>5, <1>6
<1>8. Last(q) \in Range(q) /\ Genesis \in Range(q) /\ Range(q) \subseteq Blocks
  <2> HIDE DEF n
  <2>1. n \in 1..n /\ 1 \in 1..n
    BY <1>1
  <2> QED
    BY <1>1, <1>5, <2>1 DEF Range
<1>9. Closed(Range(q))
  <2> HIDE DEF n
  <2> SUFFICES ASSUME NEW i \in 1..n, q[i] # Genesis PROVE Previous[q[i]] \in Range(q)
    BY <1>1 DEF Closed, Range
  <2>1. i \in 2..n /\ i - 1 \in 1..n
    BY <1>1
  <2> QED
    BY <1>1, <2>1
<1> QED
  BY <1>7, <1>8, <1>9

\* Of finitely many blocks one is highest.
LEMMA HighestBlock ==
  ASSUME NEW S \in SUBSET Blocks, IsFiniteSet(S), S # {}
  PROVE  \E x \in S : \A y \in S : BlockHeight[y] <= BlockHeight[x]
<1> USE TreeAssumption
<1>1. PICK n \in Nat : ExistsSurjection(1..n, S)
  BY FS_NatSurjection
<1>2. PICK f \in [1..n -> S] : \A x \in S : \E i \in 1..n : f[i] = x
  BY <1>1 DEF ExistsSurjection, Surjection
<1> DEFINE Top(k, i) == \A j \in 1..k : BlockHeight[f[j]] <= BlockHeight[f[i]]
           T == {k \in 0..n : k = 0 \/ \E i \in 1..k : Top(k, i)}
<1>3. \A i \in 1..n : BlockHeight[f[i]] \in Nat
  OBVIOUS
<1>4. 0 \in T
  OBVIOUS
<1>5. ASSUME NEW k \in 1..n, k - 1 \in T PROVE k \in T
  <2>1. k \in 0..n /\ k \in 1..k /\ \A j \in 1..k : j = k \/ j \in 1..k - 1
    OBVIOUS
  <2>2. \A j \in 1..k : j \in 1..n
    OBVIOUS
  <2>3. \A j \in 1..k - 1 : j \in 1..k
    OBVIOUS
  <2>4. CASE k - 1 = 0
    <3>1. \A j \in 1..k : j = k
      BY <2>4
    <3>2. BlockHeight[f[k]] <= BlockHeight[f[k]]
      BY <1>3
    <3>3. Top(k, k)
      BY <3>1, <3>2
    <3> HIDE DEF Top
    <3> QED
      BY <2>1, <3>3
  <2>5. CASE k - 1 # 0
    <3>1. PICK i \in 1..k - 1 : Top(k - 1, i)
      BY <1>5, <2>5
    <3>2. \E l \in {i, k} : BlockHeight[f[i]] <= BlockHeight[f[l]] /\ BlockHeight[f[k]] <= BlockHeight[f[l]]
      BY <1>3, <2>1, <2>2, <2>3
    <3>3. PICK l \in {i, k} : BlockHeight[f[i]] <= BlockHeight[f[l]] /\ BlockHeight[f[k]] <= BlockHeight[f[l]]
      BY <3>2
    <3>4. l \in 1..k
      BY <2>1, <2>3
    <3>5. ASSUME NEW j \in 1..k PROVE BlockHeight[f[j]] <= BlockHeight[f[l]]
      <4>1. BlockHeight[f[j]] \in Nat /\ BlockHeight[f[l]] \in Nat /\ BlockHeight[f[i]] \in Nat
        BY <1>3, <2>2, <2>3, <3>4
      <4>2. CASE j = k
        BY <3>3, <4>2
      <4>3. CASE j \in 1..k - 1
        BY <3>1, <3>3, <4>1, <4>3
      <4> QED
        BY <2>1, <4>2, <4>3
    <3>6. Top(k, l)
      BY <3>5
    <3> HIDE DEF Top
    <3> QED
      BY <2>1, <3>4, <3>6
  <2> QED
    BY <2>4, <2>5
<1>6. n \in T
  <2> HIDE DEF T
  <2>1. \A k \in 0..n : k \in T
    BY <1>4, <1>5, UpTo
  <2> QED
    BY <2>1
<1>7. n # 0
  BY <1>2
<1>8. PICK i \in 1..n : Top(n, i)
  BY <1>6, <1>7
<1> QED
  BY <1>2, <1>8

-----------------------------------------------------------------------------
(* The ledger.                                                             *)

\* The blocks with a node hold the block before each of them, orphans have
\* none, the main chain is the path to one of them, and a reorganisation is to
\* a block after one of them.
LedgerInv ==
  /\ index \subseteq Blocks /\ Genesis \in index /\ Closed(index)
  /\ orphans \subseteq Blocks \ index /\ IsFiniteSet(orphans)
  /\ main = ChainTo[Best] /\ Best \in index
  /\ reorganising # EmptyHash =>
       reorganising \in Blocks \ {Genesis} /\ Previous[reorganising] \in index

\* AddBlock of a block after one with a node.
LEMMA AddBlockSound ==
  ASSUME LedgerInv, NEW b \in Blocks \ {Genesis}, Previous[b] \in index, AddBlock(b)
  PROVE  /\ index' \subseteq Blocks /\ Genesis \in index' /\ Closed(index') /\ index \subseteq index'
         /\ orphans' \subseteq Blocks \ index' /\ IsFiniteSet(orphans')
         /\ main' = ChainTo[Best'] /\ Best' \in index'
<1> USE BlockSyncAssumption, TreeAssumption
<1> DEFINE new == {b} \cup Connected(b)
           top == CHOOSE x \in new : \A y \in new : BlockHeight[y] <= BlockHeight[x]
<1>1. /\ index' = index \cup new /\ orphans' = orphans \ new
      /\ main' = IF BlockHeight[top] > Height(main) THEN ChainTo[top] ELSE main
  BY DEF AddBlock
<1>2. Connected(b) \subseteq orphans
  BY DEF Connected
<1>3. new \subseteq Blocks
  BY <1>2 DEF LedgerInv
<1>4. IsFiniteSet(new)
  <2>1. IsFiniteSet(Connected(b))
    BY <1>2, FS_Subset DEF LedgerInv
  <2>2. IsFiniteSet(Connected(b) \cup {b})
    BY <2>1, FS_AddElement
  <2>3. Connected(b) \cup {b} = new
    OBVIOUS
  <2> QED
    BY <2>2, <2>3
<1>5. ASSUME NEW x \in new \ {Genesis} PROVE Previous[x] \in index \cup new
  <2>1. CASE x = b
    BY <2>1
  <2>2. CASE x \in Connected(b)
    <3> DEFINE y == Previous[x]
    <3>1. x \in Blocks /\ Range(ChainTo[x]) \subseteq index \cup orphans \cup {b}
      BY <1>3, <2>2 DEF Connected
    <3>2. y \in Range(ChainTo[x])
      <4>1. Closed(Range(ChainTo[x])) /\ x \in Range(ChainTo[x])
        BY <3>1, ChainClosed
      <4> QED
        BY <4>1 DEF Closed
    <3>3. Range(ChainTo[y]) \subseteq Range(ChainTo[x])
      BY <3>1, <3>2, ChainNested
    <3>4. CASE y \in orphans
      <4>1. y \in Connected(b)
        BY <3>1, <3>3, <3>4 DEF Connected
      <4> QED
        BY <4>1
    <3> QED
      BY <3>1, <3>2, <3>4
  <2> QED
    BY <2>1, <2>2
<1>6. top \in new
  <2>0. b \in new
    OBVIOUS
  <2> HIDE DEF new
  <2>1. \E x \in new : \A y \in new : BlockHeight[y] <= BlockHeight[x]
    BY <1>3, <1>4, <2>0, HighestBlock
  <2> QED
    BY <2>1
<1> HIDE DEF new, top
<1>7. Closed(index')
  BY <1>1, <1>5 DEF Closed, LedgerInv
<1>8. index' \subseteq Blocks /\ Genesis \in index' /\ index \subseteq index'
  BY <1>1, <1>3 DEF LedgerInv
<1>9. orphans' \subseteq Blocks \ index' /\ IsFiniteSet(orphans')
  <2>1. IsFiniteSet(orphans')
    BY <1>1, FS_Subset DEF LedgerInv
  <2> QED
    BY <1>1, <2>1 DEF LedgerInv
<1>10. main' = ChainTo[Best'] /\ Best' \in index'
  <2>1. CASE main' = ChainTo[top]
    <3>1. Last(ChainTo[top]) = top
      BY <1>3, <1>6, ChainToIs
    <3> QED
      BY <1>1, <1>6, <2>1, <3>1 DEF Best
  <2>2. CASE main' = main
    BY <1>8, <2>2 DEF LedgerInv, Best
  <2> QED
    BY <1>1, <2>1, <2>2
<1> QED
  BY <1>7, <1>8, <1>9, <1>10

\* What is on the main chain has a node.
LEMMA MainHasNodes ==
  ASSUME LedgerInv
  PROVE  Range(main) \subseteq index
  BY ChainInside DEF LedgerInv

LEMMA LedgerStart ==
  ASSUME Init
  PROVE  LedgerInv
<1>1. IsChain(LocalChain)
  BY TreeAssumption
<1>2. /\ LocalChain = ChainTo[Last(LocalChain)] /\ Last(LocalChain) \in Range(LocalChain)
      /\ Range(LocalChain) \subseteq Blocks /\ Genesis \in Range(LocalChain)
      /\ Closed(Range(LocalChain))
  BY <1>1, ChainIsChainTo
<1>3. IsFiniteSet({})
  BY FS_EmptySet
<1> QED
  BY <1>2, <1>3 DEF Init, LedgerInv, Best

\* Steps that leave the ledger alone.
LEMMA LedgerStutters ==
  ASSUME LedgerInv, UNCHANGED ledgerVars
  PROVE  LedgerInv' /\ index \subseteq index'
  BY DEF LedgerInv, ledgerVars, Best

LEMMA ReorganiseKeepsLedger ==
  ASSUME LedgerInv, Reorganise
  PROVE  LedgerInv' /\ index \subseteq index'
<1>1. /\ reorganising \in Blocks \ {Genesis} /\ Previous[reorganising] \in index
      /\ AddBlock(reorganising) /\ reorganising' = EmptyHash
  BY DEF Reorganise, LedgerInv
<1> DEFINE b == reorganising
<1>2. /\ index' \subseteq Blocks /\ Genesis \in index' /\ Closed(index') /\ index \subseteq index'
      /\ orphans' \subseteq Blocks \ index' /\ IsFiniteSet(orphans')
      /\ main' = ChainTo[Best'] /\ Best' \in index'
  BY <1>1, AddBlockSound
<1> QED
  BY <1>1, <1>2 DEF LedgerInv

LEMMA AcceptKeepsLedger ==
  ASSUME LedgerInv, reorganising = EmptyHash, NEW p, NEW b \in Blocks, AcceptBlock(p, b)
  PROVE  LedgerInv' /\ index \subseteq index'
<1>1. CASE UNCHANGED ledgerVars
  BY <1>1, LedgerStutters
<1>2. CASE b \notin index \cup orphans /\ Previous[b] \in index /\ UNCHANGED <<main, index, orphans>>
           /\ reorganising' = b
  BY <1>2 DEF LedgerInv, Best
<1>3. CASE b \notin index \cup orphans /\ Previous[b] \in index /\ AddBlock(b) /\ UNCHANGED reorganising
  <2>1. b \in Blocks \ {Genesis}
    BY <1>3 DEF LedgerInv
  <2>2. /\ index' \subseteq Blocks /\ Genesis \in index' /\ Closed(index') /\ index \subseteq index'
        /\ orphans' \subseteq Blocks \ index' /\ IsFiniteSet(orphans')
        /\ main' = ChainTo[Best'] /\ Best' \in index'
    BY <1>3, <2>1, AddBlockSound
  <2> QED
    BY <1>3, <2>2 DEF LedgerInv
<1>4. CASE b \notin index \cup orphans /\ orphans' = orphans \cup {b}
           /\ UNCHANGED <<main, index, reorganising>>
  <2>1. IsFiniteSet(orphans')
    BY <1>4, FS_AddElement DEF LedgerInv
  <2> QED
    BY <1>4, <2>1 DEF LedgerInv, Best
<1> QED
  BY <1>1, <1>2, <1>3, <1>4 DEF AcceptBlock, ledgerVars

-----------------------------------------------------------------------------
(* The messages under way.                                                 *)

IsList(s) == s \in Seq(Range(s))

LEMMA ListFrom ==
  ASSUME NEW X, NEW s \in Seq(X)
  PROVE  IsList(s) /\ Range(s) \subseteq X
<1>1. s \in [1..Len(s) -> X] /\ DOMAIN s = 1..Len(s) /\ Len(s) \in Nat
  OBVIOUS
<1>2. s \in [1..Len(s) -> Range(s)] /\ Range(s) \subseteq X
  BY <1>1 DEF Range
<1>3. \A Y : s \in [1..Len(s) -> Y] => s \in Seq(Y)
  BY <1>1
<1> QED
  BY <1>2, <1>3 DEF IsList

LEMMA ListGrows ==
  ASSUME NEW X, NEW Y, X \subseteq Y, NEW s \in Seq(X)
  PROVE  s \in Seq(Y)
<1>1. s \in [1..Len(s) -> X] /\ Len(s) \in Nat
  OBVIOUS
<1>2. s \in [1..Len(s) -> Y]
  BY <1>1
<1> QED
  BY <1>1, <1>2

LEMMA ListJoin ==
  ASSUME NEW s, NEW t, IsList(s), IsList(t)
  PROVE  IsList(s \o t) /\ Range(s \o t) = Range(s) \cup Range(t)
<1> DEFINE X == Range(s) \cup Range(t)
<1>1. s \in Seq(X) /\ t \in Seq(X)
  BY ListGrows DEF IsList
<1> HIDE DEF X
<1>2. s \o t \in Seq(X) /\ Range(s \o t) = Range(s) \cup Range(t)
  BY <1>1, RangeOfJoin
<1> QED
  BY <1>2, ListFrom

LEMMA ListAppend ==
  ASSUME NEW s, NEW x, IsList(s)
  PROVE  IsList(Append(s, x)) /\ Range(Append(s, x)) = Range(s) \cup {x}
<1> DEFINE X == Range(s) \cup {x}
<1>1. s \in Seq(X) /\ x \in X
  BY ListGrows DEF IsList
<1>2. Append(s, x) \in Seq(X) /\ Range(Append(s, x)) = Range(s) \cup {x}
  <2> HIDE DEF X
  <2> QED
    BY <1>1, Appended
<1> HIDE DEF X
<1> QED
  BY <1>2, ListFrom

LEMMA ListOfOne ==
  ASSUME NEW x
  PROVE  IsList(<<x>>) /\ Range(<<x>>) = {x}
  BY DEF IsList, Range

LEMMA ListOfNone ==
  IsList(<<>>) /\ Range(<<>>) = {}
  BY DEF IsList, Range

LEMMA ListTail ==
  ASSUME NEW s, IsList(s), s # <<>>
  PROVE  /\ IsList(Tail(s)) /\ Range(s) = Range(Tail(s)) \cup {Head(s)}
<1> DEFINE X == Range(s)
           n == Len(s)
           t == Tail(s)
<1>1. /\ s \in Seq(X) /\ n \in Nat \ {0} /\ t \in Seq(X) /\ Head(s) = s[1]
      /\ DOMAIN s = 1..n /\ DOMAIN t = 1..n - 1 /\ \A i \in 1..n - 1 : t[i] = s[i + 1]
  BY DEF IsList
<1> HIDE DEF t, n, X
<1>2. \A i \in 1..n : i = 1 \/ (i - 1 \in 1..n - 1 /\ i = (i - 1) + 1)
  BY <1>1
<1>3. \A i \in 1..n - 1 : i + 1 \in 1..n
  BY <1>1
<1>4. Range(t) \cup {Head(s)} \subseteq Range(s)
  <2>1. 1 \in 1..n
    BY <1>1
  <2> QED
    BY <1>1, <1>3, <2>1 DEF Range
<1>5. Range(s) \subseteq Range(t) \cup {Head(s)}
  <2> SUFFICES ASSUME NEW i \in 1..n PROVE s[i] \in Range(t) \cup {Head(s)}
    BY <1>1 DEF Range
  <2>1. CASE i = 1
    BY <1>1, <2>1
  <2>2. CASE i # 1
    <3>1. i - 1 \in 1..n - 1 /\ s[i] = t[i - 1]
      BY <1>1, <1>2, <2>2
    <3> QED
      BY <1>1, <3>1 DEF Range
  <2> QED
    BY <2>1, <2>2
<1>6. IsList(t)
  BY <1>1, ListFrom
<1> QED
  BY <1>4, <1>5, <1>6 DEF t

\* What a peer says is about blocks, and so is what it is asked for.
Told(m) ==
  /\ m.type = "inv" => m.hashes \in Seq(Blocks)
  /\ m.type = "block" => m.block \in Blocks
Asked(m) == m.type = "getdata" => m.hashes \in Seq(Blocks)

Link(i, o, own) ==
  /\ IsList(i) /\ IsList(o) /\ own \in Seq(Blocks) /\ own # <<>>
  /\ \A m \in Range(i) : Told(m)
  /\ \A m \in Range(o) : Asked(m)

LinksInv ==
  /\ DOMAIN in = Peers /\ DOMAIN out = Peers /\ DOMAIN chain = Peers
  /\ \A p \in Peers : Link(in[p], out[p], chain[p])

LEMMA LinkTakesIn ==
  ASSUME NEW i, NEW o, NEW own, Link(i, o, own), i # <<>>
  PROVE  Link(Tail(i), o, own) /\ Told(Head(i)) /\ Range(i) = Range(Tail(i)) \cup {Head(i)}
  BY ListTail DEF Link

LEMMA LinkTakesOut ==
  ASSUME NEW i, NEW o, NEW own, Link(i, o, own), o # <<>>
  PROVE  Link(i, Tail(o), own) /\ Asked(Head(o)) /\ Range(o) = Range(Tail(o)) \cup {Head(o)}
  BY ListTail DEF Link

LEMMA LinkPutsIn ==
  ASSUME NEW i, NEW o, NEW own, Link(i, o, own), NEW t, IsList(t), \A m \in Range(t) : Told(m)
  PROVE  Link(i \o t, o, own) /\ Range(i \o t) = Range(i) \cup Range(t)
  BY ListJoin DEF Link

LEMMA LinkPutsOut ==
  ASSUME NEW i, NEW o, NEW own, Link(i, o, own), NEW t, IsList(t), \A m \in Range(t) : Asked(m)
  PROVE  Link(i, o \o t, own) /\ Range(o \o t) = Range(o) \cup Range(t)
  BY ListJoin DEF Link

\* The chain of a peer changes, whatever is under way.
LEMMA LinkChanges ==
  ASSUME NEW i, NEW o, NEW own, Link(i, o, own), NEW other \in Seq(Blocks), other # <<>>
  PROVE  Link(i, o, other)
  BY DEF Link

\* A request or an arrival of b that is under way on a link is under way still.
Keeps(i, o, i2, o2, b) ==
  /\ \A m \in Range(i) : m.type = "block" /\ m.block = b => m \in Range(i2)
  /\ \A m \in Range(o) : m.type = "getdata" /\ b \in Range(m.hashes) =>
                           m \in Range(o2) \/ BlockMsg(b) \in Range(i2)

LEMMA FlightKept ==
  ASSUME NEW b, InFlight(b), \A q \in Peers : Keeps(in[q], out[q], in'[q], out'[q], b)
  PROVE  InFlight(b)'
<1>1. PICK q \in Peers : \/ \E m \in Range(in[q]) : m.type = "block" /\ m.block = b
                         \/ \E m \in Range(out[q]) : m.type = "getdata" /\ b \in Range(m.hashes)
  BY DEF InFlight
<1>2. Keeps(in[q], out[q], in'[q], out'[q], b)
  OBVIOUS
<1>3. BlockMsg(b).type = "block" /\ BlockMsg(b).block = b
  BY DEF BlockMsg
<1>4. \/ \E m \in Range(in'[q]) : m.type = "block" /\ m.block = b
      \/ \E m \in Range(out'[q]) : m.type = "getdata" /\ b \in Range(m.hashes)
  BY <1>1, <1>2, <1>3 DEF Keeps
<1> QED
  BY <1>4 DEF InFlight

\* A step of the peers and the readers: the links stay in order.
LinksStep ==
  /\ DOMAIN in' = Peers /\ DOMAIN out' = Peers /\ DOMAIN chain' = Peers
  /\ \A q \in Peers : Link(in'[q], out'[q], chain'[q])

LEMMA LinksKept ==
  ASSUME LinksStep
  PROVE  LinksInv'
  BY DEF LinksStep, LinksInv

LEMMA LinksStutter ==
  ASSUME LinksInv, UNCHANGED <<in, out, chain>>, NEW b
  PROVE  LinksStep /\ \A q \in Peers : Keeps(in[q], out[q], in'[q], out'[q], b)
  BY DEF LinksInv, LinksStep, Keeps

\* Messages that only ask for hashes.
LEMMA LinkAsks ==
  ASSUME NEW i, NEW o, NEW own, Link(i, o, own), NEW t, IsList(t),
         \A m \in Range(t) : m.type = "getblocks"
  PROVE  Link(i, o \o t, own) /\ Range(o) \subseteq Range(o \o t)
<1>1. \A m \in Range(t) : Asked(m)
  BY DEF Asked
<1> QED
  BY <1>1, LinkPutsOut

LEMMA SendStep ==
  ASSUME LinksInv, NEW p, NEW locator, NEW stop, SendGetBlocks(p, locator, stop)
  PROVE  /\ DOMAIN out' = Peers
         /\ \A q \in Peers : \A i : Link(i, out[q], chain[q]) =>
              Link(i, out'[q], chain[q]) /\ Range(out[q]) \subseteq Range(out'[q])
<1> DEFINE msg == GetBlocksMsg(locator, stop)
           sent == SendAll(<<msg>>).sent
<1>1. IsList(sent) /\ \A m \in Range(sent) : m.type = "getblocks"
  <2>1. <<msg>> \in Seq({msg}) /\ msg.type = "getblocks"
    BY DEF GetBlocksMsg
  <2>2. sent \in Seq({msg})
    <3> HIDE DEF msg
    <3> QED
      BY <2>1, SentAll
  <2>3. IsList(sent) /\ Range(sent) \subseteq {msg}
    <3> HIDE DEF sent
    <3> QED
      BY <2>2, ListFrom
  <2> QED
    BY <2>1, <2>3
<1>2. out' = [q \in Peers |-> IF q = p /\ up[q] THEN out[q] \o sent ELSE out[q]]
  BY DEF SendGetBlocks
<1> HIDE DEF sent
<1>3. DOMAIN out = Peers
  BY DEF LinksInv
<1>4. ASSUME NEW q \in Peers, NEW i, Link(i, out[q], chain[q])
      PROVE  Link(i, out'[q], chain[q]) /\ Range(out[q]) \subseteq Range(out'[q])
  <2>1. CASE q = p /\ up[p]
    <3>1. out'[q] = out[q] \o sent
      BY <1>2, <1>3, <2>1
    <3> QED
      BY <1>1, <1>4, <3>1, LinkAsks
  <2>2. CASE ~(q = p /\ up[p])
    BY <1>2, <1>3, <1>4, <2>2
  <2> QED
    BY <2>1, <2>2
<1> QED
  BY <1>2, <1>3, <1>4

LEMMA OnGetBlocksStep ==
  ASSUME LinksInv, NEW p \in Peers, OnGetBlocks(p), NEW b
  PROVE  LinksStep /\ \A q \in Peers : Keeps(in[q], out[q], in'[q], out'[q], b)
<1> DEFINE msg == Head(out[p])
           start == LatestLocatorHash(chain[p], msg.locator)
           hashes == GetBlockHashes(chain[p], start, msg.stop, MaxBlocksPerMsg)
           i == IF hashes = <<>> THEN in[p] ELSE Append(in[p], InvMsg(hashes))
<1>1. /\ out[p] # <<>> /\ msg.type = "getblocks"
      /\ out' = [out EXCEPT ![p] = Tail(out[p])] /\ in' = [in EXCEPT ![p] = i] /\ chain' = chain
  BY DEF OnGetBlocks, ToServe
<1>2. /\ DOMAIN in = Peers /\ DOMAIN out = Peers /\ DOMAIN chain = Peers
      /\ \A q \in Peers : Link(in[q], out[q], chain[q])
  BY DEF LinksInv
<1>3. Link(in[p], Tail(out[p]), chain[p]) /\ Range(out[p]) = Range(Tail(out[p])) \cup {msg}
  BY <1>1, <1>2, LinkTakesOut
<1>4. hashes \in Seq(Blocks)
  <2>1. chain[p] \in Seq(Blocks)
    BY <1>2 DEF Link
  <2>2. hashes \in Seq(Range(chain[p]))
    BY <2>1, LocatorAssumption, AnswerIsOwn
  <2>3. Range(chain[p]) \subseteq Blocks
    BY <2>1, ListFrom
  <2> HIDE DEF hashes
  <2> QED
    BY <2>2, <2>3, ListGrows
<1> HIDE DEF hashes
<1>5. Link(i, Tail(out[p]), chain[p]) /\ Range(in[p]) \subseteq Range(i)
  <2>1. CASE hashes = <<>>
    BY <1>3, <2>1
  <2>2. CASE hashes # <<>>
    <3>1. Told(InvMsg(hashes))
      BY <1>4 DEF InvMsg, Told
    <3>2. IsList(i) /\ Range(i) = Range(in[p]) \cup {InvMsg(hashes)}
      BY <1>3, <2>2, ListAppend DEF Link
    <3> QED
      BY <1>3, <3>1, <3>2 DEF Link
  <2> QED
    BY <2>1, <2>2
<1> HIDE DEF i, msg
<1>6. in'[p] = i /\ out'[p] = Tail(out[p]) /\ chain'[p] = chain[p]
  BY <1>1, <1>2
<1>7. \A q \in Peers \ {p} : in'[q] = in[q] /\ out'[q] = out[q] /\ chain'[q] = chain[q]
  BY <1>1, <1>2
<1>8. LinksStep
  BY <1>1, <1>2, <1>5, <1>6, <1>7 DEF LinksStep
<1>9. Keeps(in[p], out[p], in'[p], out'[p], b)
  BY <1>1, <1>3, <1>5, <1>6 DEF Keeps
<1>10. \A q \in Peers \ {p} : Keeps(in[q], out[q], in'[q], out'[q], b)
  BY <1>7 DEF Keeps
<1> QED
  BY <1>8, <1>9, <1>10

\* What a peer does not answer is lost.
LEMMA OnGetDataStep ==
  ASSUME LinksInv, NEW p \in Peers, OnGetData(p), NEW b
  PROVE  /\ LinksStep
         /\ b \in requested \ lost' => \A q \in Peers : Keeps(in[q], out[q], in'[q], out'[q], b)
<1> DEFINE msg == Head(out[p])
           asked == msg.hashes
           missing == {j \in DOMAIN asked : ~InStore(chain[p], asked[j])}
           hashes == SubSeq(asked, 1, IF missing = {} THEN Len(asked) ELSE Min(missing) - 1)
           Answer(h) == IF h = continueHash[p] THEN <<BlockMsg(h), InvMsg(<<Last(chain[p])>>)>>
                                               ELSE <<BlockMsg(h)>>
           answers == [j \in DOMAIN hashes |-> Answer(hashes[j])]
           n == Len(hashes)
<1>1. /\ out[p] # <<>> /\ msg.type = "getdata" /\ chain' = chain
      /\ out' = [out EXCEPT ![p] = Tail(out[p])]
      /\ in' = [in EXCEPT ![p] = in[p] \o FlattenSeq(answers)]
      /\ lost' = lost \cup (requested \cap (Range(asked) \ Range(hashes)))
  BY DEF OnGetData, ToServe
<1>2. /\ DOMAIN in = Peers /\ DOMAIN out = Peers /\ DOMAIN chain = Peers
      /\ \A q \in Peers : Link(in[q], out[q], chain[q])
  BY DEF LinksInv
<1>3. /\ Link(in[p], Tail(out[p]), chain[p]) /\ Range(out[p]) = Range(Tail(out[p])) \cup {msg}
      /\ Asked(msg)
  BY <1>1, <1>2, LinkTakesOut
<1>4. asked \in Seq(Blocks)
  BY <1>1, <1>3 DEF Asked
<1> HIDE DEF msg
<1>5. hashes \in Seq(Blocks)
  <2> DEFINE k == IF missing = {} THEN Len(asked) ELSE Min(missing) - 1
  <2>1. k \in 0..Len(asked)
    <3>1. missing \subseteq 1..Len(asked) /\ Len(asked) \in Nat
      <4> HIDE DEF asked
      <4> QED
        BY <1>4
    <3> HIDE DEF missing
    <3>2. CASE missing # {}
      <4>1. missing \subseteq Nat
        BY <3>1
      <4>2. Min(missing) \in missing
        BY <3>2, <4>1, LeastOf DEF Min
      <4>3. Min(missing) \in 1..Len(asked)
        BY <3>1, <4>2
      <4> QED
        BY <3>1, <3>2, <4>3
    <3>3. CASE missing = {}
      BY <3>1, <3>3
    <3> QED
      BY <3>2, <3>3
  <2>2. hashes = SubSeq(asked, 1, k)
    OBVIOUS
  <2> HIDE DEF k, asked, hashes
  <2> QED
    BY <1>4, <2>1, <2>2
<1> HIDE DEF hashes, asked
<1>7. n \in Nat /\ DOMAIN hashes = 1..n /\ \A j \in 1..n : hashes[j] \in Blocks
  BY <1>5
<1> HIDE DEF n
<1> DEFINE X == {BlockMsg(h) : h \in Blocks} \cup {InvMsg(<<Last(chain[p])>>)}
<1>8. ASSUME NEW h \in Blocks
      PROVE  Answer(h) \in Seq(X) /\ BlockMsg(h) \in Range(Answer(h))
  <2> DEFINE x == BlockMsg(h)
             y == InvMsg(<<Last(chain[p])>>)
  <2>1. x \in X /\ y \in X
    OBVIOUS
  <2> HIDE DEF x, y, X
  <2>2. <<x, y>> \in Seq(X) /\ <<x>> \in Seq(X) /\ x \in Range(<<x, y>>) /\ x \in Range(<<x>>)
    BY <2>1 DEF Range
  <2> QED
    BY <2>2 DEF x, y
<1> HIDE DEF Answer
<1>9. answers \in [1..n -> Seq(X)] /\ \A j \in 1..n : answers[j] = Answer(hashes[j])
  <2> HIDE DEF X
  <2> QED
    BY <1>7, <1>8
<1> HIDE DEF answers
<1> DEFINE flat == FlattenSeq(answers)
<1>10. flat \in Seq(X) /\ \A j \in 1..n : Range(answers[j]) \subseteq Range(flat)
  <2> HIDE DEF X
  <2> QED
    BY <1>7, <1>9, Flattened
<1>11. \A h \in Range(hashes) : BlockMsg(h) \in Range(flat)
  <2> SUFFICES ASSUME NEW j \in 1..n PROVE BlockMsg(hashes[j]) \in Range(flat)
    BY <1>7 DEF Range
  <2> HIDE DEF flat, X
  <2> QED
    BY <1>7, <1>8, <1>9, <1>10
<1>12. IsList(flat) /\ Range(flat) \subseteq X
  <2> HIDE DEF X, flat
  <2> QED
    BY <1>10, ListFrom
<1>13. \A m \in X : Told(m)
  <2>1. Last(chain[p]) \in Blocks
    <3> DEFINE c == chain[p]
    <3>1. c \in Seq(Blocks) /\ c # <<>>
      BY <1>3 DEF Link
    <3>2. Len(c) \in DOMAIN c
      BY <3>1
    <3> QED
      BY <3>1, <3>2 DEF Last
  <2>2. Told(InvMsg(<<Last(chain[p])>>))
    <3>1. <<Last(chain[p])>> \in Seq(Blocks)
      BY <2>1
    <3> QED
      BY <3>1 DEF Told, InvMsg
  <2>3. \A h \in Blocks : Told(BlockMsg(h))
    BY DEF Told, BlockMsg
  <2> QED
    BY <2>2, <2>3
<1> HIDE DEF flat, X
<1>14. Link(in[p] \o flat, Tail(out[p]), chain[p])
       /\ Range(in[p] \o flat) = Range(in[p]) \cup Range(flat)
  BY <1>3, <1>12, <1>13, LinkPutsIn
<1>15. in'[p] = in[p] \o flat /\ out'[p] = Tail(out[p]) /\ chain'[p] = chain[p]
  BY <1>1, <1>2 DEF flat
<1>16. \A q \in Peers \ {p} : in'[q] = in[q] /\ out'[q] = out[q] /\ chain'[q] = chain[q]
  BY <1>1, <1>2
<1>17. LinksStep
  BY <1>1, <1>2, <1>14, <1>15, <1>16 DEF LinksStep
<1>18. ASSUME b \in requested \ lost' PROVE Keeps(in[p], out[p], in'[p], out'[p], b)
  <2>1. b \in Range(asked) => b \in Range(hashes)
    BY <1>1, <1>18
  <2> QED
    BY <1>3, <1>11, <1>14, <1>15, <2>1 DEF Keeps, asked
<1>19. \A q \in Peers \ {p} : Keeps(in[q], out[q], in'[q], out'[q], b)
  BY <1>16 DEF Keeps
<1> QED
  BY <1>17, <1>18, <1>19

\* A peer changes its chain and may relay a block.
LEMMA ChainStep ==
  ASSUME LinksInv, NEW p \in Peers, NEW own \in Seq(Blocks), own # <<>>, NEW c \in Blocks,
         chain' = [chain EXCEPT ![p] = own], out' = out,
         \/ in' = in
         \/ in' = [in EXCEPT ![p] = IF up[p] THEN Append(in[p], BlockMsg(c)) ELSE in[p]],
         NEW b
  PROVE  LinksStep /\ \A q \in Peers : Keeps(in[q], out[q], in'[q], out'[q], b)
<1>2. /\ DOMAIN in = Peers /\ DOMAIN out = Peers /\ DOMAIN chain = Peers
      /\ \A q \in Peers : Link(in[q], out[q], chain[q])
  BY DEF LinksInv
<1>3. Link(in[p], out[p], own)
  BY <1>2, LinkChanges
<1>4. IsList(Append(in[p], BlockMsg(c))) /\ Range(Append(in[p], BlockMsg(c))) = Range(in[p]) \cup {BlockMsg(c)}
  BY <1>2, ListAppend DEF Link
<1>5. Told(BlockMsg(c))
  BY DEF Told, BlockMsg
<1>6. chain'[p] = own /\ out'[p] = out[p]
  BY <1>2
<1>7. Link(Append(in[p], BlockMsg(c)), out[p], own)
  BY <1>3, <1>4, <1>5 DEF Link
<1>8. in'[p] = Append(in[p], BlockMsg(c)) \/ in'[p] = in[p]
  BY <1>2
<1>9. Link(in'[p], out'[p], chain'[p]) /\ Range(in[p]) \subseteq Range(in'[p])
  BY <1>3, <1>4, <1>6, <1>7, <1>8
<1>10. \A q \in Peers \ {p} : in'[q] = in[q] /\ out'[q] = out[q] /\ chain'[q] = chain[q]
  BY <1>2
<1>13. DOMAIN in' = Peers /\ DOMAIN out' = Peers /\ DOMAIN chain' = Peers
  BY <1>2
<1>11. LinksStep
  BY <1>2, <1>9, <1>10, <1>13 DEF LinksStep
<1>12. \A q \in Peers : Keeps(in[q], out[q], in'[q], out'[q], b)
  BY <1>6, <1>9, <1>10 DEF Keeps
<1> QED
  BY <1>11, <1>12

LEMMA PeerMinesStep ==
  ASSUME LinksInv, NEW p \in Peers, PeerMines(p), NEW b
  PROVE  LinksStep /\ \A q \in Peers : Keeps(in[q], out[q], in'[q], out'[q], b)
<1>1. PICK c \in Blocks :
        /\ chain' = [chain EXCEPT ![p] = Append(chain[p], c)] /\ out' = out
        /\ in' = [in EXCEPT ![p] = IF up[p] THEN Append(in[p], BlockMsg(c)) ELSE in[p]]
  BY DEF PeerMines
<1>2. chain[p] \in Seq(Blocks)
  BY DEF LinksInv, Link
<1>3. Append(chain[p], c) \in Seq(Blocks) /\ Append(chain[p], c) # <<>>
  BY <1>2, Appended
<1> QED
  BY <1>1, <1>3, ChainStep

LEMMA PeerReorganisesStep ==
  ASSUME LinksInv, NEW p \in Peers, PeerReorganises(p), NEW b
  PROVE  LinksStep /\ \A q \in Peers : Keeps(in[q], out[q], in'[q], out'[q], b)
<1>1. PICK c \in Blocks :
        /\ chain' = [chain EXCEPT ![p] = ChainTo[c]] /\ out' = out
        /\ \/ in' = [in EXCEPT ![p] = IF up[p] THEN Append(in[p], BlockMsg(c)) ELSE in[p]]
           \/ in' = in
  BY DEF PeerReorganises
<1>2. ChainTo[c] \in Seq(Blocks) /\ ChainTo[c] # <<>>
  BY ChainToIs
<1> QED
  BY <1>1, <1>2, ChainStep

LEMMA PeerPingsStep ==
  ASSUME LinksInv, NEW p \in Peers, PeerPings(p), NEW b
  PROVE  LinksStep /\ \A q \in Peers : Keeps(in[q], out[q], in'[q], out'[q], b)
<1> DEFINE msg == PingMsg(Height(chain[p]))
<1>1. in' = [in EXCEPT ![p] = Append(in[p], msg)] /\ out' = out /\ chain' = chain
  BY DEF PeerPings, peerVars
<1>2. /\ DOMAIN in = Peers /\ DOMAIN out = Peers /\ DOMAIN chain = Peers
      /\ \A q \in Peers : Link(in[q], out[q], chain[q])
  BY DEF LinksInv
<1>3. Told(msg)
  BY DEF Told, PingMsg
<1> HIDE DEF msg
<1>4. IsList(Append(in[p], msg)) /\ Range(Append(in[p], msg)) = Range(in[p]) \cup {msg}
  BY <1>2, ListAppend DEF Link
<1>5. Link(Append(in[p], msg), out[p], chain[p])
  BY <1>2, <1>3, <1>4 DEF Link
<1>6. in'[p] = Append(in[p], msg) /\ \A q \in Peers \ {p} : in'[q] = in[q]
  BY <1>1, <1>2
<1>7. LinksStep
  BY <1>1, <1>2, <1>5, <1>6 DEF LinksStep
<1>8. \A q \in Peers : Keeps(in[q], out[q], in'[q], out'[q], b)
  BY <1>1, <1>4, <1>6 DEF Keeps
<1> QED
  BY <1>7, <1>8

\* What was under way on a connection that breaks is lost.
LEMMA DisconnectStep ==
  ASSUME LinksInv, NEW p \in Peers, Disconnect(p), NEW b
  PROVE  /\ LinksStep
         /\ b \in requested \ lost' => \A q \in Peers : Keeps(in[q], out[q], in'[q], out'[q], b)
<1>1. in' = [in EXCEPT ![p] = <<>>] /\ out' = [out EXCEPT ![p] = <<>>] /\ chain' = chain
  BY DEF Disconnect, peerVars
<1>2. /\ DOMAIN in = Peers /\ DOMAIN out = Peers /\ DOMAIN chain = Peers
      /\ \A q \in Peers : Link(in[q], out[q], chain[q])
  BY DEF LinksInv
<1>3. Link(<<>>, <<>>, chain[p])
  BY <1>2, ListOfNone DEF Link
<1>4. /\ in'[p] = <<>> /\ out'[p] = <<>>
      /\ \A q \in Peers \ {p} : in'[q] = in[q] /\ out'[q] = out[q]
  BY <1>1, <1>2
<1>5. LinksStep
  BY <1>1, <1>2, <1>3, <1>4 DEF LinksStep
<1>6. ASSUME b \in requested \ lost' PROVE Keeps(in[p], out[p], in'[p], out'[p], b)
  <2>1. b \notin UnderWay(p)
    BY <1>6 DEF Disconnect
  <2>2. \A m \in Range(in[p]) : ~(m.type = "block" /\ m.block = b)
    BY <2>1 DEF UnderWay
  <2>3. \A m \in Range(out[p]) : ~(m.type = "getdata" /\ b \in Range(m.hashes))
    BY <2>1 DEF UnderWay
  <2> QED
    BY <2>2, <2>3 DEF Keeps
<1>7. \A q \in Peers \ {p} : Keeps(in[q], out[q], in'[q], out'[q], b)
  BY <1>4 DEF Keeps
<1> QED
  BY <1>5, <1>6, <1>7

\* A reader takes a message, and what it sends is only questions.
LEMMA ReaderTakes ==
  ASSUME LinksInv, NEW p \in Peers, in[p] # <<>>,
         in' = [in EXCEPT ![p] = Tail(in[p])], chain' = chain, DOMAIN out' = Peers,
         \A q \in Peers : \A i : Link(i, out[q], chain[q]) =>
              Link(i, out'[q], chain[q]) /\ Range(out[q]) \subseteq Range(out'[q]),
         NEW b, ~(Head(in[p]).type = "block" /\ Head(in[p]).block = b)
  PROVE  LinksStep /\ \A q \in Peers : Keeps(in[q], out[q], in'[q], out'[q], b)
<1>1. /\ DOMAIN in = Peers /\ DOMAIN out = Peers /\ DOMAIN chain = Peers
      /\ \A q \in Peers : Link(in[q], out[q], chain[q])
  BY DEF LinksInv
<1>2. Link(Tail(in[p]), out[p], chain[p]) /\ Range(in[p]) = Range(Tail(in[p])) \cup {Head(in[p])}
  BY <1>1, LinkTakesIn
<1>3. in'[p] = Tail(in[p]) /\ \A q \in Peers \ {p} : in'[q] = in[q]
  BY <1>1
<1>4. ASSUME NEW q \in Peers
      PROVE  Link(in'[q], out'[q], chain[q]) /\ Range(out[q]) \subseteq Range(out'[q])
  <2>1. Link(in'[q], out[q], chain[q])
    BY <1>1, <1>2, <1>3
  <2> QED
    BY <2>1
<1>5. LinksStep
  BY <1>1, <1>4 DEF LinksStep
<1>6. ASSUME NEW q \in Peers PROVE Keeps(in[q], out[q], in'[q], out'[q], b)
  BY <1>2, <1>3, <1>4 DEF Keeps
<1> QED
  BY <1>5, <1>6

LEMMA OnPingStep ==
  ASSUME LinksInv, NEW p \in Peers, OnPing(p), NEW b
  PROVE  LinksStep /\ \A q \in Peers : Keeps(in[q], out[q], in'[q], out'[q], b)
<1>1. /\ in[p] # <<>> /\ Head(in[p]).type # "block" /\ out' = out /\ chain' = chain
      /\ in' = [in EXCEPT ![p] = Tail(in[p])]
  BY DEF OnPing, Received, peerVars
<1>2. DOMAIN out' = Peers
  BY <1>1 DEF LinksInv
<1> QED
  BY <1>1, <1>2, ReaderTakes

\* The blocks that are asked for are among those told, and are not there.
LEMMA WantedAreTold ==
  ASSUME NEW X, NEW hashes \in Seq(X)
  PROVE  Wanted(hashes) \in Seq(X)
<1> DEFINE n == Len(hashes)
           parts == [i \in DOMAIN hashes |-> IF HaveInv(hashes[i]) THEN <<>> ELSE <<hashes[i]>>]
<1>1. n \in Nat /\ DOMAIN hashes = 1..n /\ \A i \in 1..n : hashes[i] \in X
  OBVIOUS
<1> HIDE DEF n
<1>2. <<>> \in Seq(X) /\ \A i \in 1..n : <<hashes[i]>> \in Seq(X)
  BY <1>1
<1>3. parts \in [1..n -> Seq(X)]
  BY <1>1, <1>2
<1> HIDE DEF parts
<1>4. FlattenSeq(parts) \in Seq(X)
  BY <1>1, <1>3, Flattened
<1> QED
  BY <1>4 DEF Wanted, parts

LEMMA QuestionsAsk ==
  ASSUME NEW X, NEW hashes \in Seq(X)
  PROVE  \E M : Questions(hashes) \in Seq(M) /\ \A m \in M : m.type = "getblocks"
<1> DEFINE n == Len(hashes)
           First(b) == GetBlocksMsg(LocatorFrom(Best), GetOrphanRoot(orphans, b))
           After(b) == GetBlocksMsg(LocatorFrom(b), EmptyHash)
           Part(i) == LET b == hashes[i] IN
                      IF IsKnownOrphan(b) THEN <<First(b)>>
                      ELSE IF i = Len(hashes) /\ HaveInv(b) THEN <<After(b)>>
                      ELSE <<>>
           parts == [i \in DOMAIN hashes |-> Part(i)]
           M == {First(b) : b \in X} \cup {After(b) : b \in X}
<1>1. n \in Nat /\ DOMAIN hashes = 1..n /\ \A i \in 1..n : hashes[i] \in X
  OBVIOUS
<1>2. \A m \in M : m.type = "getblocks"
  BY DEF GetBlocksMsg
<1> HIDE DEF n, First, After
<1>3. ASSUME NEW i \in 1..n PROVE Part(i) \in Seq(M)
  <2>1. First(hashes[i]) \in M /\ After(hashes[i]) \in M
    BY <1>1
  <2> HIDE DEF M
  <2>2. <<First(hashes[i])>> \in Seq(M) /\ <<After(hashes[i])>> \in Seq(M) /\ <<>> \in Seq(M)
    BY <2>1
  <2> QED
    BY <2>2
<1> HIDE DEF Part, M
<1>4. parts \in [1..n -> Seq(M)]
  BY <1>1, <1>3
<1> HIDE DEF parts
<1>5. FlattenSeq(parts) \in Seq(M)
  BY <1>1, <1>4, Flattened
<1>6. Questions(hashes) = FlattenSeq(parts)
  BY DEF Questions, parts, Part, First, After
<1> QED
  BY <1>2, <1>5, <1>6

\* What an inventory makes the node send: questions, and one request.
LEMMA InventoryAnswer ==
  ASSUME LinksInv, NEW p \in Peers, NEW hashes \in Seq(Blocks), NEW sent, NEW wanted,
         sent = SendAll(Questions(hashes)).sent, wanted = Wanted(hashes),
         NEW request, request = IF wanted = <<>> THEN <<>> ELSE <<GetDataMsg(wanted)>>,
         NEW i, Link(i, out[p], chain[p])
  PROVE  /\ Link(i, out[p] \o sent \o request, chain[p])
         /\ Range(out[p]) \cup Range(request) \subseteq Range(out[p] \o sent \o request)
<1>1. PICK M : Questions(hashes) \in Seq(M) /\ \A m \in M : m.type = "getblocks"
  BY QuestionsAsk
<1>2. sent \in Seq(M)
  BY <1>1, SentAll
<1>3. IsList(sent) /\ \A m \in Range(sent) : m.type = "getblocks"
  BY <1>1, <1>2, ListFrom
<1>4. Link(i, out[p] \o sent, chain[p]) /\ Range(out[p]) \subseteq Range(out[p] \o sent)
  BY <1>3, LinkAsks
<1>5. wanted \in Seq(Blocks)
  BY WantedAreTold
<1>6. Asked(GetDataMsg(wanted))
  BY <1>5 DEF Asked, GetDataMsg
<1>7. IsList(request) /\ \A m \in Range(request) : Asked(m)
  <2>1. CASE wanted = <<>>
    BY <2>1, ListOfNone
  <2>2. CASE wanted # <<>>
    <3>1. IsList(<<GetDataMsg(wanted)>>) /\ Range(<<GetDataMsg(wanted)>>) = {GetDataMsg(wanted)}
      BY ListOfOne
    <3> QED
      BY <1>6, <2>2, <3>1
  <2> QED
    BY <2>1, <2>2
<1> DEFINE o == out[p] \o sent
<1>8. Link(i, o, chain[p])
  BY <1>4
<1> HIDE DEF o
<1>9. Link(i, o \o request, chain[p]) /\ Range(o \o request) = Range(o) \cup Range(request)
  BY <1>7, <1>8, LinkPutsOut
<1> QED
  BY <1>4, <1>9 DEF o

LEMMA OnInventoryStep ==
  ASSUME LinksInv, NEW p \in Peers, OnInventory(p), NEW b
  PROVE  /\ LinksStep /\ \A q \in Peers : Keeps(in[q], out[q], in'[q], out'[q], b)
         /\ b \in requested' \ requested => InFlight(b)'
<1> DEFINE hashes == Head(in[p]).hashes
           wanted == Wanted(hashes)
           sent == SendAll(Questions(hashes)).sent
           request == IF wanted = <<>> THEN <<>> ELSE <<GetDataMsg(wanted)>>
<1>1. /\ in[p] # <<>> /\ Head(in[p]).type = "inv" /\ chain' = chain
      /\ in' = [in EXCEPT ![p] = Tail(in[p])]
  BY DEF OnInventory, Received, peerVars
<1>2. /\ DOMAIN in = Peers /\ DOMAIN out = Peers /\ DOMAIN chain = Peers
      /\ \A q \in Peers : Link(in[q], out[q], chain[q])
  BY DEF LinksInv
<1>3. hashes \in Seq(Blocks)
  <2>1. Told(Head(in[p]))
    BY <1>1, <1>2, LinkTakesIn
  <2> QED
    BY <1>1, <2>1 DEF Told
<1>4. CASE requested' = requested /\ out' = out
  BY <1>1, <1>2, <1>4, ReaderTakes
<1>5. CASE /\ requested' = requested \cup Range(wanted)
           /\ out' = [out EXCEPT ![p] = out[p] \o sent \o request]
  <2> HIDE DEF hashes
  <2>1. ASSUME NEW i, Link(i, out[p], chain[p])
        PROVE  /\ Link(i, out[p] \o sent \o request, chain[p])
               /\ Range(out[p]) \cup Range(request) \subseteq Range(out[p] \o sent \o request)
    BY <1>3, <2>1, InventoryAnswer
  <2> DEFINE o == out[p] \o sent \o request
  <2> HIDE DEF sent, request, wanted
  <2>2. DOMAIN out' = Peers /\ out'[p] = o /\ \A q \in Peers \ {p} : out'[q] = out[q]
    BY <1>2, <1>5
  <2>3. ASSUME NEW q \in Peers, NEW i, Link(i, out[q], chain[q])
        PROVE  Link(i, out'[q], chain[q]) /\ Range(out[q]) \subseteq Range(out'[q])
    <3>1. CASE q = p
      BY <2>1, <2>2, <2>3, <3>1
    <3>2. CASE q # p
      BY <2>2, <2>3, <3>2
    <3> QED
      BY <3>1, <3>2
  <2>4. LinksStep /\ \A q \in Peers : Keeps(in[q], out[q], in'[q], out'[q], b)
    BY <1>1, <2>2, <2>3, ReaderTakes
  <2>5. ASSUME b \in requested' \ requested PROVE InFlight(b)'
    <3>1. b \in Range(wanted)
      BY <1>5, <2>5
    <3>2. wanted # <<>>
      BY <3>1, ListOfNone
    <3>3. GetDataMsg(wanted) \in Range(request)
      <4>1. request = <<GetDataMsg(wanted)>>
        BY <3>2 DEF request
      <4> QED
        BY <4>1, ListOfOne
    <3>4. GetDataMsg(wanted) \in Range(out'[p])
      BY <1>2, <2>1, <2>2, <3>3
    <3>5. GetDataMsg(wanted).type = "getdata" /\ GetDataMsg(wanted).hashes = wanted
      BY DEF GetDataMsg
    <3> QED
      BY <3>1, <3>4, <3>5 DEF InFlight
  <2> QED
    BY <2>4, <2>5
<1> QED
  BY <1>4, <1>5 DEF OnInventory

LEMMA OnBlockStep ==
  ASSUME LinksInv, LedgerInv, NEW p \in Peers, OnBlock(p), NEW b
  PROVE  /\ LinksStep /\ LedgerInv' /\ index \subseteq index'
         /\ requested' \ lost' \subseteq requested \ lost
         /\ b \in requested' => \/ b \in index
                                \/ \A q \in Peers : Keeps(in[q], out[q], in'[q], out'[q], b)
<1> DEFINE c == Head(in[p]).block
<1>1. /\ in[p] # <<>> /\ Head(in[p]).type = "block" /\ chain' = chain
      /\ in' = [in EXCEPT ![p] = Tail(in[p])] /\ reorganising = EmptyHash
  BY DEF OnBlock, Received, peerVars
<1>2. /\ DOMAIN in = Peers /\ DOMAIN out = Peers /\ DOMAIN chain = Peers
      /\ \A q \in Peers : Link(in[q], out[q], chain[q])
  BY DEF LinksInv
<1>3. c \in Blocks /\ c # EmptyHash
  <2>1. Told(Head(in[p]))
    BY <1>1, <1>2, LinkTakesIn
  <2> QED
    BY <1>1, <2>1, BlockSyncAssumption DEF Told
<1>4. /\ DOMAIN out' = Peers
      /\ \A q \in Peers : \A i : Link(i, out[q], chain[q]) =>
              Link(i, out'[q], chain[q]) /\ Range(out[q]) \subseteq Range(out'[q])
  <2>1. CASE out' = out
    BY <1>2, <2>1
  <2>2. ASSUME NEW l, NEW root, SendGetBlocks(p, l, root)
        PROVE  /\ DOMAIN out' = Peers
               /\ \A q \in Peers : \A i : Link(i, out[q], chain[q]) =>
                    Link(i, out'[q], chain[q]) /\ Range(out[q]) \subseteq Range(out'[q])
    BY <2>2, SendStep
  <2> QED
    BY <2>1, <2>2 DEF OnBlock, AcceptBlock
<1>5. LinksStep
  <2>1. ~(Head(in[p]).type = "block" /\ Head(in[p]).block = EmptyHash)
    BY <1>3
  <2> QED
    BY <1>1, <1>4, <2>1, ReaderTakes
<1>6. LedgerInv' /\ index \subseteq index'
  <2>1. CASE UNCHANGED ledgerVars
    BY <2>1, LedgerStutters
  <2>2. CASE AcceptBlock(p, c)
    <3> HIDE DEF c
    <3> QED
      BY <1>1, <1>3, <2>2, AcceptKeepsLedger
  <2> QED
    BY <2>1, <2>2 DEF OnBlock
<1>7. b # c => \A q \in Peers : Keeps(in[q], out[q], in'[q], out'[q], b)
  BY <1>1, <1>4, ReaderTakes
<1>8. CASE c \in Range(main) /\ requested' = requested /\ lost' = lost
  <2>1. c \in index
    BY <1>8, MainHasNodes
  <2> QED
    BY <1>5, <1>6, <1>7, <1>8, <2>1
<1>9. CASE requested' = requested \ {c} /\ lost' = lost \ {c}
  BY <1>5, <1>6, <1>7, <1>9
<1> QED
  BY <1>8, <1>9 DEF OnBlock, BlockInLedger, Unrequested, requestVars

-----------------------------------------------------------------------------
(* The invariant of the synchronisation.                                   *)

\* The ledger, the links and the requests together.
SyncInv == LedgerInv /\ LinksInv /\ RequestedInFlight

LEMMA SyncStart ==
  ASSUME Init
  PROVE  SyncInv
<1>1. LedgerInv
  BY LedgerStart
<1>2. LinksInv
  <2>1. DOMAIN in = Peers /\ DOMAIN out = Peers /\ DOMAIN chain = Peers
    BY DEF Init
  <2>2. ASSUME NEW p \in Peers PROVE Link(in[p], out[p], chain[p])
    <3>1. in[p] = <<>> /\ out[p] = <<>> /\ chain[p] \in PeerChains
      BY DEF Init
    <3>2. chain[p] \in Seq(Blocks) /\ chain[p] # <<>>
      BY <3>1, TreeAssumption DEF IsChain
    <3> QED
      BY <3>1, <3>2, ListOfNone DEF Link
  <2> QED
    BY <2>1, <2>2 DEF LinksInv
<1>3. RequestedInFlight
  BY DEF Init, RequestedInFlight
<1> QED
  BY <1>1, <1>2, <1>3 DEF SyncInv

\* What was asked for and not lost stays under way.
LEMMA RequestsKept ==
  ASSUME RequestedInFlight, index \subseteq index', NEW b \in requested \ lost,
         b \in index \/ \A q \in Peers : Keeps(in[q], out[q], in'[q], out'[q], b)
  PROVE  InFlight(b)' \/ b \in index'
<1>1. InFlight(b) \/ b \in index
  BY DEF RequestedInFlight
<1> QED
  BY <1>1, FlightKept

\* A step that adds no request and keeps what is under way.
LEMMA QuietStep ==
  ASSUME SyncInv, LinksStep, LedgerInv', index \subseteq index',
         requested' \ lost' \subseteq requested \ lost,
         \A b \in requested' \ lost' :
           b \in index \/ \A q \in Peers : Keeps(in[q], out[q], in'[q], out'[q], b)
  PROVE  SyncInv'
<1>1. RequestedInFlight
  BY DEF SyncInv
<1>2. ASSUME NEW b \in requested' \ lost' PROVE InFlight(b)' \/ b \in index'
  BY <1>1, <1>2, RequestsKept
<1>3. RequestedInFlight'
  BY <1>2 DEF RequestedInFlight
<1> QED
  BY <1>3, LinksKept DEF SyncInv

LEMMA SyncStep ==
  ASSUME SyncInv, [Next]_vars
  PROVE  SyncInv'
<1>0. LedgerInv /\ LinksInv /\ RequestedInFlight
  BY DEF SyncInv
<1>1. ASSUME NEW p \in Peers, OnPing(p) PROVE SyncInv'
  <2>1. UNCHANGED ledgerVars /\ requested' = requested /\ lost' = lost
    BY <1>1 DEF OnPing, requestVars
  <2> QED
    BY <1>0, <1>1, <2>1, LedgerStutters, OnPingStep, QuietStep
<1>2. ASSUME NEW p \in Peers, OnInventory(p) PROVE SyncInv'
  <2>1. UNCHANGED ledgerVars /\ lost' = lost
    BY <1>2 DEF OnInventory
  <2>2. LedgerInv' /\ index \subseteq index'
    BY <1>0, <2>1, LedgerStutters
  <2>3. LinksStep
    BY <1>0, <1>2, OnInventoryStep
  <2>4. ASSUME NEW b \in requested' \ lost' PROVE InFlight(b)' \/ b \in index'
    <3>1. /\ \A q \in Peers : Keeps(in[q], out[q], in'[q], out'[q], b)
          /\ b \in requested' \ requested => InFlight(b)'
      BY <1>0, <1>2, OnInventoryStep
    <3> QED
      BY <1>0, <2>1, <2>2, <2>4, <3>1, RequestsKept
  <2>5. RequestedInFlight'
    BY <2>4 DEF RequestedInFlight
  <2> QED
    BY <2>2, <2>3, <2>5, LinksKept DEF SyncInv
<1>3. ASSUME NEW p \in Peers, OnBlock(p) PROVE SyncInv'
  <2>1. /\ LinksStep /\ LedgerInv' /\ index \subseteq index'
        /\ requested' \ lost' \subseteq requested \ lost
    BY <1>0, <1>3, OnBlockStep
  <2>2. \A b \in requested' \ lost' :
          b \in index \/ \A q \in Peers : Keeps(in[q], out[q], in'[q], out'[q], b)
    BY <1>0, <1>3, OnBlockStep
  <2> QED
    BY <2>1, <2>2, QuietStep
<1>4. ASSUME NEW p \in Peers, OnGetBlocks(p) PROVE SyncInv'
  <2>1. UNCHANGED ledgerVars /\ requested' = requested /\ lost' = lost
    BY <1>4 DEF OnGetBlocks, requestVars
  <2> QED
    BY <1>0, <1>4, <2>1, LedgerStutters, OnGetBlocksStep, QuietStep
<1>5. ASSUME NEW p \in Peers, OnGetData(p) PROVE SyncInv'
  <2>1. UNCHANGED ledgerVars /\ requested' = requested /\ lost \subseteq lost'
    BY <1>5 DEF OnGetData
  <2>2. LedgerInv' /\ index \subseteq index'
    BY <1>0, <2>1, LedgerStutters
  <2>3. LinksStep
    BY <1>0, <1>5, OnGetDataStep
  <2>4. \A b \in requested' \ lost' : \A q \in Peers : Keeps(in[q], out[q], in'[q], out'[q], b)
    BY <1>0, <1>5, <2>1, OnGetDataStep
  <2> QED
    BY <2>1, <2>2, <2>3, <2>4, QuietStep
<1>6. ASSUME NEW p \in Peers, PeerMines(p) PROVE SyncInv'
  <2>1. UNCHANGED ledgerVars /\ requested' = requested /\ lost' = lost
    BY <1>6 DEF PeerMines, requestVars
  <2> QED
    BY <1>0, <1>6, <2>1, LedgerStutters, PeerMinesStep, QuietStep
<1>16. ASSUME NEW p \in Peers, PeerReorganises(p) PROVE SyncInv'
  <2>1. UNCHANGED ledgerVars /\ requested' = requested /\ lost' = lost
    BY <1>16 DEF PeerReorganises, requestVars
  <2> QED
    BY <1>0, <1>16, <2>1, LedgerStutters, PeerReorganisesStep, QuietStep
<1>7. ASSUME NEW p \in Peers, PeerPings(p) PROVE SyncInv'
  <2>1. UNCHANGED ledgerVars /\ requested' = requested /\ lost' = lost
    BY <1>7 DEF PeerPings, requestVars
  <2> QED
    BY <1>0, <1>7, <2>1, LedgerStutters, PeerPingsStep, QuietStep
<1>8. ASSUME NEW p \in Peers, Disconnect(p) PROVE SyncInv'
  <2>1. UNCHANGED ledgerVars /\ requested' = requested /\ lost \subseteq lost'
    BY <1>8 DEF Disconnect
  <2>2. LedgerInv' /\ index \subseteq index'
    BY <1>0, <2>1, LedgerStutters
  <2>3. LinksStep
    BY <1>0, <1>8, DisconnectStep
  <2>4. \A b \in requested' \ lost' : \A q \in Peers : Keeps(in[q], out[q], in'[q], out'[q], b)
    BY <1>0, <1>8, <2>1, DisconnectStep
  <2> QED
    BY <2>1, <2>2, <2>3, <2>4, QuietStep
<1>9. CASE UNCHANGED <<ledgerVars, in, out, chain>> /\ requested' \ lost' \subseteq requested \ lost
  <2>1. LedgerInv' /\ index \subseteq index'
    BY <1>0, <1>9, LedgerStutters
  <2>2. \A b : LinksStep /\ \A q \in Peers : Keeps(in[q], out[q], in'[q], out'[q], b)
    BY <1>0, <1>9, LinksStutter
  <2> QED
    BY <1>9, <2>1, <2>2, QuietStep
<1>10. CASE Reorganise
  <2>1. UNCHANGED <<in, out, chain>> /\ requested' = requested /\ lost' = lost
    BY <1>10 DEF Reorganise, peerVars, linkVars, requestVars
  <2>2. LedgerInv' /\ index \subseteq index'
    BY <1>0, <1>10, ReorganiseKeepsLedger
  <2>3. \A b : LinksStep /\ \A q \in Peers : Keeps(in[q], out[q], in'[q], out'[q], b)
    BY <1>0, <2>1, LinksStutter
  <2> QED
    BY <2>1, <2>2, <2>3, QuietStep
<1>11. CASE SyncAsk
  <2>1. UNCHANGED <<ledgerVars, in, chain>> /\ requested' = requested /\ lost' = lost
    BY <1>11 DEF SyncAsk, peerVars, requestVars
  <2>2. LedgerInv' /\ index \subseteq index'
    BY <1>0, <2>1, LedgerStutters
  <2>3. /\ DOMAIN out' = Peers
        /\ \A q \in Peers : \A i : Link(i, out[q], chain[q]) =>
             Link(i, out'[q], chain[q]) /\ Range(out[q]) \subseteq Range(out'[q])
    <3>1. SendGetBlocks(loop.peer, LocatorFrom(loop.hash), EmptyHash)
      BY <1>11 DEF SyncAsk
    <3> QED
      BY <1>0, <3>1, SendStep
  <2>4. LinksStep
    BY <1>0, <2>1, <2>3 DEF LinksStep, LinksInv
  <2>5. \A b : \A q \in Peers : Keeps(in[q], out[q], in'[q], out'[q], b)
    BY <1>0, <2>1, <2>3 DEF LinksInv, Keeps
  <2> QED
    BY <2>1, <2>2, <2>4, <2>5, QuietStep
<1>12. ASSUME NEW p \in Peers, Reconnect(p) PROVE SyncInv'
  BY <1>9, <1>12 DEF Reconnect, requestVars
<1>13. CASE SyncTick \/ GetBestHeightNoder \/ SyncHash
  BY <1>9, <1>13 DEF SyncTick, GetBestHeightNoder, SyncHash, peerVars, linkVars, requestVars
<1>17. CASE SyncNeeded
  <2>1. UNCHANGED <<ledgerVars, in, out, chain>>
    BY <1>17 DEF SyncNeeded, peerVars, linkVars
  <2>2. (requested' = requested /\ lost' = lost) \/ requested' = {}
    BY <1>17 DEF SyncNeeded, requestVars
  <2> QED
    BY <1>9, <2>1, <2>2
<1>14. CASE LoopStops \/ LoopStopsPeer \/ TimerStops \/ TimerStopsPeer
  BY <1>9, <1>14 DEF LoopStops, LoopStopsPeer, TimerStops, TimerStopsPeer, peerVars, linkVars,
                     requestVars
<1>15. CASE UNCHANGED vars
  BY <1>9, <1>15 DEF vars, peerVars, linkVars, requestVars
<1> QED
  BY <1>1, <1>2, <1>3, <1>4, <1>5, <1>6, <1>7, <1>8, <1>10, <1>11, <1>12, <1>13, <1>14, <1>15,
     <1>16, <1>17 DEF Next, Reader, Server, Peer, SyncBlocks

\* The inductive invariant holds of every state of the synchronisation.
THEOREM SyncInvariant == Spec => []SyncInv
<1>1. Init => SyncInv
  BY SyncStart
<1>2. SyncInv /\ [Next]_vars => SyncInv'
  BY SyncStep
<1> QED
  BY <1>1, <1>2, PTL DEF Spec

\* A block in RequestedBlockList, which no inventory makes the node ask for again,
\* is on its way or has a node, unless it was lost with its connection or had left
\* the chain of the peer that announced it: for any number of peers, however they
\* reorganise, any tree of blocks and any size of messages.
THEOREM RequestedStaysInFlight == Spec => []RequestedInFlight
<1>1. SyncInv => RequestedInFlight
  BY DEF SyncInv
<1> QED
  BY <1>1, SyncInvariant, PTL

\* Whatever goes on while it synchronises, reorganisations and orphans included,
\* the main chain of the node is the path from the genesis block to its tip and
\* each of its blocks has a node, the blocks with a node have their parents
\* among them, and no orphan has a node.
LedgerSound ==
  /\ main = ChainTo[Best] /\ Range(main) \subseteq index
  /\ Closed(index) /\ orphans \cap index = {}

THEOREM LedgerStaysSound == Spec => []LedgerSound
<1>1. SyncInv => LedgerSound
  <2> SUFFICES ASSUME SyncInv PROVE LedgerSound
    OBVIOUS
  <2>1. LedgerInv
    BY DEF SyncInv
  <2> QED
    BY <2>1, MainHasNodes DEF LedgerInv, LedgerSound
<1> QED
  BY <1>1, SyncInvariant, PTL

-----------------------------------------------------------------------------
(* The heights of a locator.                                               *)

Follow(s, len) ==
  LET inc == NextIncrement(s.len, s.increment)
  IN  [len |-> len, h |-> s.h - inc, increment |-> inc, top |-> s.top]

\* What the definition of LocatorHeights makes of f at s.
Pick(f, s) ==
  LET h == s.h - NextIncrement(s.len, s.increment)
  IN  IF s.len >= MaxBlockLocatorsPerMsg - 1 \/ h < 1 THEN <<>>
      ELSE IF h > s.top THEN f[Follow(s, s.len)]
      ELSE <<h>> \o f[Follow(s, s.len + 1)]

\* The loop goes down.
LEMMA FollowIsLower ==
  ASSUME NEW s \in LocatorLoop, NEW len \in Nat
  PROVE  /\ Follow(s, len) \in LocatorLoop
         /\ Follow(s, len).h \in Int /\ s.h \in Int /\ Follow(s, len).h <= s.h - 1
<1>1. s.len \in Nat /\ s.h \in Int /\ s.increment \in Nat \ {0} /\ s.top \in Nat
  BY DEF LocatorLoop
<1> DEFINE inc == NextIncrement(s.len, s.increment)
<1>2. inc \in Nat \ {0}
  BY <1>1, LocatorAssumption DEF NextIncrement
<1>3. Follow(s, len) = [len |-> len, h |-> s.h - inc, increment |-> inc, top |-> s.top]
  BY DEF Follow
<1> HIDE DEF inc
<1>4. s.h - inc \in Int /\ s.h - inc <= s.h - 1
  BY <1>1, <1>2
<1> QED
  BY <1>1, <1>2, <1>3, <1>4 DEF LocatorLoop

LEMMA PickAgrees ==
  ASSUME NEW f, NEW g, NEW s \in LocatorLoop,
         s.h > 0 => /\ f[Follow(s, s.len)] = g[Follow(s, s.len)]
                    /\ f[Follow(s, s.len + 1)] = g[Follow(s, s.len + 1)]
  PROVE  Pick(f, s) = Pick(g, s)
<1>1. CASE s.h > 0
  BY <1>1 DEF Pick
<1>2. CASE ~(s.h > 0)
  <2>1. s.len \in Nat /\ s.h \in Int /\ s.increment \in Nat \ {0}
    BY DEF LocatorLoop
  <2>2. NextIncrement(s.len, s.increment) \in Nat \ {0}
    BY <2>1, LocatorAssumption DEF NextIncrement
  <2>3. s.h - NextIncrement(s.len, s.increment) < 1
    BY <1>2, <2>1, <2>2
  <2> QED
    BY <2>3 DEF Pick
<1> QED
  BY <1>1, <1>2

PicksUpTo(f, m) == \A s \in LocatorLoop : s.h <= m => f[s] = Pick(f, s)

LEMMA PicksExist ==
  ASSUME NEW n \in Nat
  PROVE  \E f : PicksUpTo(f, n)
<1> DEFINE T == {m \in 0..n : \E f : PicksUpTo(f, m)}
<1>1. 0 \in T
  <2> DEFINE e == [s \in LocatorLoop |-> <<>>]
             f == [s \in LocatorLoop |-> Pick(e, s)]
  <2>1. ASSUME NEW s \in LocatorLoop, s.h <= 0 PROVE f[s] = Pick(f, s)
    <3>1. ~(s.h > 0)
      BY <2>1 DEF LocatorLoop
    <3>2. f[s] = Pick(e, s)
      OBVIOUS
    <3> HIDE DEF e, f
    <3> QED
      BY <3>1, <3>2, PickAgrees
  <2>2. PicksUpTo(f, 0)
    BY <2>1 DEF PicksUpTo
  <2> QED
    BY <2>2
<1>2. ASSUME NEW m \in 1..n, m - 1 \in T PROVE m \in T
  <2>1. PICK f : PicksUpTo(f, m - 1)
    BY <1>2
  <2> DEFINE g == [s \in LocatorLoop |-> IF s.h = m THEN Pick(f, s) ELSE f[s]]
  <2>2. ASSUME NEW s \in LocatorLoop, s.h <= m PROVE g[s] = Pick(g, s)
    <3>1. \A len \in Nat : g[Follow(s, len)] = f[Follow(s, len)]
      <4> SUFFICES ASSUME NEW len \in Nat PROVE g[Follow(s, len)] = f[Follow(s, len)]
        OBVIOUS
      <4>1. Follow(s, len) \in LocatorLoop /\ Follow(s, len).h # m
        <5>1. /\ Follow(s, len) \in LocatorLoop /\ Follow(s, len).h \in Int /\ s.h \in Int
              /\ Follow(s, len).h <= s.h - 1
          BY FollowIsLower
        <5>2. Follow(s, len).h < m
          BY <2>2, <5>1
        <5> QED
          BY <5>1, <5>2
      <4> QED
        BY <4>1
    <3>2. s.len \in Nat /\ s.len + 1 \in Nat /\ s.h \in Int
      BY DEF LocatorLoop
    <3>3. Pick(g, s) = Pick(f, s)
      <4> HIDE DEF g
      <4> QED
        BY <3>1, <3>2, PickAgrees
    <3>4. g[s] = Pick(f, s)
      <4>1. CASE s.h = m
        BY <4>1
      <4>2. CASE s.h # m
        <5>1. s.h <= m - 1
          BY <2>2, <3>2, <4>2
        <5>2. f[s] = Pick(f, s)
          BY <2>1, <5>1 DEF PicksUpTo
        <5> QED
          BY <4>2, <5>2
      <4> QED
        BY <4>1, <4>2
    <3> HIDE DEF g
    <3> QED
      BY <3>3, <3>4
  <2>3. PicksUpTo(g, m)
    <3> HIDE DEF g
    <3> QED
      BY <2>2 DEF PicksUpTo
  <2>4. m \in 0..n
    OBVIOUS
  <2> QED
    BY <2>3, <2>4
<1>3. n \in T
  <2> HIDE DEF T
  <2>1. \A k \in 0..n : k \in T
    BY <1>1, <1>2, UpTo
  <2> QED
    BY <2>1
<1> QED
  BY <1>3

LEMMA PicksAgree ==
  ASSUME NEW f, NEW g, NEW m \in Nat, NEW n \in Nat, m <= n, PicksUpTo(f, m), PicksUpTo(g, n)
  PROVE  \A s \in LocatorLoop : s.h <= m => f[s] = g[s]
<1> DEFINE T == {k \in 0..m : \A s \in LocatorLoop : s.h <= k => f[s] = g[s]}
<1>1. ASSUME NEW k \in 0..m, NEW s \in LocatorLoop, s.h <= k,
             s.h > 0 => \A u \in LocatorLoop : u.h <= s.h - 1 => f[u] = g[u]
      PROVE  f[s] = g[s]
  <2>1. s.len \in Nat /\ s.len + 1 \in Nat /\ s.h \in Int
    BY DEF LocatorLoop
  <2>2. s.h <= m /\ s.h <= n
    BY <1>1, <2>1
  <2>3. f[s] = Pick(f, s) /\ g[s] = Pick(g, s)
    BY <2>2 DEF PicksUpTo
  <2>4. /\ Follow(s, s.len) \in LocatorLoop /\ Follow(s, s.len).h <= s.h - 1
        /\ Follow(s, s.len + 1) \in LocatorLoop /\ Follow(s, s.len + 1).h <= s.h - 1
    BY <2>1, FollowIsLower
  <2>5. Pick(f, s) = Pick(g, s)
    BY <1>1, <2>4, PickAgrees
  <2> QED
    BY <2>3, <2>5
<1>2. 0 \in T
  <2>1. 0 \in 0..m
    OBVIOUS
  <2>2. ASSUME NEW s \in LocatorLoop, s.h <= 0 PROVE f[s] = g[s]
    <3>1. ~(s.h > 0)
      BY <2>2 DEF LocatorLoop
    <3> QED
      BY <1>1, <2>1, <2>2, <3>1
  <2> QED
    BY <2>1, <2>2
<1>3. ASSUME NEW k \in 1..m, k - 1 \in T PROVE k \in T
  <2>1. k \in 0..m
    OBVIOUS
  <2>2. ASSUME NEW s \in LocatorLoop, s.h <= k PROVE f[s] = g[s]
    <3>1. \A u \in LocatorLoop : u.h <= k - 1 => f[u] = g[u]
      BY <1>3
    <3>2. \A u \in LocatorLoop : u.h <= s.h - 1 => u.h <= k - 1
      BY <2>2 DEF LocatorLoop
    <3> QED
      BY <1>1, <2>1, <2>2, <3>1, <3>2
  <2> QED
    BY <2>1, <2>2
<1>4. m \in T
  <2> HIDE DEF T
  <2>1. \A k \in 0..m : k \in T
    BY <1>2, <1>3, UpTo
  <2> QED
    BY <2>1
<1> QED
  BY <1>4

\* LocatorHeights is what its definition says.
LEMMA LocatorHeightsDef ==
  ASSUME NEW s \in LocatorLoop
  PROVE  LocatorHeights[s] = Pick(LocatorHeights, s)
<1> DEFINE F(m) == CHOOSE f : PicksUpTo(f, m)
           Rank(u) == IF u.h <= 0 THEN 0 ELSE u.h
           g == [u \in LocatorLoop |-> F(Rank(u))[u]]
           eqn(f) == [u \in LocatorLoop |-> Pick(f, u)]
<1>1. \A m \in Nat : PicksUpTo(F(m), m)
  BY PicksExist
<1> HIDE DEF F
<1>2. \A u \in LocatorLoop : Rank(u) \in Nat /\ u.h <= Rank(u) /\ u.h \in Int
  BY DEF LocatorLoop
<1>3. ASSUME NEW u \in LocatorLoop, NEW m \in Nat, Rank(u) <= m PROVE g[u] = F(m)[u]
  <2>1. F(Rank(u))[u] = F(m)[u]
    <3>1. Rank(u) \in Nat /\ u.h <= Rank(u)
      BY <1>2
    <3> HIDE DEF Rank
    <3> QED
      BY <1>1, <1>3, <3>1, PicksAgree
  <2> QED
    BY <2>1
<1>4. ASSUME NEW u \in LocatorLoop PROVE g[u] = Pick(g, u)
  <2> DEFINE m == Rank(u)
  <2>1. m \in Nat /\ u.h <= m
    BY <1>2
  <2>2. F(m)[u] = Pick(F(m), u)
    <3> HIDE DEF m
    <3> QED
      BY <1>1, <2>1 DEF PicksUpTo
  <2>3. g[u] = F(m)[u]
    OBVIOUS
  <2>4. ASSUME NEW len \in Nat PROVE g[Follow(u, len)] = F(m)[Follow(u, len)]
    <3>1. Follow(u, len) \in LocatorLoop /\ Follow(u, len).h <= u.h - 1 /\ Follow(u, len).h \in Int
      BY FollowIsLower
    <3>2. Rank(Follow(u, len)) <= m
      BY <1>2, <3>1
    <3> HIDE DEF m, g, Rank
    <3> QED
      BY <1>3, <2>1, <3>1, <3>2
  <2>5. u.len \in Nat /\ u.len + 1 \in Nat
    BY DEF LocatorLoop
  <2> HIDE DEF g, m
  <2>6. g[Follow(u, u.len)] = F(m)[Follow(u, u.len)]
    BY <2>4, <2>5
  <2>7. g[Follow(u, u.len + 1)] = F(m)[Follow(u, u.len + 1)]
    BY <2>4, <2>5
  <2>8. Pick(g, u) = Pick(F(m), u)
    BY <2>6, <2>7, PickAgrees
  <2> QED
    BY <2>2, <2>3, <2>8
<1>5. g = eqn(g)
  <2>1. g = [u \in LocatorLoop |-> g[u]]
    OBVIOUS
  <2> HIDE DEF g
  <2> QED
    BY <1>4, <2>1
<1>6. LocatorHeights = CHOOSE f : f = eqn(f)
  BY DEF LocatorHeights, Pick, Follow
<1> HIDE DEF g
<1>7. LocatorHeights = eqn(LocatorHeights)
  <2> HIDE DEF eqn
  <2> QED
    BY <1>5, <1>6
<1> QED
  BY <1>7

\* The distance doubles often enough to get from height H down to the genesis block
\* before the locator is full: d[k] is 2^k.
Reaches(d, H) ==
  /\ MaxBlockLocatorsPerMsg - 1 - DenseLocators \in Nat \ {0}
  /\ d \in [0..MaxBlockLocatorsPerMsg - 1 - DenseLocators -> Nat]
  /\ d[0] = 1
  /\ \A k \in 1..MaxBlockLocatorsPerMsg - 1 - DenseLocators : d[k] = 2 * d[k - 1]
  /\ H + 2 <= d[MaxBlockLocatorsPerMsg - 1 - DenseLocators]

\* Where the loop that started at height H is.
LoopAt(s, H, d) ==
  /\ s \in LocatorLoop /\ s.top = H /\ s.h >= 1 /\ s.h <= H
  /\ s.len >= 1 /\ s.len <= MaxBlockLocatorsPerMsg - 1
  /\ H - s.h >= 2 * s.increment - 2 /\ H - s.h >= s.len - 1
  /\ s.len <= DenseLocators + 1 => s.increment = 1
  /\ s.len > DenseLocators => s.increment >= d[s.len - DenseLocators - 1]

\* a is the first of the heights that is not above x, or else 0.
Finds(q, x, a) ==
  \E k \in 1..Len(q) + 1 :
    /\ \A j \in 1..k - 1 : q[j] > x
    /\ IF k <= Len(q) THEN q[k] = a ELSE a = 0

\* a is not further below x than H is above it, and is x when x is in the dense part.
Near(H, x, a) == a \in 0..x /\ x - a <= H - x /\ (H - x <= DenseLocators => a = x)

FindsNear(q, h, H) ==
  /\ q \in Seq(1..H)
  /\ \A x \in 0..h - 1 : \E a \in Nat : Finds(q, x, a) /\ Near(H, x, a)

LEMMA NearBelow ==
  ASSUME NEW D \in Nat, NEW H \in Nat, NEW h \in Nat, NEW inc \in Nat, NEW new \in Nat,
         NEW len \in Nat, NEW x \in 0..h - 1, NEW a \in Nat,
         h <= H, inc >= 1, H - h >= 2 * inc - 2, H - h >= len - 1,
         len <= D + 1 => inc = 1, new = IF len > D THEN 2 * inc ELSE inc,
         x >= h - new, a = IF h - new < 1 THEN 0 ELSE h - new
  PROVE  a \in 0..x /\ x - a <= H - x /\ (H - x <= D => a = x)
<1>1. new <= 2 * inc /\ new >= 1 /\ x \in Nat /\ x <= h - 1
  OBVIOUS
<1>2. a <= x /\ a >= h - new
  BY <1>1
<1>3. x - a <= H - x
  BY <1>1, <1>2
<1>4. ASSUME H - x <= D PROVE a = x
  <2>1. len <= D
    BY <1>1, <1>4
  <2>2. new = 1
    BY <2>1
  <2> QED
    BY <1>1, <1>2, <2>2
<1> QED
  BY <1>1, <1>2, <1>3, <1>4

\* The next place of the loop.
LEMMA LoopGoesOn ==
  ASSUME NEW H \in Nat, NEW d, Reaches(d, H), NEW s, LoopAt(s, H, d),
         s.len < MaxBlockLocatorsPerMsg - 1,
         s.h - NextIncrement(s.len, s.increment) >= 1
  PROVE  LoopAt(Follow(s, s.len + 1), H, d)
<1> DEFINE D == DenseLocators
           M == MaxBlockLocatorsPerMsg
           new == NextIncrement(s.len, s.increment)
           u == Follow(s, s.len + 1)
<1>1. /\ s \in LocatorLoop /\ s.len \in Nat /\ s.h \in Int /\ s.increment \in Nat \ {0}
      /\ D \in Nat /\ M \in Nat
  BY LocatorAssumption DEF LoopAt, LocatorLoop
<1>2. u \in LocatorLoop
  <2>1. s.len + 1 \in Nat
    BY <1>1
  <2> QED
    BY <1>1, <2>1, FollowIsLower
<1>3. u.len = s.len + 1 /\ u.h = s.h - new /\ u.increment = new /\ u.top = s.top
  BY DEF Follow
<1>4. new = IF s.len > D THEN 2 * s.increment ELSE s.increment
  BY DEF NextIncrement
<1> HIDE DEF u
<1>5. new \in Nat \ {0} /\ new <= 2 * s.increment
  BY <1>1, <1>4
<1>6. u.top = H /\ u.h >= 1 /\ u.h <= H /\ u.len >= 1 /\ u.len <= M - 1
  <2>1. s.h <= H /\ s.top = H /\ s.len >= 1 /\ s.len < M - 1 /\ s.h - new >= 1
    BY DEF LoopAt
  <2> HIDE DEF new, M
  <2> QED
    BY <1>1, <1>3, <1>5, <2>1
<1>7. H - u.h >= 2 * u.increment - 2 /\ H - u.h >= u.len - 1
  <2>1. H - s.h >= 2 * s.increment - 2 /\ H - s.h >= s.len - 1
    BY DEF LoopAt
  <2>2. H - (s.h - new) = H - s.h + new
    BY <1>1, <1>5
  <2> HIDE DEF new
  <2> QED
    BY <1>1, <1>3, <1>5, <2>1, <2>2
<1>8. u.len <= D + 1 => u.increment = 1
  <2> HIDE DEF new
  <2> QED
    BY <1>1, <1>3, <1>4 DEF LoopAt
<1>9. ASSUME u.len > D PROVE u.increment >= d[u.len - D - 1]
  <2>1. CASE s.len > D
    <3> DEFINE k == u.len - D - 1
    <3>1. k \in 1..M - 1 - D /\ k - 1 = s.len - D - 1 /\ k - 1 \in 0..M - 1 - D
      BY <1>1, <1>3, <2>1
    <3>2. d[k] = 2 * d[k - 1] /\ d[k - 1] \in Nat
      <4> HIDE DEF k
      <4> QED
        BY <3>1 DEF Reaches
    <3>3. s.increment >= d[k - 1]
      BY <2>1, <3>1 DEF LoopAt
    <3> HIDE DEF k, new
    <3>4. new >= d[k]
      BY <1>1, <1>4, <2>1, <3>2, <3>3
    <3> QED
      BY <1>3, <3>4 DEF k
  <2>2. CASE ~(s.len > D)
    <3>1. u.len - D - 1 = 0
      BY <1>1, <1>3, <1>9, <2>2
    <3>2. d[u.len - D - 1] = 1
      BY <3>1 DEF Reaches
    <3> HIDE DEF new
    <3> QED
      BY <1>3, <1>5, <3>2
  <2> QED
    BY <2>1, <2>2
<1> QED
  BY <1>2, <1>6, <1>7, <1>8, <1>9 DEF LoopAt, u

\* A locator is not full before it reaches the genesis block.
LEMMA LoopReaches ==
  ASSUME NEW H \in Nat, NEW d, Reaches(d, H), NEW s, LoopAt(s, H, d)
  PROVE  s.len < MaxBlockLocatorsPerMsg - 1
<1> DEFINE D == DenseLocators
           M == MaxBlockLocatorsPerMsg
<1>1. /\ s.len \in Nat /\ s.h \in Int /\ s.increment \in Nat \ {0} /\ D \in Nat /\ M \in Nat
  BY LocatorAssumption DEF LoopAt, LocatorLoop
<1> SUFFICES ASSUME s.len = M - 1 PROVE FALSE
  BY <1>1 DEF LoopAt
<1> DEFINE k == M - 1 - D
<1>2. k \in Nat \ {0} /\ k \in 1..k
  BY DEF Reaches
<1>3. s.len > D /\ s.len - D - 1 = k - 1 /\ k - 1 \in 0..k
  BY <1>1, <1>2
<1>4. d[k] = 2 * d[k - 1] /\ d[k - 1] \in Nat /\ H + 2 <= d[k]
  <2>1. /\ d \in [0..k -> Nat] /\ H + 2 <= d[k]
        /\ \A l \in 1..k : d[l] = 2 * d[l - 1]
    BY DEF Reaches
  <2> HIDE DEF k
  <2> QED
    BY <1>2, <1>3, <2>1
<1>5. s.increment >= d[k - 1]
  BY <1>3 DEF LoopAt
<1>6. H - s.h >= 2 * s.increment - 2 /\ s.h >= 1
  BY DEF LoopAt
<1> HIDE DEF k
<1> QED
  BY <1>1, <1>4, <1>5, <1>6

LEMMA FindsFirst ==
  ASSUME NEW q, NEW x, NEW a, NEW H, a \in 1..H, q \in Seq(1..H)
  PROVE  Finds(<<a>> \o q, x, a)
<1> DEFINE r == <<a>> \o q
<1>1. Len(r) = Len(q) + 1 /\ Len(q) \in Nat /\ r[1] = a
  OBVIOUS
<1> HIDE DEF r
<1>2. 1 \in 1..Len(r) + 1 /\ 1 <= Len(r) /\ 1..1 - 1 = {}
  BY <1>1
<1> QED
  BY <1>1, <1>2 DEF Finds, r

LEMMA FindsLater ==
  ASSUME NEW H \in Nat, NEW q \in Seq(1..H), NEW x \in Nat, NEW a, NEW h \in 1..H, h > x,
         Finds(q, x, a)
  PROVE  Finds(<<h>> \o q, x, a)
<1> DEFINE r == <<h>> \o q
<1>1. /\ Len(r) = Len(q) + 1 /\ Len(q) \in Nat /\ r[1] = h
      /\ \A i \in 1..Len(q) : r[i + 1] = q[i]
  OBVIOUS
<1>2. PICK k \in 1..Len(q) + 1 : /\ \A j \in 1..k - 1 : q[j] > x
                                 /\ IF k <= Len(q) THEN q[k] = a ELSE a = 0
  BY DEF Finds
<1> HIDE DEF r
<1>3. k + 1 \in 1..Len(r) + 1 /\ (k + 1 <= Len(r) <=> k <= Len(q))
  BY <1>1
<1>4. ASSUME NEW j \in 1..k + 1 - 1 PROVE r[j] > x
  <2>1. CASE j = 1
    BY <1>1, <2>1
  <2>2. CASE j # 1
    <3>1. j - 1 \in 1..k - 1 /\ j - 1 \in 1..Len(q) /\ j - 1 + 1 = j
      BY <1>1, <2>2
    <3>2. r[j] = q[j - 1]
      BY <1>1, <3>1
    <3> QED
      BY <1>2, <3>1, <3>2
  <2> QED
    BY <2>1, <2>2
<1>5. IF k + 1 <= Len(r) THEN r[k + 1] = a ELSE a = 0
  <2>1. CASE k <= Len(q)
    <3>1. k \in 1..Len(q)
      BY <1>1, <2>1
    <3>2. r[k + 1] = q[k]
      BY <1>1, <3>1
    <3> QED
      BY <1>2, <1>3, <2>1, <3>2
  <2>2. CASE ~(k <= Len(q))
    BY <1>2, <1>3, <2>2
  <2> QED
    BY <2>1, <2>2
<1> DEFINE l == k + 1
<1>6. /\ l \in 1..Len(r) + 1 /\ \A j \in 1..l - 1 : r[j] > x
      /\ IF l <= Len(r) THEN r[l] = a ELSE a = 0
  BY <1>3, <1>4, <1>5
<1> HIDE DEF l
<1>7. Finds(r, x, a)
  BY <1>6 DEF Finds
<1> QED
  BY <1>7 DEF r

LEMMA LoopStep ==
  ASSUME NEW H \in Nat, NEW d, Reaches(d, H), NEW s, LoopAt(s, H, d),
         \A u : LoopAt(u, H, d) /\ u.h <= s.h - 1 => FindsNear(LocatorHeights[u], u.h, H)
  PROVE  FindsNear(LocatorHeights[s], s.h, H)
<1> DEFINE D == DenseLocators
           new == NextIncrement(s.len, s.increment)
           h == s.h - new
           u == Follow(s, s.len + 1)
           q == LocatorHeights[s]
<1>1. /\ s \in LocatorLoop /\ s.len \in Nat /\ s.h \in Nat /\ s.increment \in Nat \ {0}
      /\ D \in Nat
  BY LocatorAssumption DEF LoopAt, LocatorLoop
<1>2. /\ s.h >= 1 /\ s.h <= H /\ s.top = H /\ H - s.h >= 2 * s.increment - 2
      /\ H - s.h >= s.len - 1 /\ (s.len <= D + 1 => s.increment = 1)
  BY DEF LoopAt
<1>3. new = (IF s.len > D THEN 2 * s.increment ELSE s.increment) /\ new \in Nat \ {0}
  BY <1>1 DEF NextIncrement
<1>4. s.len < MaxBlockLocatorsPerMsg - 1
  BY LoopReaches
<1>5. q = Pick(LocatorHeights, s)
  BY <1>1, LocatorHeightsDef
<1>6. ~(s.len >= MaxBlockLocatorsPerMsg - 1)
  BY <1>1, <1>4, LocatorAssumption
<1>7. ASSUME NEW x \in 0..s.h - 1, x >= h PROVE Near(H, x, IF h < 1 THEN 0 ELSE h)
  <2> DEFINE a == IF h < 1 THEN 0 ELSE h
  <2>1. a \in Nat /\ s.increment >= 1 /\ s.increment \in Nat /\ new \in Nat
    BY <1>1, <1>3
  <2>2. a \in 0..x /\ x - a <= H - x /\ (H - x <= D => a = x)
    <3>1. a = IF s.h - new < 1 THEN 0 ELSE s.h - new
      OBVIOUS
    <3> HIDE DEF a, new, D
    <3> QED
      BY <1>1, <1>2, <1>3, <1>7, <2>1, <3>1, NearBelow
  <2> QED
    BY <2>2 DEF Near
<1>8. CASE h < 1
  <2>1. q = <<>>
    BY <1>5, <1>8 DEF Pick
  <2>2. ASSUME NEW x \in 0..s.h - 1 PROVE Finds(q, x, 0) /\ Near(H, x, 0)
    <3>1. x >= h
      <4> HIDE DEF new
      <4> QED
        BY <1>1, <1>3, <1>8
    <3>2. Near(H, x, 0)
      <4> HIDE DEF h
      <4> QED
        BY <1>7, <1>8, <3>1
    <3>3. Len(q) = 0 /\ 1 \in 1..Len(q) + 1 /\ 1..1 - 1 = {}
      BY <2>1
    <3>4. Finds(q, x, 0)
      <4> HIDE DEF q
      <4> QED
        BY <3>3 DEF Finds
    <3> QED
      BY <3>2, <3>4
  <2>3. q \in Seq(1..H)
    BY <2>1
  <2> HIDE DEF q
  <2> QED
    BY <2>2, <2>3 DEF FindsNear, q
<1>9. CASE ~(h < 1)
  <2>1. h \in 1..H
    <3> HIDE DEF new
    <3> QED
      BY <1>1, <1>2, <1>3, <1>9
  <2>2. ~(h > s.top)
    BY <1>2, <2>1
  <2> DEFINE r == LocatorHeights[u]
  <2>3. q = <<h>> \o r
    BY <1>5, <1>6, <1>9, <2>2 DEF Pick
  <2>4. LoopAt(u, H, d)
    BY <1>4, <1>9, <2>1, LoopGoesOn
  <2>5. u.h = h /\ u.h <= s.h - 1
    <3>1. u.h = h
      BY DEF Follow
    <3> HIDE DEF new, u
    <3> QED
      BY <1>1, <1>3, <3>1
  <2>6. FindsNear(r, h, H)
    <3> HIDE DEF u, h
    <3> QED
      BY <2>4, <2>5
  <2> HIDE DEF r, u, q, h
  <2>7. r \in Seq(1..H) /\ \A x \in 0..h - 1 : \E a \in Nat : Finds(r, x, a) /\ Near(H, x, a)
    BY <2>6 DEF FindsNear
  <2>8. q \in Seq(1..H)
    BY <2>1, <2>3, <2>7
  <2>9. ASSUME NEW x \in 0..s.h - 1 PROVE \E a \in Nat : Finds(q, x, a) /\ Near(H, x, a)
    <3>1. CASE x >= h
      <4>1. Near(H, x, h)
        BY <1>7, <1>9, <3>1
      <4>2. Finds(q, x, h)
        BY <2>1, <2>3, <2>7, FindsFirst
      <4> QED
        BY <2>1, <4>1, <4>2
    <3>2. CASE ~(x >= h)
      <4>1. x \in 0..h - 1 /\ h > x /\ x \in Nat
        BY <1>1, <2>1, <3>2
      <4>2. PICK a \in Nat : Finds(r, x, a) /\ Near(H, x, a)
        BY <2>7, <4>1
      <4>3. Finds(q, x, a)
        BY <2>1, <2>3, <2>7, <4>1, <4>2, FindsLater
      <4> QED
        BY <4>2, <4>3
    <3> QED
      BY <3>1, <3>2
  <2> QED
    BY <2>8, <2>9 DEF FindsNear, q
<1> QED
  BY <1>8, <1>9

\* The heights of a locator get close to every height below the block.
LEMMA LocatorNear ==
  ASSUME NEW H \in Nat \ {0}, NEW d, Reaches(d, H)
  PROVE  FindsNear(LocatorHeights[[len |-> 1, h |-> H, increment |-> 1, top |-> H]], H, H)
<1> DEFINE s == [len |-> 1, h |-> H, increment |-> 1, top |-> H]
           T == {k \in 0..H : \A u : LoopAt(u, H, d) /\ u.h <= k
                                       => FindsNear(LocatorHeights[u], u.h, H)}
<1>1. 0 \in T
  <2>1. \A u : LoopAt(u, H, d) => u.h \in Int /\ u.h >= 1
    BY DEF LoopAt, LocatorLoop
  <2>2. \A u : LoopAt(u, H, d) => ~(u.h <= 0)
    BY <2>1
  <2> QED
    BY <2>2
<1>2. ASSUME NEW k \in 1..H, k - 1 \in T PROVE k \in T
  <2>1. k \in 0..H
    OBVIOUS
  <2>2. ASSUME NEW u, LoopAt(u, H, d), u.h <= k PROVE FindsNear(LocatorHeights[u], u.h, H)
    <3>1. u.h \in Int /\ \A v : LoopAt(v, H, d) => v.h \in Int
      BY <2>2 DEF LoopAt, LocatorLoop
    <3>2. \A v : LoopAt(v, H, d) /\ v.h <= u.h - 1 => v.h <= k - 1
      BY <2>2, <3>1
    <3>3. \A v : LoopAt(v, H, d) /\ v.h <= u.h - 1 => FindsNear(LocatorHeights[v], v.h, H)
      BY <1>2, <3>2
    <3> QED
      BY <2>2, <3>3, LoopStep
  <2> QED
    BY <2>1, <2>2
<1>3. H \in T
  <2> HIDE DEF T
  <2>1. \A k \in 0..H : k \in T
    BY <1>1, <1>2, UpTo
  <2> QED
    BY <2>1
<1>4. LoopAt(s, H, d)
  <2>1. s \in LocatorLoop /\ s.top = H /\ s.h = H /\ s.len = 1 /\ s.increment = 1
    BY DEF LocatorLoop
  <2> HIDE DEF s
  <2>2. DenseLocators \in Nat /\ MaxBlockLocatorsPerMsg - 1 >= 1
    BY LocatorAssumption DEF Reaches
  <2>3. ASSUME s.len > DenseLocators PROVE s.increment >= d[s.len - DenseLocators - 1]
    <3>1. s.len - DenseLocators - 1 = 0
      BY <2>1, <2>2, <2>3
    <3> QED
      BY <2>1, <3>1 DEF Reaches
  <2> QED
    BY <2>1, <2>2, <2>3 DEF LoopAt
<1>5. s.h <= H /\ s.h = H
  OBVIOUS
<1> HIDE DEF s
<1>6. FindsNear(LocatorHeights[s], s.h, H)
  BY <1>3, <1>4, <1>5
<1> QED
  BY <1>5, <1>6 DEF s

-----------------------------------------------------------------------------
(* One getblocks.                                                          *)

\* A chain of n blocks, of which the first shared ones are of branch 0.
IsMainChain(c, shared, n, branch) ==
  /\ c \in Seq(Range(c)) /\ Len(c) = n /\ DOMAIN c = 1..n
  /\ Last(c) = c[n] /\ Height(c) = n - 1
  /\ \A i \in 1..n : c[i] = <<i, IF i <= shared THEN 0 ELSE branch>>
  /\ \A i \in 1..n : HeightOf(c, c[i]) = i - 1

LEMMA MainChainIs ==
  ASSUME NEW shared \in Nat \ {0}, NEW own \in Nat, NEW branch
  PROVE  IsMainChain(MainChain(shared, own, branch), shared, shared + own, branch)
<1> DEFINE n == shared + own
           c == MainChain(shared, own, branch)
<1>1. n \in Nat \ {0} /\ 1 \in 1..n /\ 1 <= shared
  OBVIOUS
<1>2. /\ c = [i \in 1..n |-> <<i, IF i <= shared THEN 0 ELSE branch>>]
      /\ DOMAIN c = 1..n
  BY DEF MainChain
<1> HIDE DEF n
<1>3. \A i \in 1..n : c[i] = <<i, IF i <= shared THEN 0 ELSE branch>>
  BY <1>2
<1>4. \A i \in 1..n : c[i] \in Range(c)
  BY <1>2 DEF Range
<1>5. c \in [1..n -> Range(c)]
  BY <1>2, <1>4
<1> HIDE DEF c
<1>6. c \in Seq(Range(c)) /\ Len(c) = n
  <2>1. \A Y : \A f \in [1..n -> Y] : f \in Seq(Y) /\ Len(f) = n
    BY <1>1
  <2> QED
    BY <1>5, <2>1, Zenon
<1>7. \A i, j \in 1..n : c[i] = c[j] => i = j
  BY <1>3
<1>8. ASSUME NEW i \in 1..n PROVE HeightOf(c, c[i]) = i - 1
  <2>1. \E j \in DOMAIN c : c[j] = c[i]
    BY <1>2
  <2>2. (CHOOSE j \in DOMAIN c : c[j] = c[i]) = i
    BY <1>2, <1>7, <2>1
  <2> QED
    BY <2>2 DEF HeightOf
<1>9. Last(c) = c[n] /\ Height(c) = n - 1
  BY <1>6 DEF Last, Height
<1>10. IsMainChain(c, shared, n, branch)
  BY <1>2, <1>3, <1>6, <1>8, <1>9, Zenon DEF IsMainChain
<1> QED
  BY <1>10 DEF c, n

\* Both chains have the shared blocks and no others.
LEMMA InStoreIs ==
  ASSUME NEW shared \in Nat \ {0}, NEW own \in Nat, NEW other \in Nat, NEW b, NEW c, b # c,
         b # 0, c # 0, NEW i \in 1..shared + own
  PROVE  /\ InStore(MainChain(shared, other, c), MainChain(shared, own, b)[i]) <=> i <= shared
         /\ i <= shared => /\ i \in 1..shared + other
                           /\ MainChain(shared, other, c)[i] = MainChain(shared, own, b)[i]
<1> DEFINE m == MainChain(shared, own, b)
           t == MainChain(shared, other, c)
<1>1. m[i] = <<i, IF i <= shared THEN 0 ELSE b>>
  <2>1. IsMainChain(m, shared, shared + own, b)
    BY MainChainIs
  <2> HIDE DEF m
  <2> QED
    BY <2>1 DEF IsMainChain
<1>2. /\ DOMAIN t = 1..shared + other
      /\ \A j \in 1..shared + other : t[j] = <<j, IF j <= shared THEN 0 ELSE c>>
  <2>1. IsMainChain(t, shared, shared + other, c)
    BY MainChainIs
  <2> HIDE DEF t
  <2> QED
    BY <2>1 DEF IsMainChain
<1> HIDE DEF m, t
<1>3. ASSUME i <= shared PROVE i \in 1..shared + other /\ t[i] = m[i]
  <2>1. i \in 1..shared + other
    BY <1>3
  <2> QED
    BY <1>1, <1>2, <1>3, <2>1
<1>4. ASSUME NEW j \in 1..shared + other, t[j] = m[i] PROVE i <= shared
  <2>1. t[j] = <<j, IF j <= shared THEN 0 ELSE c>>
    BY <1>2
  <2>2. j = i /\ (IF j <= shared THEN 0 ELSE c) = (IF i <= shared THEN 0 ELSE b)
    BY <1>1, <1>4, <2>1
  <2> QED
    BY <2>2
<1>5. InStore(t, m[i]) <=> \E j \in 1..shared + other : t[j] = m[i]
  BY <1>2 DEF InStore, Range
<1>6. InStore(t, m[i]) <=> i <= shared
  BY <1>3, <1>4, <1>5
<1> QED
  BY <1>3, <1>6 DEF m, t

\* What LatestLocatorHash finds.
LEMMA FirstFound ==
  ASSUME NEW t, NEW locator, NEW n \in Nat, DOMAIN locator = 1..n, NEW k \in 1..n,
         InStore(t, locator[k]), \A j \in 1..k - 1 : ~InStore(t, locator[j])
  PROVE  LatestLocatorHash(t, locator) = locator[k]
<1> DEFINE found == {i \in DOMAIN locator : InStore(t, locator[i])}
<1>1. k \in found /\ found # {} /\ \A i \in found : i \in 1..n
  OBVIOUS
<1>2. \A i \in found : k <= i
  <2> SUFFICES ASSUME NEW i \in found, ~(k <= i) PROVE FALSE
    OBVIOUS
  <2>1. i \in 1..k - 1
    BY <1>1
  <2> QED
    BY <2>1
<1>3. LatestLocatorHash(t, locator) = locator[Min(found)]
  BY <1>1 DEF LatestLocatorHash
<1> HIDE DEF found
<1>4. Min(found) = k
  <2>1. \A x \in found : (\A y \in found : x =< y) => x = k
    BY <1>1, <1>2
  <2>2. k \in found /\ \A y \in found : k =< y
    BY <1>1, <1>2
  <2> QED
    BY <2>1, <2>2 DEF Min
<1> QED
  BY <1>3, <1>4

\* The locator of the last block: it, the blocks at the heights q, the genesis block.
IsLocator(l, m, q, H) ==
  /\ DOMAIN l = 1..Len(q) + 2 /\ l[1] = m[H + 1] /\ l[Len(q) + 2] = m[1]
  /\ \A i \in 1..Len(q) : l[i + 1] = m[q[i] + 1]

LEMMA LocatorIs ==
  ASSUME NEW m, NEW H \in Nat \ {0}, m \in Seq(Range(m)), Len(m) = H + 1, NEW q \in Seq(1..H),
         m[H + 1] # m[1],
         q = LocatorHeights[[len |-> 1, h |-> H, increment |-> 1, top |-> H]]
  PROVE  IsLocator(BlockLocatorFromHash(m, m[H + 1], H), m, q, H)
<1> DEFINE n == Len(q)
           g == [i \in DOMAIN q |-> GetBlockHash(m, q[i])]
           X == Range(m)
           l == <<m[H + 1]>> \o g \o <<m[1]>>
<1>1. n \in Nat /\ DOMAIN q = 1..n /\ DOMAIN m = 1..H + 1 /\ \A i \in 1..n : q[i] \in 1..H
  OBVIOUS
<1>2. \A i \in 1..H + 1 : m[i] \in X
  BY <1>1 DEF Range
<1>3. BlockLocatorFromHash(m, m[H + 1], H) = l
  <2>1. H # -1 /\ Height(m) = H
    BY DEF Height
  <2> QED
    BY <2>1 DEF BlockLocatorFromHash
<1>4. /\ m[H + 1] \in X /\ m[1] \in X
      /\ \A i \in 1..n : q[i] + 1 \in 1..H + 1 /\ GetBlockHash(m, q[i]) = m[q[i] + 1]
  BY <1>1, <1>2 DEF GetBlockHash
<1>5. \A i \in 1..n : GetBlockHash(m, q[i]) \in X
  BY <1>2, <1>4
<1> HIDE DEF X, n
<1>6. g \in [1..n -> X] /\ \A i \in 1..n : g[i] = m[q[i] + 1]
  BY <1>1, <1>4, <1>5
<1> HIDE DEF g
<1>7. g \in Seq(X) /\ Len(g) = n
  <2>1. \A f \in [1..n -> X] : f \in Seq(X) /\ Len(f) = n
    BY <1>1
  <2> QED
    BY <1>6, <2>1, Zenon
<1> DEFINE p == <<m[H + 1]>> \o g
<1>8. p \in Seq(X) /\ Len(p) = n + 1 /\ p[1] = m[H + 1] /\ \A i \in 1..n : p[i + 1] = g[i]
  BY <1>1, <1>4, <1>7
<1>9. l = p \o <<m[1]>>
  OBVIOUS
<1> HIDE DEF p, l
<1>10. /\ l \in Seq(X) /\ Len(l) = n + 2 /\ l[n + 2] = m[1]
       /\ \A i \in 1..n + 1 : l[i] = p[i]
  BY <1>1, <1>4, <1>8, <1>9
<1>11. 1 \in 1..n + 1 /\ \A i \in 1..n : i + 1 \in 1..n + 1
  BY <1>1
<1>12. /\ DOMAIN l = 1..n + 2 /\ l[1] = m[H + 1] /\ l[n + 2] = m[1]
       /\ \A i \in 1..n : l[i + 1] = m[q[i] + 1]
  <2>1. DOMAIN l = 1..n + 2
    BY <1>10
  <2>2. l[1] = m[H + 1]
    BY <1>8, <1>10, <1>11
  <2>3. ASSUME NEW i \in 1..n PROVE l[i + 1] = m[q[i] + 1]
    <3>1. l[i + 1] = p[i + 1]
      BY <1>10, <1>11
    <3>2. p[i + 1] = g[i] /\ g[i] = m[q[i] + 1]
      BY <1>6, <1>8
    <3> QED
      BY <3>1, <3>2
  <2> QED
    BY <1>10, <2>1, <2>2, <2>3
<1> QED
  BY <1>3, <1>12, Zenon DEF n, IsLocator

\* The server finds the block of a height that is close to the fork.
LEMMA LatestIsNear ==
  ASSUME NEW shared \in Nat \ {0}, NEW own \in Nat, NEW other \in Nat, NEW d,
         Reaches(d, shared + own - 1)
  PROVE  LET m == MainChain(shared, own, 1)
             H == shared + own - 1
         IN  \E a \in Nat :
               /\ LatestLocatorHash(MainChain(shared, other, 2),
                                    BlockLocatorFromHash(m, Last(m), Height(m))) = m[a + 1]
               /\ Near(H, shared - 1, a)
<1> DEFINE m == MainChain(shared, own, 1)
           t == MainChain(shared, other, 2)
           H == shared + own - 1
           l == BlockLocatorFromHash(m, Last(m), Height(m))
<1>1. /\ m \in Seq(Range(m)) /\ Len(m) = shared + own /\ DOMAIN m = 1..shared + own
      /\ Last(m) = m[shared + own] /\ Height(m) = shared + own - 1
      /\ \A i \in 1..shared + own : m[i] = <<i, IF i <= shared THEN 0 ELSE 1>>
  <2>1. IsMainChain(m, shared, shared + own, 1)
    BY MainChainIs
  <2> HIDE DEF m
  <2> QED
    BY <2>1 DEF IsMainChain
<1>2. \A i \in 1..shared + own : InStore(t, m[i]) <=> i <= shared
  BY InStoreIs
<1>3. H \in Nat /\ H + 1 = shared + own /\ DenseLocators \in Nat
  BY LocatorAssumption
<1> HIDE DEF m, t
<1>4. l = BlockLocatorFromHash(m, m[H + 1], H)
  BY <1>1, <1>3
<1>5. CASE own = 0
  <2>1. Near(H, shared - 1, H)
    BY <1>3, <1>5 DEF Near
  <2>2. H + 1 \in 1..shared + own /\ H + 1 <= shared
    BY <1>3, <1>5
  <2>3. InStore(t, m[H + 1])
    BY <1>2, <2>2
  <2>4. \E n \in Nat : DOMAIN l = 1..n /\ 1 \in 1..n /\ l[1] = m[H + 1]
    <3>1. CASE H = 0
      <4>1. m[H + 1] = m[1]
        BY <3>1
      <4>2. l = <<m[H + 1]>>
        BY <1>4, <4>1 DEF BlockLocatorFromHash
      <4> HIDE DEF l, H
      <4>3. DOMAIN l = 1..1 /\ 1 \in 1..1 /\ l[1] = m[H + 1]
        BY <4>2
      <4> QED
        BY <4>3
    <3>2. CASE H # 0
      <4> DEFINE q == LocatorHeights[[len |-> 1, h |-> H, increment |-> 1, top |-> H]]
      <4>1. q \in Seq(1..H)
        BY <1>3, <3>2, LocatorNear DEF FindsNear
      <4>2. m[H + 1] # m[1]
        <5>1. H + 1 \in 1..shared + own /\ 1 \in 1..shared + own /\ H + 1 # 1
          BY <1>3, <3>2
        <5> QED
          BY <1>1, <5>1
      <4>3. H \in Nat \ {0} /\ Len(m) = H + 1
        BY <1>1, <1>3, <3>2
      <4> HIDE DEF q, H, l
      <4>4. DOMAIN l = 1..Len(q) + 2 /\ l[1] = m[H + 1]
        <5>1. q = LocatorHeights[[len |-> 1, h |-> H, increment |-> 1, top |-> H]]
          BY DEF q
        <5>2. IsLocator(BlockLocatorFromHash(m, m[H + 1], H), m, q, H)
          BY <1>1, <4>1, <4>2, <4>3, <5>1, LocatorIs, Zenon
        <5> QED
          BY <1>4, <5>2, Zenon DEF IsLocator
      <4>5. Len(q) + 2 \in Nat /\ 1 \in 1..Len(q) + 2
        BY <4>1
      <4> QED
        BY <4>4, <4>5
    <3> QED
      BY <3>1, <3>2
  <2> HIDE DEF l, H
  <2>5. 1..1 - 1 = {}
    OBVIOUS
  <2>6. LatestLocatorHash(t, l) = m[H + 1]
    BY <2>3, <2>4, <2>5, FirstFound
  <2> QED
    BY <1>3, <2>1, <2>6 DEF m, t, l, H
<1>6. CASE own # 0
  <2> DEFINE q == LocatorHeights[[len |-> 1, h |-> H, increment |-> 1, top |-> H]]
             x == shared - 1
             n == Len(q) + 2
  <2>1. H \in Nat \ {0} /\ x \in 0..H - 1 /\ Len(m) = H + 1 /\ x \in Nat
    BY <1>1, <1>3, <1>6
  <2>2. FindsNear(q, H, H)
    <3> HIDE DEF H
    <3> QED
      BY <2>1, LocatorNear DEF H
  <2>3. m[H + 1] # m[1]
    <3>1. H + 1 \in 1..shared + own /\ 1 \in 1..shared + own /\ H + 1 # 1
      BY <1>3, <2>1
    <3> QED
      BY <1>1, <3>1
  <2> HIDE DEF q
  <2>4. q \in Seq(1..H) /\ \E a \in Nat : Finds(q, x, a) /\ Near(H, x, a)
    <3> HIDE DEF x, H
    <3> QED
      BY <2>1, <2>2 DEF FindsNear
  <2>5. PICK a \in Nat : Finds(q, x, a) /\ Near(H, x, a)
    BY <2>4
  <2>6. PICK k \in 1..Len(q) + 1 : /\ \A j \in 1..k - 1 : q[j] > x
                                   /\ IF k <= Len(q) THEN q[k] = a ELSE a = 0
    <3> HIDE DEF x
    <3> QED
      BY <2>5 DEF Finds
  <2> HIDE DEF H
  <2>7. /\ DOMAIN l = 1..n /\ l[1] = m[H + 1] /\ l[n] = m[1]
        /\ \A i \in 1..Len(q) : l[i + 1] = m[q[i] + 1]
    <3>1. q = LocatorHeights[[len |-> 1, h |-> H, increment |-> 1, top |-> H]]
      BY DEF q
    <3>2. H \in Nat \ {0} /\ m \in Seq(Range(m)) /\ Len(m) = H + 1 /\ q \in Seq(1..H)
      BY <1>1, <2>1, <2>4
    <3> HIDE DEF l
    <3>3. IsLocator(BlockLocatorFromHash(m, m[H + 1], H), m, q, H)
      BY <2>3, <3>1, <3>2, LocatorIs, Zenon
    <3> QED
      BY <1>4, <3>3, Zenon DEF IsLocator
  <2> HIDE DEF l
  <2>8. Len(q) \in Nat /\ n \in Nat /\ k + 1 \in 1..n /\ \A i \in 1..Len(q) : q[i] \in 1..H
    <3>1. q \in Seq(1..H)
      BY <2>4
    <3>2. Len(q) \in Nat /\ \A i \in 1..Len(q) : q[i] \in 1..H
      <4>1. \A X : \A f \in Seq(X) : Len(f) \in Nat /\ \A i \in 1..Len(f) : f[i] \in X
        OBVIOUS
      <4> QED
        BY <3>1, <4>1, Zenon
    <3> QED
      BY <3>2
  <2>9. a + 1 \in 1..shared + own /\ a + 1 <= shared
    BY <2>5 DEF Near
  <2>10. l[k + 1] = m[a + 1]
    <3>1. CASE k <= Len(q)
      <4>1. k \in 1..Len(q) /\ q[k] = a
        BY <2>6, <2>8, <3>1
      <4> QED
        BY <2>7, <4>1
    <3>2. CASE ~(k <= Len(q))
      <4>1. k + 1 = n /\ a = 0
        BY <2>6, <2>8, <3>2
      <4>2. a + 1 = 1
        BY <4>1
      <4> QED
        BY <2>7, <4>1, <4>2
    <3> QED
      BY <3>1, <3>2
  <2>11. InStore(t, l[k + 1])
    BY <1>2, <2>9, <2>10
  <2>12. ASSUME NEW j \in 1..k + 1 - 1 PROVE ~InStore(t, l[j])
    <3>1. CASE j = 1
      <4>1. H + 1 \in 1..shared + own /\ ~(H + 1 <= shared)
        BY <1>3, <1>6
      <4> QED
        BY <1>2, <2>7, <3>1, <4>1
    <3>2. CASE j # 1
      <4> DEFINE i == j - 1
      <4>1. i \in 1..k - 1 /\ i \in 1..Len(q) /\ i + 1 = j
        BY <2>8, <3>2
      <4> HIDE DEF i
      <4>2. l[j] = m[q[i] + 1] /\ q[i] > x /\ q[i] \in 1..H
        BY <2>6, <2>7, <2>8, <4>1
      <4>3. q[i] + 1 \in 1..shared + own /\ ~(q[i] + 1 <= shared)
        <5>1. q[i] \in Nat /\ q[i] <= H /\ q[i] > shared - 1
          BY <4>2
        <5>2. H + 1 = shared + own /\ H \in Nat
          BY <1>3
        <5> QED
          BY <5>1, <5>2
      <4> QED
        BY <1>2, <4>2, <4>3
    <3> QED
      BY <3>1, <3>2
  <2> HIDE DEF n
  <2>13. LatestLocatorHash(t, l) = m[a + 1]
    <3> DEFINE w == k + 1
    <3>1. /\ n \in Nat /\ w \in 1..n /\ DOMAIN l = 1..n /\ InStore(t, l[w])
          /\ \A j \in 1..w - 1 : ~InStore(t, l[j])
      BY <2>7, <2>8, <2>11, <2>12
    <3>2. l[w] = m[a + 1]
      BY <2>10
    <3> HIDE DEF w
    <3>3. LatestLocatorHash(t, l) = l[w]
      BY <3>1, FirstFound
    <3> QED
      BY <3>2, <3>3
  <2> QED
    BY <2>5, <2>13 DEF m, t, l, H
<1> QED
  BY <1>5, <1>6

LEMMA CountTo ==
  ASSUME NEW n \in Nat
  PROVE  IsFiniteSet(1..n) /\ Cardinality(1..n) = n
<1>1. IsFiniteSet(1..n) /\ Cardinality(1..n) = IF 1 > n THEN 0 ELSE n - 1 + 1
  BY FS_Interval
<1> QED
  BY <1>1

LEMMA ReachesLess ==
  ASSUME NEW G \in Nat, NEW H \in Nat, H <= G, NEW d, Reaches(d, G)
  PROVE  Reaches(d, H)
<1> DEFINE k == MaxBlockLocatorsPerMsg - 1 - DenseLocators
<1>1. k \in Nat \ {0} /\ d \in [0..k -> Nat] /\ G + 2 <= d[k]
  BY DEF Reaches
<1>2. k \in 0..k
  BY <1>1
<1> HIDE DEF k
<1>3. d[k] \in Nat
  BY <1>1, <1>2
<1>4. H + 2 <= d[k]
  BY <1>1, <1>3
<1> QED
  BY <1>4 DEF Reaches, k

\* What the server answers to the hash of a shared block.
LEMMA AnswerIs ==
  ASSUME NEW shared \in Nat \ {0}, NEW other \in Nat, NEW a \in Nat, a + 1 <= shared,
         MainChain(shared, other, 2)[a + 1] # EmptyHash
  PROVE  LET t == MainChain(shared, other, 2)
             answered == GetBlockHashes(t, t[a + 1], EmptyHash, MaxBlocksPerMsg)
             count == shared + other - 1 - a
             c == IF count > MaxBlocksPerMsg THEN MaxBlocksPerMsg ELSE count
         IN  c \in Nat /\ answered = [i \in 1..c |-> t[a + i + 1]]
<1> DEFINE t == MainChain(shared, other, 2)
           start == t[a + 1]
           count == shared + other - 1 - a
           c == IF count > MaxBlocksPerMsg THEN MaxBlocksPerMsg ELSE count
<1>1. a + 1 \in 1..shared + other /\ count \in Nat /\ c \in Nat /\ ~(count < 0)
  BY LocatorAssumption
<1>2. /\ DOMAIN t = 1..shared + other /\ Height(t) = shared + other - 1
      /\ HeightOf(t, start) = a + 1 - 1
  <2>1. IsMainChain(t, shared, shared + other, 2)
    BY MainChainIs
  <2> HIDE DEF t
  <2>2. /\ DOMAIN t = 1..shared + other /\ Height(t) = shared + other - 1
        /\ \A i \in 1..shared + other : HeightOf(t, t[i]) = i - 1
    BY <2>1 DEF IsMainChain
  <2>3. HeightOf(t, t[a + 1]) = a + 1 - 1
    <3> DEFINE j == a + 1
    <3>1. j \in 1..shared + other
      BY <1>1
    <3> HIDE DEF j
    <3>2. HeightOf(t, t[j]) = j - 1
      BY <2>2, <3>1
    <3> QED
      BY <3>2 DEF j
  <2> QED
    BY <2>2, <2>3, Zenon
<1>3. a + 1 - 1 = a /\ start # EmptyHash
  OBVIOUS
<1> HIDE DEF t
<1>4. InStore(t, start)
  BY <1>1, <1>2 DEF InStore, Range
<1> HIDE DEF start
<1>5. StartHeight(t, start) = a
  BY <1>2, <1>3 DEF StartHeight
<1>6. {start, EmptyHash} \ {EmptyHash} = {start}
  BY <1>3
<1>7. Height(t) - StartHeight(t, start) = count
  BY <1>2, <1>5
<1> HIDE DEF count
<1>8. GetBlockHashes(t, start, EmptyHash, MaxBlocksPerMsg) = HashesAfter(t, a, c)
  BY <1>1, <1>4, <1>5, <1>6, <1>7 DEF GetBlockHashes
<1>9. HashesAfter(t, a, c) = [i \in 1..c |-> t[a + i + 1]]
  BY DEF HashesAfter, GetBlockHash
<1> QED
  BY <1>1, <1>8, <1>9 DEF t, start, count

LEMMA ExchangeFindsFork ==
  ASSUME NEW shared \in 1..MaxShared, NEW own \in 0..MaxOwn, NEW other \in 0..MaxOwn, NEW d,
         Reaches(d, shared + own - 1),
         GetBlocks(MainChain(shared, own, 1), MainChain(shared, other, 2))
  PROVE  LocatorFindsFork'
<1> DEFINE m == MainChain(shared, own, 1)
           t == MainChain(shared, other, 2)
           H == shared + own - 1
           x == shared - 1
           M == MaxBlocksPerMsg
<1>0. /\ shared \in Nat \ {0} /\ own \in Nat /\ other \in Nat /\ M \in Nat \ {0}
      /\ DenseLocators \in Nat /\ MaxShared \in Nat /\ MaxOwn \in Nat
  BY LocatorAssumption, ExchangeAssumption
<1>1. /\ Len(m) = shared + own /\ DOMAIN m = 1..shared + own
      /\ \A i \in 1..shared + own : m[i] = <<i, IF i <= shared THEN 0 ELSE 1>>
  <2>1. IsMainChain(m, shared, shared + own, 1)
    BY <1>0, MainChainIs
  <2> HIDE DEF m
  <2> QED
    BY <2>1 DEF IsMainChain
<1>2. /\ Len(t) = shared + other /\ DOMAIN t = 1..shared + other
      /\ \A i \in 1..shared + other : t[i] = <<i, IF i <= shared THEN 0 ELSE 2>>
      /\ \A i \in 1..shared + other : HeightOf(t, t[i]) = i - 1
  <2>1. IsMainChain(t, shared, shared + other, 2)
    BY <1>0, MainChainIs
  <2> HIDE DEF t
  <2> QED
    BY <2>1 DEF IsMainChain
<1>3. \A i \in 1..shared + other : InStore(m, t[i]) <=> i <= shared
  BY <1>0, InStoreIs
<1>4. PICK a \in Nat : /\ LatestLocatorHash(t, BlockLocatorFromHash(m, Last(m), Height(m))) = m[a + 1]
                       /\ Near(H, x, a)
  BY <1>0, LatestIsNear
<1>5. a \in 0..x /\ x - a <= own /\ (own <= DenseLocators => a = x) /\ a + 1 <= shared
  <2>1. H - x = own
    BY <1>0
  <2>2. a \in 0..x /\ x - a <= H - x /\ (H - x <= DenseLocators => a = x)
    BY <1>4 DEF Near
  <2> HIDE DEF H
  <2> QED
    BY <1>0, <2>1, <2>2
<1>6. a + 1 \in 1..shared + own /\ a + 1 \in 1..shared + other
  BY <1>0, <1>5
<1>7. m[a + 1] = t[a + 1]
  <2> HIDE DEF m, t
  <2> QED
    BY <1>1, <1>2, <1>5, <1>6
<1>8. t[a + 1] # EmptyHash
  <2>1. a + 1 \in 1..MaxShared + MaxOwn /\ 0 \in 0..2
    BY <1>0, <1>5
  <2>2. t[a + 1] = <<a + 1, 0>>
    <3> HIDE DEF t
    <3> QED
      BY <1>2, <1>5, <1>6
  <2> HIDE DEF t
  <2> QED
    BY <2>1, <2>2, ExchangeAssumption
<1> DEFINE count == shared + other - 1 - a
           c == IF count > M THEN M ELSE count
           r == GetBlockHashes(t, t[a + 1], EmptyHash, M)
<1>9. c \in Nat /\ r = [i \in 1..c |-> t[a + i + 1]]
  <2>1. shared \in Nat \ {0} /\ other \in Nat /\ a + 1 <= shared
    BY <1>0, <1>5
  <2> QED
    BY <1>8, <2>1, AnswerIs
<1>10. asker' = m /\ server' = t /\ answer' = r
  BY <1>4, <1>7 DEF GetBlocks
<1> HIDE DEF m, t, r, H
<1>11. c <= count /\ c <= M /\ (c = count \/ c = M) /\ count = shared + other - 1 - a
  BY <1>0, <1>9
<1> HIDE DEF c, count
<1>12. DOMAIN r = 1..c /\ \A i \in 1..c : r[i] = t[a + i + 1] /\ a + i + 1 \in 1..shared + other
  <2>1. DOMAIN r = 1..c /\ \A i \in 1..c : r[i] = t[a + i + 1]
    BY <1>9
  <2>2. \A i \in 1..c : a + i + 1 \in 1..shared + other
    BY <1>0, <1>9, <1>11
  <2> QED
    BY <2>1, <2>2
<1>13. \A i \in 1..c : InStore(m, r[i]) <=> a + i + 1 <= shared
  BY <1>3, <1>12
<1> DEFINE known == {i \in DOMAIN r : InStore(m, r[i])}
<1>14. Shared' = shared /\ Own' = own
  <2> DEFINE S == {i \in DOMAIN m \cap DOMAIN t : m[i] = t[i]}
  <2>1. S = 1..shared
    <3>1. ASSUME NEW i \in 1..shared PROVE i \in S
      <4>1. i \in 1..shared + own /\ i \in 1..shared + other /\ i <= shared
        BY <1>0
      <4> QED
        BY <1>1, <1>2, <4>1
    <3>2. ASSUME NEW i \in S PROVE i \in 1..shared
      <4>1. i \in 1..shared + own /\ i \in 1..shared + other /\ m[i] = t[i]
        BY <1>1, <1>2
      <4>2. (IF i <= shared THEN 0 ELSE 1) = (IF i <= shared THEN 0 ELSE 2)
        BY <1>1, <1>2, <4>1
      <4> QED
        BY <1>0, <4>1, <4>2
    <3> QED
      BY <3>1, <3>2
  <2> HIDE DEF S
  <2>2. Cardinality(1..shared) = shared
    BY <1>0, CountTo
  <2>3. Shared' = Cardinality(S)
    BY <1>10 DEF Shared, S
  <2>4. Shared' = shared
    BY <2>1, <2>2, <2>3
  <2>5. Own' = Len(m) - Shared'
    BY <1>10 DEF Own
  <2> QED
    BY <1>0, <1>1, <2>4, <2>5
<1>15. ASSUME r # <<>> PROVE t[HeightOf(t, r[1])] \in Range(m)
  <2>1. c # 0
    <3> SUFFICES ASSUME c = 0 PROVE FALSE
      OBVIOUS
    <3>1. r = [i \in 1..0 |-> t[a + i + 1]]
      BY <1>9
    <3> QED
      BY <1>15, <3>1
  <2>2. 1 \in 1..c /\ a + 1 + 1 - 1 = a + 1
    BY <1>9, <2>1
  <2>3. r[1] = t[a + 1 + 1] /\ a + 1 + 1 \in 1..shared + other
    BY <1>12, <2>2
  <2>4. HeightOf(t, r[1]) = a + 1
    BY <1>2, <2>2, <2>3
  <2>5. m[a + 1] \in Range(m)
    BY <1>1, <1>6 DEF Range
  <2> QED
    BY <1>7, <2>4, <2>5
<1>16. Cardinality(known) <= IF own <= DenseLocators THEN 0 ELSE own
  <2>1. known \in SUBSET (1..x - a)
    <3> SUFFICES ASSUME NEW i \in known PROVE i \in 1..x - a
      OBVIOUS
    <3>1. i \in 1..c /\ a + i + 1 <= shared
      BY <1>12, <1>13
    <3> QED
      BY <1>0, <1>5, <1>9, <3>1
  <2>2. x - a \in Nat
    BY <1>0, <1>5
  <2>3. IsFiniteSet(1..x - a) /\ Cardinality(1..x - a) = x - a
    BY <2>2, CountTo
  <2> HIDE DEF known, x
  <2>4. Cardinality(known) <= x - a /\ Cardinality(known) \in Nat
    BY <2>1, <2>3, FS_Subset, FS_CardinalityType
  <2>5. x - a <= own /\ (own <= DenseLocators => x - a = 0)
    BY <1>5, <2>2
  <2> QED
    BY <1>0, <2>2, <2>4, <2>5
<1>17. ASSUME Len(t) > shared, own < M PROVE known # DOMAIN r
  <2> DEFINE i == shared - a
  <2>1. i \in Int /\ i >= 1 /\ i = x - a + 1 /\ i <= own + 1
    BY <1>0, <1>5
  <2>2. other >= 1
    BY <1>0, <1>2, <1>17
  <2>3. i <= count /\ i <= M
    BY <1>0, <1>11, <1>17, <2>1, <2>2
  <2>4. i \in 1..c
    <3> HIDE DEF i
    <3> QED
      BY <1>9, <1>11, <2>1, <2>3
  <2>5. ~(a + i + 1 <= shared)
    BY <1>0
  <2> HIDE DEF i
  <2>6. i \in DOMAIN r /\ ~InStore(m, r[i])
    BY <1>12, <1>13, <2>4, <2>5
  <2> QED
    BY <2>6
<1>18. LET known2 == {i \in DOMAIN answer' : InStore(asker', answer'[i])}
       IN  asker' # <<>> =>
             /\ answer' # <<>> => server'[HeightOf(server', answer'[1])] \in Range(asker')
             /\ Cardinality(known2) <= IF Own' <= DenseLocators THEN 0 ELSE Own'
             /\ Len(server') > Shared' /\ Own' < M => known2 # DOMAIN answer'
  <2>1. {i \in DOMAIN answer' : InStore(asker', answer'[i])} = known
    BY <1>10
  <2> HIDE DEF known
  <2> QED
    BY <1>10, <1>14, <1>15, <1>16, <1>17, <2>1
<1> QED
  BY <1>18 DEF LocatorFindsFork, InStore, HeightOf

\* There are enough locators for the chains of the exchange: the distance, which
\* doubles after DenseLocators of them, exceeds the longest chain before the locator
\* is full.  With 10 and 500 (BlockLocatorFromHash, MaxBlockLocatorsPerMsg) it is
\* true of chains of up to 2^489 - 2 blocks.
LocatorsReach == \E d : Reaches(d, MaxShared + MaxOwn)

\* For chains of any length and forks of any depth, the answer to getblocks continues a
\* block that the asker has, repeats no block above a fork in the dense part of the
\* locator and otherwise no more blocks than the fork is deep, and brings something new
\* if there is something and the fork is less deep than a message is long.
THEOREM ForkIsFound ==
  LocatorsReach => (ExchangeInit /\ [][ExchangeNext]_exchangeVars => []LocatorFindsFork)
<1> SUFFICES ASSUME LocatorsReach
             PROVE  ExchangeInit /\ [][ExchangeNext]_exchangeVars => []LocatorFindsFork
  OBVIOUS
<1>1. ExchangeInit => LocatorFindsFork
  BY DEF ExchangeInit, LocatorFindsFork
<1>2. LocatorFindsFork /\ [ExchangeNext]_exchangeVars => LocatorFindsFork'
  <2> SUFFICES ASSUME LocatorFindsFork, [ExchangeNext]_exchangeVars PROVE LocatorFindsFork'
    OBVIOUS
  <2>1. CASE UNCHANGED exchangeVars
    BY <2>1 DEF exchangeVars, LocatorFindsFork, Own, Shared
  <2>2. CASE ExchangeNext
    <3>1. PICK shared \in 1..MaxShared, own \in 0..MaxOwn, other \in 0..MaxOwn :
            GetBlocks(MainChain(shared, own, 1), MainChain(shared, other, 2))
      BY <2>2 DEF ExchangeNext
    <3>2. PICK d : Reaches(d, MaxShared + MaxOwn)
      BY DEF LocatorsReach
    <3>3. shared + own - 1 <= MaxShared + MaxOwn /\ shared + own - 1 \in Nat
          /\ MaxShared + MaxOwn \in Nat
      BY ExchangeAssumption
    <3>4. Reaches(d, shared + own - 1)
      BY <3>2, <3>3, ReachesLess
    <3> QED
      BY <3>1, <3>4, ExchangeFindsFork
  <2> QED
    BY <2>1, <2>2
<1> QED
  BY <1>1, <1>2, PTL
=============================================================================
