--------------------------- MODULE Ledger_proofs ---------------------------
(***************************************************************************)
(* Whatever blocks are connected and disconnected, the indices of the      *)
(* store say what the main chain says, so that outputs are spent once, by  *)
(* their owners, and not before their lock, and so that blocks make no     *)
(* money, for any transactions, any number of them in a block and any      *)
(* chains.                                                                 *)
(***************************************************************************)
EXTENDS Ledger, FiniteSetTheorems, WellFoundedInduction, TLAPS

-----------------------------------------------------------------------------
(* Lists.                                                                  *)

\* A set of naturals that is not empty has a least element.
LEMMA LeastNumber ==
  ASSUME NEW T \in SUBSET Nat, T # {}
  PROVE  \E x \in T : \A y \in T : x <= y
<1>1. IsWellFoundedOn(OpToRel(<, Nat), Nat)
  BY NatLessThanWellFounded
<1>2. PICK x \in T : \A y \in T : ~(<<y, x>> \in OpToRel(<, Nat))
  BY <1>1, WFMin
<1>3. \A y \in T : ~(y < x)
  BY <1>2 DEF OpToRel
<1> QED
  BY <1>3

LEMMA SequenceElement ==
  ASSUME NEW S, NEW list \in Seq(S), NEW i \in 1..Len(list)
  PROVE  list[i] \in S
OBVIOUS

\* Where the first element that equals e is, 0 where there is none.
Position(list, e) == SelectInSeq(list, LAMBDA x : x = e)

LEMMA PositionIs ==
  ASSUME NEW E, NEW list \in Seq(E), NEW e
  PROVE  \/ Position(list, e) = 0 /\ e \notin Range(list)
         \/ Position(list, e) \in 1..Len(list) /\ list[Position(list, e)] = e
<1> DEFINE I == {i \in 1..Len(list) : list[i] = e}
<1>1. Position(list, e) = IF I # {} THEN Min(I) ELSE 0
  BY DEF Position, SelectInSeq
<1>2. CASE I = {}
  BY <1>1, <1>2 DEF Range
<1>3. CASE I # {}
  <2>0. I \in SUBSET Nat
    OBVIOUS
  <2>1. PICK x \in I : \A y \in I : x <= y
    BY <1>3, <2>0, LeastNumber
  <2> HIDE DEF I
  <2>2. Min(I) \in I
    BY <2>1 DEF Min
  <2> USE DEF I
  <2> QED
    BY <1>1, <1>3, <2>2
<1> QED
  BY <1>2, <1>3

\* An element is appended that was not there.
LEMMA AppendKeeps ==
  ASSUME NEW E, NEW list \in Seq(E), NEW e \in E, IsInjective(list), e \notin Range(list)
  PROVE  /\ Append(list, e) \in Seq(E) /\ IsInjective(Append(list, e))
         /\ Range(Append(list, e)) = Range(list) \cup {e}
<1> DEFINE new == Append(list, e)
<1>1. /\ new \in Seq(E) /\ Len(new) = Len(list) + 1 /\ new[Len(new)] = e
      /\ \A i \in 1..Len(list) : new[i] = list[i]
  OBVIOUS
<1>2. DOMAIN new = 1..Len(list) + 1 /\ DOMAIN list = 1..Len(list) /\ Len(list) \in Nat
  BY <1>1
<1> HIDE DEF new
<1>3. IsInjective(new)
  BY <1>1, <1>2 DEF IsInjective, Range
<1>4. Range(new) = Range(list) \cup {e}
  BY <1>1, <1>2 DEF Range
<1> QED
  BY <1>1, <1>3, <1>4 DEF new

\* The last element takes the place of the one that is taken.
LEMMA TakeKeeps ==
  ASSUME NEW E, NEW list \in Seq(E), NEW e \in E, IsInjective(list)
  PROVE  /\ Take(list, e) \in Seq(E) /\ IsInjective(Take(list, e))
         /\ Range(Take(list, e)) = Range(list) \ {e}
<1> DEFINE p == Position(list, e)
           n == Len(list)
           new == SubSeq([list EXCEPT ![p] = list[n]], 1, n - 1)
<1>1. Take(list, e) = IF p = 0 THEN list ELSE new
  BY DEF Take, Position, Front, Last
<1>2. CASE p = 0
  BY <1>1, <1>2, PositionIs DEF Range
<1>3. CASE p # 0
  <2>1. p \in 1..n /\ list[p] = e /\ n \in Nat /\ DOMAIN list = 1..n
    BY <1>3, PositionIs
  <2> HIDE DEF p
  <2>2. [list EXCEPT ![p] = list[n]] \in Seq(E) /\ Len([list EXCEPT ![p] = list[n]]) = n
    BY <2>1
  <2>3. /\ new \in Seq(E) /\ Len(new) = n - 1 /\ DOMAIN new = 1..n - 1
        /\ \A i \in 1..n - 1 : new[i] = IF i = p THEN list[n] ELSE list[i]
    BY <2>1, <2>2
  <2> HIDE DEF new
  <2>4. IsInjective(new)
    BY <2>1, <2>3 DEF IsInjective
  <2>5. Range(new) = Range(list) \ {e}
    <3>1. \A x \in Range(new) : x \in Range(list) \ {e}
      BY <2>1, <2>3 DEF Range, IsInjective
    <3>2. ASSUME NEW i \in 1..n, list[i] # e PROVE list[i] \in Range(new)
      <4>1. CASE i = n
        BY <2>1, <2>3, <3>2, <4>1 DEF Range
      <4>2. CASE i # n
        <5>0. i # p
          BY <2>1, <3>2
        <5>1. i \in 1..n - 1
          <6>1. n \in Nat /\ i \in Nat /\ 1 <= i /\ i <= n
            BY <2>1
          <6> HIDE DEF n
          <6> QED
            BY <4>2, <6>1
        <5>2. new[i] = list[i]
          BY <2>3, <5>0, <5>1
        <5> QED
          BY <2>3, <5>1, <5>2 DEF Range
      <4> QED
        BY <4>1, <4>2
    <3> QED
      BY <2>1, <3>1, <3>2 DEF Range
  <2> QED
    BY <1>1, <1>3, <2>3, <2>4, <2>5
<1> QED
  BY <1>2, <1>3

\* An element that is there is cut out.
LEMMA CutKeeps ==
  ASSUME NEW E, NEW list \in Seq(E), NEW e \in Range(list), IsInjective(list)
  PROVE  /\ CutOut(list, e) \in Seq(E) /\ IsInjective(CutOut(list, e))
         /\ Range(CutOut(list, e)) = Range(list) \ {e}
<1> DEFINE p == Position(list, e)
           n == Len(list)
           left == SubSeq(list, 1, p - 1)
           right == SubSeq(list, p + 1, n)
           new == left \o right
<1>1. p \in 1..n /\ list[p] = e /\ n \in Nat /\ DOMAIN list = 1..n
  BY PositionIs
<1>2. CutOut(list, e) = new
  <2>1. CutOut(list, e) = RemoveAt(list, IF p = 0 THEN 1 ELSE p)
    BY DEF CutOut, Position
  <2>2. (IF p = 0 THEN 1 ELSE p) = p
    BY <1>1
  <2> QED
    BY <2>1, <2>2 DEF RemoveAt
<1> HIDE DEF p
<1>3. left \in Seq(E) /\ Len(left) = p - 1 /\ \A i \in 1..p - 1 : left[i] = list[i]
  BY <1>1
<1>4. right \in Seq(E) /\ Len(right) = n - p /\ \A i \in 1..n - p : right[i] = list[p + i]
  <2>1. Len(right) = n - p
    <3>1. Len(SubSeq(list, p + 1, n)) = IF p + 1 <= n THEN n - (p + 1) + 1 ELSE 0
      BY <1>1
    <3> HIDE DEF n
    <3> QED
      BY <1>1, <3>1
  <2>2. right \in Seq(E)
    BY <1>1
  <2>3. ASSUME NEW i \in 1..n - p PROVE right[i] = list[p + i]
    <3>1. i \in 1..Len(SubSeq(list, p + 1, n))
      BY <2>1
    <3>2. SubSeq(list, p + 1, n)[i] = list[p + 1 + i - 1]
      BY <1>1, <3>1
    <3>3. p + 1 + i - 1 = p + i
      BY <1>1
    <3> QED
      BY <3>2, <3>3
  <2> QED
    BY <2>1, <2>2, <2>3
<1>5. /\ new \in Seq(E) /\ Len(new) = n - 1 /\ DOMAIN new = 1..n - 1
      /\ \A i \in 1..n - 1 : new[i] = IF i < p THEN list[i] ELSE list[i + 1]
  <2> HIDE DEF left, right
  <2>1. new \in Seq(E) /\ Len(new) = n - 1 /\ DOMAIN new = 1..n - 1
    <3>1. new \in Seq(E) /\ Len(new) = Len(left) + Len(right)
      BY <1>3, <1>4
    <3>2. Len(new) = n - 1
      BY <1>1, <1>3, <1>4, <3>1
    <3> QED
      BY <3>1, <3>2
  <2>2. ASSUME NEW i \in 1..n - 1
        PROVE  new[i] = IF i < p THEN list[i] ELSE list[i + 1]
    <3>1. new[i] = IF i <= Len(left) THEN left[i] ELSE right[i - Len(left)]
      BY <1>1, <1>3, <1>4
    <3>2. CASE i < p
      BY <1>1, <1>3, <3>1, <3>2
    <3>3. CASE i >= p
      <4>1. i - (p - 1) \in 1..n - p /\ p + (i - (p - 1)) = i + 1
        BY <1>1, <3>3
      <4>2. new[i] = right[i - (p - 1)]
        BY <1>1, <1>3, <3>1, <3>3
      <4>3. right[i - (p - 1)] = list[p + (i - (p - 1))]
        BY <1>4, <4>1
      <4> QED
        BY <1>1, <3>3, <4>1, <4>2, <4>3
    <3>4. i < p \/ i >= p
      BY <1>1
    <3> QED
      BY <3>2, <3>3, <3>4
  <2> QED
    BY <2>1, <2>2
<1> HIDE DEF new
<1>6. /\ IsInjective(new)
      /\ \A x \in Range(new) : x \in Range(list) \ {e}
  <2> DEFINE at(i) == IF i < p THEN i ELSE i + 1
  <2>1. \A i \in 1..n - 1 : at(i) \in 1..n /\ at(i) # p /\ new[i] = list[at(i)]
    BY <1>1, <1>5
  <2>2. \A i, j \in 1..n - 1 : at(i) = at(j) => i = j
    BY <1>1
  <2> HIDE DEF at
  <2> QED
    <3>1. IsInjective(new)
      <4>1. ASSUME NEW i \in 1..n - 1, NEW j \in 1..n - 1, new[i] = new[j] PROVE i = j
        <5>1. list[at(i)] = list[at(j)] /\ at(i) \in DOMAIN list /\ at(j) \in DOMAIN list
          BY <1>1, <2>1, <4>1
        <5>2. at(i) = at(j)
          BY <5>1 DEF IsInjective
        <5> QED
          BY <2>2, <5>2
      <4> QED
        BY <1>5, <4>1 DEF IsInjective
    <3>2. \A i \in 1..n - 1 : list[at(i)] # e
      BY <1>1, <2>1 DEF IsInjective
    <3>3. \A x \in Range(new) : x \in Range(list) \ {e}
      <4>1. ASSUME NEW i \in 1..n - 1 PROVE new[i] \in Range(list) \ {e}
        <5>1. at(i) \in DOMAIN list /\ new[i] = list[at(i)] /\ list[at(i)] # e
          BY <1>1, <2>1, <3>2
        <5> QED
          BY <5>1 DEF Range
      <4> QED
        BY <1>5, <4>1 DEF Range
    <3> QED
      BY <3>1, <3>3
<1>7. ASSUME NEW i \in 1..n, list[i] # e PROVE list[i] \in Range(new)
  <2>1. CASE i < p
    BY <1>1, <1>5, <2>1 DEF Range
  <2>2. CASE i > p
    <3>1. i - 1 \in 1..n - 1 /\ new[i - 1] = list[i]
      BY <1>1, <1>5, <2>2
    <3> QED
      BY <1>5, <3>1 DEF Range
  <2> QED
    BY <1>1, <1>7, <2>1, <2>2
<1> QED
  <2>1. Range(new) = Range(list) \ {e}
    BY <1>1, <1>6, <1>7 DEF Range
  <2> QED
    BY <1>2, <1>5, <1>6, <2>1

-----------------------------------------------------------------------------
(* Batches.                                                                *)

Hows == {"append", "take", "cut"}

\* What an edit makes of the elements S of a list, T being the ones it is for.
Edited(how, S, T) == IF how = "append" THEN S \cup T ELSE S \ T

\* The edit does what it is meant to: an element that is appended is new, one
\* that is cut out is there.
Fits(how, S, e) == (how = "append" => e \notin S) /\ (how = "cut" => e \in S)

LEMMA EditKeeps ==
  ASSUME NEW E, NEW list \in Seq(E), NEW e \in E, NEW how \in Hows,
         IsInjective(list), Fits(how, Range(list), e)
  PROVE  /\ Edit(how, list, e) \in Seq(E) /\ IsInjective(Edit(how, list, e))
         /\ Range(Edit(how, list, e)) = Edited(how, Range(list), {e})
<1>1. CASE how = "append"
  <2>1. Edit(how, list, e) = Append(list, e)
    BY <1>1 DEF Edit
  <2>2. e \notin Range(list)
    BY <1>1 DEF Fits
  <2>3. /\ Append(list, e) \in Seq(E) /\ IsInjective(Append(list, e))
        /\ Range(Append(list, e)) = Range(list) \cup {e}
    BY <2>2, AppendKeeps
  <2>4. Edited(how, Range(list), {e}) = Range(list) \cup {e}
    BY <1>1 DEF Edited
  <2> QED
    BY <2>1, <2>3, <2>4, Zenon
<1>2. CASE how = "take"
  <2>1. Edit(how, list, e) = Take(list, e)
    BY <1>2 DEF Edit
  <2> QED
    BY <1>2, <2>1, TakeKeeps DEF Edited
<1>3. CASE how = "cut"
  <2>1. Edit(how, list, e) = CutOut(list, e)
    BY <1>3 DEF Edit
  <2> QED
    BY <1>3, <2>1, CutKeeps DEF Fits, Edited
<1> QED
  BY <1>1, <1>2, <1>3 DEF Hows

\* A batch whose keys are in K and whose lists, as read through the index, hold
\* elements of E at most once.
Proper(K, E, index, batch) ==
  /\ DOMAIN batch \subseteq K
  /\ \A key \in K :
       Listed(batch, index, key) \in Seq(E) /\ IsInjective(Listed(batch, index, key))

Elements(index, batch, key) == Range(Listed(batch, index, key))

Agree(base, index, key) == Listed(<< >>, base, key) = Listed(<< >>, index, key)

LEMMA ListedAgrees ==
  ASSUME NEW base, NEW index, NEW batch, NEW key, Agree(base, index, key)
  PROVE  Listed(batch, base, key) = Listed(batch, index, key)
<1>1. CASE key \in DOMAIN batch
  BY <1>1 DEF Listed
<1>2. CASE key \notin DOMAIN batch
  <2>1. \A i : Listed(batch, i, key) = IF key \in DOMAIN i THEN i[key] ELSE << >>
    BY <1>2 DEF Listed
  <2>2. \A i : Listed(<< >>, i, key) = IF key \in DOMAIN i THEN i[key] ELSE << >>
    BY DEF Listed
  <2> QED
    BY <2>1, <2>2 DEF Agree
<1> QED
  BY <1>1, <1>2

\* What one edit does to the lists.
OneEdited(K, E, how, index, batch, new, c) ==
  /\ Proper(K, E, index, new)
  /\ Elements(index, new, c.key) = Edited(how, Elements(index, batch, c.key), {c.elem})
  /\ \A key \in K \ {c.key} : Elements(index, new, key) = Elements(index, batch, key)

LEMMA EditOneKeeps ==
  ASSUME NEW K, NEW E, NEW base, NEW index, NEW batch, Proper(K, E, index, batch),
         NEW how \in Hows, NEW c \in [key : K, elem : E], Agree(base, index, c.key),
         Fits(how, Elements(index, batch, c.key), c.elem)
  PROVE  OneEdited(K, E, how, index, batch, EditOne(how, base, batch, c), c)
<1> DEFINE list == Listed(batch, index, c.key)
           new == Edit(how, list, c.elem)
           after == EditOne(how, base, batch, c)
<1>1. after = Put(batch, c.key, new)
  BY ListedAgrees DEF EditOne
<1>2. list \in Seq(E) /\ IsInjective(list) /\ c.key \in K /\ c.elem \in E
  BY DEF Proper
<1>3. /\ new \in Seq(E) /\ IsInjective(new)
      /\ Range(new) = Edited(how, Range(list), {c.elem})
  <2>1. Fits(how, Range(list), c.elem)
    BY DEF Elements
  <2> HIDE DEF list
  <2> QED
    BY <1>2, <2>1, EditKeeps
<1> HIDE DEF new, after
<1>4. /\ DOMAIN after = DOMAIN batch \cup {c.key}
      /\ Listed(after, index, c.key) = new
      /\ \A key : key # c.key => Listed(after, index, key) = Listed(batch, index, key)
  <2> DEFINE p == Put(batch, c.key, new)
  <2>1. DOMAIN p = DOMAIN batch \cup {c.key}
    BY DEF Put
  <2>2. Listed(p, index, c.key) = new
    BY DEF Put, Listed
  <2>3. \A key : key # c.key => Listed(p, index, key) = Listed(batch, index, key)
    BY DEF Put, Listed
  <2> QED
    BY <1>1, <2>1, <2>2, <2>3, Zenon
<1>5. Proper(K, E, index, after)
  BY <1>2, <1>3, <1>4 DEF Proper
<1>6. Elements(index, after, c.key) = Edited(how, Elements(index, batch, c.key), {c.elem})
  BY <1>3, <1>4 DEF Elements
<1>7. \A key \in K \ {c.key} : Elements(index, after, key) = Elements(index, batch, key)
  BY <1>4 DEF Elements
<1> QED
  BY <1>5, <1>6, <1>7 DEF after, OneEdited

\* The loop of EditAll: what the batch is before the first entry and after each.
LEMMA EditAllLoop ==
  ASSUME NEW how, NEW index, NEW batch, NEW S, NEW entries \in Seq(S)
  PROVE  \E f : /\ f[0] = batch
                /\ \A k \in 1..Len(entries) :
                     f[k] = EditOne(how, index, f[k - 1], entries[k])
                /\ EditAll(how, index, batch, entries) = f[Len(entries)]
<1> DEFINE n == Len(entries)
           step(f) == [k \in 0..n |-> IF k = 0 THEN batch
                                      ELSE EditOne(how, index, f[k - 1], entries[k])]
           Runs(f, m) == /\ f[0] = batch
                         /\ \A k \in 1..m : f[k] = EditOne(how, index, f[k - 1], entries[k])
           Bad == {m \in 0..n : ~\E f : Runs(f, m)}
<1>1. n \in Nat
  OBVIOUS
<1>2. Bad = {}
  <2> SUFFICES ASSUME Bad # {} PROVE FALSE
    OBVIOUS
  <2>1. PICK m \in Bad : \A l \in Bad : m <= l
    <3>1. Bad \in SUBSET Nat
      BY <1>1
    <3> HIDE DEF Bad
    <3> QED
      BY <3>1, LeastNumber
  <2>2. m # 0
    <3>1. Runs([k \in {0} |-> batch], 0)
      OBVIOUS
    <3> QED
      BY <3>1
  <2>3. m - 1 \in 0..n /\ m - 1 \notin Bad /\ m \in 1..n
    <3>1. m \in 0..n
      OBVIOUS
    <3> HIDE DEF Bad, n
    <3> QED
      BY <1>1, <2>1, <2>2, <3>1
  <2>4. PICK f : Runs(f, m - 1)
    BY <2>3
  <2> DEFINE g == [k \in 0..m |-> IF k = m THEN EditOne(how, index, f[m - 1], entries[m])
                                          ELSE f[k]]
  <2>5. g[0] = batch
    BY <2>3, <2>4
  <2>6. \A k \in 1..m : g[k] = EditOne(how, index, g[k - 1], entries[k])
    <3> SUFFICES ASSUME NEW k \in 1..m PROVE g[k] = EditOne(how, index, g[k - 1], entries[k])
      OBVIOUS
    <3>1. k - 1 \in 0..m /\ k - 1 # m /\ k \in 0..m
      BY <2>3
    <3>2. g[k - 1] = f[k - 1]
      BY <3>1
    <3>3. CASE k = m
      BY <3>1, <3>2, <3>3
    <3>4. CASE k # m
      <4>1. k \in 1..m - 1
        BY <2>3, <3>4
      <4>2. f[k] = EditOne(how, index, f[k - 1], entries[k])
        BY <2>4, <4>1
      <4>3. g[k] = f[k]
        BY <3>1, <3>4
      <4> QED
        BY <3>2, <4>2, <4>3
    <3> QED
      BY <3>3, <3>4
  <2>7. Runs(g, m)
    BY <2>5, <2>6
  <2> QED
    BY <2>1, <2>7
<1>3. PICK f : Runs(f, n)
  BY <1>1, <1>2
<1>4. \E g : g = step(g)
  <2> DEFINE g == [k \in 0..n |-> f[k]]
  <2>1. \A k \in 0..n : g[k] = IF k = 0 THEN batch
                               ELSE EditOne(how, index, g[k - 1], entries[k])
    <3> SUFFICES ASSUME NEW k \in 0..n
                 PROVE  g[k] = IF k = 0 THEN batch
                               ELSE EditOne(how, index, g[k - 1], entries[k])
      OBVIOUS
    <3>1. CASE k = 0
      BY <1>1, <1>3, <3>1
    <3>2. CASE k # 0
      <4>1. k \in 1..n /\ k - 1 \in 0..n
        BY <1>1, <3>2
      <4>2. f[k] = EditOne(how, index, f[k - 1], entries[k])
        BY <1>3, <4>1
      <4>3. g[k] = f[k] /\ g[k - 1] = f[k - 1]
        BY <4>1
      <4> QED
        BY <3>2, <4>2, <4>3
    <3> QED
      BY <3>1, <3>2
  <2>2. g = step(g)
    BY <2>1
  <2> QED
    BY <2>2
<1> DEFINE after == CHOOSE g : g = step(g)
<1>5. EditAll(how, index, batch, entries) = after[n]
  BY DEF EditAll
<1>6. after = step(after)
  <2> HIDE DEF step
  <2> QED
    BY <1>4
<1> HIDE DEF after
<1>7. after[0] = batch
  BY <1>1, <1>6
<1>8. \A k \in 1..n : after[k] = EditOne(how, index, after[k - 1], entries[k])
  BY <1>1, <1>6
<1> QED
  BY <1>5, <1>7, <1>8

\* The elements that the first k entries have for a key.
FirstFor(entries, k, key) == {entries[i].elem : i \in {j \in 1..k : entries[j].key = key}}
AllFor(entries, key) == FirstFor(entries, Len(entries), key)

\* What a loop over entries does to the lists.
AllEdited(K, E, how, index, batch, new, entries) ==
  /\ Proper(K, E, index, new)
  /\ \A key \in K : Elements(index, new, key) =
       Edited(how, Elements(index, batch, key), AllFor(entries, key))

\* A loop over entries that fit and differ does to each list what its entries
\* say.
LEMMA EditAllKeeps ==
  ASSUME NEW K, NEW E, NEW base, NEW index, NEW batch, Proper(K, E, index, batch),
         NEW how \in Hows, NEW entries \in Seq([key : K, elem : E]), IsInjective(entries),
         \A i \in 1..Len(entries) :
           /\ Agree(base, index, entries[i].key)
           /\ Fits(how, Elements(index, batch, entries[i].key), entries[i].elem)
  PROVE  AllEdited(K, E, how, index, batch, EditAll(how, base, batch, entries), entries)
<1> DEFINE n == Len(entries)
<1>0. n \in Nat /\ \A i \in 1..n : entries[i] \in [key : K, elem : E]
  <2> DEFINE R == [key : K, elem : E]
  <2>1. entries \in Seq(R)
    OBVIOUS
  <2> HIDE DEF R
  <2>2. n \in Nat /\ \A i \in 1..n : entries[i] \in R
    BY <2>1
  <2> QED
    BY <2>2 DEF R
<1>1. PICK f : /\ f[0] = batch
               /\ \A k \in 1..n : f[k] = EditOne(how, base, f[k - 1], entries[k])
               /\ EditAll(how, base, batch, entries) = f[n]
  BY EditAllLoop
<1> DEFINE Good(k) ==
             /\ Proper(K, E, index, f[k])
             /\ \A key \in K : Elements(index, f[k], key) =
                  Edited(how, Elements(index, batch, key), FirstFor(entries, k, key))
           Bad == {k \in 0..n : ~Good(k)}
<1>2. Good(0)
  <2>1. \A key : FirstFor(entries, 0, key) = {}
    BY DEF FirstFor
  <2> QED
    BY <1>1, <2>1 DEF Edited
<1>3. ASSUME NEW k \in 1..n, Good(k - 1) PROVE Good(k)
  <2> DEFINE c == entries[k]
             old == f[k - 1]
  <2>1. c \in [key : K, elem : E] /\ f[k] = EditOne(how, base, old, c) /\ c.key \in K
    BY <1>0, <1>1
  <2>2. Proper(K, E, index, old)
    BY <1>3
  <2>3. Elements(index, old, c.key) =
          Edited(how, Elements(index, batch, c.key), FirstFor(entries, k - 1, c.key))
    BY <1>3, <2>1
  <2>4. c.elem \notin FirstFor(entries, k - 1, c.key)
    <3> SUFFICES ASSUME NEW i \in 1..k - 1, entries[i].key = c.key, entries[i].elem = c.elem
                 PROVE  FALSE
      BY DEF FirstFor
    <3>1. i \in 1..n /\ i # k
      BY <1>0
    <3>2. entries[i] = entries[k]
      BY <1>0, <3>1
    <3> QED
      BY <3>1, <3>2 DEF IsInjective
  <2>5. Fits(how, Elements(index, batch, c.key), c.elem) /\ Agree(base, index, c.key)
    OBVIOUS
  <2>6. Fits(how, Elements(index, old, c.key), c.elem)
    BY <2>3, <2>4, <2>5 DEF Fits, Edited
  <2> HIDE DEF c, old
  <2>7. /\ Proper(K, E, index, f[k])
        /\ Elements(index, f[k], c.key) = Edited(how, Elements(index, old, c.key), {c.elem})
        /\ \A key \in K \ {c.key} : Elements(index, f[k], key) = Elements(index, old, key)
    <3>1. OneEdited(K, E, how, index, old, EditOne(how, base, old, c), c)
      BY <2>1, <2>2, <2>5, <2>6, EditOneKeeps
    <3> QED
      BY <2>1, <3>1 DEF OneEdited
  <2>8. ASSUME NEW key \in K
        PROVE  Elements(index, f[k], key) =
                 Edited(how, Elements(index, batch, key), FirstFor(entries, k, key))
    <3> DEFINE S == Elements(index, batch, key)
               T == FirstFor(entries, k - 1, key)
    <3>1. Elements(index, old, key) = Edited(how, S, T)
      BY <1>3 DEF old
    <3>2. CASE key = c.key
      <4>1. FirstFor(entries, k, key) = T \cup {c.elem}
        <5>1. 1..k = (1..k - 1) \cup {k}
          BY <1>0
        <5> QED
          BY <3>2, <5>1 DEF FirstFor, c
      <4>2. Elements(index, f[k], key) = Edited(how, Edited(how, S, T), {c.elem})
        BY <2>7, <3>1, <3>2
      <4>3. Edited(how, Edited(how, S, T), {c.elem}) = Edited(how, S, T \cup {c.elem})
        BY DEF Edited
      <4> QED
        BY <4>1, <4>2, <4>3
    <3>3. CASE key # c.key
      <4>1. FirstFor(entries, k, key) = T
        <5>1. 1..k = (1..k - 1) \cup {k}
          BY <1>0
        <5> QED
          BY <3>3, <5>1 DEF FirstFor, c
      <4>2. Elements(index, f[k], key) = Edited(how, S, T)
        BY <2>7, <3>1, <3>3
      <4> QED
        BY <4>1, <4>2
    <3> QED
      BY <3>2, <3>3
  <2> QED
    BY <2>7, <2>8
<1>4. Bad = {}
  <2> SUFFICES ASSUME Bad # {} PROVE FALSE
    OBVIOUS
  <2>1. Bad \in SUBSET Nat /\ \A m \in Bad : m \in 0..n
    BY <1>0
  <2> HIDE DEF Good
  <2>2. PICK m \in Bad : \A l \in Bad : m <= l
    <3> HIDE DEF Bad
    <3> QED
      BY <2>1, LeastNumber
  <2>3. m # 0
    BY <1>2
  <2>4. m \in 1..n /\ m - 1 \in 0..n /\ m - 1 \notin Bad
    <3> HIDE DEF Bad
    <3> QED
      BY <1>0, <2>1, <2>2, <2>3
  <2>5. Good(m - 1)
    BY <2>4
  <2> QED
    BY <1>3, <2>4, <2>5
<1>5. Good(n)
  BY <1>0, <1>4
<1> QED
  BY <1>1, <1>5 DEF AllFor, AllEdited

\* What the first k transactions have for a key.
FirstOf(entries, k, key) == UNION {AllFor(entries[j], key) : j \in 1..k}

\* The entries of a block: as many sequences as n, of entries that differ within
\* a transaction and from one to another.
Separate(K, E, n, entries) ==
  /\ \A k \in 1..n : entries[k] \in Seq([key : K, elem : E]) /\ IsInjective(entries[k])
  /\ \A j, k \in 1..n : j # k =>
       \A key \in K : AllFor(entries[j], key) \cap AllFor(entries[k], key) = {}

\* The loop of BlockBatch: f has the batch before the first of m transactions and
\* after each.
BatchLoop(f, m, how1, base, created, how2, index, spent) ==
  /\ f[0] = << >>
  /\ \A k \in 1..m :
       f[k] = EditAll(how2, index, EditAll(how1, base, f[k - 1], created[k]), spent[k])
  /\ BlockBatch(how1, base, created, how2, index, spent) = f[m]

LEMMA BlockBatchLoop ==
  ASSUME NEW how1, NEW how2, NEW base, NEW index, NEW created, NEW spent,
         Len(created) \in Nat
  PROVE  \E f : BatchLoop(f, Len(created), how1, base, created, how2, index, spent)
<1> DEFINE n == Len(created)
           one(b, k) == EditAll(how2, index, EditAll(how1, base, b, created[k]), spent[k])
           step(f) == [k \in 0..n |-> IF k = 0 THEN << >>
                                      ELSE EditAll(how2, index, EditAll(how1, base, f[k - 1],
                                                                        created[k]),
                                                   spent[k])]
           Runs(f, m) == f[0] = << >> /\ \A k \in 1..m : f[k] = one(f[k - 1], k)
           Bad == {m \in 0..n : ~\E f : Runs(f, m)}
<1>0. \A f : step(f) = [k \in 0..n |-> IF k = 0 THEN << >> ELSE one(f[k - 1], k)]
  OBVIOUS
<1>1. n \in Nat
  OBVIOUS
<1> DEFINE after == CHOOSE g : g = step(g)
<1>2. BlockBatch(how1, base, created, how2, index, spent) = after[n]
  BY DEF BlockBatch
<1> HIDE DEF step, one
<1>3. Bad = {}
  <2> SUFFICES ASSUME Bad # {} PROVE FALSE
    OBVIOUS
  <2>0. Bad \in SUBSET Nat /\ \A m \in Bad : m \in 0..n
    BY <1>1
  <2>1. PICK m \in Bad : \A l \in Bad : m <= l
    <3> HIDE DEF Bad
    <3> QED
      BY <2>0, LeastNumber
  <2>2. m # 0
    <3>1. Runs([k \in {0} |-> << >>], 0)
      OBVIOUS
    <3> QED
      BY <3>1
  <2>3. m - 1 \in 0..n /\ m - 1 \notin Bad /\ m \in 1..n
    <3> HIDE DEF Bad, n
    <3> QED
      BY <1>1, <2>0, <2>1, <2>2
  <2>4. PICK f : Runs(f, m - 1)
    BY <2>3
  <2> DEFINE g == [k \in 0..m |-> IF k = m THEN one(f[m - 1], m) ELSE f[k]]
  <2>5. g[0] = << >>
    BY <2>3, <2>4
  <2>6. \A k \in 1..m : g[k] = one(g[k - 1], k)
    <3> SUFFICES ASSUME NEW k \in 1..m PROVE g[k] = one(g[k - 1], k)
      OBVIOUS
    <3>1. k - 1 \in 0..m /\ k - 1 # m /\ k \in 0..m
      BY <2>3
    <3>2. g[k - 1] = f[k - 1]
      BY <3>1
    <3>3. CASE k = m
      BY <3>1, <3>2, <3>3
    <3>4. CASE k # m
      <4>1. k \in 1..m - 1
        BY <2>3, <3>4
      <4>2. f[k] = one(f[k - 1], k)
        BY <2>4, <4>1
      <4>3. g[k] = f[k]
        BY <3>1, <3>4
      <4> QED
        BY <3>2, <4>2, <4>3
    <3> QED
      BY <3>3, <3>4
  <2>7. Runs(g, m)
    BY <2>5, <2>6
  <2> QED
    BY <2>1, <2>7
<1>4. PICK f : Runs(f, n)
  BY <1>1, <1>3
<1>5. \E g : g = step(g)
  <2> DEFINE g == [k \in 0..n |-> f[k]]
  <2>1. \A k \in 0..n : g[k] = IF k = 0 THEN << >> ELSE one(g[k - 1], k)
    <3> SUFFICES ASSUME NEW k \in 0..n
                 PROVE  g[k] = IF k = 0 THEN << >> ELSE one(g[k - 1], k)
      OBVIOUS
    <3>1. CASE k = 0
      BY <1>1, <1>4, <3>1
    <3>2. CASE k # 0
      <4>1. k \in 1..n /\ k - 1 \in 0..n
        BY <1>1, <3>2
      <4>2. f[k] = one(f[k - 1], k)
        BY <1>4, <4>1
      <4>3. g[k] = f[k] /\ g[k - 1] = f[k - 1]
        BY <4>1
      <4> QED
        BY <3>2, <4>2, <4>3
    <3> QED
      BY <3>1, <3>2
  <2>2. g = [k \in 0..n |-> IF k = 0 THEN << >> ELSE one(g[k - 1], k)]
    BY <2>1
  <2> QED
    BY <1>0, <2>2
<1>6. after = step(after)
  BY <1>5
<1> HIDE DEF after
<1>7. after = [k \in 0..n |-> IF k = 0 THEN << >> ELSE one(after[k - 1], k)]
  BY <1>0, <1>6
<1>8. after[0] = << >>
  BY <1>1, <1>7
<1>9. \A k \in 1..n : after[k] = one(after[k - 1], k)
  BY <1>1, <1>7
<1> QED
  BY <1>2, <1>8, <1>9 DEF one, BatchLoop

LEMMA FitsLater ==
  ASSUME NEW how, NEW how1, NEW how2, NEW R, NEW C, NEW S, NEW e,
         Fits(how, R, e), e \notin C, e \notin S
  PROVE  Fits(how, Edited(how2, Edited(how1, R, C), S), e)
BY DEF Fits, Edited

LEMMA EditedSwap ==
  ASSUME NEW how1, NEW how2, NEW R, NEW C, NEW D, NEW S, D \cap S = {}
  PROVE  Edited(how1, Edited(how2, Edited(how1, R, C), S), D) =
           Edited(how2, Edited(how1, R, C \cup D), S)
BY DEF Edited

LEMMA EditedTwice ==
  ASSUME NEW how, NEW R, NEW S, NEW T
  PROVE  Edited(how, Edited(how, R, S), T) = Edited(how, R, S \cup T)
BY DEF Edited

\* What the two loops over the transactions of a block do to the lists.
BlockEdited(K, E, how1, how2, index, new, created, spent, n) ==
  /\ Proper(K, E, index, new)
  /\ \A key \in K : Elements(index, new, key) =
       Edited(how2, Edited(how1, Elements(index, << >>, key), FirstOf(created, n, key)),
              FirstOf(spent, n, key))

\* The edits fit the lists as they are before the block.
AllFit(K, how, index, n, entries) ==
  \A k \in 1..n : \A key \in K : \A e \in AllFor(entries[k], key) :
    Fits(how, Elements(index, << >>, key), e)

\* For what is created it makes no difference where the lists are read from.
AgreeFor(K, base, index, n, created) ==
  \A key \in K : FirstOf(created, n, key) # {} => Agree(base, index, key)

Disjoint(K, n, created, spent) ==
  \A j, k \in 1..n : \A key \in K :
    AllFor(created[j], key) \cap AllFor(spent[k], key) = {}

LEMMA FirstOfGrows ==
  ASSUME NEW entries, NEW k \in Nat \ {0}, NEW key
  PROVE  FirstOf(entries, k, key) = FirstOf(entries, k - 1, key) \cup AllFor(entries[k], key)
<1>1. 1..k = (1..k - 1) \cup {k}
  OBVIOUS
<1> QED
  BY <1>1 DEF FirstOf

LEMMA BlockBatchKeeps ==
  ASSUME NEW K, NEW E, NEW base, NEW index, Proper(K, E, index, << >>),
         NEW how1 \in Hows, NEW how2 \in Hows, NEW created, NEW spent, NEW n \in Nat,
         Len(created) = n,
         Separate(K, E, n, created), Separate(K, E, n, spent), Disjoint(K, n, created, spent),
         AllFit(K, how1, index, n, created), AllFit(K, how2, index, n, spent),
         AgreeFor(K, base, index, n, created)
  PROVE  BlockEdited(K, E, how1, how2, index,
                     BlockBatch(how1, base, created, how2, index, spent), created, spent, n)
<1>1. PICK f : BatchLoop(f, n, how1, base, created, how2, index, spent)
  BY BlockBatchLoop
<1> DEFINE Good(k) == BlockEdited(K, E, how1, how2, index, f[k], created, spent, k)
           Bad == {k \in 0..n : ~Good(k)}
<1>2. Good(0)
  <2>1. \A key : FirstOf(created, 0, key) = {} /\ FirstOf(spent, 0, key) = {}
    BY DEF FirstOf
  <2> QED
    BY <1>1, <2>1 DEF BatchLoop, BlockEdited, Edited
<1>3. ASSUME NEW k \in 1..n, Good(k - 1) PROVE Good(k)
  <2> DEFINE old == f[k - 1]
             mid == EditAll(how1, base, old, created[k])
             new == EditAll(how2, index, mid, spent[k])
             R(key) == Elements(index, << >>, key)
             C(key) == FirstOf(created, k - 1, key)
             S(key) == FirstOf(spent, k - 1, key)
             c == created[k]
             s == spent[k]
  <2>1. Proper(K, E, index, old) /\ k \in Nat \ {0}
    BY <1>3 DEF BlockEdited
  <2>2. \A key \in K : Elements(index, old, key) = Edited(how2, Edited(how1, R(key), C(key)), S(key))
    BY <1>3 DEF BlockEdited
  <2>3. /\ c \in Seq([key : K, elem : E]) /\ IsInjective(c)
        /\ s \in Seq([key : K, elem : E]) /\ IsInjective(s)
    BY DEF Separate
  <2>4. /\ \A i \in 1..Len(c) : c[i].key \in K /\ c[i].elem \in AllFor(c, c[i].key)
        /\ \A i \in 1..Len(s) : s[i].key \in K /\ s[i].elem \in AllFor(s, s[i].key)
    <3> HIDE DEF c, s
    <3>1. ASSUME NEW q \in Seq([key : K, elem : E]), NEW i \in 1..Len(q)
          PROVE  q[i].key \in K /\ q[i].elem \in AllFor(q, q[i].key)
      <4>1. q[i] \in [key : K, elem : E]
        BY SequenceElement
      <4> QED
        BY <4>1 DEF AllFor, FirstFor
    <3> QED
      BY <2>3, <3>1
  <2>5. \A key \in K : /\ AllFor(c, key) \cap C(key) = {}
                       /\ AllFor(c, key) \cap S(key) = {}
                       /\ AllFor(s, key) \cap C(key) = {}
                       /\ AllFor(s, key) \cap S(key) = {}
                       /\ AllFor(s, key) \cap AllFor(c, key) = {}
    <3> SUFFICES ASSUME NEW key \in K
                 PROVE  /\ AllFor(c, key) \cap C(key) = {}
                        /\ AllFor(c, key) \cap S(key) = {}
                        /\ AllFor(s, key) \cap C(key) = {}
                        /\ AllFor(s, key) \cap S(key) = {}
                        /\ AllFor(s, key) \cap AllFor(c, key) = {}
      OBVIOUS
    <3>1. \A j \in 1..k - 1 : j \in 1..n /\ j # k
      OBVIOUS
    <3>2. \A j \in 1..k - 1 : /\ AllFor(c, key) \cap AllFor(created[j], key) = {}
                              /\ AllFor(s, key) \cap AllFor(spent[j], key) = {}
      BY <3>1 DEF Separate
    <3>3. \A j \in 1..k - 1 : /\ AllFor(c, key) \cap AllFor(spent[j], key) = {}
                              /\ AllFor(s, key) \cap AllFor(created[j], key) = {}
      BY <3>1 DEF Disjoint
    <3>4. AllFor(s, key) \cap AllFor(c, key) = {}
      BY DEF Disjoint
    <3> QED
      BY <3>2, <3>3, <3>4 DEF FirstOf
  <2> HIDE DEF old, c, s, C, S
  <2>6. AllEdited(K, E, how1, index, old, EditAll(how1, base, old, c), c)
    <3>1. \A i \in 1..Len(c) : /\ Agree(base, index, c[i].key)
                              /\ Fits(how1, R(c[i].key), c[i].elem)
      BY <2>4 DEF c, AllFit, AgreeFor, FirstOf
    <3>2. \A i \in 1..Len(c) : /\ Agree(base, index, c[i].key)
                              /\ Fits(how1, Elements(index, old, c[i].key), c[i].elem)
      <4> SUFFICES ASSUME NEW i \in 1..Len(c)
                   PROVE  Fits(how1, Elements(index, old, c[i].key), c[i].elem)
        BY <3>1
      <4>1. c[i].elem \notin C(c[i].key) /\ c[i].elem \notin S(c[i].key) /\ c[i].key \in K
        BY <2>4, <2>5
      <4> HIDE DEF R
      <4>2. Fits(how1, R(c[i].key), c[i].elem)
        BY <3>1
      <4>3. Fits(how1, Edited(how2, Edited(how1, R(c[i].key), C(c[i].key)), S(c[i].key)), c[i].elem)
        BY <4>1, <4>2, FitsLater
      <4> QED
        BY <2>2, <4>1, <4>3
    <3> QED
      BY <2>1, <2>3, <3>2, EditAllKeeps
  <2>7. /\ Proper(K, E, index, mid)
        /\ \A key \in K : Elements(index, mid, key) =
             Edited(how2, Edited(how1, R(key), C(key) \cup AllFor(c, key)), S(key))
    <3>1. Proper(K, E, index, mid)
      BY <2>6 DEF AllEdited, c
    <3>2. ASSUME NEW key \in K
          PROVE  Elements(index, mid, key) =
                   Edited(how2, Edited(how1, R(key), C(key) \cup AllFor(c, key)), S(key))
      <4>1. Elements(index, mid, key) = Edited(how1, Elements(index, old, key), AllFor(c, key))
        BY <2>6 DEF AllEdited, c
      <4> HIDE DEF mid, R
      <4>2. Elements(index, old, key) = Edited(how2, Edited(how1, R(key), C(key)), S(key))
        BY <2>2
      <4> QED
        BY <2>5, <4>1, <4>2, EditedSwap
    <3> QED
      BY <3>1, <3>2
  <2>8. AllEdited(K, E, how2, index, mid, EditAll(how2, index, mid, s), s)
    <3>1. \A i \in 1..Len(s) : Fits(how2, R(s[i].key), s[i].elem)
      BY <2>4 DEF s, AllFit
    <3> HIDE DEF mid
    <3>2. \A i \in 1..Len(s) : /\ Agree(index, index, s[i].key)
                              /\ Fits(how2, Elements(index, mid, s[i].key), s[i].elem)
      <4> SUFFICES ASSUME NEW i \in 1..Len(s)
                   PROVE  Fits(how2, Elements(index, mid, s[i].key), s[i].elem)
        BY DEF Agree
      <4> DEFINE CC == C(s[i].key) \cup AllFor(c, s[i].key)
      <4>1. s[i].elem \notin CC /\ s[i].elem \notin S(s[i].key) /\ s[i].key \in K
        BY <2>4, <2>5
      <4>2. Elements(index, mid, s[i].key) = Edited(how2, Edited(how1, R(s[i].key), CC), S(s[i].key))
        BY <2>7, <4>1
      <4> HIDE DEF R, CC
      <4>3. Fits(how2, R(s[i].key), s[i].elem)
        BY <3>1
      <4>4. Fits(how2, Edited(how2, Edited(how1, R(s[i].key), CC), S(s[i].key)), s[i].elem)
        BY <4>1, <4>3, FitsLater
      <4> QED
        BY <4>2, <4>4
    <3> QED
      BY <2>3, <2>7, <3>2, EditAllKeeps
  <2>9. f[k] = new
    BY <1>1 DEF BatchLoop, old
  <2> HIDE DEF mid
  <2>10. Proper(K, E, index, new)
    BY <2>8 DEF AllEdited, s
  <2>11. ASSUME NEW key \in K
         PROVE  Elements(index, new, key) =
                  Edited(how2, Edited(how1, R(key), FirstOf(created, k, key)),
                         FirstOf(spent, k, key))
    <3>1. /\ FirstOf(created, k, key) = C(key) \cup AllFor(c, key)
          /\ FirstOf(spent, k, key) = S(key) \cup AllFor(s, key)
      BY <2>1, FirstOfGrows DEF C, S, c, s
    <3>2. Elements(index, new, key) = Edited(how2, Elements(index, mid, key), AllFor(s, key))
      BY <2>8 DEF AllEdited, s
    <3>3. Elements(index, mid, key) =
             Edited(how2, Edited(how1, R(key), C(key) \cup AllFor(c, key)), S(key))
      BY <2>7
    <3> HIDE DEF new, R
    <3> QED
      BY <3>1, <3>2, <3>3, EditedTwice
  <2> HIDE DEF new
  <2> QED
    BY <2>9, <2>10, <2>11 DEF BlockEdited
<1>4. Bad = {}
  <2> SUFFICES ASSUME Bad # {} PROVE FALSE
    OBVIOUS
  <2>1. Bad \in SUBSET Nat /\ \A m \in Bad : m \in 0..n
    OBVIOUS
  <2> HIDE DEF Good
  <2>2. PICK m \in Bad : \A l \in Bad : m <= l
    <3> HIDE DEF Bad
    <3> QED
      BY <2>1, LeastNumber
  <2>3. m # 0
    BY <1>2
  <2>4. m \in 1..n /\ m - 1 \in 0..n /\ m - 1 \notin Bad
    <3> HIDE DEF Bad
    <3> QED
      BY <2>1, <2>2, <2>3
  <2>5. Good(m - 1)
    BY <2>4
  <2> QED
    BY <1>3, <2>4, <2>5
<1>5. Good(n)
  BY <1>4
<1> QED
  BY <1>1, <1>5 DEF BatchLoop

\* An index whose lists, none of them empty, have the elements that G says.
Holds(K, E, index, G) ==
  /\ DOMAIN index \subseteq K
  /\ \A key \in DOMAIN index : index[key] # << >>
  /\ Proper(K, E, index, << >>)
  /\ \A key \in K : Elements(index, << >>, key) = G[key]

\* What is read through a batch can be read from the index once it is written.
LEMMA WriteHolds ==
  ASSUME NEW K, NEW E, NEW index, NEW batch, NEW H,
         DOMAIN index \subseteq K, \A key \in DOMAIN index : index[key] # << >>,
         Proper(K, E, index, batch), \A key \in K : Elements(index, batch, key) = H[key]
  PROVE  Holds(K, E, WriteBatch(index, batch), H)
<1> DEFINE new == WriteBatch(index, batch)
           both == Over(batch, index)
           empty == {k \in DOMAIN batch : batch[k] = << >>}
<1>1. /\ DOMAIN both = DOMAIN batch \cup DOMAIN index
      /\ \A key \in DOMAIN both : both[key] = IF key \in DOMAIN batch THEN batch[key]
                                              ELSE index[key]
  BY DEF Over
<1>2. new = [key \in DOMAIN both \ empty |-> both[key]]
  BY DEF WriteBatch, Delete, Restrict
<1> HIDE DEF both, new
<1>3. \A key \in DOMAIN new : new[key] # << >>
  BY <1>1, <1>2
<1>4. DOMAIN new \subseteq K
  BY <1>1, <1>2 DEF Proper
<1>5. ASSUME NEW key \in K PROVE Listed(<< >>, new, key) = Listed(batch, index, key)
  <2>1. Listed(<< >>, new, key) = IF key \in DOMAIN new THEN new[key] ELSE << >>
    BY DEF Listed
  <2>2. CASE key \in DOMAIN batch
    <3>1. Listed(batch, index, key) = batch[key]
      BY <2>2 DEF Listed
    <3>2. CASE batch[key] = << >>
      BY <1>1, <1>2, <2>1, <2>2, <3>1, <3>2
    <3>3. CASE batch[key] # << >>
      BY <1>1, <1>2, <2>1, <2>2, <3>1, <3>3
    <3> QED
      BY <3>2, <3>3
  <2>3. CASE key \notin DOMAIN batch /\ key \in DOMAIN index
    <3>1. Listed(batch, index, key) = index[key]
      BY <2>3 DEF Listed
    <3> QED
      BY <1>1, <1>2, <2>1, <2>3, <3>1
  <2>4. CASE key \notin DOMAIN batch /\ key \notin DOMAIN index
    <3>1. Listed(batch, index, key) = << >>
      BY <2>4 DEF Listed
    <3> QED
      BY <1>1, <1>2, <2>1, <2>4, <3>1
  <2> QED
    BY <2>2, <2>3, <2>4
<1>6. Proper(K, E, new, << >>)
  BY <1>5 DEF Proper
<1>7. \A key \in K : Elements(new, << >>, key) = H[key]
  BY <1>5 DEF Elements
<1> QED
  BY <1>3, <1>4, <1>6, <1>7 DEF Holds, new

\* The entries of a block are as many sequences as it has transactions, and what
\* they do fits the lists G.
Applies(K, E, G, n, how1, created, how2, spent) ==
  /\ how1 \in Hows /\ how2 \in Hows /\ n \in Nat /\ Len(created) = n
  /\ Separate(K, E, n, created) /\ Separate(K, E, n, spent)
  /\ \A key \in K : \A e \in FirstOf(created, n, key) :
       e \notin FirstOf(spent, n, key) /\ Fits(how1, G[key], e)
  /\ \A key \in K : \A e \in FirstOf(spent, n, key) : Fits(how2, G[key], e)

\* The lists G become the lists H.
Becomes(K, G, H, n, how1, created, how2, spent) ==
  \A key \in K :
    H[key] = Edited(how2, Edited(how1, G[key], FirstOf(created, n, key)), FirstOf(spent, n, key))

\* What is read through a batch.
BatchHolds(K, E, index, batch, H) ==
  Proper(K, E, index, batch) /\ \A key \in K : Elements(index, batch, key) = H[key]

\* The lists of the batch of a block.
LEMMA BatchElements ==
  ASSUME NEW K, NEW E, NEW base, NEW index, NEW G, NEW H, NEW n, NEW how1, NEW how2,
         NEW created, NEW spent, Proper(K, E, index, << >>),
         \A key \in K : Elements(index, << >>, key) = G[key],
         Applies(K, E, G, n, how1, created, how2, spent),
         Becomes(K, G, H, n, how1, created, how2, spent),
         AgreeFor(K, base, index, n, created)
  PROVE  BatchHolds(K, E, index, BlockBatch(how1, base, created, how2, index, spent), H)
<1> DEFINE batch == BlockBatch(how1, base, created, how2, index, spent)
<1>1. /\ how1 \in Hows /\ how2 \in Hows /\ n \in Nat /\ Len(created) = n
      /\ Separate(K, E, n, created) /\ Separate(K, E, n, spent)
  BY DEF Applies
<1>2. Disjoint(K, n, created, spent)
  BY DEF Applies, Disjoint, FirstOf
<1>3. AllFit(K, how1, index, n, created) /\ AllFit(K, how2, index, n, spent)
  <2>1. ASSUME NEW how, NEW entries,
               \A key \in K : \A e \in FirstOf(entries, n, key) : Fits(how, G[key], e)
        PROVE  AllFit(K, how, index, n, entries)
    <3> SUFFICES ASSUME NEW k \in 1..n, NEW key \in K, NEW e \in AllFor(entries[k], key)
                 PROVE  Fits(how, Elements(index, << >>, key), e)
      BY DEF AllFit
    <3>1. e \in FirstOf(entries, n, key)
      BY DEF FirstOf
    <3> QED
      BY <2>1, <3>1
  <2>2. /\ \A key \in K : \A e \in FirstOf(created, n, key) : Fits(how1, G[key], e)
        /\ \A key \in K : \A e \in FirstOf(spent, n, key) : Fits(how2, G[key], e)
    BY DEF Applies
  <2> QED
    BY <2>1, <2>2
<1>4. BlockEdited(K, E, how1, how2, index, batch, created, spent, n)
  BY <1>1, <1>2, <1>3, BlockBatchKeeps
<1> HIDE DEF batch
<1>5. BatchHolds(K, E, index, batch, H)
  BY <1>4 DEF BlockEdited, Becomes, BatchHolds
<1> QED
  BY <1>5 DEF batch

\* A block is written to an index.
LEMMA BlockWrites ==
  ASSUME NEW K, NEW E, NEW base, NEW index, NEW G, NEW H, NEW n, NEW how1, NEW how2,
         NEW created, NEW spent, Holds(K, E, index, G),
         Applies(K, E, G, n, how1, created, how2, spent),
         Becomes(K, G, H, n, how1, created, how2, spent),
         AgreeFor(K, base, index, n, created)
  PROVE  Holds(K, E, WriteBatch(index, BlockBatch(how1, base, created, how2, index, spent)), H)
<1> DEFINE batch == BlockBatch(how1, base, created, how2, index, spent)
<1>1. /\ DOMAIN index \subseteq K /\ \A key \in DOMAIN index : index[key] # << >>
      /\ Proper(K, E, index, << >>) /\ \A key \in K : Elements(index, << >>, key) = G[key]
  BY DEF Holds
<1>2. BatchHolds(K, E, index, batch, H)
  BY <1>1, BatchElements
<1> HIDE DEF batch
<1>3. Holds(K, E, WriteBatch(index, batch), H)
  BY <1>1, <1>2, WriteHolds DEF BatchHolds
<1> QED
  BY <1>3 DEF batch

-----------------------------------------------------------------------------
(* The inductive invariant.  A place is what the store keeps of a          *)
(* transaction: its height and its body.  P stands for the places of the   *)
(* main chain.                                                             *)

IdSet == {t.id : t \in Txs} \cup Range(CoinbaseIds)
Payees == UNION {{t.outs[i].owner : i \in DOMAIN t.outs} : t \in Txs}
OwnerSet == Payees \cup {Foundation, Miner}
KeySet == OwnerSet \X Nat
OutSet == [tx : IdSet, index : Nat]

TxOK(t) ==
  /\ t.id \in IdSet /\ Accountable(t) /\ Spends(t) = t.ins
  /\ t.type = "coinbase" => t.ins = << >>
  /\ t.ins \in Seq(Range(t.ins)) /\ t.outs \in Seq(Range(t.outs))
  /\ \A x \in DOMAIN t.ins : t.ins[x] = [tx |-> t.ins[x].tx, index |-> t.ins[x].index]
  /\ \A i \in DOMAIN t.outs : t.outs[i].owner \in OwnerSet /\ t.outs[i].lock \in Nat
  /\ t.lockTime \in Nat

\* A block that was received.
BlockOK(b) ==
  /\ b.height \in Nat \ {0} /\ b.txs \in Seq(Range(b.txs))
  /\ \A k \in DOMAIN b.txs :
       /\ TxOK(b.txs[k])
       /\ b.txs[k].type # "coinbase" => IsFinalizedTransaction(b.txs[k], b.height)
  /\ \A j, k \in DOMAIN b.txs : b.txs[j].id = b.txs[k].id => j = k
  /\ DistinctInputs(b)

Place(h, t) == [height |-> h, tx |-> t]
PlacesOf(b) == {Place(b.height, b.txs[k]) : k \in DOMAIN b.txs}

OutsOf(P) == UNION {{Utxo(p.tx, i) : i \in DOMAIN p.tx.outs} : p \in P}
InsOf(P) == UNION {Range(p.tx.ins) : p \in P}
UnspentIn(P) == OutsOf(P) \ InsOf(P)

\* The output in of the place q can be spent by t at height h; nobody asks a
\* recharge for the rest.
Source(q, in, t, h) ==
  /\ q.tx.id = in.tx /\ in.index \in DOMAIN q.tx.outs /\ q.height < h
  /\ t.type # "recharge" =>
       q.tx.outs[in.index].owner \in t.programs /\ q.tx.outs[in.index].lock < h

\* A chain in which outputs are spent once, later, by their owners, in time.
Sound(P) ==
  /\ \A p \in P :
       /\ p = Place(p.height, p.tx) /\ p.height \in Nat \ {0}
       /\ TxOK(p.tx) /\ p.tx.id # "asset" /\ IsInjective(p.tx.ins)
  /\ \A p, q \in P : p.tx.id = q.tx.id => p = q
  /\ \A p, q \in P : p # q => \A in \in Range(p.tx.ins) : in \notin Range(q.tx.ins)
  /\ \A p \in P : \A in \in Range(p.tx.ins) : \E q \in P : Source(q, in, p.tx, p.height)
  /\ \A p, q \in P : /\ p.tx.type = "recharge" /\ q.tx.type = "recharge"
                     /\ p.tx.main.id = q.tx.main.id
                     => p.height = q.height

\* The lists of the two indices.
UnspentLists(P) == [id \in IdSet |-> {o.index : o \in {u \in UnspentIn(P) : u.tx = id}}]
Filed(P, o, key) ==
  \E p \in P : p.tx.id = o.tx /\ key = <<p.tx.outs[o.index].owner, p.height>>
UTXOLists(P) == [key \in KeySet |-> {o \in UnspentIn(P) : Filed(P, o, key)}]

Redeemed(P) == {p.tx.main.id : p \in {q \in P : q.tx.type = "recharge"}}

AssetPlace == Place(0, GetGenesisBlock.txs[1])

IsStore(d) == d = [txs |-> d.txs, unspent |-> d.unspent, utxo |-> d.utxo,
                   mainTxs |-> d.mainTxs, ids |-> d.ids]

\* The store says what the chain says.
StoreOK(d, P) ==
  /\ IsStore(d)
  /\ DOMAIN d.txs = {p.tx.id : p \in P} \cup {"asset"}
  /\ d.txs["asset"] = AssetPlace /\ \A p \in P : d.txs[p.tx.id] = p
  /\ d.mainTxs = Redeemed(P)
  /\ Holds(IdSet, Nat, d.unspent, UnspentLists(P))
  /\ Holds(KeySet, OutSet, d.utxo, UTXOLists(P))

\* The places of the chain c of the blocks bs, without those in un.
WrittenOn(c, un) == {h \in DOMAIN c : c[h] \notin un}
PlacedOn(bs, c, un) == UNION {PlacesOf(bs[c[h]]) : h \in WrittenOn(c, un)}
Placed == PlacedOn(blocks, chain, unwritten)

ChainOK ==
  /\ blocks \in Seq(Range(blocks)) /\ chain \in Seq(1..Len(blocks))
  /\ \A n \in 1..Len(blocks) : /\ BlockOK(blocks[n]) /\ blocks[n].parent \in 0..n - 1
                               /\ blocks[n].height = HeightOf(blocks[n].parent) + 1
  /\ \A h \in 1..Len(chain) : blocks[chain[h]].height = h
  /\ unwritten \subseteq Range(chain)

LedgerInv == ChainOK /\ Sound(Placed) /\ StoreOK(db, Placed)

-----------------------------------------------------------------------------
(* The entries of a block.                                                 *)

Entries(K, E, m, q) ==
  /\ q = [x \in 1..m |-> q[x]]
  /\ \A x \in 1..m : q[x] = Entry(q[x].key, q[x].elem) /\ q[x].key \in K /\ q[x].elem \in E

LEMMA EntrySequence ==
  ASSUME NEW K, NEW E, NEW m \in Nat, NEW q, Entries(K, E, m, q)
  PROVE  q \in Seq([key : K, elem : E]) /\ Len(q) = m
<1> DEFINE R == [key : K, elem : E]
<1>0. /\ q = [x \in 1..m |-> q[x]]
      /\ \A x \in 1..m : q[x] = Entry(q[x].key, q[x].elem) /\ q[x].key \in K /\ q[x].elem \in E
  BY DEF Entries
<1>1. \A x \in 1..m : q[x] \in R
  BY <1>0 DEF Entry
<1> HIDE DEF R
<1>2. q \in [1..m -> R]
  BY <1>0, <1>1
<1>3. q \in Seq(R) /\ Len(q) = m
  BY <1>2
<1> QED
  BY <1>3 DEF R

\* The outputs that are spent have the form of an output of some transaction.
Refers(b) == \A k \in DOMAIN b.txs : \A x \in DOMAIN b.txs[k].ins : b.txs[k].ins[x] \in OutSet

LEMMA AllForHas ==
  ASSUME NEW q, NEW key, NEW e
  PROVE  e \in AllFor(q, key) <=> \E x \in 1..Len(q) : q[x].key = key /\ q[x].elem = e
BY DEF AllFor, FirstFor

LEMMA TxSequences ==
  ASSUME NEW t, TxOK(t)
  PROVE  /\ Len(t.ins) \in Nat /\ DOMAIN t.ins = 1..Len(t.ins)
         /\ Len(t.outs) \in Nat /\ DOMAIN t.outs = 1..Len(t.outs)
BY DEF TxOK

LEMMA CreatedUnspentOf ==
  ASSUME NEW b, NEW k \in DOMAIN b.txs, TxOK(b.txs[k])
  PROVE  LET q == CreatedUnspent(b)[k]
             t == b.txs[k]
         IN  /\ q \in Seq([key : IdSet, elem : Nat]) /\ IsInjective(q)
             /\ \A key, e : e \in AllFor(q, key) <=> key = t.id /\ e \in DOMAIN t.outs
<1> DEFINE q == CreatedUnspent(b)[k]
           t == b.txs[k]
           m == Len(t.outs)
<1>1. t.id \in IdSet /\ Accountable(t)
  BY DEF TxOK
<1>2. m \in Nat /\ DOMAIN t.outs = 1..m
  BY TxSequences
<1>3. q = [i \in DOMAIN t.outs |-> Entry(t.id, i)]
  BY <1>1 DEF CreatedUnspent
<1> HIDE DEF q, t, m
<1>4. /\ q = [x \in 1..m |-> q[x]]
      /\ \A i \in 1..m : q[i] = Entry(t.id, i)
      /\ \A i \in 1..m : q[i].key = t.id /\ q[i].elem = i /\ i \in Nat
  BY <1>2, <1>3 DEF Entry
<1>5. q \in Seq([key : IdSet, elem : Nat]) /\ Len(q) = m
  <2>1. Entries(IdSet, Nat, m, q)
    BY <1>1, <1>4 DEF Entries
  <2> QED
    BY <1>2, <2>1, EntrySequence
<1>6. IsInjective(q)
  <2>1. DOMAIN q = 1..m
    BY <1>4
  <2> QED
    BY <1>4, <2>1 DEF IsInjective
<1>7. \A key, e : e \in AllFor(q, key) <=> key = t.id /\ e \in DOMAIN t.outs
  BY <1>2, <1>4, <1>5 DEF AllFor, FirstFor
<1> QED
  BY <1>5, <1>6, <1>7 DEF q, t

LEMMA SpentUnspentOf ==
  ASSUME NEW b, NEW k \in DOMAIN b.txs, TxOK(b.txs[k]), IsInjective(b.txs[k].ins),
         \A x \in DOMAIN b.txs[k].ins : b.txs[k].ins[x] \in OutSet
  PROVE  LET q == SpentUnspent(b)[k]
             t == b.txs[k]
         IN  /\ q \in Seq([key : IdSet, elem : Nat]) /\ IsInjective(q)
             /\ \A key, e : e \in AllFor(q, key) <=> [tx |-> key, index |-> e] \in Range(t.ins)
<1> DEFINE q == SpentUnspent(b)[k]
           t == b.txs[k]
           m == Len(t.ins)
<1>1. Spends(t) = t.ins /\ Accountable(t)
  BY DEF TxOK
<1>2. m \in Nat /\ DOMAIN t.ins = 1..m
  BY TxSequences
<1>3. q = [x \in DOMAIN t.ins |-> Entry(t.ins[x].tx, t.ins[x].index)]
  BY <1>1 DEF SpentUnspent
<1>4. \A x \in 1..m : /\ t.ins[x] = [tx |-> t.ins[x].tx, index |-> t.ins[x].index]
                      /\ t.ins[x].tx \in IdSet /\ t.ins[x].index \in Nat
  BY <1>2 DEF OutSet
<1>5. IsInjective(t.ins)
  OBVIOUS
<1> HIDE DEF q, t, m
<1>6. /\ q = [x \in 1..m |-> q[x]]
      /\ \A x \in 1..m : q[x] = Entry(t.ins[x].tx, t.ins[x].index)
      /\ \A x \in 1..m : q[x].key = t.ins[x].tx /\ q[x].elem = t.ins[x].index
  BY <1>2, <1>3 DEF Entry
<1>7. q \in Seq([key : IdSet, elem : Nat]) /\ Len(q) = m
  <2>1. Entries(IdSet, Nat, m, q)
    BY <1>4, <1>6 DEF Entries
  <2> QED
    BY <1>2, <2>1, EntrySequence
<1>8. IsInjective(q)
  <2>1. DOMAIN q = 1..m
    BY <1>6
  <2>2. ASSUME NEW x \in 1..m, NEW y \in 1..m, q[x] = q[y] PROVE x = y
    <3>1. t.ins[x].tx = t.ins[y].tx /\ t.ins[x].index = t.ins[y].index
      BY <1>6, <2>2
    <3>2. t.ins[x] = t.ins[y]
      BY <1>4, <3>1
    <3> QED
      BY <1>2, <1>5, <3>2 DEF IsInjective
  <2> QED
    BY <2>1, <2>2 DEF IsInjective
<1>9. ASSUME NEW key, NEW e
      PROVE  e \in AllFor(q, key) <=> [tx |-> key, index |-> e] \in Range(t.ins)
  <2>1. e \in AllFor(q, key) <=> \E x \in 1..m : t.ins[x].tx = key /\ t.ins[x].index = e
    <3>1. e \in AllFor(q, key) <=> \E x \in 1..m : q[x].key = key /\ q[x].elem = e
      BY <1>7, AllForHas
    <3>2. \A x \in 1..m : q[x].key = t.ins[x].tx /\ q[x].elem = t.ins[x].index
      BY <1>6
    <3> QED
      BY <3>1, <3>2
  <2>2. \A x \in 1..m : t.ins[x] = [tx |-> key, index |-> e]
                        <=> t.ins[x].tx = key /\ t.ins[x].index = e
    BY <1>4
  <2> QED
    BY <1>2, <2>1, <2>2 DEF Range
<1> QED
  BY <1>7, <1>8, <1>9 DEF q, t

LEMMA CreatedUTXOsOf ==
  ASSUME NEW b, NEW k \in DOMAIN b.txs, TxOK(b.txs[k]), b.height \in Nat
  PROVE  LET q == CreatedUTXOs(b)[k]
             t == b.txs[k]
         IN  /\ q \in Seq([key : KeySet, elem : OutSet]) /\ IsInjective(q)
             /\ \A key, e : e \in AllFor(q, key) <=>
                  \E i \in DOMAIN t.outs : e = Utxo(t, i) /\ key = <<t.outs[i].owner, b.height>>
<1> DEFINE q == CreatedUTXOs(b)[k]
           t == b.txs[k]
           m == Len(t.outs)
           a(i) == <<t.outs[i].owner, b.height>>
<1>1. t.id \in IdSet /\ Accountable(t)
  BY DEF TxOK
<1>2. m \in Nat /\ DOMAIN t.outs = 1..m
  BY TxSequences
<1>3. q = [i \in DOMAIN t.outs |-> Entry(a(i), Utxo(t, i))]
  BY <1>1 DEF CreatedUTXOs
<1>4. \A i \in 1..m : t.outs[i].owner \in OwnerSet
  BY <1>2 DEF TxOK
<1>5. \A i \in 1..m : a(i) \in KeySet /\ Utxo(t, i) \in OutSet /\ Utxo(t, i).index = i
  BY <1>1, <1>4 DEF KeySet, OutSet, Utxo
<1> HIDE DEF q, t, m, a
<1>6. /\ q = [x \in 1..m |-> q[x]]
      /\ \A i \in 1..m : q[i] = Entry(a(i), Utxo(t, i))
      /\ \A i \in 1..m : q[i].key = a(i) /\ q[i].elem = Utxo(t, i)
  BY <1>2, <1>3 DEF Entry
<1>7. q \in Seq([key : KeySet, elem : OutSet]) /\ Len(q) = m
  <2>1. Entries(KeySet, OutSet, m, q)
    BY <1>5, <1>6 DEF Entries
  <2> QED
    BY <1>2, <2>1, EntrySequence
<1>8. IsInjective(q)
  <2>1. DOMAIN q = 1..m
    BY <1>6
  <2>2. ASSUME NEW x \in 1..m, NEW y \in 1..m, q[x] = q[y] PROVE x = y
    <3>1. Utxo(t, x).index = Utxo(t, y).index
      BY <1>6, <2>2
    <3> QED
      BY <1>5, <3>1
  <2> QED
    BY <2>1, <2>2 DEF IsInjective
<1>9. \A key, e : e \in AllFor(q, key) <=> \E i \in DOMAIN t.outs : e = Utxo(t, i) /\ key = a(i)
  BY <1>2, <1>6, <1>7 DEF AllFor, FirstFor
<1> QED
  BY <1>7, <1>8, <1>9 DEF q, t, a

LEMMA SpentUTXOsOf ==
  ASSUME NEW d, NEW b, NEW k \in DOMAIN b.txs, TxOK(b.txs[k]), IsInjective(b.txs[k].ins),
         \A x \in DOMAIN b.txs[k].ins : /\ b.txs[k].ins[x] \in OutSet
                                        /\ UTXOKey(d, b.txs[k].ins[x]) \in KeySet
  PROVE  LET q == SpentUTXOs(d, b)[k]
             t == b.txs[k]
         IN  /\ q \in Seq([key : KeySet, elem : OutSet]) /\ IsInjective(q)
             /\ \A key, e : e \in AllFor(q, key) <=> e \in Range(t.ins) /\ key = UTXOKey(d, e)
<1> DEFINE q == SpentUTXOs(d, b)[k]
           t == b.txs[k]
           m == Len(t.ins)
<1>1. Spends(t) = t.ins /\ Accountable(t)
  BY DEF TxOK
<1>2. m \in Nat /\ DOMAIN t.ins = 1..m
  BY TxSequences
<1>3. q = [x \in DOMAIN t.ins |-> Entry(UTXOKey(d, t.ins[x]), t.ins[x])]
  BY <1>1 DEF SpentUTXOs
<1>4. \A x \in 1..m : t.ins[x] \in OutSet /\ UTXOKey(d, t.ins[x]) \in KeySet
  BY <1>2
<1>5. IsInjective(t.ins)
  OBVIOUS
<1> HIDE DEF q, t, m
<1>6. /\ q = [x \in 1..m |-> q[x]]
      /\ \A x \in 1..m : q[x] = Entry(UTXOKey(d, t.ins[x]), t.ins[x])
      /\ \A x \in 1..m : q[x].key = UTXOKey(d, t.ins[x]) /\ q[x].elem = t.ins[x]
  BY <1>2, <1>3 DEF Entry
<1>7. q \in Seq([key : KeySet, elem : OutSet]) /\ Len(q) = m
  <2>1. Entries(KeySet, OutSet, m, q)
    BY <1>4, <1>6 DEF Entries
  <2> QED
    BY <1>2, <2>1, EntrySequence
<1>8. IsInjective(q)
  <2>1. DOMAIN q = 1..m
    BY <1>6
  <2> QED
    BY <1>2, <1>5, <1>6, <2>1 DEF IsInjective
<1>9. ASSUME NEW key, NEW e
      PROVE  e \in AllFor(q, key) <=> e \in Range(t.ins) /\ key = UTXOKey(d, e)
  <2>1. e \in AllFor(q, key) <=> \E x \in 1..m : UTXOKey(d, t.ins[x]) = key /\ t.ins[x] = e
    <3>1. e \in AllFor(q, key) <=> \E x \in 1..m : q[x].key = key /\ q[x].elem = e
      BY <1>7, AllForHas
    <3>2. \A x \in 1..m : q[x].key = UTXOKey(d, t.ins[x]) /\ q[x].elem = t.ins[x]
      BY <1>6
    <3> QED
      BY <3>1, <3>2
  <2> QED
    BY <1>2, <2>1 DEF Range
<1> QED
  BY <1>7, <1>8, <1>9 DEF q, t

LEMMA BlockSequence ==
  ASSUME NEW b, BlockOK(b)
  PROVE  Len(b.txs) \in Nat /\ DOMAIN b.txs = 1..Len(b.txs)
BY DEF BlockOK

LEMMA BlockTxs ==
  ASSUME NEW b, BlockOK(b)
  PROVE  /\ \A k \in DOMAIN b.txs : TxOK(b.txs[k]) /\ IsInjective(b.txs[k].ins)
         /\ \A j, k \in DOMAIN b.txs : j # k => /\ b.txs[j].id # b.txs[k].id
                                             /\ Range(b.txs[j].ins) \cap Range(b.txs[k].ins) = {}
<1>1. \A k \in DOMAIN b.txs : TxOK(b.txs[k])
  BY DEF BlockOK
<1>2. DistinctInputs(b) /\ \A j, k \in DOMAIN b.txs : b.txs[j].id = b.txs[k].id => j = k
  BY DEF BlockOK
<1>3. \A k \in DOMAIN b.txs : IsInjective(b.txs[k].ins)
  BY <1>2 DEF DistinctInputs, IsInjective
<1>4. \A j, k \in DOMAIN b.txs : j # k => Range(b.txs[j].ins) \cap Range(b.txs[k].ins) = {}
  BY <1>2 DEF DistinctInputs, Range
<1> QED
  BY <1>1, <1>2, <1>3, <1>4

LEMMA FirstOfHas ==
  ASSUME NEW entries, NEW n, NEW key, NEW e
  PROVE  e \in FirstOf(entries, n, key) <=> \E k \in 1..n : e \in AllFor(entries[k], key)
BY Zenon DEF FirstOf

LEMMA PlacesHave ==
  ASSUME NEW b
  PROVE  /\ \A p : p \in PlacesOf(b) <=> \E k \in DOMAIN b.txs : p = Place(b.height, b.txs[k])
         /\ \A h, t : Place(h, t).height = h /\ Place(h, t).tx = t
<1>1. \A p : p \in PlacesOf(b) <=> \E k \in DOMAIN b.txs : p = Place(b.height, b.txs[k])
  BY DEF PlacesOf
<1>2. \A h, t : Place(h, t).height = h /\ Place(h, t).tx = t
  BY DEF Place
<1> QED
  BY <1>1, <1>2

LEMMA InsOfHas ==
  ASSUME NEW P, NEW o
  PROVE  o \in InsOf(P) <=> \E p \in P : o \in Range(p.tx.ins)
BY Zenon DEF InsOf

LEMMA OutsOfHas ==
  ASSUME NEW P, NEW o
  PROVE  o \in OutsOf(P) <=> \E p \in P : \E i \in DOMAIN p.tx.outs : o = Utxo(p.tx, i)
BY DEF OutsOf

LEMMA PlacesInsOuts ==
  ASSUME NEW b, NEW o
  PROVE  /\ o \in InsOf(PlacesOf(b)) <=> \E k \in DOMAIN b.txs : o \in Range(b.txs[k].ins)
         /\ o \in OutsOf(PlacesOf(b))
              <=> \E k \in DOMAIN b.txs : \E i \in DOMAIN b.txs[k].outs : o = Utxo(b.txs[k], i)
<1>1. o \in InsOf(PlacesOf(b)) <=> \E p \in PlacesOf(b) : o \in Range(p.tx.ins)
  BY InsOfHas
<1>2. o \in OutsOf(PlacesOf(b))
        <=> \E p \in PlacesOf(b) : \E i \in DOMAIN p.tx.outs : o = Utxo(p.tx, i)
  BY OutsOfHas
<1>3. (\E p \in PlacesOf(b) : o \in Range(p.tx.ins))
        <=> \E k \in DOMAIN b.txs : o \in Range(b.txs[k].ins)
  BY PlacesHave
<1>4. (\E p \in PlacesOf(b) : \E i \in DOMAIN p.tx.outs : o = Utxo(p.tx, i))
        <=> \E k \in DOMAIN b.txs : \E i \in DOMAIN b.txs[k].outs : o = Utxo(b.txs[k], i)
  BY PlacesHave
<1> QED
  BY <1>1, <1>2, <1>3, <1>4

\* What the block makes of the lists of outputs by transaction.
LEMMA UnspentEntries ==
  ASSUME NEW b, BlockOK(b), Refers(b)
  PROVE  /\ Len(CreatedUnspent(b)) = Len(b.txs)
         /\ Separate(IdSet, Nat, Len(b.txs), CreatedUnspent(b))
         /\ Separate(IdSet, Nat, Len(b.txs), SpentUnspent(b))
         /\ \A key, e : e \in FirstOf(CreatedUnspent(b), Len(b.txs), key)
                         <=> [tx |-> key, index |-> e] \in OutsOf(PlacesOf(b))
         /\ \A key, e : e \in FirstOf(SpentUnspent(b), Len(b.txs), key)
                         <=> [tx |-> key, index |-> e] \in InsOf(PlacesOf(b))
<1> DEFINE n == Len(b.txs)
           c == CreatedUnspent(b)
           s == SpentUnspent(b)
<1>1. n \in Nat /\ DOMAIN b.txs = 1..n
  BY BlockSequence
<1>2. /\ \A k \in DOMAIN b.txs : TxOK(b.txs[k]) /\ IsInjective(b.txs[k].ins)
      /\ \A j, k \in DOMAIN b.txs : j # k => /\ b.txs[j].id # b.txs[k].id
                                          /\ Range(b.txs[j].ins) \cap Range(b.txs[k].ins) = {}
  BY BlockTxs
<1>3. Len(c) = n
  BY <1>1 DEF CreatedUnspent
<1>4. \A k \in 1..n :
        /\ c[k] \in Seq([key : IdSet, elem : Nat]) /\ IsInjective(c[k])
        /\ \A key, e : e \in AllFor(c[k], key) <=> key = b.txs[k].id /\ e \in DOMAIN b.txs[k].outs
  BY <1>1, <1>2, CreatedUnspentOf
<1>5. \A k \in 1..n :
        /\ s[k] \in Seq([key : IdSet, elem : Nat]) /\ IsInjective(s[k])
        /\ \A key, e : e \in AllFor(s[k], key)
                       <=> [tx |-> key, index |-> e] \in Range(b.txs[k].ins)
  BY <1>1, <1>2, SpentUnspentOf DEF Refers
<1> HIDE DEF n, c, s
<1>5a. \A k \in 1..n : \A key, e :
         e \in AllFor(s[k], key) <=> [tx |-> key, index |-> e] \in Range(b.txs[k].ins)
  BY <1>5
<1>6. Separate(IdSet, Nat, n, c)
  <2>1. ASSUME NEW j \in 1..n, NEW k \in 1..n, j # k, NEW key \in IdSet
        PROVE  AllFor(c[j], key) \cap AllFor(c[k], key) = {}
    <3>1. \A e : /\ e \in AllFor(c[j], key) => key = b.txs[j].id
                 /\ e \in AllFor(c[k], key) => key = b.txs[k].id
      BY <1>4
    <3>2. b.txs[j].id # b.txs[k].id
      BY <1>1, <1>2, <2>1
    <3> QED
      BY <3>1, <3>2
  <2> QED
    BY <1>4, <2>1 DEF Separate
<1>7. Separate(IdSet, Nat, n, s)
  <2>1. ASSUME NEW j \in 1..n, NEW k \in 1..n, j # k, NEW key \in IdSet
        PROVE  AllFor(s[j], key) \cap AllFor(s[k], key) = {}
    <3>1. \A e : /\ e \in AllFor(s[j], key) => [tx |-> key, index |-> e] \in Range(b.txs[j].ins)
                 /\ e \in AllFor(s[k], key) => [tx |-> key, index |-> e] \in Range(b.txs[k].ins)
      BY <1>5
    <3>2. Range(b.txs[j].ins) \cap Range(b.txs[k].ins) = {}
      BY <1>1, <1>2, <2>1
    <3> QED
      BY <3>1, <3>2
  <2> QED
    BY <1>5, <2>1 DEF Separate
<1>8. ASSUME NEW key, NEW e
      PROVE  e \in FirstOf(c, n, key) <=> [tx |-> key, index |-> e] \in OutsOf(PlacesOf(b))
  <2>0. \A k \in 1..n : e \in AllFor(c[k], key) <=> key = b.txs[k].id /\ e \in DOMAIN b.txs[k].outs
    BY <1>4
  <2>1. e \in FirstOf(c, n, key)
          <=> \E k \in 1..n : key = b.txs[k].id /\ e \in DOMAIN b.txs[k].outs
    BY <2>0, FirstOfHas
  <2>2. [tx |-> key, index |-> e] \in OutsOf(PlacesOf(b))
          <=> \E k \in 1..n : \E i \in DOMAIN b.txs[k].outs :
                [tx |-> key, index |-> e] = Utxo(b.txs[k], i)
    BY <1>1, PlacesInsOuts
  <2>3. \A t, i : [tx |-> key, index |-> e] = Utxo(t, i) <=> key = t.id /\ e = i
    BY DEF Utxo
  <2> QED
    BY <2>1, <2>2, <2>3
<1>9. ASSUME NEW key, NEW e
      PROVE  e \in FirstOf(s, n, key) <=> [tx |-> key, index |-> e] \in InsOf(PlacesOf(b))
  <2>1. e \in FirstOf(s, n, key)
          <=> \E k \in 1..n : [tx |-> key, index |-> e] \in Range(b.txs[k].ins)
    BY <1>5a, FirstOfHas
  <2>2. \A o : o \in InsOf(PlacesOf(b)) <=> \E k \in 1..n : o \in Range(b.txs[k].ins)
    BY <1>1, PlacesInsOuts
  <2> QED
    BY <2>1, <2>2
<1> QED
  BY <1>3, <1>6, <1>7, <1>8, <1>9 DEF n, c, s

\* What the block makes of the lists of outputs by owner and height.
LEMMA UTXOEntries ==
  ASSUME NEW d, NEW b, BlockOK(b), Refers(b),
         \A k \in DOMAIN b.txs : \A x \in DOMAIN b.txs[k].ins :
           UTXOKey(d, b.txs[k].ins[x]) \in KeySet
  PROVE  /\ Len(CreatedUTXOs(b)) = Len(b.txs)
         /\ Separate(KeySet, OutSet, Len(b.txs), CreatedUTXOs(b))
         /\ Separate(KeySet, OutSet, Len(b.txs), SpentUTXOs(d, b))
         /\ \A key, e : e \in FirstOf(CreatedUTXOs(b), Len(b.txs), key)
                         <=> \E p \in PlacesOf(b) : \E i \in DOMAIN p.tx.outs :
                               e = Utxo(p.tx, i) /\ key = <<p.tx.outs[i].owner, p.height>>
         /\ \A key, e : e \in FirstOf(SpentUTXOs(d, b), Len(b.txs), key)
                         <=> e \in InsOf(PlacesOf(b)) /\ key = UTXOKey(d, e)
<1> DEFINE n == Len(b.txs)
           c == CreatedUTXOs(b)
           s == SpentUTXOs(d, b)
<1>1. n \in Nat /\ DOMAIN b.txs = 1..n
  BY BlockSequence
<1>2. /\ \A k \in DOMAIN b.txs : TxOK(b.txs[k]) /\ IsInjective(b.txs[k].ins)
      /\ \A j, k \in DOMAIN b.txs : j # k => /\ b.txs[j].id # b.txs[k].id
                                          /\ Range(b.txs[j].ins) \cap Range(b.txs[k].ins) = {}
  BY BlockTxs
<1>3. Len(c) = n /\ b.height \in Nat
  BY <1>1 DEF CreatedUTXOs, BlockOK
<1>4. \A k \in 1..n :
        /\ c[k] \in Seq([key : KeySet, elem : OutSet]) /\ IsInjective(c[k])
        /\ \A key, e : e \in AllFor(c[k], key) <=>
             \E i \in DOMAIN b.txs[k].outs :
               e = Utxo(b.txs[k], i) /\ key = <<b.txs[k].outs[i].owner, b.height>>
  BY <1>1, <1>2, <1>3, CreatedUTXOsOf
<1>5. \A k \in 1..n :
        /\ s[k] \in Seq([key : KeySet, elem : OutSet]) /\ IsInjective(s[k])
        /\ \A key, e : e \in AllFor(s[k], key) <=> e \in Range(b.txs[k].ins) /\ key = UTXOKey(d, e)
  BY <1>1, <1>2, SpentUTXOsOf DEF Refers
<1> HIDE DEF n, c, s
<1>4a. ASSUME NEW k \in 1..n, NEW key, NEW e
       PROVE  e \in AllFor(c[k], key) <=>
                \E i \in DOMAIN b.txs[k].outs :
                  e = Utxo(b.txs[k], i) /\ key = <<b.txs[k].outs[i].owner, b.height>>
  BY <1>4
<1>5a. ASSUME NEW k \in 1..n, NEW key, NEW e
       PROVE  e \in AllFor(s[k], key) <=> e \in Range(b.txs[k].ins) /\ key = UTXOKey(d, e)
  BY <1>5
<1>6. Separate(KeySet, OutSet, n, c)
  <2>2. ASSUME NEW j \in 1..n, NEW k \in 1..n, j # k, NEW key \in KeySet,
               NEW e \in AllFor(c[j], key), e \in AllFor(c[k], key)
        PROVE  FALSE
    <3>1. \E i \in DOMAIN b.txs[j].outs : e = Utxo(b.txs[j], i)
      <4>1. e \in AllFor(c[j], key) <=>
              \E i \in DOMAIN b.txs[j].outs :
                e = Utxo(b.txs[j], i) /\ key = <<b.txs[j].outs[i].owner, b.height>>
        BY <1>4
      <4> QED
        BY <2>2, <4>1
    <3>2. \E i \in DOMAIN b.txs[k].outs : e = Utxo(b.txs[k], i)
      <4>1. e \in AllFor(c[k], key) <=>
              \E i \in DOMAIN b.txs[k].outs :
                e = Utxo(b.txs[k], i) /\ key = <<b.txs[k].outs[i].owner, b.height>>
        BY <1>4
      <4> QED
        BY <2>2, <4>1
    <3>3. e.tx = b.txs[j].id /\ e.tx = b.txs[k].id
      BY <3>1, <3>2 DEF Utxo
    <3> QED
      BY <1>1, <1>2, <2>2, <3>3
  <2> QED
    BY <1>4, <2>2 DEF Separate
<1>7. Separate(KeySet, OutSet, n, s)
  <2>1. ASSUME NEW j \in 1..n, NEW k \in 1..n, j # k, NEW key \in KeySet
        PROVE  AllFor(s[j], key) \cap AllFor(s[k], key) = {}
    BY <1>1, <1>2, <1>5a, <2>1
  <2> QED
    BY <1>5, <2>1 DEF Separate
<1>8. ASSUME NEW key, NEW e
      PROVE  e \in FirstOf(c, n, key)
                <=> \E p \in PlacesOf(b) : \E i \in DOMAIN p.tx.outs :
                      e = Utxo(p.tx, i) /\ key = <<p.tx.outs[i].owner, p.height>>
  <2>1. e \in FirstOf(c, n, key)
          <=> \E k \in 1..n : \E i \in DOMAIN b.txs[k].outs :
                e = Utxo(b.txs[k], i) /\ key = <<b.txs[k].outs[i].owner, b.height>>
    BY <1>4a, FirstOfHas
  <2> QED
    BY <1>1, <2>1, PlacesHave
<1>9. ASSUME NEW key, NEW e
      PROVE  e \in FirstOf(s, n, key) <=> e \in InsOf(PlacesOf(b)) /\ key = UTXOKey(d, e)
  <2>0. \A k \in 1..n : e \in AllFor(s[k], key) <=> e \in Range(b.txs[k].ins) /\ key = UTXOKey(d, e)
    BY <1>5
  <2>1. e \in FirstOf(s, n, key)
          <=> \E k \in 1..n : e \in Range(b.txs[k].ins) /\ key = UTXOKey(d, e)
    BY <2>0, FirstOfHas
  <2>2. \A o : o \in InsOf(PlacesOf(b)) <=> \E k \in 1..n : o \in Range(b.txs[k].ins)
    BY <1>1, PlacesInsOuts
  <2> QED
    BY <2>1, <2>2
<1> QED
  BY <1>3, <1>6, <1>7, <1>8, <1>9 DEF n, c, s

-----------------------------------------------------------------------------
(* A chain and the block on top of it.                                     *)

OnTop(P, b) ==
  Sound(P \cup PlacesOf(b)) /\ BlockOK(b) /\ \A p \in P : p.height < b.height

\* The top is apart from the rest.
LEMMA TopIsApart ==
  ASSUME NEW P, NEW b, OnTop(P, b)
  PROVE  /\ \A p \in P, q \in PlacesOf(b) : p # q /\ p.tx.id # q.tx.id
         /\ \A q \in PlacesOf(b) : q.height = b.height
         /\ \A p \in P : p.height \in Nat
         /\ b.height \in Nat
<1>1. \A q \in PlacesOf(b) : q.height = b.height
  BY PlacesHave
<1>2. /\ \A p \in P \cup PlacesOf(b) : p.height \in Nat
      /\ \A p, q \in P \cup PlacesOf(b) : p.tx.id = q.tx.id => p = q
  BY DEF OnTop, Sound
<1>3. b.height \in Nat /\ \A p \in P : p.height < b.height
  BY DEF OnTop, BlockOK
<1>4. \A p \in P, q \in PlacesOf(b) : p # q
  BY <1>1, <1>2, <1>3
<1> QED
  BY <1>1, <1>2, <1>3, <1>4

\* What is spent comes from below the top.
LEMMA SourcesBelow ==
  ASSUME NEW P, NEW b, OnTop(P, b), NEW p \in P \cup PlacesOf(b), NEW in \in Range(p.tx.ins)
  PROVE  \E q \in P : Source(q, in, p.tx, p.height)
<1> DEFINE N == PlacesOf(b)
<1>1. PICK q \in P \cup N : Source(q, in, p.tx, p.height)
  BY DEF OnTop, Sound
<1>2. q.height < p.height
  BY <1>1 DEF Source
<1>3. /\ \A r \in N : r.height = b.height
      /\ \A r \in P : r.height \in Nat /\ r.height < b.height
      /\ b.height \in Nat
  BY TopIsApart DEF OnTop
<1>4. p.height <= b.height /\ p.height \in Nat
  BY <1>3
<1>5. q \notin N
  BY <1>2, <1>3, <1>4
<1> QED
  BY <1>1, <1>5

\* What is left is sound when the top is taken off.
LEMMA SoundBelow ==
  ASSUME NEW P, NEW b, OnTop(P, b)
  PROVE  Sound(P)
<1> DEFINE Q == P \cup PlacesOf(b)
<1>1. Sound(Q)
  BY DEF OnTop
<1>2. \A p \in P : \A in \in Range(p.tx.ins) : \E q \in P : Source(q, in, p.tx, p.height)
  BY SourcesBelow
<1>3. /\ \A p \in P :
           /\ p = Place(p.height, p.tx) /\ p.height \in Nat \ {0}
           /\ TxOK(p.tx) /\ p.tx.id # "asset" /\ IsInjective(p.tx.ins)
      /\ \A p, q \in P : p.tx.id = q.tx.id => p = q
  BY <1>1 DEF Sound
<1>4. \A p, q \in P : p # q => \A in \in Range(p.tx.ins) : in \notin Range(q.tx.ins)
  BY <1>1 DEF Sound
<1>5. \A p, q \in P : /\ p.tx.type = "recharge" /\ q.tx.type = "recharge"
                     /\ p.tx.main.id = q.tx.main.id
                     => p.height = q.height
  BY <1>1 DEF Sound
<1> QED
  BY <1>2, <1>3, <1>4, <1>5 DEF Sound

\* The outputs of transactions that are sound.
LEMMA OutsAre ==
  ASSUME NEW P, Sound(P), NEW o
  PROVE  /\ o \in OutsOf(P) <=>
              /\ o = [tx |-> o.tx, index |-> o.index]
              /\ \E p \in P : p.tx.id = o.tx /\ o.index \in DOMAIN p.tx.outs
         /\ o \in OutsOf(P) => o \in OutSet
<1>1. o \in OutsOf(P) <=> \E p \in P : \E i \in DOMAIN p.tx.outs : o = Utxo(p.tx, i)
  BY OutsOfHas
<1>2. \A p \in P : TxOK(p.tx)
  BY DEF Sound
<1>3. \A p \in P : p.tx.id \in IdSet /\ DOMAIN p.tx.outs = 1..Len(p.tx.outs)
                   /\ Len(p.tx.outs) \in Nat
  BY <1>2, TxSequences DEF TxOK
<1>4. ASSUME o \in OutsOf(P)
      PROVE  /\ o = [tx |-> o.tx, index |-> o.index] /\ o \in OutSet
             /\ \E p \in P : p.tx.id = o.tx /\ o.index \in DOMAIN p.tx.outs
  <2>1. PICK p \in P : \E i \in DOMAIN p.tx.outs : o = Utxo(p.tx, i)
    BY <1>1, <1>4
  <2>2. PICK i \in DOMAIN p.tx.outs : o = Utxo(p.tx, i)
    BY <2>1
  <2>3. o = [tx |-> p.tx.id, index |-> i]
    BY <2>2 DEF Utxo
  <2>4. p.tx.id \in IdSet /\ i \in Nat
    BY <1>3
  <2> QED
    BY <2>3, <2>4 DEF OutSet
<1>5. ASSUME o = [tx |-> o.tx, index |-> o.index],
             NEW p \in P, p.tx.id = o.tx, o.index \in DOMAIN p.tx.outs
      PROVE  o \in OutsOf(P)
  <2>1. o = Utxo(p.tx, o.index)
    BY <1>5 DEF Utxo
  <2> QED
    BY <1>1, <1>5, <2>1
<1> QED
  BY <1>4, <1>5

\* What the block spends was unspent, what it creates is new.
LEMMA TopSpends ==
  ASSUME NEW P, NEW b, OnTop(P, b)
  PROVE  /\ InsOf(PlacesOf(b)) \subseteq UnspentIn(P) /\ UnspentIn(P) \subseteq OutSet
         /\ OutsOf(PlacesOf(b)) \cap OutsOf(P) = {}
         /\ OutsOf(PlacesOf(b)) \cap InsOf(P \cup PlacesOf(b)) = {}
         /\ InsOf(P \cup PlacesOf(b)) \subseteq OutsOf(P)
<1> DEFINE N == PlacesOf(b)
           Q == P \cup N
<1>1. Sound(P) /\ Sound(Q)
  BY SoundBelow DEF OnTop
<1>2. InsOf(Q) \subseteq OutsOf(P)
  <2> SUFFICES ASSUME NEW in \in InsOf(Q) PROVE in \in OutsOf(P)
    OBVIOUS
  <2>1. PICK p \in Q : in \in Range(p.tx.ins)
    BY InsOfHas
  <2>2. PICK q \in P : Source(q, in, p.tx, p.height)
    BY <2>1, SourcesBelow
  <2>3. in = [tx |-> in.tx, index |-> in.index]
    <3>1. TxOK(p.tx)
      BY <1>1 DEF Sound
    <3> QED
      BY <2>1, <3>1 DEF TxOK, Range
  <2>4. q.tx.id = in.tx /\ in.index \in DOMAIN q.tx.outs
    BY <2>2 DEF Source
  <2> QED
    BY <1>1, <2>3, <2>4, OutsAre
<1>3. \A o \in OutsOf(P) : o \in OutSet
  BY <1>1, OutsAre
<1>4. OutsOf(N) \cap OutsOf(P) = {}
  <2> SUFFICES ASSUME NEW o, o \in OutsOf(N), o \in OutsOf(P) PROVE FALSE
    OBVIOUS
  <2>1. PICK p \in P : \E i \in DOMAIN p.tx.outs : o = Utxo(p.tx, i)
    BY OutsOfHas
  <2>2. PICK q \in N : \E i \in DOMAIN q.tx.outs : o = Utxo(q.tx, i)
    BY OutsOfHas
  <2>3. o.tx = p.tx.id /\ o.tx = q.tx.id
    BY <2>1, <2>2 DEF Utxo
  <2> QED
    BY <2>3, TopIsApart
<1>5. ASSUME NEW in \in InsOf(N) PROVE in \notin InsOf(P)
  <2> SUFFICES ASSUME in \in InsOf(P) PROVE FALSE
    OBVIOUS
  <2>1. PICK p \in P : in \in Range(p.tx.ins)
    BY InsOfHas
  <2>2. PICK q \in N : in \in Range(q.tx.ins)
    BY InsOfHas
  <2>3. p # q /\ p \in Q /\ q \in Q
    BY TopIsApart
  <2> QED
    BY <1>1, <2>1, <2>2, <2>3 DEF Sound
<1>6. InsOf(N) \subseteq InsOf(Q)
  BY DEF InsOf
<1>7. InsOf(N) \subseteq UnspentIn(P)
  BY <1>2, <1>5, <1>6 DEF UnspentIn
<1>8. UnspentIn(P) \subseteq OutSet
  BY <1>3 DEF UnspentIn
<1>9. OutsOf(N) \cap InsOf(Q) = {}
  BY <1>2, <1>4
<1> QED
  BY <1>2, <1>4, <1>7, <1>8, <1>9

LEMMA UnionOfPlaces ==
  ASSUME NEW P, NEW N
  PROVE  OutsOf(P \cup N) = OutsOf(P) \cup OutsOf(N) /\ InsOf(P \cup N) = InsOf(P) \cup InsOf(N)
<1>1. \A o : o \in OutsOf(P \cup N) <=> o \in OutsOf(P) \/ o \in OutsOf(N)
  BY OutsOfHas
<1>2. \A o : o \in InsOf(P \cup N) <=> o \in InsOf(P) \/ o \in InsOf(N)
  BY InsOfHas
<1> QED
  BY <1>1, <1>2

\* The unspent outputs with the top and without it.
LEMMA UnspentOnTop ==
  ASSUME NEW P, NEW b, OnTop(P, b)
  PROVE  LET N == PlacesOf(b)
             Q == P \cup N
         IN  /\ UnspentIn(Q) = (UnspentIn(P) \cup OutsOf(N)) \ InsOf(N)
             /\ UnspentIn(P) = (UnspentIn(Q) \ OutsOf(N)) \cup InsOf(N)
             /\ OutsOf(N) \subseteq UnspentIn(Q) /\ InsOf(N) \cap UnspentIn(Q) = {}
<1> DEFINE N == PlacesOf(b)
           Q == P \cup N
<1>1. /\ InsOf(N) \subseteq UnspentIn(P)
      /\ OutsOf(N) \cap OutsOf(P) = {}
      /\ OutsOf(N) \cap InsOf(Q) = {}
  BY TopSpends
<1>2. OutsOf(Q) = OutsOf(P) \cup OutsOf(N) /\ InsOf(Q) = InsOf(P) \cup InsOf(N)
  BY UnionOfPlaces
<1> HIDE DEF N, Q
<1>3. /\ UnspentIn(Q) = (UnspentIn(P) \cup OutsOf(N)) \ InsOf(N)
      /\ UnspentIn(P) = (UnspentIn(Q) \ OutsOf(N)) \cup InsOf(N)
      /\ OutsOf(N) \subseteq UnspentIn(Q) /\ InsOf(N) \cap UnspentIn(Q) = {}
  BY <1>1, <1>2 DEF UnspentIn
<1> QED
  BY <1>3 DEF N, Q

\* The store knows the places P.
Known(d, P) == \A p \in P : d.txs[p.tx.id] = p

\* Where an output is filed is settled by the place of its transaction.
LEMMA FiledOnce ==
  ASSUME NEW P, Sound(P), NEW p \in P, NEW o, p.tx.id = o.tx, NEW key
  PROVE  Filed(P, o, key) <=> key = <<p.tx.outs[o.index].owner, p.height>>
<1>1. \A q \in P : q.tx.id = o.tx => q = p
  BY DEF Sound
<1> QED
  BY <1>1 DEF Filed

LEMMA SpentKey ==
  ASSUME NEW d, NEW P, NEW b, OnTop(P, b), Known(d, P), NEW in \in InsOf(PlacesOf(b)), NEW key
  PROVE  /\ key = UTXOKey(d, in) <=> Filed(P \cup PlacesOf(b), in, key)
         /\ UTXOKey(d, in) \in KeySet
<1> DEFINE Q == P \cup PlacesOf(b)
<1>1. PICK p \in PlacesOf(b) : in \in Range(p.tx.ins)
  BY InsOfHas
<1>2. PICK q \in P : Source(q, in, p.tx, p.height)
  BY <1>1, SourcesBelow
<1>3. q.tx.id = in.tx /\ in.index \in DOMAIN q.tx.outs
  BY <1>2 DEF Source
<1>4. d.txs[in.tx] = q
  BY <1>3 DEF Known
<1>5. UTXOKey(d, in) = <<q.tx.outs[in.index].owner, q.height>>
  BY <1>4 DEF UTXOKey, Output
<1>6. Sound(Q) /\ q \in Q
  BY DEF OnTop
<1>7. q.tx.outs[in.index].owner \in OwnerSet /\ q.height \in Nat
  BY <1>3, <1>6 DEF Sound, TxOK
<1>8. Filed(Q, in, key) <=> key = <<q.tx.outs[in.index].owner, q.height>>
  BY <1>3, <1>6, FiledOnce
<1> QED
  BY <1>5, <1>7, <1>8 DEF KeySet

\* An output below the top is filed where it was.
LEMMA FiledBelow ==
  ASSUME NEW P, NEW b, OnTop(P, b), NEW o \in OutsOf(P), NEW key
  PROVE  Filed(P, o, key) <=> Filed(P \cup PlacesOf(b), o, key)
<1>1. Sound(P) /\ Sound(P \cup PlacesOf(b))
  BY SoundBelow DEF OnTop
<1>2. PICK p \in P : p.tx.id = o.tx
  BY <1>1, OutsAre
<1>3. Filed(P, o, key) <=> key = <<p.tx.outs[o.index].owner, p.height>>
  BY <1>1, <1>2, FiledOnce
<1>4. Filed(P \cup PlacesOf(b), o, key) <=> key = <<p.tx.outs[o.index].owner, p.height>>
  BY <1>1, <1>2, FiledOnce
<1> QED
  BY <1>3, <1>4

LEMMA CreatedKey ==
  ASSUME NEW P, NEW b, OnTop(P, b), NEW key, NEW e
  PROVE  (\E p \in PlacesOf(b) : \E i \in DOMAIN p.tx.outs :
            e = Utxo(p.tx, i) /\ key = <<p.tx.outs[i].owner, p.height>>)
         <=> e \in OutsOf(PlacesOf(b)) /\ Filed(P \cup PlacesOf(b), e, key)
<1> DEFINE N == PlacesOf(b)
           Q == P \cup N
<1>1. Sound(Q)
  BY DEF OnTop
<1>2. ASSUME NEW p \in N, NEW i \in DOMAIN p.tx.outs, e = Utxo(p.tx, i)
      PROVE  Filed(Q, e, key) <=> key = <<p.tx.outs[i].owner, p.height>>
  <2>1. p.tx.id = e.tx /\ e.index = i
    BY <1>2 DEF Utxo
  <2> QED
    BY <1>1, <2>1, FiledOnce
<1>3. e \in OutsOf(N) <=> \E p \in N : \E i \in DOMAIN p.tx.outs : e = Utxo(p.tx, i)
  BY OutsOfHas
<1> HIDE DEF N, Q
<1>4. (\E p \in N : \E i \in DOMAIN p.tx.outs :
            e = Utxo(p.tx, i) /\ key = <<p.tx.outs[i].owner, p.height>>)
         <=> e \in OutsOf(N) /\ Filed(Q, e, key)
  BY <1>2, <1>3
<1> QED
  BY <1>4 DEF N, Q

LEMMA TopRefers ==
  ASSUME NEW P, NEW b, OnTop(P, b)
  PROVE  /\ Refers(b)
         /\ \A k \in DOMAIN b.txs : \A x \in DOMAIN b.txs[k].ins :
              b.txs[k].ins[x] \in InsOf(PlacesOf(b))
<1>1. \A k \in DOMAIN b.txs : \A x \in DOMAIN b.txs[k].ins :
              b.txs[k].ins[x] \in InsOf(PlacesOf(b))
  <2> SUFFICES ASSUME NEW k \in DOMAIN b.txs, NEW x \in DOMAIN b.txs[k].ins
               PROVE  b.txs[k].ins[x] \in InsOf(PlacesOf(b))
    OBVIOUS
  <2>1. b.txs[k].ins[x] \in Range(b.txs[k].ins)
    BY DEF Range
  <2> QED
    BY <2>1, PlacesInsOuts
<1>2. InsOf(PlacesOf(b)) \subseteq OutSet
  BY TopSpends
<1> QED
  BY <1>1, <1>2 DEF Refers

\* The entries of the block in terms of the outputs that it creates and spends.
LEMMA TopUTXOEntries ==
  ASSUME NEW d, NEW P, NEW b, OnTop(P, b), Known(d, P)
  PROVE  LET n == Len(b.txs)
             N == PlacesOf(b)
             Q == P \cup N
         IN  /\ n \in Nat /\ Len(CreatedUTXOs(b)) = n
             /\ Separate(KeySet, OutSet, n, CreatedUTXOs(b))
             /\ Separate(KeySet, OutSet, n, SpentUTXOs(d, b))
             /\ \A key, e : /\ e \in FirstOf(CreatedUTXOs(b), n, key)
                               <=> e \in OutsOf(N) /\ Filed(Q, e, key)
                            /\ e \in FirstOf(SpentUTXOs(d, b), n, key)
                               <=> e \in InsOf(N) /\ Filed(Q, e, key)
<1> DEFINE n == Len(b.txs)
           N == PlacesOf(b)
           Q == P \cup N
           c == CreatedUTXOs(b)
           s == SpentUTXOs(d, b)
<1>1. BlockOK(b) /\ Refers(b)
  BY TopRefers DEF OnTop
<1>2. \A k \in DOMAIN b.txs : \A x \in DOMAIN b.txs[k].ins :
        UTXOKey(d, b.txs[k].ins[x]) \in KeySet
  <2>1. \A k \in DOMAIN b.txs : \A x \in DOMAIN b.txs[k].ins : b.txs[k].ins[x] \in InsOf(N)
    BY TopRefers
  <2>2. \A in \in InsOf(N) : UTXOKey(d, in) \in KeySet
    BY SpentKey
  <2> QED
    BY <2>1, <2>2
<1>3. n \in Nat
  BY <1>1, BlockSequence
<1>4. /\ Len(c) = n /\ Separate(KeySet, OutSet, n, c) /\ Separate(KeySet, OutSet, n, s)
      /\ \A key, e : e \in FirstOf(c, n, key)
                         <=> \E p \in N : \E i \in DOMAIN p.tx.outs :
                               e = Utxo(p.tx, i) /\ key = <<p.tx.outs[i].owner, p.height>>
      /\ \A key, e : e \in FirstOf(s, n, key) <=> e \in InsOf(N) /\ key = UTXOKey(d, e)
  BY <1>1, <1>2, UTXOEntries
<1>5. ASSUME NEW key, NEW e
      PROVE  e \in FirstOf(c, n, key) <=> e \in OutsOf(N) /\ Filed(Q, e, key)
  <2>1. e \in FirstOf(c, n, key)
          <=> \E p \in N : \E i \in DOMAIN p.tx.outs :
                e = Utxo(p.tx, i) /\ key = <<p.tx.outs[i].owner, p.height>>
    BY <1>4
  <2>2. (\E p \in N : \E i \in DOMAIN p.tx.outs :
            e = Utxo(p.tx, i) /\ key = <<p.tx.outs[i].owner, p.height>>)
          <=> e \in OutsOf(N) /\ Filed(Q, e, key)
    BY CreatedKey
  <2> QED
    BY <2>1, <2>2
<1>6. ASSUME NEW key, NEW e
      PROVE  e \in FirstOf(s, n, key) <=> e \in InsOf(N) /\ Filed(Q, e, key)
  BY <1>4, SpentKey
<1> QED
  BY <1>3, <1>4, <1>5, <1>6

LEMMA TopUnspentEntries ==
  ASSUME NEW P, NEW b, OnTop(P, b)
  PROVE  LET n == Len(b.txs)
             N == PlacesOf(b)
         IN  /\ n \in Nat /\ Len(CreatedUnspent(b)) = n
             /\ Separate(IdSet, Nat, n, CreatedUnspent(b))
             /\ Separate(IdSet, Nat, n, SpentUnspent(b))
             /\ \A key, e : /\ e \in FirstOf(CreatedUnspent(b), n, key)
                               <=> [tx |-> key, index |-> e] \in OutsOf(N)
                            /\ e \in FirstOf(SpentUnspent(b), n, key)
                               <=> [tx |-> key, index |-> e] \in InsOf(N)
<1>1. BlockOK(b) /\ Refers(b)
  BY TopRefers DEF OnTop
<1>2. Len(b.txs) \in Nat
  BY <1>1, BlockSequence
<1> QED
  BY <1>1, <1>2, UnspentEntries

LEMMA UnspentListed ==
  ASSUME NEW P, Sound(P), NEW id \in IdSet, NEW e
  PROVE  e \in UnspentLists(P)[id] <=> [tx |-> id, index |-> e] \in UnspentIn(P)
<1>1. \A o \in UnspentIn(P) : o = [tx |-> o.tx, index |-> o.index]
  BY OutsAre DEF UnspentIn
<1>2. e \in UnspentLists(P)[id] <=> \E o \in UnspentIn(P) : o.tx = id /\ o.index = e
  BY DEF UnspentLists
<1> QED
  BY <1>1, <1>2

LEMMA UTXOListed ==
  ASSUME NEW P, NEW key \in KeySet, NEW e
  PROVE  e \in UTXOLists(P)[key] <=> e \in UnspentIn(P) /\ Filed(P, e, key)
BY DEF UTXOLists

\* In the two indices of outputs a block is written as it should be.
LEMMA PersistUTXO ==
  ASSUME NEW d, NEW P, NEW b, OnTop(P, b), Known(d, P), Holds(KeySet, OutSet, d.utxo, UTXOLists(P))
  PROVE  Holds(KeySet, OutSet, PersistUnspendUTXOs(d, b), UTXOLists(P \cup PlacesOf(b)))
<1> DEFINE n == Len(b.txs)
           N == PlacesOf(b)
           Q == P \cup N
           c == CreatedUTXOs(b)
           s == SpentUTXOs(d, b)
           G == UTXOLists(P)
           H == UTXOLists(Q)
<1>1. n \in Nat /\ Len(c) = n /\ Separate(KeySet, OutSet, n, c) /\ Separate(KeySet, OutSet, n, s)
  BY TopUTXOEntries
<1>2. \A key, e : e \in FirstOf(c, n, key) <=> e \in OutsOf(N) /\ Filed(Q, e, key)
  BY TopUTXOEntries
<1>3. \A key, e : e \in FirstOf(s, n, key) <=> e \in InsOf(N) /\ Filed(Q, e, key)
  BY TopUTXOEntries
<1>4. /\ UnspentIn(Q) = (UnspentIn(P) \cup OutsOf(N)) \ InsOf(N)
      /\ OutsOf(N) \subseteq UnspentIn(Q) /\ InsOf(N) \cap UnspentIn(Q) = {}
  BY UnspentOnTop
<1>5. OutsOf(N) \cap OutsOf(P) = {} /\ UnspentIn(P) \subseteq OutsOf(P)
  BY TopSpends DEF UnspentIn
<1>6. ASSUME NEW key \in KeySet, NEW e
      PROVE  e \in G[key] <=> e \in UnspentIn(P) /\ Filed(Q, e, key)
  <2>1. e \in G[key] <=> e \in UnspentIn(P) /\ Filed(P, e, key)
    BY UTXOListed
  <2>2. e \in OutsOf(P) => (Filed(P, e, key) <=> Filed(Q, e, key))
    BY FiledBelow
  <2> QED
    BY <1>5, <2>1, <2>2
<1>7. ASSUME NEW key \in KeySet, NEW e
      PROVE  e \in H[key] <=> e \in UnspentIn(Q) /\ Filed(Q, e, key)
  BY UTXOListed
<1> HIDE DEF n, N, Q, c, s, G, H
<1>8. Applies(KeySet, OutSet, G, n, "append", c, "take", s)
  <2>1. ASSUME NEW key \in KeySet, NEW e \in FirstOf(c, n, key)
        PROVE  e \notin FirstOf(s, n, key) /\ Fits("append", G[key], e)
    <3>1. e \in OutsOf(N)
      BY <1>2
    <3>2. e \notin FirstOf(s, n, key)
      BY <1>3, <1>4, <3>1
    <3>3. e \notin G[key]
      BY <1>5, <1>6, <3>1
    <3> QED
      BY <3>2, <3>3 DEF Fits
  <2>2. \A S, e : Fits("take", S, e)
    BY DEF Fits
  <2> QED
    BY <1>1, <2>1, <2>2 DEF Applies, Hows
<1>9. Becomes(KeySet, G, H, n, "append", c, "take", s)
  <2> SUFFICES ASSUME NEW key \in KeySet
               PROVE  H[key] = (G[key] \cup FirstOf(c, n, key)) \ FirstOf(s, n, key)
    BY DEF Becomes, Edited
  <2>1. ASSUME NEW e
        PROVE  e \in H[key] <=> (e \in G[key] \/ e \in FirstOf(c, n, key)) /\ e \notin FirstOf(s, n, key)
    <3>1. /\ e \in FirstOf(c, n, key) <=> e \in OutsOf(N) /\ Filed(Q, e, key)
          /\ e \in FirstOf(s, n, key) <=> e \in InsOf(N) /\ Filed(Q, e, key)
          /\ e \in G[key] <=> e \in UnspentIn(P) /\ Filed(Q, e, key)
          /\ e \in H[key] <=> e \in UnspentIn(Q) /\ Filed(Q, e, key)
      BY <1>2, <1>3, <1>6, <1>7
    <3> QED
      BY <1>4, <3>1
  <2> QED
    BY <2>1
<1>10. AgreeFor(KeySet, d.utxo, d.utxo, n, c)
  BY DEF AgreeFor, Agree
<1>11. Holds(KeySet, OutSet,
             WriteBatch(d.utxo, BlockBatch("append", d.utxo, c, "take", d.utxo, s)), H)
  BY <1>8, <1>9, <1>10, BlockWrites DEF G
<1> QED
  BY <1>11 DEF PersistUnspendUTXOs, n, N, Q, c, s, G, H

LEMMA RollbackUTXO ==
  ASSUME NEW d, NEW P, NEW b, OnTop(P, b), Known(d, P),
         Holds(KeySet, OutSet, d.utxo, UTXOLists(P \cup PlacesOf(b)))
  PROVE  Holds(KeySet, OutSet, RollbackUnspendUTXOs(d, b), UTXOLists(P))
<1> DEFINE n == Len(b.txs)
           N == PlacesOf(b)
           Q == P \cup N
           c == CreatedUTXOs(b)
           s == SpentUTXOs(d, b)
           G == UTXOLists(Q)
           H == UTXOLists(P)
<1>1. n \in Nat /\ Len(c) = n /\ Separate(KeySet, OutSet, n, c) /\ Separate(KeySet, OutSet, n, s)
  BY TopUTXOEntries
<1>2. \A key, e : e \in FirstOf(c, n, key) <=> e \in OutsOf(N) /\ Filed(Q, e, key)
  BY TopUTXOEntries
<1>3. \A key, e : e \in FirstOf(s, n, key) <=> e \in InsOf(N) /\ Filed(Q, e, key)
  BY TopUTXOEntries
<1>4. /\ UnspentIn(P) = (UnspentIn(Q) \ OutsOf(N)) \cup InsOf(N)
      /\ OutsOf(N) \subseteq UnspentIn(Q) /\ InsOf(N) \cap UnspentIn(Q) = {}
  BY UnspentOnTop
<1>5. UnspentIn(P) \subseteq OutsOf(P)
  BY DEF UnspentIn
<1>6. ASSUME NEW key \in KeySet, NEW e
      PROVE  e \in H[key] <=> e \in UnspentIn(P) /\ Filed(Q, e, key)
  <2>1. e \in H[key] <=> e \in UnspentIn(P) /\ Filed(P, e, key)
    BY UTXOListed
  <2>2. e \in OutsOf(P) => (Filed(P, e, key) <=> Filed(Q, e, key))
    BY FiledBelow
  <2> QED
    BY <1>5, <2>1, <2>2
<1>7. ASSUME NEW key \in KeySet, NEW e
      PROVE  e \in G[key] <=> e \in UnspentIn(Q) /\ Filed(Q, e, key)
  BY UTXOListed
<1> HIDE DEF n, N, Q, c, s, G, H
<1>8. Applies(KeySet, OutSet, G, n, "cut", c, "append", s)
  <2>1. ASSUME NEW key \in KeySet, NEW e \in FirstOf(c, n, key)
        PROVE  e \notin FirstOf(s, n, key) /\ Fits("cut", G[key], e)
    <3>1. e \in OutsOf(N) /\ Filed(Q, e, key)
      BY <1>2
    <3>2. e \notin FirstOf(s, n, key)
      BY <1>3, <1>4, <3>1
    <3>3. e \in G[key]
      BY <1>4, <1>7, <3>1
    <3> QED
      BY <3>2, <3>3 DEF Fits
  <2>2. ASSUME NEW key \in KeySet, NEW e \in FirstOf(s, n, key)
        PROVE  Fits("append", G[key], e)
    BY <1>3, <1>4, <1>7 DEF Fits
  <2> QED
    BY <1>1, <2>1, <2>2 DEF Applies, Hows
<1>9. Becomes(KeySet, G, H, n, "cut", c, "append", s)
  <2> SUFFICES ASSUME NEW key \in KeySet
               PROVE  H[key] = (G[key] \ FirstOf(c, n, key)) \cup FirstOf(s, n, key)
    BY DEF Becomes, Edited
  <2>1. ASSUME NEW e
        PROVE  e \in H[key] <=> (e \in G[key] /\ e \notin FirstOf(c, n, key)) \/ e \in FirstOf(s, n, key)
    <3>1. /\ e \in FirstOf(c, n, key) <=> e \in OutsOf(N) /\ Filed(Q, e, key)
          /\ e \in FirstOf(s, n, key) <=> e \in InsOf(N) /\ Filed(Q, e, key)
          /\ e \in H[key] <=> e \in UnspentIn(P) /\ Filed(Q, e, key)
          /\ e \in G[key] <=> e \in UnspentIn(Q) /\ Filed(Q, e, key)
      BY <1>2, <1>3, <1>6, <1>7
    <3> QED
      BY <1>4, <3>1
  <2> QED
    BY <2>1
<1>10. AgreeFor(KeySet, d.utxo, d.utxo, n, c)
  BY DEF AgreeFor, Agree
<1>11. Holds(KeySet, OutSet,
             WriteBatch(d.utxo, BlockBatch("cut", d.utxo, c, "append", d.utxo, s)), H)
  BY <1>8, <1>9, <1>10, BlockWrites DEF G, Q, N
<1> QED
  BY <1>11 DEF RollbackUnspendUTXOs, n, N, Q, c, s, G, H

LEMMA PersistUnspentLists ==
  ASSUME NEW d, NEW P, NEW b, OnTop(P, b), Holds(IdSet, Nat, d.unspent, UnspentLists(P))
  PROVE  Holds(IdSet, Nat, PersistUnspend(d, b), UnspentLists(P \cup PlacesOf(b)))
<1> DEFINE n == Len(b.txs)
           N == PlacesOf(b)
           Q == P \cup N
           c == CreatedUnspent(b)
           s == SpentUnspent(b)
           G == UnspentLists(P)
           H == UnspentLists(Q)
           out(key, e) == [tx |-> key, index |-> e]
<1>1. n \in Nat /\ Len(c) = n /\ Separate(IdSet, Nat, n, c) /\ Separate(IdSet, Nat, n, s)
  BY TopUnspentEntries
<1>2. \A key, e : e \in FirstOf(c, n, key) <=> out(key, e) \in OutsOf(N)
  BY TopUnspentEntries
<1>3. \A key, e : e \in FirstOf(s, n, key) <=> out(key, e) \in InsOf(N)
  BY TopUnspentEntries
<1>4. /\ UnspentIn(Q) = (UnspentIn(P) \cup OutsOf(N)) \ InsOf(N)
      /\ OutsOf(N) \subseteq UnspentIn(Q) /\ InsOf(N) \cap UnspentIn(Q) = {}
  BY UnspentOnTop
<1>5. OutsOf(N) \cap OutsOf(P) = {} /\ UnspentIn(P) \subseteq OutsOf(P)
  BY TopSpends DEF UnspentIn
<1>6. Sound(P) /\ Sound(Q)
  BY SoundBelow DEF OnTop
<1>7. ASSUME NEW key \in IdSet, NEW e
      PROVE  /\ e \in G[key] <=> out(key, e) \in UnspentIn(P)
             /\ e \in H[key] <=> out(key, e) \in UnspentIn(Q)
  BY <1>6, UnspentListed
<1>8. ASSUME NEW key \in IdSet, NEW e, out(key, e) \in OutsOf(N)
      PROVE  G[key] = {}
  <2> SUFFICES ASSUME NEW i, i \in G[key] PROVE FALSE
    OBVIOUS
  <2>1. PICK p \in N : \E j \in DOMAIN p.tx.outs : out(key, e) = Utxo(p.tx, j)
    BY <1>8, OutsOfHas
  <2>2. p.tx.id = key
    BY <2>1 DEF Utxo
  <2>3. out(key, i) \in OutsOf(P)
    BY <1>5, <1>7
  <2>4. PICK q \in P : \E j \in DOMAIN q.tx.outs : out(key, i) = Utxo(q.tx, j)
    BY <2>3, OutsOfHas
  <2>5. q.tx.id = key
    BY <2>4 DEF Utxo
  <2> QED
    BY <2>2, <2>5, TopIsApart
<1> HIDE DEF n, N, Q, c, s, G, H, out
<1>9. Applies(IdSet, Nat, G, n, "append", c, "take", s)
  <2>1. ASSUME NEW key \in IdSet, NEW e \in FirstOf(c, n, key)
        PROVE  e \notin FirstOf(s, n, key) /\ Fits("append", G[key], e)
    <3>1. out(key, e) \in OutsOf(N)
      BY <1>2
    <3>2. e \notin FirstOf(s, n, key)
      BY <1>3, <1>4, <3>1
    <3>3. e \notin G[key]
      BY <1>5, <1>7, <3>1
    <3> QED
      BY <3>2, <3>3 DEF Fits
  <2>2. \A S, e : Fits("take", S, e)
    BY DEF Fits
  <2> QED
    BY <1>1, <2>1, <2>2 DEF Applies, Hows
<1>10. Becomes(IdSet, G, H, n, "append", c, "take", s)
  <2> SUFFICES ASSUME NEW key \in IdSet
               PROVE  H[key] = (G[key] \cup FirstOf(c, n, key)) \ FirstOf(s, n, key)
    BY DEF Becomes, Edited
  <2>1. ASSUME NEW e
        PROVE  e \in H[key] <=> (e \in G[key] \/ e \in FirstOf(c, n, key)) /\ e \notin FirstOf(s, n, key)
    <3>1. /\ e \in FirstOf(c, n, key) <=> out(key, e) \in OutsOf(N)
          /\ e \in FirstOf(s, n, key) <=> out(key, e) \in InsOf(N)
          /\ e \in G[key] <=> out(key, e) \in UnspentIn(P)
          /\ e \in H[key] <=> out(key, e) \in UnspentIn(Q)
      BY <1>2, <1>3, <1>7
    <3> QED
      BY <1>4, <3>1
  <2> QED
    BY <2>1
<1>11. AgreeFor(IdSet, << >>, d.unspent, n, c)
  <2> SUFFICES ASSUME NEW key \in IdSet, NEW e \in FirstOf(c, n, key)
               PROVE  Agree(<< >>, d.unspent, key)
    BY DEF AgreeFor
  <2>1. G[key] = {}
    BY <1>2, <1>8
  <2>2. Elements(d.unspent, << >>, key) = {} /\ Listed(<< >>, d.unspent, key) \in Seq(Nat)
    BY <2>1 DEF Holds, Proper, G
  <2>3. Listed(<< >>, d.unspent, key) = << >>
    <3> DEFINE l == Listed(<< >>, d.unspent, key)
    <3>1. l \in Seq(Nat) /\ {l[x] : x \in DOMAIN l} = {}
      BY <2>2 DEF Elements, Range
    <3> HIDE DEF l
    <3>2. DOMAIN l = {}
      BY <3>1
    <3>3. l = << >>
      BY <3>1, <3>2
    <3> QED
      BY <3>3 DEF l
  <2>4. Listed(<< >>, << >>, key) = << >>
    BY DEF Listed
  <2> QED
    BY <2>3, <2>4 DEF Agree
<1>12. Holds(IdSet, Nat,
             WriteBatch(d.unspent, BlockBatch("append", << >>, c, "take", d.unspent, s)), H)
  BY <1>9, <1>10, <1>11, BlockWrites DEF G
<1> QED
  BY <1>12 DEF PersistUnspend, n, N, Q, c, s, G, H

LEMMA NarrowerKeys ==
  ASSUME NEW K, NEW L, NEW E, NEW q \in Seq([key : K, elem : E]),
         \A i \in 1..Len(q) : q[i].key \in L
  PROVE  q \in Seq([key : L, elem : E])
<1> DEFINE n == Len(q)
<1>1. n \in Nat /\ q = [i \in 1..n |-> q[i]]
  <2> DEFINE R == [key : K, elem : E]
  <2>1. q \in Seq(R)
    OBVIOUS
  <2> HIDE DEF R
  <2> QED
    BY <2>1
<1>2. \A i \in 1..n : q[i] \in [key : K, elem : E]
  BY SequenceElement
<1>3. \A i \in 1..n : q[i] = Entry(q[i].key, q[i].elem) /\ q[i].key \in L /\ q[i].elem \in E
  BY <1>2 DEF Entry
<1>4. Entries(L, E, n, q)
  BY <1>1, <1>3 DEF Entries
<1> QED
  BY <1>1, <1>4, EntrySequence

LEMMA TopIds ==
  ASSUME NEW P, NEW b, OnTop(P, b)
  PROVE  /\ Dropped(b) = TxIdsOf(b)
         /\ \A id : id \in TxIdsOf(b) <=> \E p \in PlacesOf(b) : p.tx.id = id
         /\ \A p \in P : p.tx.id \notin TxIdsOf(b)
         /\ "asset" \notin TxIdsOf(b)
<1>1. \A k \in DOMAIN b.txs : Accountable(b.txs[k])
  BY DEF OnTop, BlockOK, TxOK
<1>2. Dropped(b) = TxIdsOf(b)
  BY <1>1 DEF Dropped, TxIdsOf
<1>3. \A id : id \in TxIdsOf(b) <=> \E k \in DOMAIN b.txs : b.txs[k].id = id
  BY DEF TxIdsOf
<1>4. \A id : id \in TxIdsOf(b) <=> \E p \in PlacesOf(b) : p.tx.id = id
  BY <1>3, PlacesHave
<1>5. \A p \in P : p.tx.id \notin TxIdsOf(b)
  BY <1>4, TopIsApart
<1>6. \A p \in PlacesOf(b) : p.tx.id # "asset"
  BY DEF OnTop, Sound
<1> QED
  BY <1>2, <1>4, <1>5, <1>6

LEMMA RollbackUnspentLists ==
  ASSUME NEW d, NEW P, NEW b, OnTop(P, b),
         Holds(IdSet, Nat, d.unspent, UnspentLists(P \cup PlacesOf(b)))
  PROVE  Holds(IdSet, Nat, RollbackUnspend(d, b), UnspentLists(P))
<1> DEFINE n == Len(b.txs)
           N == PlacesOf(b)
           Q == P \cup N
           D == Dropped(b)
           K == IdSet \ D
           c == [k \in DOMAIN b.txs |-> << >>]
           s == SpentUnspent(b)
           G == UnspentLists(Q)
           H == UnspentLists(P)
           out(key, e) == [tx |-> key, index |-> e]
           batch == RestoredUnspent(d, b)
           index == Delete(d.unspent, D)
<1>1. n \in Nat /\ Separate(IdSet, Nat, n, s) /\ DOMAIN b.txs = 1..n
  BY TopUnspentEntries, BlockSequence DEF OnTop
<1>2. \A key, e : e \in FirstOf(s, n, key) <=> out(key, e) \in InsOf(N)
  BY TopUnspentEntries
<1>3. /\ UnspentIn(P) = (UnspentIn(Q) \ OutsOf(N)) \cup InsOf(N)
      /\ InsOf(N) \cap UnspentIn(Q) = {} /\ InsOf(N) \subseteq UnspentIn(P)
      /\ UnspentIn(P) \subseteq OutsOf(P)
  BY UnspentOnTop, TopSpends DEF UnspentIn
<1>4. Sound(P) /\ Sound(Q)
  BY SoundBelow DEF OnTop
<1>5. ASSUME NEW key \in IdSet, NEW e
      PROVE  /\ e \in G[key] <=> out(key, e) \in UnspentIn(Q)
             /\ e \in H[key] <=> out(key, e) \in UnspentIn(P)
  BY <1>4, UnspentListed
<1>6. ASSUME NEW key, NEW e
      PROVE  /\ out(key, e) \in OutsOf(P) => key \notin D
             /\ out(key, e) \in OutsOf(N) => key \in D
  <2>1. \A R : out(key, e) \in OutsOf(R) => \E p \in R : p.tx.id = key
    <3> SUFFICES ASSUME NEW R, out(key, e) \in OutsOf(R) PROVE \E p \in R : p.tx.id = key
      OBVIOUS
    <3>1. PICK p \in R : \E j \in DOMAIN p.tx.outs : out(key, e) = Utxo(p.tx, j)
      BY OutsOfHas
    <3>2. p.tx.id = key
      BY <3>1 DEF Utxo
    <3> QED
      BY <3>2
  <2> QED
    BY <2>1, TopIds
<1> HIDE DEF out
<1>7. Len(c) = n /\ \A k \in 1..n : c[k] = << >>
  BY <1>1
<1> HIDE DEF n, N, Q, D, c, s, G, H
<1>8. \A k \in 1..n : \A key : AllFor(c[k], key) = {}
  BY <1>7 DEF AllFor, FirstFor
<1>9. \A key : FirstOf(c, n, key) = {}
  BY <1>8, FirstOfHas
<1>10. Separate(K, Nat, n, c)
  <2> DEFINE R == [key : K, elem : Nat]
  <2>1. << >> \in Seq(R) /\ IsInjective(<< >>)
    BY DEF IsInjective
  <2>2. \A k \in 1..n : c[k] \in Seq(R) /\ IsInjective(c[k])
    BY <1>7, <2>1
  <2>3. \A j, k \in 1..n : \A key \in K : AllFor(c[j], key) \cap AllFor(c[k], key) = {}
    BY <1>8
  <2> QED
    BY <2>2, <2>3 DEF Separate
<1>11. Separate(K, Nat, n, s)
  <2>1. ASSUME NEW k \in 1..n
        PROVE  s[k] \in Seq([key : K, elem : Nat])
    <3>1. s[k] \in Seq([key : IdSet, elem : Nat])
      BY <1>1 DEF Separate
    <3>2. ASSUME NEW i \in 1..Len(s[k]) PROVE s[k][i].key \in K
      <4>1. s[k][i] \in [key : IdSet, elem : Nat]
        BY <3>1, SequenceElement
      <4>2. s[k][i].elem \in AllFor(s[k], s[k][i].key)
        BY DEF AllFor, FirstFor
      <4>3. s[k][i].elem \in FirstOf(s, n, s[k][i].key)
        BY <4>2, FirstOfHas
      <4>4. out(s[k][i].key, s[k][i].elem) \in OutsOf(P)
        BY <1>2, <1>3, <4>3
      <4> QED
        BY <1>6, <4>1, <4>4
    <3> QED
      BY <3>1, <3>2, NarrowerKeys
  <2>2. \A k \in 1..n : IsInjective(s[k])
    BY <1>1 DEF Separate
  <2>3. \A j, k \in 1..n : j # k =>
          \A key \in K : AllFor(s[j], key) \cap AllFor(s[k], key) = {}
    BY <1>1 DEF Separate
  <2> QED
    BY <2>1, <2>2, <2>3 DEF Separate
<1>12. Applies(K, Nat, G, n, "cut", c, "append", s)
  <2>1. ASSUME NEW key \in K, NEW e \in FirstOf(s, n, key)
        PROVE  Fits("append", G[key], e)
    BY <1>2, <1>3, <1>5 DEF Fits
  <2> QED
    BY <1>1, <1>7, <1>9, <1>10, <1>11, <2>1 DEF Applies, Hows
<1>13. Becomes(K, G, H, n, "cut", c, "append", s)
  <2> SUFFICES ASSUME NEW key \in K
               PROVE  H[key] = (G[key] \ {}) \cup FirstOf(s, n, key)
    BY <1>9 DEF Becomes, Edited
  <2>1. ASSUME NEW e PROVE e \in H[key] <=> e \in G[key] \/ e \in FirstOf(s, n, key)
    <3>1. /\ e \in FirstOf(s, n, key) <=> out(key, e) \in InsOf(N)
          /\ e \in H[key] <=> out(key, e) \in UnspentIn(P)
          /\ e \in G[key] <=> out(key, e) \in UnspentIn(Q)
      BY <1>2, <1>5
    <3>2. out(key, e) \notin OutsOf(N)
      BY <1>6
    <3> QED
      BY <1>3, <3>1, <3>2
  <2> QED
    BY <2>1
<1>14. /\ Proper(K, Nat, d.unspent, << >>)
       /\ \A key \in K : Elements(d.unspent, << >>, key) = G[key]
  <2>1. /\ Proper(IdSet, Nat, d.unspent, << >>)
        /\ \A key \in IdSet : Elements(d.unspent, << >>, key) = G[key]
    BY DEF Holds, G, Q, N
  <2> QED
    BY <2>1 DEF Proper
<1>15. AgreeFor(K, d.unspent, d.unspent, n, c)
  BY <1>9 DEF AgreeFor
<1>16. BatchHolds(K, Nat, d.unspent, batch, H)
  BY <1>12, <1>13, <1>14, <1>15, BatchElements DEF RestoredUnspent, c, s
<1> HIDE DEF batch
<1>17. /\ index = [x \in DOMAIN d.unspent \ D |-> d.unspent[x]]
       /\ DOMAIN d.unspent \subseteq IdSet /\ \A x \in DOMAIN d.unspent : d.unspent[x] # << >>
  BY DEF Delete, Restrict, Holds
<1> HIDE DEF index
<1>18. \A key \in K : Listed(batch, index, key) = Listed(batch, d.unspent, key)
  BY <1>17 DEF Listed
<1>19. Holds(K, Nat, WriteBatch(index, batch), H)
  <2>1. Proper(K, Nat, index, batch) /\ \A key \in K : Elements(index, batch, key) = H[key]
    BY <1>16, <1>18 DEF BatchHolds, Proper, Elements
  <2>2. DOMAIN index \subseteq K /\ \A x \in DOMAIN index : index[x] # << >>
    BY <1>17
  <2> QED
    BY <2>1, <2>2, WriteHolds
<1> DEFINE new == WriteBatch(index, batch)
<1> HIDE DEF new
<1>20. Holds(IdSet, Nat, new, H)
  <2>1. Holds(K, Nat, new, H)
    BY <1>19 DEF new
  <2>2. DOMAIN new \subseteq K /\ \A x \in DOMAIN new : new[x] # << >>
    BY <2>1 DEF Holds
  <2>3. ASSUME NEW key \in IdSet, key \notin K
        PROVE  Listed(<< >>, new, key) = << >> /\ H[key] = {}
    <3>1. Listed(<< >>, new, key) = << >>
      BY <2>2, <2>3 DEF Listed
    <3>2. \A e : e \notin H[key]
      BY <1>3, <1>5, <1>6, <2>3
    <3> QED
      BY <3>1, <3>2
  <2>4. << >> \in Seq(Nat) /\ IsInjective(<< >>) /\ Range(<< >>) = {}
    BY DEF IsInjective, Range
  <2>5. ASSUME NEW key \in IdSet
        PROVE  /\ Listed(<< >>, new, key) \in Seq(Nat) /\ IsInjective(Listed(<< >>, new, key))
               /\ Elements(new, << >>, key) = H[key]
    <3>1. CASE key \in K
      BY <2>1, <3>1 DEF Holds, Proper
    <3>2. CASE key \notin K
      BY <2>3, <2>4, <3>2 DEF Elements
    <3> QED
      BY <3>1, <3>2
  <2> QED
    BY <2>2, <2>5 DEF Holds, Proper
<1> QED
  BY <1>20 DEF RollbackUnspend, new, index, batch, D, H

-----------------------------------------------------------------------------
(* The store as a whole.                                                   *)

RedeemedBy(b) == {b.txs[k].main.id : k \in {j \in DOMAIN b.txs : b.txs[j].type = "recharge"}}

NewTxs(b) ==
  [id \in TxIdsOf(b) |->
     [height |-> b.height, tx |-> b.txs[LastOf({k \in DOMAIN b.txs : b.txs[k].id = id})]]]

\* The fields of the store after a block is written and after it is taken off.
LEMMA PersistFields ==
  ASSUME NEW d, IsStore(d), NEW b
  PROVE  LET new == Persist(d, b)
         IN  /\ IsStore(new) /\ new.txs = Over(NewTxs(b), d.txs)
             /\ new.mainTxs = d.mainTxs \cup RedeemedBy(b)
             /\ new.unspent = PersistUnspend(d, b) /\ new.utxo = PersistUnspendUTXOs(d, b)
<1> DEFINE a == PersistTransactions(d, b)
           new == Persist(d, b)
           ids == a.ids
<1>1. DOMAIN d = {"txs", "unspent", "utxo", "mainTxs", "ids"}
  BY DEF IsStore
<1>2. /\ a = [d EXCEPT !.txs = a.txs, !.mainTxs = a.mainTxs, !.ids = a.ids]
      /\ a.txs = Over(NewTxs(b), d.txs) /\ a.mainTxs = d.mainTxs \cup RedeemedBy(b)
  BY <1>1 DEF PersistTransactions, NewTxs, RedeemedBy
<1>3. new = [a EXCEPT !.utxo = PersistUnspendUTXOs(d, b), !.unspent = PersistUnspend(d, b)]
  BY DEF Persist
<1> HIDE DEF a, new
<1>4. DOMAIN a = {"txs", "unspent", "utxo", "mainTxs", "ids"}
  BY <1>1, <1>2
<1>5. /\ new.txs = a.txs /\ new.mainTxs = a.mainTxs
      /\ new.unspent = PersistUnspend(d, b) /\ new.utxo = PersistUnspendUTXOs(d, b)
      /\ DOMAIN new = {"txs", "unspent", "utxo", "mainTxs", "ids"}
  BY <1>3, <1>4
<1>6. IsStore(new)
  BY <1>3, <1>4, <1>5 DEF IsStore
<1> QED
  BY <1>2, <1>5, <1>6 DEF new

LEMMA RollbackFields ==
  ASSUME NEW d, IsStore(d), NEW b
  PROVE  LET new == Rollback(d, b)
         IN  /\ IsStore(new) /\ new.txs = Delete(d.txs, TxIdsOf(b))
             /\ new.mainTxs = d.mainTxs \ RedeemedBy(b)
             /\ new.unspent = RollbackUnspend(d, b) /\ new.utxo = RollbackUnspendUTXOs(d, b)
<1> DEFINE a == RollbackTransactions(d, b)
           new == Rollback(d, b)
<1>1. DOMAIN d = {"txs", "unspent", "utxo", "mainTxs", "ids"}
  BY DEF IsStore
<1>2. a = [d EXCEPT !.txs = Delete(d.txs, TxIdsOf(b)), !.mainTxs = d.mainTxs \ RedeemedBy(b)]
  BY <1>1 DEF RollbackTransactions, RedeemedBy
<1>3. new = [a EXCEPT !.utxo = RollbackUnspendUTXOs(d, b), !.unspent = RollbackUnspend(d, b)]
  BY DEF Rollback
<1> HIDE DEF a, new
<1>4. DOMAIN a = {"txs", "unspent", "utxo", "mainTxs", "ids"}
  BY <1>1, <1>2
<1>5. a.txs = Delete(d.txs, TxIdsOf(b)) /\ a.mainTxs = d.mainTxs \ RedeemedBy(b)
  BY <1>1, <1>2
<1>6. /\ new.txs = a.txs /\ new.mainTxs = a.mainTxs
      /\ new.unspent = RollbackUnspend(d, b) /\ new.utxo = RollbackUnspendUTXOs(d, b)
      /\ DOMAIN new = {"txs", "unspent", "utxo", "mainTxs", "ids"}
  BY <1>3, <1>4
<1>7. IsStore(new)
  BY <1>3, <1>4, <1>6 DEF IsStore
<1> QED
  BY <1>5, <1>6, <1>7 DEF new

\* Where the transactions of a block are put.
LEMMA NewTxsAre ==
  ASSUME NEW b, BlockOK(b)
  PROVE  DOMAIN NewTxs(b) = TxIdsOf(b) /\ \A p \in PlacesOf(b) : NewTxs(b)[p.tx.id] = p
<1>1. DOMAIN NewTxs(b) = TxIdsOf(b)
  BY DEF NewTxs
<1>2. ASSUME NEW k \in DOMAIN b.txs PROVE NewTxs(b)[b.txs[k].id] = Place(b.height, b.txs[k])
  <2> DEFINE id == b.txs[k].id
             S == {j \in DOMAIN b.txs : b.txs[j].id = id}
  <2>1. S = {k}
    BY DEF BlockOK
  <2>2. k \in Nat
    BY BlockSequence
  <2> HIDE DEF S
  <2>3. LastOf(S) = k
    BY <2>1, <2>2 DEF LastOf
  <2>4. id \in TxIdsOf(b)
    BY DEF TxIdsOf
  <2> USE DEF S
  <2>5. NewTxs(b)[id] = [height |-> b.height, tx |-> b.txs[LastOf(S)]]
    BY <2>4 DEF NewTxs
  <2> HIDE DEF S
  <2> QED
    BY <2>3, <2>5 DEF Place
<1>3. ASSUME NEW p \in PlacesOf(b) PROVE NewTxs(b)[p.tx.id] = p
  <2>1. PICK k \in DOMAIN b.txs : p = Place(b.height, b.txs[k])
    BY PlacesHave
  <2>2. p.tx = b.txs[k]
    BY <2>1, PlacesHave
  <2> QED
    BY <1>2, <2>1, <2>2
<1> QED
  BY <1>1, <1>3

LEMMA RedeemedOnTop ==
  ASSUME NEW P, NEW b, OnTop(P, b)
  PROVE  /\ Redeemed(P \cup PlacesOf(b)) = Redeemed(P) \cup RedeemedBy(b)
         /\ Redeemed(P) \cap RedeemedBy(b) = {}
<1> DEFINE N == PlacesOf(b)
           Q == P \cup N
<1>1. \A R, m : m \in Redeemed(R) <=> \E p \in R : p.tx.type = "recharge" /\ p.tx.main.id = m
  BY DEF Redeemed
<1>2. \A m : m \in RedeemedBy(b) <=>
        \E k \in DOMAIN b.txs : b.txs[k].type = "recharge" /\ b.txs[k].main.id = m
  BY DEF RedeemedBy
<1>3. \A m : m \in RedeemedBy(b) <=> \E p \in N : p.tx.type = "recharge" /\ p.tx.main.id = m
  <2> SUFFICES ASSUME NEW m
               PROVE  m \in RedeemedBy(b)
                        <=> \E p \in N : p.tx.type = "recharge" /\ p.tx.main.id = m
    OBVIOUS
  <2>1. ASSUME NEW k \in DOMAIN b.txs
        PROVE  Place(b.height, b.txs[k]) \in N /\ Place(b.height, b.txs[k]).tx = b.txs[k]
    BY PlacesHave
  <2>2. ASSUME NEW p \in N PROVE \E k \in DOMAIN b.txs : p.tx = b.txs[k]
    BY PlacesHave
  <2> QED
    BY <1>2, <2>1, <2>2
<1>4. Redeemed(Q) = Redeemed(P) \cup RedeemedBy(b)
  <2>1. \A m : m \in Redeemed(Q) <=> m \in Redeemed(P) \/ m \in RedeemedBy(b)
    BY <1>1, <1>3
  <2> QED
    BY <2>1
<1>5. ASSUME NEW m \in Redeemed(P), m \in RedeemedBy(b) PROVE FALSE
  <2>1. PICK p \in P : p.tx.type = "recharge" /\ p.tx.main.id = m
    BY <1>1
  <2>2. PICK q \in N : q.tx.type = "recharge" /\ q.tx.main.id = m
    BY <1>3, <1>5
  <2>3. p.height = q.height
    BY <2>1, <2>2 DEF OnTop, Sound
  <2>4. p.height < b.height /\ p.height \in Nat /\ b.height \in Nat /\ q.height = b.height
    BY TopIsApart DEF OnTop
  <2> QED
    BY <2>3, <2>4
<1> QED
  BY <1>4, <1>5

\* A block is written to the store.
LEMMA PersistStore ==
  ASSUME NEW d, NEW P, NEW b, OnTop(P, b), StoreOK(d, P)
  PROVE  StoreOK(Persist(d, b), P \cup PlacesOf(b))
<1> DEFINE new == Persist(d, b)
           N == PlacesOf(b)
           Q == P \cup N
<1>1. /\ IsStore(d) /\ DOMAIN d.txs = {p.tx.id : p \in P} \cup {"asset"}
      /\ d.txs["asset"] = AssetPlace /\ Known(d, P) /\ d.mainTxs = Redeemed(P)
  BY DEF StoreOK, Known
<1>2. /\ IsStore(new) /\ new.txs = Over(NewTxs(b), d.txs)
      /\ new.mainTxs = d.mainTxs \cup RedeemedBy(b)
      /\ new.unspent = PersistUnspend(d, b) /\ new.utxo = PersistUnspendUTXOs(d, b)
  BY <1>1, PersistFields
<1> HIDE DEF new
<1>3. Holds(IdSet, Nat, new.unspent, UnspentLists(Q))
  BY <1>2, PersistUnspentLists DEF StoreOK
<1>4. Holds(KeySet, OutSet, new.utxo, UTXOLists(Q))
  BY <1>1, <1>2, PersistUTXO DEF StoreOK
<1>5. new.mainTxs = Redeemed(Q)
  BY <1>1, <1>2, RedeemedOnTop
<1>6. /\ DOMAIN NewTxs(b) = TxIdsOf(b) /\ \A p \in N : NewTxs(b)[p.tx.id] = p
      /\ \A id : id \in TxIdsOf(b) <=> \E p \in N : p.tx.id = id
      /\ \A p \in P : p.tx.id \notin TxIdsOf(b)
      /\ "asset" \notin TxIdsOf(b)
  BY NewTxsAre, TopIds DEF OnTop
<1>7. /\ DOMAIN new.txs = TxIdsOf(b) \cup DOMAIN d.txs
      /\ \A id \in DOMAIN new.txs :
           new.txs[id] = IF id \in TxIdsOf(b) THEN NewTxs(b)[id] ELSE d.txs[id]
  BY <1>2, <1>6 DEF Over
<1>8. DOMAIN new.txs = {p.tx.id : p \in Q} \cup {"asset"}
  <2>1. TxIdsOf(b) = {p.tx.id : p \in N}
    BY <1>6
  <2> QED
    BY <1>1, <1>7, <2>1
<1>9. new.txs["asset"] = AssetPlace
  BY <1>1, <1>6, <1>7
<1>10. \A p \in Q : new.txs[p.tx.id] = p
  <2>1. ASSUME NEW p \in N PROVE new.txs[p.tx.id] = p
    BY <1>6, <1>7
  <2>2. ASSUME NEW p \in P PROVE new.txs[p.tx.id] = p
    BY <1>1, <1>6, <1>7 DEF Known
  <2> QED
    BY <2>1, <2>2
<1>11. StoreOK(new, Q)
  BY <1>2, <1>3, <1>4, <1>5, <1>8, <1>9, <1>10 DEF StoreOK
<1> QED
  BY <1>11 DEF new

\* And taken off it.
LEMMA RollbackStore ==
  ASSUME NEW d, NEW P, NEW b, OnTop(P, b), StoreOK(d, P \cup PlacesOf(b))
  PROVE  StoreOK(Rollback(d, b), P)
<1> DEFINE new == Rollback(d, b)
           N == PlacesOf(b)
           Q == P \cup N
<1>1. /\ IsStore(d) /\ DOMAIN d.txs = {p.tx.id : p \in Q} \cup {"asset"}
      /\ d.txs["asset"] = AssetPlace /\ Known(d, P) /\ d.mainTxs = Redeemed(Q)
  BY DEF StoreOK, Known
<1>2. /\ IsStore(new) /\ new.txs = Delete(d.txs, TxIdsOf(b))
      /\ new.mainTxs = d.mainTxs \ RedeemedBy(b)
      /\ new.unspent = RollbackUnspend(d, b) /\ new.utxo = RollbackUnspendUTXOs(d, b)
  BY <1>1, RollbackFields
<1> HIDE DEF new
<1>3. Holds(IdSet, Nat, new.unspent, UnspentLists(P))
  BY <1>2, RollbackUnspentLists DEF StoreOK
<1>4. Holds(KeySet, OutSet, new.utxo, UTXOLists(P))
  BY <1>1, <1>2, RollbackUTXO DEF StoreOK
<1>5. new.mainTxs = Redeemed(P)
  BY <1>1, <1>2, RedeemedOnTop
<1>6. /\ \A id : id \in TxIdsOf(b) <=> \E p \in N : p.tx.id = id
      /\ \A p \in P : p.tx.id \notin TxIdsOf(b)
      /\ "asset" \notin TxIdsOf(b)
  BY TopIds
<1>7. new.txs = [id \in DOMAIN d.txs \ TxIdsOf(b) |-> d.txs[id]]
  BY <1>2 DEF Delete, Restrict
<1>8. DOMAIN new.txs = {p.tx.id : p \in P} \cup {"asset"}
  BY <1>1, <1>6, <1>7
<1>9. new.txs["asset"] = AssetPlace
  BY <1>1, <1>6, <1>7
<1>10. \A p \in P : new.txs[p.tx.id] = p
  BY <1>1, <1>6, <1>7 DEF Known
<1>11. StoreOK(new, P)
  BY <1>2, <1>3, <1>4, <1>5, <1>8, <1>9, <1>10 DEF StoreOK
<1> QED
  BY <1>11 DEF new

\* What is in a list can be found in the index, and nothing else.
LEMMA HoldsElement ==
  ASSUME NEW K, NEW E, NEW index, NEW G, Holds(K, E, index, G), NEW key \in K, NEW e
  PROVE  e \in G[key] <=> key \in DOMAIN index /\ Contains(index[key], e)
<1>1. Elements(index, << >>, key) = G[key] /\ Listed(<< >>, index, key) \in Seq(E)
  BY DEF Holds, Proper
<1>2. CASE key \in DOMAIN index
  <2>1. Listed(<< >>, index, key) = index[key]
    BY <1>2 DEF Listed
  <2>2. G[key] = Range(index[key]) /\ index[key] \in Seq(E)
    BY <1>1, <2>1 DEF Elements
  <2> QED
    BY <1>2, <2>2 DEF Range, Contains
<1>3. CASE key \notin DOMAIN index
  <2>1. Listed(<< >>, index, key) = << >>
    BY <1>3 DEF Listed
  <2>2. Range(<< >>) = {}
    BY DEF Range
  <2> QED
    BY <1>1, <1>3, <2>1, <2>2 DEF Elements
<1> QED
  BY <1>2, <1>3

\* The context of the transactions of a block was checked.
Checked(d, b, h) == \A k \in DOMAIN b.txs : CheckTransactionContext(d, h, b.txs[k])

\* The recharges of a block spend nothing but what can be spent.
RechargesFit(P, b) ==
  \A k \in DOMAIN b.txs : b.txs[k].type = "recharge" => Range(b.txs[k].ins) \subseteq UnspentIn(P)

\* What the checks of an input find out.
LEMMA InputChecked ==
  ASSUME NEW d, NEW P, NEW b, NEW h, Sound(P), StoreOK(d, P), BlockOK(b), Checked(d, b, h),
         \A p \in P : p.height < b.height,
         NEW k \in DOMAIN b.txs, NEW in \in Range(b.txs[k].ins), b.txs[k].type # "recharge"
  PROVE  in \in UnspentIn(P) /\ \E q \in P : Source(q, in, b.txs[k], b.height)
<1> DEFINE t == b.txs[k]
<1>1. TxOK(t) /\ CheckTransactionContext(d, h, t) /\ b.height \in Nat \ {0}
  BY DEF BlockOK, Checked
<1>2. PICK x \in DOMAIN t.ins : in = t.ins[x]
  BY DEF Range
<1>3. t.type # "coinbase" /\ t.type # "recharge"
  <2>1. t.ins # << >>
    BY <1>2
  <2> QED
    BY <1>1, <2>1 DEF TxOK
<1>4. IsFinalizedTransaction(t, b.height)
  BY <1>3 DEF BlockOK
<1> HIDE DEF t
<1>5. /\ HasTxReference(d, t) /\ t.programs = GetTxProgramHashes(d, t)
      /\ ~IsDoubleSpend(d, t) /\ CheckTransactionUTXOLock(d, t)
  BY <1>1, <1>3 DEF CheckTransactionContext, VerifySignature
<1>6. in.tx \in DOMAIN d.txs /\ in.index \in DOMAIN d.txs[in.tx].tx.outs
  BY <1>2, <1>5 DEF HasTxReference
<1>7. /\ DOMAIN d.txs = {p.tx.id : p \in P} \cup {"asset"} /\ d.txs["asset"] = AssetPlace
      /\ \A p \in P : d.txs[p.tx.id] = p
      /\ Holds(IdSet, Nat, d.unspent, UnspentLists(P))
  BY DEF StoreOK
<1>8. in.tx # "asset"
  <2>1. AssetPlace.tx.outs = << >>
    BY DEF AssetPlace, Place, GetGenesisBlock
  <2> QED
    BY <1>6, <1>7, <2>1
<1>9. PICK q \in P : q.tx.id = in.tx /\ d.txs[in.tx] = q
  BY <1>6, <1>7, <1>8
<1> DEFINE o == q.tx.outs[in.index]
<1>10. o \in Range(References(d, t))
  <2>1. References(d, t)[x] = o /\ x \in DOMAIN References(d, t)
    BY <1>2, <1>9 DEF References, Output
  <2> QED
    BY <2>1 DEF Range
<1>11. in.index \in DOMAIN q.tx.outs /\ TxOK(q.tx) /\ q.height < b.height
  BY <1>6, <1>9 DEF Sound
<1>12. o.lock \in Nat /\ t.lockTime \in Nat
  BY <1>1, <1>11 DEF TxOK
<1> HIDE DEF o
<1>13. o.owner \in t.programs
  BY <1>5, <1>10 DEF GetTxProgramHashes
<1>14. o.lock < b.height
  <2>1. CASE o.lock = 0
    BY <1>1, <2>1
  <2>2. CASE o.lock # 0
    <3>1. t.sequence = "locked" /\ t.lockTime >= o.lock
      BY <1>5, <1>10, <2>2 DEF CheckTransactionUTXOLock
    <3>2. t.lockTime < b.height
      BY <1>4, <1>12, <2>2, <3>1 DEF IsFinalizedTransaction
    <3> QED
      BY <1>1, <1>12, <3>1, <3>2
  <2> QED
    BY <2>1, <2>2
<1>15. Source(q, in, t, b.height)
  BY <1>9, <1>11, <1>13, <1>14 DEF Source, o
<1>16. in \in UnspentIn(P)
  <2>1. in.tx \in DOMAIN d.unspent /\ Contains(d.unspent[in.tx], in.index)
    BY <1>2, <1>5 DEF IsDoubleSpend
  <2>2. in.tx \in IdSet
    BY <1>9, <1>11 DEF TxOK
  <2>3. in.index \in UnspentLists(P)[in.tx]
    BY <1>7, <2>1, <2>2, HoldsElement
  <2>4. in = [tx |-> in.tx, index |-> in.index]
    BY <1>1, <1>2 DEF TxOK
  <2>5. [tx |-> in.tx, index |-> in.index] \in UnspentIn(P)
    BY <2>2, <2>3, UnspentListed
  <2> QED
    BY <2>4, <2>5
<1> QED
  BY <1>15, <1>16 DEF t

LEMMA InputAdmitted ==
  ASSUME NEW d, NEW P, NEW b, NEW h, Sound(P), StoreOK(d, P), BlockOK(b), Checked(d, b, h),
         \A p \in P : p.height < b.height, RechargesFit(P, b),
         NEW k \in DOMAIN b.txs, NEW in \in Range(b.txs[k].ins)
  PROVE  in \in UnspentIn(P) /\ \E q \in P : Source(q, in, b.txs[k], b.height)
<1>1. CASE b.txs[k].type # "recharge"
  BY <1>1, InputChecked
<1>2. CASE b.txs[k].type = "recharge"
  <2>1. in \in UnspentIn(P)
    BY <1>2 DEF RechargesFit
  <2>2. PICK q \in P : q.tx.id = in.tx /\ in.index \in DOMAIN q.tx.outs
    BY <2>1, OutsAre DEF UnspentIn
  <2>3. Source(q, in, b.txs[k], b.height)
    BY <1>2, <2>2 DEF Source
  <2> QED
    BY <2>1, <2>3
<1> QED
  BY <1>1, <1>2

\* A block whose transactions pass the checks can be put on top.
LEMMA Admitted ==
  ASSUME NEW d, NEW P, NEW b, NEW h, Sound(P), StoreOK(d, P), BlockOK(b), Checked(d, b, h),
         \A p \in P : p.height < b.height, RechargesFit(P, b)
  PROVE  OnTop(P, b)
<1> DEFINE N == PlacesOf(b)
           Q == P \cup N
<1>1. ASSUME NEW p \in N
      PROVE  \E k \in DOMAIN b.txs : p = Place(b.height, b.txs[k]) /\ p.tx = b.txs[k]
                                     /\ p.height = b.height
  BY PlacesHave
<1>2. /\ \A k \in DOMAIN b.txs : TxOK(b.txs[k]) /\ IsInjective(b.txs[k].ins)
      /\ \A j, k \in DOMAIN b.txs : j # k => /\ b.txs[j].id # b.txs[k].id
                                          /\ Range(b.txs[j].ins) \cap Range(b.txs[k].ins) = {}
      /\ b.height \in Nat \ {0}
  BY BlockTxs DEF BlockOK
<1>3. ASSUME NEW k \in DOMAIN b.txs PROVE b.txs[k].id \notin DOMAIN d.txs
  BY DEF Checked, CheckTransactionContext, IsTxHashDuplicate
<1>4. /\ \A p \in P : p.tx.id \in DOMAIN d.txs
      /\ "asset" \in DOMAIN d.txs /\ d.mainTxs = Redeemed(P)
  BY DEF StoreOK
<1>5. ASSUME NEW p \in N
      PROVE  /\ p = Place(p.height, p.tx) /\ p.height \in Nat \ {0}
             /\ TxOK(p.tx) /\ p.tx.id # "asset" /\ IsInjective(p.tx.ins)
  BY <1>1, <1>2, <1>3, <1>4
<1>6. ASSUME NEW p \in P, NEW q \in N PROVE p.tx.id # q.tx.id
  BY <1>1, <1>3, <1>4
<1>7. ASSUME NEW p \in Q, NEW q \in Q, p.tx.id = q.tx.id PROVE p = q
  <2>1. CASE p \in P /\ q \in P
    BY <1>7, <2>1 DEF Sound
  <2>2. CASE p \in N /\ q \in N
    <3>1. PICK j \in DOMAIN b.txs : p = Place(b.height, b.txs[j]) /\ p.tx = b.txs[j]
      BY <1>1, <2>2
    <3>2. PICK k \in DOMAIN b.txs : q = Place(b.height, b.txs[k]) /\ q.tx = b.txs[k]
      BY <1>1, <2>2
    <3>3. j = k
      BY <1>2, <1>7, <3>1, <3>2
    <3> QED
      BY <3>1, <3>2, <3>3
  <2> QED
    BY <1>6, <1>7, <2>1, <2>2
<1>8. ASSUME NEW p \in N, NEW in \in Range(p.tx.ins)
      PROVE  in \notin InsOf(P) /\ \E q \in P : Source(q, in, p.tx, p.height)
  <2>1. PICK k \in DOMAIN b.txs : p.tx = b.txs[k] /\ p.height = b.height
    BY <1>1
  <2>2. in \in UnspentIn(P) /\ \E q \in P : Source(q, in, b.txs[k], b.height)
    BY <2>1, InputAdmitted
  <2> QED
    BY <2>1, <2>2 DEF UnspentIn
<1>9. ASSUME NEW p \in Q, NEW q \in Q, p # q, NEW in \in Range(p.tx.ins)
      PROVE  in \notin Range(q.tx.ins)
  <2>1. CASE p \in P /\ q \in P
    BY <1>9, <2>1 DEF Sound
  <2>2. CASE p \in N /\ q \in N
    <3>1. PICK j \in DOMAIN b.txs : p = Place(b.height, b.txs[j]) /\ p.tx = b.txs[j]
      BY <1>1, <2>2
    <3>2. PICK k \in DOMAIN b.txs : q = Place(b.height, b.txs[k]) /\ q.tx = b.txs[k]
      BY <1>1, <2>2
    <3>3. j # k
      BY <1>9, <3>1, <3>2
    <3>4. Range(b.txs[j].ins) \cap Range(b.txs[k].ins) = {}
      BY <1>2, <3>3
    <3> QED
      BY <3>1, <3>2, <3>4
  <2>3. CASE p \in N /\ q \in P
    <3>1. in \notin InsOf(P)
      BY <1>8, <2>3
    <3> QED
      BY <2>3, <3>1, InsOfHas
  <2>4. CASE p \in P /\ q \in N
    <3> SUFFICES ASSUME in \in Range(q.tx.ins) PROVE FALSE
      OBVIOUS
    <3>1. in \notin InsOf(P)
      BY <1>8, <2>4
    <3> QED
      BY <2>4, <3>1, InsOfHas
  <2> QED
    BY <2>1, <2>2, <2>3, <2>4
<1>10. ASSUME NEW p \in Q, NEW in \in Range(p.tx.ins)
       PROVE  \E q \in Q : Source(q, in, p.tx, p.height)
  <2>1. CASE p \in P
    BY <2>1 DEF Sound
  <2>2. CASE p \in N
    BY <1>8, <2>2
  <2> QED
    BY <2>1, <2>2
<1>11. ASSUME NEW p \in P, NEW q \in N, p.tx.type = "recharge", q.tx.type = "recharge"
       PROVE  p.tx.main.id # q.tx.main.id
  <2>1. PICK k \in DOMAIN b.txs : q.tx = b.txs[k]
    BY <1>1
  <2>2. ~IsMainchainTxHashDuplicate(d, q.tx.main.id)
    BY <1>11, <2>1 DEF Checked, CheckTransactionContext, CheckRechargeToSideChainTransaction
  <2>3. p.tx.main.id \in d.mainTxs
    BY <1>4, <1>11 DEF Redeemed
  <2> QED
    BY <2>2, <2>3 DEF IsMainchainTxHashDuplicate
<1>12. ASSUME NEW p \in Q, NEW q \in Q, p.tx.type = "recharge", q.tx.type = "recharge",
              p.tx.main.id = q.tx.main.id
       PROVE  p.height = q.height
  <2>1. CASE p \in P /\ q \in P
    BY <1>12, <2>1 DEF Sound
  <2>2. CASE p \in N /\ q \in N
    BY <1>1, <2>2
  <2> QED
    BY <1>11, <1>12, <2>1, <2>2
<1>13. ASSUME NEW p \in Q
       PROVE  /\ p = Place(p.height, p.tx) /\ p.height \in Nat \ {0}
              /\ TxOK(p.tx) /\ p.tx.id # "asset" /\ IsInjective(p.tx.ins)
  <2>1. CASE p \in P
    BY <2>1 DEF Sound
  <2>2. CASE p \in N
    BY <1>5, <2>2
  <2> QED
    BY <2>1, <2>2
<1> HIDE DEF Q
<1>14. Sound(Q)
  BY <1>7, <1>9, <1>10, <1>12, <1>13 DEF Sound
<1> QED
  BY <1>14 DEF OnTop, Q

\* Such a block can be written.
LEMMA OnTopPersists ==
  ASSUME NEW d, NEW P, NEW b, OnTop(P, b), StoreOK(d, P)
  PROVE  ~PersistFails(d, b) /\ ~PersistPanics(d, b)
<1> DEFINE N == PlacesOf(b)
           Q == P \cup N
<1>1. DistinctInputs(b) /\ BlockOK(b) /\ Known(d, P)
  BY DEF OnTop, BlockOK, StoreOK, Known
<1>2. ASSUME NEW k \in DOMAIN b.txs, NEW in \in Range(Spends(b.txs[k]))
      PROVE  /\ in.tx \in DOMAIN d.txs /\ in.index \in DOMAIN d.txs[in.tx].tx.outs
             /\ UTXOKey(d, in) \in DOMAIN d.utxo
             /\ Contains(d.utxo[UTXOKey(d, in)], in)
             /\ in.tx \in DOMAIN d.unspent
  <2>1. in \in Range(b.txs[k].ins)
    BY <1>1 DEF BlockOK, TxOK
  <2>2. in \in InsOf(N)
    BY <2>1, PlacesInsOuts
  <2>3. in \in UnspentIn(P) /\ in \in OutsOf(P)
    BY <2>2, TopSpends DEF UnspentIn
  <2>4. Sound(P)
    BY SoundBelow
  <2>5. /\ in = [tx |-> in.tx, index |-> in.index]
        /\ \E p \in P : p.tx.id = in.tx /\ in.index \in DOMAIN p.tx.outs
        /\ in \in OutSet
    BY <2>3, <2>4, OutsAre
  <2>6. in.tx \in DOMAIN d.txs /\ in.index \in DOMAIN d.txs[in.tx].tx.outs
    BY <2>5 DEF StoreOK
  <2> DEFINE key == UTXOKey(d, in)
  <2>7. key \in KeySet /\ Filed(Q, in, key)
    BY <1>1, <2>2, SpentKey
  <2>8. Filed(P, in, key)
    BY <2>3, <2>7, FiledBelow
  <2>9. in \in UTXOLists(P)[key]
    BY <2>3, <2>7, <2>8, UTXOListed
  <2>10. Holds(KeySet, OutSet, d.utxo, UTXOLists(P)) /\ Holds(IdSet, Nat, d.unspent, UnspentLists(P))
    BY DEF StoreOK
  <2>11. key \in DOMAIN d.utxo /\ Contains(d.utxo[key], in)
    BY <2>7, <2>9, <2>10, HoldsElement
  <2>12. in.tx \in IdSet
    BY <2>5 DEF OutSet
  <2>13. in.index \in UnspentLists(P)[in.tx]
    <3>1. [tx |-> in.tx, index |-> in.index] \in UnspentIn(P)
      BY <2>3, <2>5
    <3> QED
      BY <2>4, <2>12, <3>1, UnspentListed
  <2>14. in.tx \in DOMAIN d.unspent
    BY <2>10, <2>12, <2>13, HoldsElement
  <2> QED
    BY <2>6, <2>11, <2>14
<1>3. ASSUME NEW k \in DOMAIN b.txs, NEW in \in Range(Spends(b.txs[k])) PROVE Found(d, in)
  BY <1>2 DEF Found
<1>4. ~PersistFails(d, b)
  BY <1>1, <1>3 DEF PersistFails
<1>5. ~PersistPanics(d, b)
  <2>1. \A k \in DOMAIN b.txs : \A x \in DOMAIN Spends(b.txs[k]) :
          Spends(b.txs[k])[x] \in Range(Spends(b.txs[k]))
    BY DEF Range
  <2>2. \A k \in DOMAIN b.txs : \A x \in DOMAIN Spends(b.txs[k]) :
          Spends(b.txs[k])[x].index \in DOMAIN d.txs[Spends(b.txs[k])[x].tx].tx.outs
    BY <1>2, <2>1
  <2> QED
    BY <2>2 DEF PersistPanics
<1> QED
  BY <1>4, <1>5

\* A block can be written only if its recharges fit.
LEMMA WrittenFits ==
  ASSUME NEW d, NEW P, NEW b, Sound(P), StoreOK(d, P), BlockOK(b),
         ~PersistFails(d, b), ~PersistPanics(d, b)
  PROVE  RechargesFit(P, b)
<1>1. ASSUME NEW k \in DOMAIN b.txs
      PROVE  Spends(b.txs[k]) = b.txs[k].ins /\ Accountable(b.txs[k])
  BY DEF BlockOK, TxOK
<1>2. ASSUME NEW k \in DOMAIN b.txs, NEW in \in Range(b.txs[k].ins) PROVE Found(d, in)
  BY <1>1 DEF PersistFails
<1>3. ASSUME NEW k \in DOMAIN b.txs, NEW x \in DOMAIN b.txs[k].ins PROVE Found(d, b.txs[k].ins[x])
  <2>1. b.txs[k].ins[x] \in Range(b.txs[k].ins)
    BY DEF Range
  <2> QED
    BY <1>2, <2>1
<1>4. ASSUME NEW k \in DOMAIN b.txs, NEW x \in DOMAIN b.txs[k].ins
      PROVE  b.txs[k].ins[x].index \in DOMAIN d.txs[b.txs[k].ins[x].tx].tx.outs
  <2>1. b.txs[k].ins[x].tx \in DOMAIN d.txs
    BY <1>3 DEF Found
  <2>2. \A j \in 1..k : j \in DOMAIN b.txs
    BY DEF BlockOK
  <2>3. \A j \in 1..k : \A y \in DOMAIN Spends(b.txs[j]) : Found(d, Spends(b.txs[j])[y])
    BY <1>1, <1>3, <2>2
  <2>4. x \in DOMAIN Spends(b.txs[k]) /\ Spends(b.txs[k])[x] = b.txs[k].ins[x] /\ Accountable(b.txs[k])
    BY <1>1
  <2> HIDE DEF Found
  <2> QED
    BY <2>1, <2>3, <2>4 DEF PersistPanics
<1>5. ASSUME NEW k \in DOMAIN b.txs, NEW in \in Range(b.txs[k].ins) PROVE in \in UnspentIn(P)
  <2> DEFINE key == UTXOKey(d, in)
  <2>1. in.tx \in DOMAIN d.txs /\ in.index \in DOMAIN d.txs[in.tx].tx.outs
    BY <1>2, <1>4 DEF Found, Range
  <2>2. key \in DOMAIN d.utxo /\ Contains(d.utxo[key], in)
    BY <1>2, <2>1 DEF Found
  <2>4. key \in KeySet
    <3>1. Holds(KeySet, OutSet, d.utxo, UTXOLists(P))
      BY DEF StoreOK
    <3> QED
      BY <2>2, <3>1 DEF Holds
  <2>5. in \in UTXOLists(P)[key]
    <3>1. Holds(KeySet, OutSet, d.utxo, UTXOLists(P))
      BY DEF StoreOK
    <3> HIDE DEF key
    <3> QED
      BY <2>2, <2>4, <3>1, HoldsElement
  <2> HIDE DEF key
  <2> QED
    BY <2>4, <2>5, UTXOListed
<1> QED
  BY <1>5 DEF RechargesFit

-----------------------------------------------------------------------------
(* The first store.                                                        *)

\* A block without entries changes no list.
LEMMA NothingWritten ==
  ASSUME NEW K, NEW E, NEW base, NEW index, NEW G, NEW n \in Nat, NEW c, NEW s, Len(c) = n,
         \A k \in 1..n : c[k] = << >> /\ s[k] = << >>, Holds(K, E, index, G)
  PROVE  Holds(K, E, WriteBatch(index, BlockBatch("append", base, c, "take", index, s)), G)
<1>1. \A k \in 1..n : \A key : AllFor(c[k], key) = {} /\ AllFor(s[k], key) = {}
  BY DEF AllFor, FirstFor
<1>2. \A key : FirstOf(c, n, key) = {} /\ FirstOf(s, n, key) = {}
  BY <1>1, FirstOfHas
<1>3. Separate(K, E, n, c) /\ Separate(K, E, n, s)
  <2> DEFINE R == [key : K, elem : E]
  <2>1. << >> \in Seq(R) /\ IsInjective(<< >>)
    BY DEF IsInjective
  <2>2. \A k \in 1..n : /\ c[k] \in Seq(R) /\ IsInjective(c[k])
                        /\ s[k] \in Seq(R) /\ IsInjective(s[k])
    BY <2>1
  <2>3. \A j, k \in 1..n : \A key \in K : /\ AllFor(c[j], key) \cap AllFor(c[k], key) = {}
                                          /\ AllFor(s[j], key) \cap AllFor(s[k], key) = {}
    BY <1>1
  <2> QED
    BY <2>2, <2>3 DEF Separate
<1>4. Applies(K, E, G, n, "append", c, "take", s)
  BY <1>2, <1>3 DEF Applies, Hows
<1>5. Becomes(K, G, G, n, "append", c, "take", s)
  BY <1>2 DEF Becomes, Edited
<1>6. AgreeFor(K, base, index, n, c)
  BY <1>2 DEF AgreeFor
<1> QED
  BY <1>4, <1>5, <1>6, BlockWrites

LEMMA EmptyHolds ==
  ASSUME NEW K, NEW E, NEW G, \A key \in K : G[key] = {}
  PROVE  Holds(K, E, << >>, G)
<1>1. \A key : Listed(<< >>, << >>, key) = << >>
  BY DEF Listed
<1>2. << >> \in Seq(E) /\ IsInjective(<< >>) /\ Range(<< >>) = {} /\ DOMAIN << >> = {}
  BY DEF IsInjective, Range
<1>3. Proper(K, E, << >>, << >>)
  BY <1>1, <1>2 DEF Proper
<1>4. \A key \in K : Elements(<< >>, << >>, key) = G[key]
  BY <1>1, <1>2 DEF Elements
<1> QED
  BY <1>2, <1>3, <1>4 DEF Holds

LEMMA GenesisStore == StoreOK(Persist(EmptyDB, GetGenesisBlock), {})
<1> DEFINE b == GetGenesisBlock
           d == EmptyDB
           t == b.txs[1]
           new == Persist(d, b)
<1>1. /\ b.height = 0 /\ DOMAIN b.txs = 1..1 /\ t.id = "asset" /\ t.type = "registerasset"
      /\ Len(b.txs) = 1 /\ ~Accountable(t)
  BY DEF GetGenesisBlock, Accountable
<1>2. /\ IsStore(d) /\ d.txs = << >> /\ d.unspent = << >> /\ d.utxo = << >> /\ d.mainTxs = {}
  BY DEF EmptyDB, IsStore
<1>3. /\ IsStore(new) /\ new.txs = Over(NewTxs(b), d.txs)
      /\ new.mainTxs = d.mainTxs \cup RedeemedBy(b)
      /\ new.unspent = PersistUnspend(d, b) /\ new.utxo = PersistUnspendUTXOs(d, b)
  BY <1>2, PersistFields
<1> HIDE DEF b, d, t, new
<1>4. 1 \in DOMAIN b.txs /\ \A k \in DOMAIN b.txs : k = 1
  BY <1>1
<1>5. TxIdsOf(b) = {"asset"}
  BY <1>1, <1>4 DEF TxIdsOf, t
<1>6. NewTxs(b)["asset"] = AssetPlace /\ DOMAIN NewTxs(b) = {"asset"}
  <2>1. {k \in DOMAIN b.txs : b.txs[k].id = "asset"} = {1}
    BY <1>1, <1>4 DEF t
  <2>2. LastOf({1}) = 1
    BY DEF LastOf
  <2>3. NewTxs(b)["asset"] = [height |-> b.height,
            tx |-> b.txs[LastOf({k \in DOMAIN b.txs : b.txs[k].id = "asset"})]]
    BY <1>5 DEF NewTxs
  <2>4. NewTxs(b)["asset"] = [height |-> 0, tx |-> b.txs[1]]
    BY <1>1, <2>1, <2>2, <2>3
  <2>5. DOMAIN NewTxs(b) = {"asset"}
    BY <1>5 DEF NewTxs
  <2> QED
    BY <2>4, <2>5 DEF AssetPlace, Place, b
<1>7. DOMAIN new.txs = {"asset"} /\ new.txs["asset"] = AssetPlace
  BY <1>2, <1>3, <1>6 DEF Over
<1>8. new.mainTxs = {}
  <2>1. RedeemedBy(b) = {}
    BY <1>1, <1>4 DEF RedeemedBy, t
  <2> QED
    BY <1>2, <1>3, <2>1
<1>9. OutsOf({}) = {} /\ UnspentIn({}) = {} /\ Redeemed({}) = {}
  BY DEF OutsOf, UnspentIn, Redeemed
<1>10. /\ \A key \in IdSet : UnspentLists({})[key] = {}
       /\ \A key \in KeySet : UTXOLists({})[key] = {}
  BY <1>9 DEF UnspentLists, UTXOLists
<1>11. Holds(IdSet, Nat, new.unspent, UnspentLists({}))
  <2> DEFINE c == CreatedUnspent(b)
             s == SpentUnspent(b)
  <2>1. Len(c) = 1 /\ \A k \in 1..1 : c[k] = << >> /\ s[k] = << >>
    BY <1>1, <1>4 DEF CreatedUnspent, SpentUnspent, t
  <2> HIDE DEF c, s
  <2>2. Holds(IdSet, Nat, d.unspent, UnspentLists({}))
    BY <1>2, <1>10, EmptyHolds
  <2>3. Holds(IdSet, Nat, WriteBatch(d.unspent, BlockBatch("append", << >>, c, "take", d.unspent, s)),
              UnspentLists({}))
    BY <2>1, <2>2, NothingWritten
  <2> QED
    BY <1>3, <2>3 DEF PersistUnspend, c, s
<1>12. Holds(KeySet, OutSet, new.utxo, UTXOLists({}))
  <2> DEFINE c == CreatedUTXOs(b)
             s == SpentUTXOs(d, b)
  <2>1. Len(c) = 1 /\ \A k \in 1..1 : c[k] = << >> /\ s[k] = << >>
    BY <1>1, <1>4 DEF CreatedUTXOs, SpentUTXOs, t
  <2> HIDE DEF c, s
  <2>2. Holds(KeySet, OutSet, d.utxo, UTXOLists({}))
    BY <1>2, <1>10, EmptyHolds
  <2>3. Holds(KeySet, OutSet, WriteBatch(d.utxo, BlockBatch("append", d.utxo, c, "take", d.utxo, s)),
              UTXOLists({}))
    BY <2>1, <2>2, NothingWritten
  <2> QED
    BY <1>3, <2>3 DEF PersistUnspendUTXOs, c, s
<1>13. StoreOK(new, {})
  BY <1>3, <1>7, <1>8, <1>9, <1>11, <1>12 DEF StoreOK
<1> QED
  BY <1>13 DEF new, b, d

-----------------------------------------------------------------------------
(* Blocks that arrive.                                                     *)

LEMMA TxsAreOK ==
  ASSUME NEW t \in Txs
  PROVE  TxOK(t) /\ t.type # "coinbase"
<1>1. t.type # "coinbase" /\ t.type # "registerasset" /\ t.lockTime \in Nat
  BY LedgerAssumption, TxAssumption
<1>2. t.id \in IdSet
  BY DEF IdSet
<1>3. t.ins \in Seq(Range(t.ins)) /\ t.outs \in Seq(Range(t.outs))
  BY TxAssumption
<1>5. \A x \in DOMAIN t.ins : t.ins[x] = [tx |-> t.ins[x].tx, index |-> t.ins[x].index]
  <2>1. \A in \in Range(t.ins) : in = [tx |-> in.tx, index |-> in.index]
    BY TxAssumption
  <2> QED
    BY <2>1 DEF Range
<1>6. \A i \in DOMAIN t.outs : t.outs[i].owner \in OwnerSet /\ t.outs[i].lock \in Nat
  <2>1. \A o \in Range(t.outs) : o.lock \in Nat
    BY TxAssumption
  <2>2. ASSUME NEW i \in DOMAIN t.outs PROVE t.outs[i].owner \in OwnerSet
    <3>1. t.outs[i].owner \in {t.outs[j].owner : j \in DOMAIN t.outs}
      OBVIOUS
    <3> QED
      BY <3>1, Zenon DEF OwnerSet, Payees
  <2> QED
    BY <2>1, <2>2 DEF Range
<1> QED
  BY <1>1, <1>2, <1>3, <1>5, <1>6 DEF TxOK, Accountable, Spends

LEMMA OwnersAre == Foundation \in OwnerSet /\ Miner \in OwnerSet
BY DEF OwnerSet

LEMMA CoinbaseOK ==
  ASSUME NEW n \in 1..Len(CoinbaseIds), NEW height \in Nat, NEW reward, NEW foundation
  PROVE  TxOK(CreateCoinBaseTx(n, height, reward, foundation))
<1> DEFINE t == CreateCoinBaseTx(n, height, reward, foundation)
           o1 == [owner |-> Foundation, value |-> foundation, lock |-> 0]
           o2 == [owner |-> Miner, value |-> reward - foundation, lock |-> 0]
<1>1. /\ t.id = CoinbaseIds[n] /\ t.type = "coinbase" /\ t.ins = << >>
      /\ t.outs = <<o1, o2>> /\ t.lockTime = height
  BY DEF CreateCoinBaseTx
<1>2. CoinbaseIds[n] \in IdSet
  BY TxAssumption DEF IdSet, Range
<1>3. o1.owner \in OwnerSet /\ o2.owner \in OwnerSet /\ o1.lock \in Nat /\ o2.lock \in Nat
  <2>1. Foundation \in OwnerSet /\ Miner \in OwnerSet
    BY OwnersAre
  <2>2. o1.owner = Foundation /\ o2.owner = Miner /\ o1.lock = 0 /\ o2.lock = 0
    OBVIOUS
  <2> QED
    BY <2>1, <2>2
<1> HIDE DEF t, o1, o2
<1>4. DOMAIN t.outs = 1..2 /\ t.outs[1] = o1 /\ t.outs[2] = o2
  BY <1>1
<1>5. t.outs \in Seq(Range(t.outs))
  <2>1. o1 \in Range(t.outs) /\ o2 \in Range(t.outs)
    BY <1>4 DEF Range
  <2> QED
    BY <1>1, <2>1
<1>6. \A i \in DOMAIN t.outs : t.outs[i].owner \in OwnerSet /\ t.outs[i].lock \in Nat
  <2>1. \A i \in 1..2 : i = 1 \/ i = 2
    OBVIOUS
  <2> QED
    BY <1>3, <1>4, <2>1
<1>7. t.ins \in Seq(Range(t.ins)) /\ DOMAIN t.ins = {}
  BY <1>1
<1> QED
  BY <1>1, <1>2, <1>5, <1>6, <1>7 DEF TxOK, Accountable, Spends, t

LEMMA SequenceOfSet ==
  ASSUME NEW S \in SUBSET Txs
  PROVE  SetToSeq(S) \in Seq(Txs)
<1>1. IsFiniteSet(S)
  BY TxAssumption, FS_Subset
<1> DEFINE c == Cardinality(S)
<1>2. c \in Nat /\ ExistsBijection(1..c, S)
  BY <1>1, FS_CardinalityType
<1>3. \E f \in [1..c -> S] : IsInjective(f)
  BY <1>2 DEF ExistsBijection, Bijection, Injection, IsInjective
<1>4. SetToSeq(S) \in [1..c -> S]
  BY <1>3 DEF SetToSeq
<1> HIDE DEF c
<1> QED
  BY <1>2, <1>4

LEMMA Concatenation ==
  ASSUME NEW A, NEW x \in Seq(A), NEW y \in Seq(A)
  PROVE  x \o y \in Seq(A)
OBVIOUS

LEMMA SequenceOfRange ==
  ASSUME NEW A, NEW q \in Seq(A)
  PROVE  q \in Seq(Range(q))
<1> DEFINE n == Len(q)
<1>1. n \in Nat /\ q \in [1..n -> A]
  OBVIOUS
<1> HIDE DEF n
<1>2. q \in [1..n -> Range(q)]
  BY <1>1 DEF Range
<1> QED
  BY <1>1, <1>2

\* A block that passes the checks of ReceiveBlock.
Received(d, b, n, height, parent, S, reward, foundation) ==
  /\ b = [parent |-> parent, height |-> height,
          txs |-> <<CreateCoinBaseTx(n, height, reward, foundation)>> \o SetToSeq(S)]
  /\ PowCheckBlockSanity(d, b) /\ PowCheckBlockContext(b)

LEMMA ReceivedBlockOK ==
  ASSUME NEW d, NEW n \in 1..Len(CoinbaseIds), NEW height \in Nat \ {0}, NEW parent,
         NEW S \in SUBSET Txs, NEW reward, NEW foundation, NEW b,
         Received(d, b, n, height, parent, S, reward, foundation)
  PROVE  BlockOK(b) /\ b.height = height /\ b.parent = parent
<1> DEFINE c == CreateCoinBaseTx(n, height, reward, foundation)
           l == SetToSeq(S)
           A == Txs \cup {c}
<1>1. b.height = height /\ b.parent = parent /\ b.txs = <<c>> \o l
  BY DEF Received
<1>2. TxOK(c) /\ c \in A
  BY CoinbaseOK
<1>3. l \in Seq(Txs)
  BY SequenceOfSet
<1> HIDE DEF c, l
<1>4. <<c>> \in Seq(A) /\ l \in Seq(A)
  BY <1>3
<1>5. b.txs \in Seq(A)
  BY <1>1, <1>4, Concatenation
<1>6. \A t \in A : TxOK(t)
  BY <1>2, TxsAreOK
<1> HIDE DEF A
<1>7. DOMAIN b.txs = 1..Len(b.txs) /\ Len(b.txs) \in Nat /\ \A k \in DOMAIN b.txs : b.txs[k] \in A
  BY <1>5
<1>8. b.txs \in Seq(Range(b.txs))
  BY <1>5, SequenceOfRange
<1>9. \A k \in DOMAIN b.txs : TxOK(b.txs[k])
  BY <1>6, <1>7
<1>10. /\ \A k \in DOMAIN b.txs : b.txs[k].type = "coinbase" <=> k = 1
       /\ IsInjective([k \in DOMAIN b.txs |-> b.txs[k].id]) /\ DistinctInputs(b)
  BY DEF Received, PowCheckBlockSanity
<1>11. \A j, k \in DOMAIN b.txs : b.txs[j].id = b.txs[k].id => j = k
  BY <1>10 DEF IsInjective
<1>12. ASSUME NEW k \in DOMAIN b.txs, b.txs[k].type # "coinbase"
       PROVE  IsFinalizedTransaction(b.txs[k], b.height)
  <2>1. k \in Nat /\ k >= 1 /\ k # 1
    BY <1>7, <1>10, <1>12
  <2>2. k > 1
    BY <2>1
  <2> QED
    BY <2>2 DEF Received, PowCheckBlockContext
<1> QED
  BY <1>1, <1>8, <1>9, <1>10, <1>11, <1>12 DEF BlockOK

-----------------------------------------------------------------------------
(* The steps.                                                              *)

LEMMA PlacedHas ==
  ASSUME NEW bs, NEW c, NEW un, NEW p
  PROVE  p \in PlacedOn(bs, c, un)
           <=> \E h \in DOMAIN c : c[h] \notin un /\ p \in PlacesOf(bs[c[h]])
<1>1. p \in PlacedOn(bs, c, un) <=> \E h \in WrittenOn(c, un) : p \in PlacesOf(bs[c[h]])
  BY Zenon DEF PlacedOn
<1> QED
  BY <1>1 DEF WrittenOn

\* Only the blocks of the chain count.
LEMMA PlacedSame ==
  ASSUME NEW bs, NEW new, NEW c, NEW un, \A h \in DOMAIN c : new[c[h]] = bs[c[h]]
  PROVE  PlacedOn(new, c, un) = PlacedOn(bs, c, un)
<1>1. \A p : p \in PlacedOn(new, c, un) <=> p \in PlacedOn(bs, c, un)
  BY PlacedHas
<1> QED
  BY <1>1

\* One block more, which is written or not.
LEMMA PlacedMore ==
  ASSUME NEW bs, NEW A, NEW c \in Seq(A), NEW n \in A, NEW un, n \notin un
  PROVE  PlacedOn(bs, Append(c, n), un) = PlacedOn(bs, c, un) \cup PlacesOf(bs[n])
<1> DEFINE new == Append(c, n)
           m == Len(c)
<1>1. /\ m \in Nat /\ DOMAIN c = 1..m /\ DOMAIN new = 1..m + 1 /\ new[m + 1] = n
      /\ \A h \in 1..m : new[h] = c[h]
  OBVIOUS
<1> HIDE DEF new, m
<1>2. \A h : h \in 1..m + 1 <=> h \in 1..m \/ h = m + 1
  BY <1>1
<1>3. ASSUME NEW p
      PROVE  p \in PlacedOn(bs, new, un) <=> p \in PlacedOn(bs, c, un) \/ p \in PlacesOf(bs[n])
  <2>1. p \in PlacedOn(bs, new, un)
          <=> \E h \in 1..m + 1 : new[h] \notin un /\ p \in PlacesOf(bs[new[h]])
    BY <1>1, PlacedHas
  <2>2. p \in PlacedOn(bs, c, un)
          <=> \E h \in 1..m : c[h] \notin un /\ p \in PlacesOf(bs[c[h]])
    BY <1>1, PlacedHas
  <2> QED
    BY <1>1, <1>2, <2>1, <2>2
<1> QED
  BY <1>3 DEF new

LEMMA PlacedNoMore ==
  ASSUME NEW bs, NEW A, NEW c \in Seq(A), NEW n \in A, n \notin Range(c), NEW un
  PROVE  PlacedOn(bs, Append(c, n), un \cup {n}) = PlacedOn(bs, c, un)
<1> DEFINE new == Append(c, n)
           m == Len(c)
           old == un \cup {n}
<1>1. /\ m \in Nat /\ DOMAIN c = 1..m /\ DOMAIN new = 1..m + 1 /\ new[m + 1] = n
      /\ \A h \in 1..m : new[h] = c[h]
  OBVIOUS
<1>2. \A h \in DOMAIN c : c[h] # n
  BY DEF Range
<1>3. \A x : x \in old <=> x \in un \/ x = n
  OBVIOUS
<1> HIDE DEF new, m, old
<1>4. \A h : h \in 1..m + 1 <=> h \in 1..m \/ h = m + 1
  BY <1>1
<1>5. ASSUME NEW p PROVE p \in PlacedOn(bs, new, old) <=> p \in PlacedOn(bs, c, un)
  <2>1. p \in PlacedOn(bs, new, old)
          <=> \E h \in 1..m + 1 : new[h] \notin old /\ p \in PlacesOf(bs[new[h]])
    BY <1>1, PlacedHas
  <2>2. p \in PlacedOn(bs, c, un)
          <=> \E h \in 1..m : c[h] \notin un /\ p \in PlacesOf(bs[c[h]])
    BY <1>1, PlacedHas
  <2> QED
    BY <1>1, <1>2, <1>3, <1>4, <2>1, <2>2
<1> QED
  BY <1>5 DEF new, old

\* The heights of the chain.
LEMMA ChainFacts ==
  ASSUME ChainOK
  PROVE  /\ Len(chain) \in Nat /\ Len(blocks) \in Nat
         /\ DOMAIN chain = 1..Len(chain) /\ DOMAIN blocks = 1..Len(blocks)
         /\ \A h \in 1..Len(chain) : chain[h] \in 1..Len(blocks)
         /\ \A p \in Placed : p.height \in 1..Len(chain)
         /\ Tip \in 0..Len(blocks) /\ HeightOf(Tip) = Len(chain)
         /\ \A m \in 0..Len(blocks) : HeightOf(m) \in Nat
<1>1. /\ Len(chain) \in Nat /\ Len(blocks) \in Nat
      /\ DOMAIN chain = 1..Len(chain) /\ DOMAIN blocks = 1..Len(blocks)
      /\ \A h \in 1..Len(chain) : chain[h] \in 1..Len(blocks)
  BY DEF ChainOK
<1>2. \A h \in 1..Len(chain) : blocks[chain[h]].height = h
  BY DEF ChainOK
<1>3. \A m \in 1..Len(blocks) : blocks[m].height \in Nat
  BY DEF ChainOK, BlockOK
<1>4. ASSUME NEW p \in Placed PROVE p.height \in 1..Len(chain)
  <2>1. PICK h \in DOMAIN chain : p \in PlacesOf(blocks[chain[h]])
    BY PlacedHas DEF Placed
  <2>2. p.height = blocks[chain[h]].height
    BY <2>1, PlacesHave
  <2> QED
    BY <1>1, <1>2, <2>1, <2>2
<1>5. Tip \in 0..Len(blocks) /\ HeightOf(Tip) = Len(chain)
  <2>1. CASE chain = << >>
    BY <1>1, <2>1 DEF Tip, HeightOf
  <2>2. CASE chain # << >>
    <3>1. Len(chain) \in 1..Len(chain)
      <4>1. chain \in Seq(1..Len(blocks))
        BY DEF ChainOK
      <4>2. Len(chain) # 0
        BY <2>2, <4>1
      <4> QED
        BY <1>1, <4>2
    <3>2. Tip = chain[Len(chain)]
      BY <2>2 DEF Tip, Last
    <3>3. Tip \in 1..Len(blocks) /\ blocks[Tip].height = Len(chain)
      BY <1>1, <1>2, <3>1, <3>2
    <3>4. Tip # 0 /\ Tip \in 0..Len(blocks)
      BY <1>1, <3>3
    <3> QED
      BY <3>3, <3>4 DEF HeightOf
  <2> QED
    BY <2>1, <2>2
<1>6. \A m \in 0..Len(blocks) : HeightOf(m) \in Nat
  BY <1>1, <1>3 DEF HeightOf
<1> QED
  BY <1>1, <1>4, <1>5, <1>6

LEMMA InitHolds == Init => LedgerInv
<1> SUFFICES ASSUME Init PROVE LedgerInv
  OBVIOUS
<1>1. /\ blocks = << >> /\ chain = << >> /\ db = Persist(EmptyDB, GetGenesisBlock)
      /\ unwritten = {}
  BY DEF Init
<1>2. ChainOK
  BY <1>1 DEF ChainOK, Range
<1>3. Placed = {}
  BY <1>1 DEF Placed, PlacedOn, WrittenOn
<1>4. Sound({})
  BY DEF Sound
<1> QED
  BY <1>1, <1>2, <1>3, <1>4, GenesisStore DEF LedgerInv

LEMMA OneMore ==
  ASSUME NEW m \in Nat, NEW i \in 1..m + 1
  PROVE  i \in 1..m \/ i = m + 1
OBVIOUS

LEMMA ReceiveKeeps ==
  ASSUME LedgerInv, NEW parent \in Near, NEW S \in SUBSET Txs, NEW reward, NEW foundation,
         ReceiveBlock(parent, S, reward, foundation)
  PROVE  LedgerInv'
<1> DEFINE n == Len(blocks) + 1
           height == HeightOf(parent) + 1
           b == [parent |-> parent, height |-> height,
                 txs |-> <<CreateCoinBaseTx(n, height, reward, foundation)>> \o SetToSeq(S)]
<1>1. ChainOK
  BY DEF LedgerInv
<1>2. /\ n <= Len(CoinbaseIds) /\ PowCheckBlockSanity(db, b) /\ PowCheckBlockContext(b)
      /\ blocks' = Append(blocks, b) /\ chain' = chain /\ db' = db
      /\ unwritten' = unwritten
  BY DEF ReceiveBlock
<1>3. /\ Len(blocks) \in Nat /\ DOMAIN chain = 1..Len(chain) /\ DOMAIN blocks = 1..Len(blocks)
      /\ \A h \in 1..Len(chain) : chain[h] \in 1..Len(blocks)
      /\ Tip \in 0..Len(blocks) /\ Len(chain) \in Nat
      /\ \A m \in 0..Len(blocks) : HeightOf(m) \in Nat
  BY <1>1, ChainFacts
<1>4. \A m \in 1..Len(blocks) : blocks[m].parent \in 0..m - 1
  BY <1>1 DEF ChainOK
<1>5. parent \in 0..Len(blocks)
  <2>1. ParentOf(Tip) \in 0..Len(blocks)
    <3>1. CASE Tip = 0
      BY <1>3, <3>1 DEF ParentOf
    <3>2. CASE Tip # 0
      <4>1. Tip \in 1..Len(blocks)
        BY <1>3, <3>2
      <4>2. blocks[Tip].parent \in 0..Tip - 1
        BY <1>4, <4>1
      <4>3. blocks[Tip].parent \in 0..Len(blocks)
        BY <1>3, <4>1, <4>2
      <4> QED
        BY <3>2, <4>3 DEF ParentOf
    <3> QED
      BY <3>1, <3>2
  <2>2. Len(blocks) \in 0..Len(blocks)
    BY <1>3
  <2> QED
    BY <1>3, <2>1, <2>2 DEF Near
<1>6. height \in Nat \ {0} /\ n \in Nat
  BY <1>3, <1>5
<1>7. n \in 1..Len(CoinbaseIds)
  <2>1. Len(CoinbaseIds) \in Nat
    BY TxAssumption
  <2> QED
    BY <1>2, <1>3, <2>1
<1>8. BlockOK(b) /\ b.height = height /\ b.parent = parent
  <2>1. Received(db, b, n, height, parent, S, reward, foundation)
    BY <1>2 DEF Received
  <2> HIDE DEF height, n, b
  <2> QED
    BY <1>6, <1>7, <2>1, ReceivedBlockOK
<1> HIDE DEF b
<1>9. /\ blocks' \in Seq(Range(blocks')) /\ Len(blocks') = n /\ blocks'[n] = b
      /\ \A m \in 1..Len(blocks) : blocks'[m] = blocks[m]
  <2> DEFINE A == Range(blocks) \cup {b}
  <2>1. blocks \in Seq(Range(blocks))
    BY <1>1 DEF ChainOK
  <2>2. blocks \in Seq(A) /\ b \in A
    BY <2>1
  <2> HIDE DEF A
  <2>3. /\ blocks' \in Seq(A) /\ Len(blocks') = n /\ blocks'[n] = b
        /\ \A m \in 1..Len(blocks) : blocks'[m] = blocks[m]
    BY <1>2, <2>2
  <2> QED
    BY <2>3, SequenceOfRange
<1>10. ChainOK'
  <2> DEFINE NewHeight(m) == IF m = 0 THEN 0 ELSE blocks'[m].height
  <2>1. chain \in Seq(1..Len(blocks))
    BY <1>1 DEF ChainOK
  <2>2. chain' \in Seq(1..Len(blocks'))
    <3>1. 1..Len(blocks) \subseteq 1..n
      BY <1>3
    <3> HIDE DEF n
    <3> QED
      BY <1>2, <1>9, <2>1, <3>1
  <2>3. \A m \in 0..Len(blocks) : NewHeight(m) = HeightOf(m)
    <3>1. \A m \in 0..Len(blocks) : m = 0 \/ m \in 1..Len(blocks)
      BY <1>3
    <3> QED
      BY <1>9, <3>1 DEF HeightOf
  <2>4. ASSUME NEW m \in 1..Len(blocks)
        PROVE  /\ BlockOK(blocks'[m]) /\ blocks'[m].parent \in 0..m - 1
               /\ blocks'[m].height = NewHeight(blocks'[m].parent) + 1
    <3>1. /\ BlockOK(blocks[m]) /\ blocks[m].parent \in 0..m - 1
          /\ blocks[m].height = HeightOf(blocks[m].parent) + 1
      BY <1>1 DEF ChainOK
    <3>2. blocks[m].parent \in 0..Len(blocks)
      BY <1>3, <3>1
    <3> QED
      BY <1>9, <2>3, <3>1, <3>2
  <2>5. /\ BlockOK(blocks'[n]) /\ blocks'[n].parent \in 0..n - 1
        /\ blocks'[n].height = NewHeight(blocks'[n].parent) + 1
    BY <1>3, <1>5, <1>8, <1>9, <2>3
  <2>6. \A m \in 1..n : m \in 1..Len(blocks) \/ m = n
    BY <1>3, OneMore
  <2>7. \A m \in 1..n : /\ BlockOK(blocks'[m]) /\ blocks'[m].parent \in 0..m - 1
                         /\ blocks'[m].height = NewHeight(blocks'[m].parent) + 1
    BY <2>4, <2>5, <2>6
  <2>8. \A h \in 1..Len(chain') : blocks'[chain'[h]].height = h
    <3>1. \A h \in 1..Len(chain) : blocks[chain[h]].height = h
      BY <1>1 DEF ChainOK
    <3> QED
      BY <1>2, <1>3, <1>9, <3>1
  <2>9. unwritten' \subseteq Range(chain')
    BY <1>1, <1>2 DEF ChainOK
  <2> HIDE DEF n
  <2> QED
    BY <1>9, <2>2, <2>7, <2>8, <2>9 DEF ChainOK, HeightOf
<1>11. Placed' = Placed
  <2>1. \A h \in DOMAIN chain : blocks'[chain[h]] = blocks[chain[h]]
    BY <1>3, <1>9
  <2>2. PlacedOn(blocks', chain, unwritten) = PlacedOn(blocks, chain, unwritten)
    BY <2>1, PlacedSame
  <2> QED
    BY <1>2, <2>2 DEF Placed
<1> QED
  BY <1>2, <1>10, <1>11 DEF LedgerInv

\* A block that ConnectBlock lets through belongs on top, if its recharges fit.
LEMMA ConnectableOnTop ==
  ASSUME LedgerInv, NEW n \in DOMAIN blocks, Connectable(n)
  PROVE  /\ blocks[n].height = Len(chain) + 1 /\ BlockOK(blocks[n])
         /\ Checked(db, blocks[n], currentBlockHeight)
         /\ RechargesFit(Placed, blocks[n]) => OnTop(Placed, blocks[n])
<1> DEFINE b == blocks[n]
<1>1. ChainOK /\ Sound(Placed) /\ StoreOK(db, Placed)
  BY DEF LedgerInv
<1>2. /\ Len(chain) \in Nat /\ n \in 1..Len(blocks) /\ HeightOf(Tip) = Len(chain)
      /\ \A p \in Placed : p.height \in 1..Len(chain)
  BY <1>1, ChainFacts
<1>3. BlockOK(b) /\ b.height = HeightOf(b.parent) + 1
  BY <1>1, <1>2 DEF ChainOK
<1>4. b.parent = Tip /\ \A t \in Range(b.txs) : CheckTransactionContext(db, currentBlockHeight, t)
  BY DEF Connectable
<1>5. b.height = Len(chain) + 1
  BY <1>2, <1>3, <1>4
<1>6. Checked(db, b, currentBlockHeight)
  BY <1>4 DEF Checked, Range
<1>7. \A p \in Placed : p.height < b.height
  BY <1>2, <1>5
<1> HIDE DEF b
<1>8. RechargesFit(Placed, b) => OnTop(Placed, b)
  BY <1>1, <1>3, <1>6, <1>7, Admitted
<1> QED
  BY <1>3, <1>5, <1>6, <1>8 DEF b

\* A block that was written is on top, one that was not is nowhere.
LEMMA ConnectPlaces ==
  ASSUME LedgerInv, NEW n \in DOMAIN blocks, ConnectBlock(n)
  PROVE  \/ /\ OnTop(Placed, blocks[n]) /\ Placed' = Placed \cup PlacesOf(blocks[n])
            /\ db' = Persist(db, blocks[n]) /\ unwritten' = unwritten
         \/ Placed' = Placed /\ db' = db /\ unwritten' = unwritten \cup {n}
<1> DEFINE b == blocks[n]
           A == 1..Len(blocks)
<1>1. ChainOK /\ Sound(Placed) /\ StoreOK(db, Placed)
  BY DEF LedgerInv
<1>2. /\ Connectable(n) /\ ~PersistPanics(db, b) /\ chain' = Append(chain, n) /\ blocks' = blocks
      /\ \/ ~PersistFails(db, b) /\ db' = Persist(db, b) /\ unwritten' = unwritten
         \/ db' = db /\ unwritten' = unwritten \cup {n}
  BY DEF ConnectBlock
<1>3. n \notin Range(chain) /\ unwritten \subseteq Range(chain)
  BY <1>1, <1>2 DEF Connectable, ChainOK
<1>4. chain \in Seq(A) /\ n \in A
  BY <1>1, ChainFacts DEF ChainOK
<1>5. BlockOK(b) /\ (RechargesFit(Placed, b) => OnTop(Placed, b))
  BY <1>2, ConnectableOnTop
<1> HIDE DEF A, b
<1>6. CASE ~PersistFails(db, b) /\ db' = Persist(db, b) /\ unwritten' = unwritten
  <2>1. OnTop(Placed, b)
    BY <1>1, <1>2, <1>5, <1>6, WrittenFits
  <2>2. PlacedOn(blocks, Append(chain, n), unwritten)
          = PlacedOn(blocks, chain, unwritten) \cup PlacesOf(blocks[n])
    BY <1>3, <1>4, PlacedMore
  <2>3. Placed' = Placed \cup PlacesOf(b)
    BY <1>2, <1>6, <2>2 DEF Placed, b
  <2> QED
    BY <1>6, <2>1, <2>3 DEF b
<1>7. CASE db' = db /\ unwritten' = unwritten \cup {n}
  <2>1. PlacedOn(blocks, Append(chain, n), unwritten \cup {n}) = PlacedOn(blocks, chain, unwritten)
    BY <1>3, <1>4, PlacedNoMore
  <2>2. Placed' = Placed
    BY <1>2, <1>7, <2>1 DEF Placed
  <2> QED
    BY <1>7, <2>2
<1> QED
  BY <1>2, <1>6, <1>7

LEMMA ConnectKeeps ==
  ASSUME LedgerInv, NEW n \in DOMAIN blocks, ConnectBlock(n)
  PROVE  LedgerInv'
<1> DEFINE b == blocks[n]
<1>1. ChainOK /\ Sound(Placed) /\ StoreOK(db, Placed)
  BY DEF LedgerInv
<1>2. Connectable(n) /\ chain' = Append(chain, n) /\ blocks' = blocks
  BY DEF ConnectBlock
<1>3. b.height = Len(chain) + 1
  BY <1>2, ConnectableOnTop
<1>4. Sound(Placed') /\ StoreOK(db', Placed')
  <2>1. CASE /\ OnTop(Placed, b) /\ Placed' = Placed \cup PlacesOf(b)
             /\ db' = Persist(db, b) /\ unwritten' = unwritten
    <3>1. StoreOK(db', Placed \cup PlacesOf(b))
      BY <1>1, <2>1, PersistStore
    <3>2. Sound(Placed \cup PlacesOf(b))
      BY <2>1 DEF OnTop
    <3> QED
      BY <2>1, <3>1, <3>2
  <2>2. CASE Placed' = Placed /\ db' = db /\ unwritten' = unwritten \cup {n}
    BY <1>1, <2>2
  <2> QED
    BY <2>1, <2>2, ConnectPlaces
<1>7. ChainOK'
  <2>1. /\ blocks \in Seq(Range(blocks)) /\ chain \in Seq(1..Len(blocks))
        /\ \A m \in 1..Len(blocks) : /\ BlockOK(blocks[m]) /\ blocks[m].parent \in 0..m - 1
                                      /\ blocks[m].height = HeightOf(blocks[m].parent) + 1
        /\ \A h \in 1..Len(chain) : blocks[chain[h]].height = h
    BY <1>1 DEF ChainOK
  <2>2. n \in 1..Len(blocks) /\ Len(chain) \in Nat
    BY <1>1, ChainFacts
  <2>3. /\ chain' \in Seq(1..Len(blocks)) /\ Len(chain') = Len(chain) + 1
        /\ chain'[Len(chain) + 1] = n /\ \A h \in 1..Len(chain) : chain'[h] = chain[h]
    <3> DEFINE A == 1..Len(blocks)
    <3>1. chain \in Seq(A) /\ n \in A
      BY <2>1, <2>2
    <3> HIDE DEF A
    <3>2. /\ chain' \in Seq(A) /\ Len(chain') = Len(chain) + 1
          /\ chain'[Len(chain) + 1] = n /\ \A h \in 1..Len(chain) : chain'[h] = chain[h]
      BY <1>2, <3>1
    <3> QED
      BY <3>2 DEF A
  <2>4. \A h \in 1..Len(chain) + 1 : h \in 1..Len(chain) \/ h = Len(chain) + 1
    BY <2>2
  <2>5. \A h \in 1..Len(chain') : blocks[chain'[h]].height = h
    BY <1>3, <2>1, <2>3, <2>4
  <2>6. \A m : HeightOf(m)' = HeightOf(m)
    BY <1>2 DEF HeightOf
  <2>7. unwritten' \subseteq Range(chain')
    <3>1. unwritten \subseteq Range(chain) /\ unwritten' \subseteq unwritten \cup {n}
      BY <1>1, ConnectPlaces DEF ChainOK
    <3>2. DOMAIN chain = 1..Len(chain) /\ DOMAIN chain' = 1..Len(chain) + 1
      BY <2>1, <2>2, <2>3
    <3>3. Range(chain) \subseteq Range(chain') /\ n \in Range(chain')
      <4>1. \A h \in DOMAIN chain : h \in DOMAIN chain' /\ chain'[h] = chain[h]
        BY <2>2, <2>3, <3>2
      <4>2. Len(chain) + 1 \in DOMAIN chain'
        BY <2>2, <3>2
      <4> QED
        BY <2>3, <4>1, <4>2 DEF Range
    <3> QED
      BY <3>1, <3>3
  <2> QED
    BY <1>2, <2>1, <2>3, <2>5, <2>6, <2>7 DEF ChainOK
<1> QED
  BY <1>4, <1>7 DEF LedgerInv

LEMMA FrontAndLast ==
  ASSUME NEW A, NEW c \in Seq(A), Len(c) # 0
  PROVE  LET rest == SubSeq(c, 1, Len(c) - 1)
         IN  /\ rest \in Seq(A) /\ Len(rest) = Len(c) - 1
             /\ \A h \in 1..Len(rest) : rest[h] = c[h]
             /\ c = Append(rest, c[Len(c)])
<1> DEFINE n == Len(c)
           rest == SubSeq(c, 1, n - 1)
           new == Append(rest, c[n])
<1>1. n \in Nat /\ DOMAIN c = 1..n /\ n >= 1
  OBVIOUS
<1>2. rest \in Seq(A) /\ Len(rest) = n - 1
  BY <1>1
<1>3. \A h \in 1..n - 1 : rest[h] = c[h]
  BY <1>1
<1>4. c[n] \in A
  BY <1>1
<1> HIDE DEF rest
<1>5. /\ new \in Seq(A) /\ Len(new) = Len(rest) + 1 /\ new[Len(rest) + 1] = c[n]
      /\ \A h \in 1..Len(rest) : new[h] = rest[h]
  BY <1>2, <1>4
<1> HIDE DEF n, new
<1>6. Len(new) = n /\ \A h \in 1..n : new[h] = c[h]
  BY <1>1, <1>2, <1>3, <1>5
<1>7. c = new
  BY <1>1, <1>5, <1>6 DEF n
<1> QED
  BY <1>2, <1>3, <1>7 DEF new, rest, n

LEMMA DisconnectKeeps ==
  ASSUME LedgerInv, DisconnectBlock
  PROVE  LedgerInv'
<1> DEFINE b == blocks[Tip]
           rest == Front(chain)
           P == PlacedOn(blocks, rest, unwritten)
<1>1. ChainOK /\ Sound(Placed) /\ StoreOK(db, Placed)
  BY DEF LedgerInv
<1>2. /\ chain # << >> /\ db' = Rollback(db, b) /\ chain' = rest /\ blocks' = blocks
      /\ Tip \notin unwritten /\ unwritten' = unwritten
  BY DEF DisconnectBlock
<1>3. /\ blocks \in Seq(Range(blocks)) /\ chain \in Seq(1..Len(blocks))
      /\ \A m \in 1..Len(blocks) : /\ BlockOK(blocks[m]) /\ blocks[m].parent \in 0..m - 1
                                    /\ blocks[m].height = HeightOf(blocks[m].parent) + 1
      /\ \A h \in 1..Len(chain) : blocks[chain[h]].height = h
      /\ unwritten \subseteq Range(chain)
  BY <1>1 DEF ChainOK
<1>4. /\ Len(chain) \in Nat \ {0} /\ Tip \in 1..Len(blocks) /\ chain = Append(rest, Tip)
      /\ rest \in Seq(1..Len(blocks)) /\ Len(rest) = Len(chain) - 1
      /\ Tip = chain[Len(chain)] /\ \A h \in 1..Len(rest) : rest[h] = chain[h]
  <2> DEFINE A == 1..Len(blocks)
  <2>1. chain \in Seq(A) /\ Tip = chain[Len(chain)] /\ rest = SubSeq(chain, 1, Len(chain) - 1)
    BY <1>2, <1>3 DEF Tip, Last, Front
  <2> HIDE DEF A, rest
  <2>2. Len(chain) \in Nat \ {0}
    BY <1>2, <2>1
  <2>3. Tip \in A
    BY <2>1, <2>2
  <2>4. /\ rest \in Seq(A) /\ Len(rest) = Len(chain) - 1 /\ chain = Append(rest, Tip)
        /\ \A h \in 1..Len(rest) : rest[h] = chain[h]
    BY <2>1, <2>2, FrontAndLast
  <2> QED
    BY <2>1, <2>2, <2>3, <2>4 DEF A
<1> HIDE DEF rest
<1>5. Placed = P \cup PlacesOf(b)
  <2> DEFINE A == 1..Len(blocks)
  <2>0. rest \in Seq(A) /\ Tip \in A
    BY <1>4
  <2> HIDE DEF A
  <2>1. PlacedOn(blocks, Append(rest, Tip), unwritten)
          = PlacedOn(blocks, rest, unwritten) \cup PlacesOf(blocks[Tip])
    BY <1>2, <2>0, PlacedMore
  <2> QED
    BY <1>4, <2>1 DEF Placed
<1>6. OnTop(P, b)
  <2>1. BlockOK(b) /\ b.height = Len(chain)
    <3>1. Len(chain) \in 1..Len(chain)
      BY <1>4
    <3> QED
      BY <1>3, <1>4, <3>1
  <2>2. ASSUME NEW p \in P PROVE p.height < Len(chain)
    <3>1. PICK h \in DOMAIN rest : p \in PlacesOf(blocks[rest[h]])
      BY PlacedHas
    <3>2. p.height = blocks[rest[h]].height
      BY <3>1, PlacesHave
    <3>3. h \in 1..Len(rest)
      BY <1>4
    <3>4. rest[h] = chain[h] /\ h \in 1..Len(chain) /\ h < Len(chain)
      BY <1>4, <3>3
    <3> QED
      BY <1>3, <3>2, <3>4
  <2> QED
    BY <1>1, <1>5, <2>1, <2>2 DEF OnTop
<1>7. Sound(P)
  BY <1>6, SoundBelow
<1>8. StoreOK(db', P)
  BY <1>1, <1>2, <1>5, <1>6, RollbackStore
<1>9. Placed' = P
  BY <1>2 DEF Placed
<1>10. ChainOK'
  <2>1. \A h \in 1..Len(rest) : blocks[rest[h]].height = h
    <3>1. \A h \in 1..Len(rest) : h \in 1..Len(chain)
      BY <1>4
    <3> QED
      BY <1>3, <1>4, <3>1
  <2>2. \A m : HeightOf(m)' = HeightOf(m)
    BY <1>2 DEF HeightOf
  <2>3. unwritten \subseteq Range(rest)
    <3> SUFFICES ASSUME NEW n \in unwritten PROVE n \in Range(rest)
      OBVIOUS
    <3>1. PICK h \in DOMAIN chain : n = chain[h]
      BY <1>3 DEF Range
    <3>2. h \in 1..Len(chain) /\ h # Len(chain)
      BY <1>2, <1>3, <1>4, <3>1
    <3>3. h \in DOMAIN rest /\ rest[h] = n
      BY <1>4, <3>1, <3>2
    <3> QED
      BY <3>3 DEF Range
  <2> QED
    BY <1>2, <1>3, <1>4, <2>1, <2>2, <2>3 DEF ChainOK
<1> QED
  BY <1>7, <1>8, <1>9, <1>10 DEF LedgerInv

LEMMA StepKeeps == LedgerInv /\ [Next]_vars => LedgerInv'
<1> SUFFICES ASSUME LedgerInv, [Next]_vars PROVE LedgerInv'
  OBVIOUS
<1>1. ASSUME NEW parent \in Near, NEW k \in 0..MaxTxs, NEW reward \in Rewards,
             NEW S \in kSubset(k, Txs), NEW foundation \in {0, (3 * reward) \div 10},
             ReceiveBlock(parent, S, reward, foundation)
      PROVE  LedgerInv'
  <2>1. S \in SUBSET Txs
    BY DEF kSubset
  <2> QED
    BY <1>1, <2>1, ReceiveKeeps
<1>2. ASSUME NEW n \in DOMAIN blocks, ConnectBlock(n) PROVE LedgerInv'
  BY <1>2, ConnectKeeps
<1>3. CASE DisconnectBlock
  BY <1>3, DisconnectKeeps
<1>4. CASE UNCHANGED vars
  BY <1>4 DEF vars, LedgerInv, ChainOK, Placed, HeightOf
<1> QED
  BY <1>1, <1>2, <1>3, <1>4 DEF Next

\* The inductive invariant: the places of the main chain, as far as it was written,
\* are sound, and the store says of them what they are.
THEOREM Invariance == Spec => []LedgerInv
<1> QED
  BY InitHolds, StepKeeps, PTL DEF Spec

-----------------------------------------------------------------------------
(* What the invariant says of the chain.                                   *)

LEMMA ChainTxsHas ==
  ASSUME NEW t
  PROVE  t \in ChainTxs <=> \E h \in Written : t \in Range(blocks[chain[h]].txs)
BY Zenon DEF ChainTxs, TxsOf

\* The transactions of the chain and their places.
LEMMA TxsPlaced ==
  ASSUME LedgerInv
  PROVE  /\ \A t \in ChainTxs : \E p \in Placed : p.tx = t
         /\ \A p \in Placed : p.tx \in ChainTxs
         /\ \A h \in Written : \A t \in TxsOf(chain[h]) : Place(h, t) \in Placed
         /\ \A p \in Placed : p.height \in Written /\ p.tx \in TxsOf(chain[p.height])
<1>1. /\ DOMAIN chain = 1..Len(chain)
      /\ \A h \in DOMAIN chain : blocks[chain[h]].height = h
      /\ \A h : h \in Written <=> h \in DOMAIN chain /\ chain[h] \notin unwritten
  BY ChainFacts DEF LedgerInv, ChainOK, Written
<1>2. ASSUME NEW h \in Written, NEW t \in TxsOf(chain[h])
      PROVE  Place(h, t) \in Placed
  <2> DEFINE b == blocks[chain[h]]
  <2>1. PICK k \in DOMAIN b.txs : t = b.txs[k]
    BY <1>2 DEF TxsOf, Range
  <2>2. Place(h, t) \in PlacesOf(b)
    BY <1>1, <2>1, PlacesHave
  <2> QED
    BY <1>1, <2>2, PlacedHas DEF Placed
<1>3. ASSUME NEW p \in Placed
      PROVE  p.height \in Written /\ p.tx \in TxsOf(chain[p.height])
  <2>1. PICK h \in DOMAIN chain : chain[h] \notin unwritten /\ p \in PlacesOf(blocks[chain[h]])
    BY PlacedHas DEF Placed
  <2> DEFINE b == blocks[chain[h]]
  <2>2. PICK k \in DOMAIN b.txs : p = Place(b.height, b.txs[k])
    BY <2>1, PlacesHave
  <2>3. p.height = h /\ p.tx = b.txs[k]
    BY <1>1, <2>2, PlacesHave
  <2> QED
    BY <1>1, <2>1, <2>3 DEF TxsOf, Range
<1>4. ASSUME NEW t \in ChainTxs PROVE \E p \in Placed : p.tx = t
  <2>1. PICK h \in Written : t \in TxsOf(chain[h])
    BY ChainTxsHas DEF TxsOf
  <2>2. Place(h, t) \in Placed /\ Place(h, t).tx = t
    BY <1>2, <2>1, PlacesHave
  <2> QED
    BY <2>2
<1>5. ASSUME NEW p \in Placed PROVE p.tx \in ChainTxs
  BY <1>3, ChainTxsHas DEF TxsOf
<1> QED
  BY <1>2, <1>3, <1>4, <1>5

LEMMA PlaceOfTx ==
  ASSUME LedgerInv, NEW p \in Placed
  PROVE  HeightOfTx(p.tx) = p.height /\ TxWithId(p.tx.id) = p.tx
<1>1. \A q, r \in Placed : q.tx.id = r.tx.id => q = r
  BY DEF LedgerInv, Sound
<1>2. p.height \in Written /\ p.tx \in TxsOf(chain[p.height])
  BY TxsPlaced
<1>3. ASSUME NEW h \in Written, p.tx \in TxsOf(chain[h]) PROVE h = p.height
  <2>1. Place(h, p.tx) \in Placed
    BY <1>3, TxsPlaced
  <2>2. Place(h, p.tx).tx = p.tx /\ Place(h, p.tx).height = h
    BY PlacesHave
  <2> QED
    BY <1>1, <2>1, <2>2
<1>4. HeightOfTx(p.tx) = p.height
  BY <1>2, <1>3 DEF HeightOfTx
<1>5. ASSUME NEW t \in ChainTxs, t.id = p.tx.id PROVE t = p.tx
  <2>1. PICK q \in Placed : q.tx = t
    BY TxsPlaced
  <2> QED
    BY <1>1, <1>5, <2>1
<1>6. p.tx \in ChainTxs
  BY TxsPlaced
<1>7. TxWithId(p.tx.id) = p.tx
  BY <1>5, <1>6 DEF TxWithId
<1> QED
  BY <1>4, <1>7

LEMMA OutputsPlaced ==
  ASSUME LedgerInv
  PROVE  /\ SpentOutputs = InsOf(Placed) /\ AllOutputs = OutsOf(Placed)
         /\ UnspentOutputs = UnspentIn(Placed)
<1>1. ASSUME NEW o PROVE o \in SpentOutputs <=> o \in InsOf(Placed)
  <2>1. o \in SpentOutputs <=> \E t \in ChainTxs : o \in Range(t.ins)
    BY Zenon DEF SpentOutputs
  <2>2. o \in InsOf(Placed) <=> \E p \in Placed : o \in Range(p.tx.ins)
    BY InsOfHas
  <2> QED
    BY <2>1, <2>2, TxsPlaced
<1>2. ASSUME NEW o PROVE o \in AllOutputs <=> o \in OutsOf(Placed)
  <2>1. o \in AllOutputs <=> \E t \in ChainTxs : \E i \in DOMAIN t.outs : o = Utxo(t, i)
    BY DEF AllOutputs
  <2>2. o \in OutsOf(Placed) <=> \E p \in Placed : \E i \in DOMAIN p.tx.outs : o = Utxo(p.tx, i)
    BY OutsOfHas
  <2> QED
    BY <2>1, <2>2, TxsPlaced
<1>3. SpentOutputs = InsOf(Placed)
  BY <1>1
<1>4. AllOutputs = OutsOf(Placed)
  BY <1>2
<1> QED
  BY <1>3, <1>4 DEF UnspentOutputs, UnspentIn

LEMMA HoldsListIs ==
  ASSUME NEW K, NEW E, NEW index, NEW G, Holds(K, E, index, G), NEW key \in K
  PROVE  ListIs(index, key, G[key])
<1>1. /\ Elements(index, << >>, key) = G[key] /\ Listed(<< >>, index, key) \in Seq(E)
      /\ IsInjective(Listed(<< >>, index, key))
  BY DEF Holds, Proper
<1>2. CASE key \in DOMAIN index
  <2>1. Listed(<< >>, index, key) = index[key]
    BY <1>2 DEF Listed
  <2>2. G[key] = Range(index[key]) /\ index[key] \in Seq(E) /\ IsInjective(index[key])
    BY <1>1, <2>1 DEF Elements
  <2>3. index[key] # << >>
    BY <1>2 DEF Holds
  <2>4. G[key] # {}
    <3> DEFINE l == index[key]
    <3>1. l \in Seq(E) /\ l # << >>
      BY <2>2, <2>3
    <3> HIDE DEF l
    <3>2. 1 \in DOMAIN l
      BY <3>1
    <3>3. l[1] \in Range(l)
      BY <3>2 DEF Range
    <3> QED
      BY <2>2, <3>3 DEF l
  <2> QED
    BY <1>2, <2>2, <2>4 DEF ListIs
<1>3. CASE key \notin DOMAIN index
  <2>1. Listed(<< >>, index, key) = << >>
    BY <1>3 DEF Listed
  <2>2. Range(<< >>) = {}
    BY DEF Range
  <2> QED
    BY <1>1, <1>3, <2>1, <2>2 DEF Elements, ListIs
<1> QED
  BY <1>2, <1>3

LEMMA UnspentIndexMatches ==
  ASSUME LedgerInv
  PROVE  UnspentMatches
<1>1. Sound(Placed) /\ Holds(IdSet, Nat, db.unspent, UnspentLists(Placed))
  BY DEF LedgerInv, StoreOK
<1>2. UnspentOutputs = UnspentIn(Placed)
  BY OutputsPlaced
<1>3. ASSUME NEW id \in DOMAIN db.unspent PROVE \E t \in ChainTxs : id = t.id
  <2>1. id \in IdSet
    BY <1>1 DEF Holds
  <2>2. ListIs(db.unspent, id, UnspentLists(Placed)[id])
    BY <1>1, <2>1, HoldsListIs
  <2>3. PICK e : e \in UnspentLists(Placed)[id]
    BY <2>2 DEF ListIs
  <2>4. [tx |-> id, index |-> e] \in UnspentIn(Placed)
    BY <1>1, <2>1, <2>3, UnspentListed
  <2>5. [tx |-> id, index |-> e] \in OutsOf(Placed) /\ [tx |-> id, index |-> e].tx = id
    BY <2>4 DEF UnspentIn
  <2>6. PICK p \in Placed : p.tx.id = id
    BY <1>1, <2>5, OutsAre
  <2> QED
    BY <2>6, TxsPlaced
<1>4. ASSUME NEW t \in ChainTxs
      PROVE  ListIs(db.unspent, t.id, {i \in DOMAIN t.outs : Utxo(t, i) \in UnspentIn(Placed)})
  <2> DEFINE S == {i \in DOMAIN t.outs : Utxo(t, i) \in UnspentIn(Placed)}
  <2>1. PICK p \in Placed : p.tx = t
    BY TxsPlaced
  <2>2. TxOK(t) /\ t.id \in IdSet /\ \A q \in Placed : q.tx.id = t.id => q.tx = t
    BY <1>1, <2>1 DEF Sound, TxOK
  <2>3. \A e : e \in UnspentLists(Placed)[t.id] <=> [tx |-> t.id, index |-> e] \in UnspentIn(Placed)
    BY <1>1, <2>2, UnspentListed
  <2>4. ASSUME NEW e, [tx |-> t.id, index |-> e] \in UnspentIn(Placed)
        PROVE  e \in DOMAIN t.outs
    <3> DEFINE o == [tx |-> t.id, index |-> e]
    <3>1. o \in OutsOf(Placed) /\ o.tx = t.id /\ o.index = e
      BY <2>4 DEF UnspentIn
    <3> HIDE DEF o
    <3>2. \E q \in Placed : q.tx.id = o.tx /\ o.index \in DOMAIN q.tx.outs
      BY <1>1, <3>1, OutsAre
    <3> QED
      BY <2>2, <3>1, <3>2
  <2>5. \A e : e \in S <=> e \in UnspentLists(Placed)[t.id]
    BY <2>3, <2>4 DEF Utxo
  <2> HIDE DEF S
  <2>6. S = UnspentLists(Placed)[t.id]
    BY <2>5
  <2>7. ListIs(db.unspent, t.id, UnspentLists(Placed)[t.id])
    BY <1>1, <2>2, HoldsListIs
  <2> QED
    BY <2>6, <2>7 DEF S
<1> QED
  BY <1>2, <1>3, <1>4 DEF UnspentMatches

\* Where UTXOMatches looks for an output.
KeyOf(o) == <<TxWithId(o.tx).outs[o.index].owner, HeightOfTx(TxWithId(o.tx))>>

LEMMA KeyIsFiled ==
  ASSUME LedgerInv, NEW o \in UnspentIn(Placed)
  PROVE  KeyOf(o) \in KeySet /\ \A key : Filed(Placed, o, key) <=> key = KeyOf(o)
<1>1. Sound(Placed)
  BY DEF LedgerInv
<1>2. PICK p \in Placed : p.tx.id = o.tx /\ o.index \in DOMAIN p.tx.outs
  BY <1>1, OutsAre DEF UnspentIn
<1>3. KeyOf(o) = <<p.tx.outs[o.index].owner, p.height>>
  BY <1>2, PlaceOfTx DEF KeyOf
<1>4. p.height \in Nat /\ p.tx.outs[o.index].owner \in OwnerSet
  BY <1>1, <1>2 DEF Sound, TxOK
<1>5. \A key : Filed(Placed, o, key) <=> key = <<p.tx.outs[o.index].owner, p.height>>
  BY <1>1, <1>2, FiledOnce
<1> QED
  BY <1>3, <1>4, <1>5 DEF KeySet

LEMMA UTXOIndexMatches ==
  ASSUME LedgerInv
  PROVE  UTXOMatches
<1> DEFINE U == UnspentIn(Placed)
           filed == {<<KeyOf(o), o>> : o \in U}
           At(key) == {f[2] : f \in {g \in filed : g[1] = key}}
<1>1. Sound(Placed) /\ Holds(KeySet, OutSet, db.utxo, UTXOLists(Placed))
  BY DEF LedgerInv, StoreOK
<1>2. UnspentOutputs = U
  BY OutputsPlaced
<1>3. \A o \in U : KeyOf(o) \in KeySet /\ \A key : Filed(Placed, o, key) <=> key = KeyOf(o)
  BY KeyIsFiled
<1> HIDE DEF U
<1>4. ASSUME NEW key \in DOMAIN db.utxo \cup {f[1] : f \in filed} PROVE key \in KeySet
  <2>1. CASE key \in DOMAIN db.utxo
    BY <1>1, <2>1 DEF Holds
  <2>2. CASE key \in {f[1] : f \in filed}
    BY <1>3, <2>2
  <2> QED
    BY <2>1, <2>2
<1>5. ASSUME NEW key \in KeySet PROVE At(key) = UTXOLists(Placed)[key]
  <2>1. At(key) = {o \in U : KeyOf(o) = key}
    <3>1. ASSUME NEW o \in At(key) PROVE o \in U /\ KeyOf(o) = key
      <4>1. PICK f \in filed : f[1] = key /\ o = f[2]
        BY <3>1
      <4>2. PICK u \in U : f = <<KeyOf(u), u>>
        BY <4>1
      <4> QED
        BY <4>1, <4>2
    <3>2. ASSUME NEW o \in U, KeyOf(o) = key PROVE o \in At(key)
      <4>1. <<KeyOf(o), o>> \in filed
        OBVIOUS
      <4> HIDE DEF filed
      <4>2. <<KeyOf(o), o>>[1] = key /\ <<KeyOf(o), o>>[2] = o
        BY <3>2
      <4> QED
        BY <4>1, <4>2
    <3> HIDE DEF At
    <3>3. \A o : o \in At(key) <=> o \in U /\ KeyOf(o) = key
      BY <3>1, <3>2
    <3> QED
      BY <3>3
  <2>2. UTXOLists(Placed)[key] = {o \in U : Filed(Placed, o, key)}
    BY DEF UTXOLists, U
  <2> QED
    BY <1>3, <2>1, <2>2
<1>6. ASSUME NEW key \in DOMAIN db.utxo \cup {f[1] : f \in filed}
      PROVE  ListIs(db.utxo, key, At(key))
  <2>1. key \in KeySet
    BY <1>4
  <2>2. ListIs(db.utxo, key, UTXOLists(Placed)[key])
    BY <1>1, <2>1, HoldsListIs
  <2>3. At(key) = UTXOLists(Placed)[key]
    BY <1>5, <2>1
  <2> HIDE DEF At
  <2> QED
    BY <2>2, <2>3
<1> QED
  BY <1>2, <1>6 DEF UTXOMatches, KeyOf

-----------------------------------------------------------------------------
(* The safety properties of module Ledger.                                 *)

\* Whatever was persisted and rolled back, both indices of the outputs, the
\* transactions and the main chain transactions redeemed are those of the main
\* chain.
THEOREM StoreMatchesChain == Spec => []IndicesMatchChain
<1>1. LedgerInv => IndicesMatchChain
  <2> SUFFICES ASSUME LedgerInv PROVE IndicesMatchChain
    OBVIOUS
  <2>1. /\ DOMAIN db.txs = {p.tx.id : p \in Placed} \cup {"asset"}
        /\ \A p \in Placed : db.txs[p.tx.id] = p
        /\ db.mainTxs = Redeemed(Placed)
        /\ \A p \in Placed : p = Place(p.height, p.tx)
    BY DEF LedgerInv, StoreOK, Sound
  <2>2. /\ \A t \in ChainTxs : \E p \in Placed : p.tx = t
        /\ \A p \in Placed : p.tx \in ChainTxs
    BY TxsPlaced
  <2>3. DOMAIN db.txs = {t.id : t \in ChainTxs} \cup {"asset"}
    <3>1. {p.tx.id : p \in Placed} = {t.id : t \in ChainTxs}
      BY <2>2
    <3> QED
      BY <2>1, <3>1
  <2>4. ASSUME NEW t \in ChainTxs PROVE db.txs[t.id] = [height |-> HeightOfTx(t), tx |-> t]
    <3>1. PICK p \in Placed : p.tx = t
      BY <2>2
    <3>2. HeightOfTx(t) = p.height
      BY <3>1, PlaceOfTx
    <3> QED
      BY <2>1, <3>1, <3>2 DEF Place
  <2>5. db.mainTxs = {t.main.id : t \in {u \in ChainTxs : u.type = "recharge"}}
    BY <2>1, <2>2 DEF Redeemed
  <2> QED
    BY <2>3, <2>4, <2>5, UnspentIndexMatches, UTXOIndexMatches DEF IndicesMatchChain
<1> QED
  BY <1>1, Invariance, PTL

\* persist gives up on a block that ConnectBlock lets through, or ends the program,
\* only where a recharge spends what is not there to be spent.
THEOREM ConnectedIsWritten == Spec => []ConnectedBlockPersists
<1>1. LedgerInv => ConnectedBlockPersists
  <2> SUFFICES ASSUME LedgerInv, NEW n \in DOMAIN blocks, Connectable(n),
                      PersistFails(db, blocks[n]) \/ PersistPanics(db, blocks[n])
               PROVE  \E t \in TxsOf(n) :
                        t.type = "recharge" /\ ~(Range(t.ins) \subseteq UnspentOutputs)
    BY DEF ConnectedBlockPersists
  <2>1. RechargesFit(Placed, blocks[n]) => OnTop(Placed, blocks[n])
    BY ConnectableOnTop
  <2>2. ~RechargesFit(Placed, blocks[n])
    BY <2>1, OnTopPersists DEF LedgerInv
  <2>3. PICK k \in DOMAIN blocks[n].txs :
               /\ blocks[n].txs[k].type = "recharge"
               /\ ~(Range(blocks[n].txs[k].ins) \subseteq UnspentIn(Placed))
    BY <2>2 DEF RechargesFit
  <2>4. blocks[n].txs[k] \in TxsOf(n)
    BY DEF TxsOf, Range
  <2>5. UnspentOutputs = UnspentIn(Placed)
    BY OutputsPlaced
  <2> QED
    BY <2>3, <2>4, <2>5
<1> QED
  BY <1>1, Invariance, PTL

\* Outputs of the main chain are spent once, later, and, by all but recharges, with
\* the signature of their owners.
THEOREM OwnersSpend == Spec => []OnlyOwnersSpend
<1>1. LedgerInv => OnlyOwnersSpend
  <2> SUFFICES ASSUME LedgerInv, NEW t \in ChainTxs, NEW in \in Range(t.ins)
               PROVE  /\ \A u \in ChainTxs : u # t => in \notin Range(u.ins)
                      /\ \E u \in ChainTxs :
                           /\ u.id = in.tx /\ in.index \in DOMAIN u.outs
                           /\ HeightOfTx(u) < HeightOfTx(t)
                           /\ t.type # "recharge" => u.outs[in.index].owner \in t.programs
    BY DEF OnlyOwnersSpend
  <2>1. PICK p \in Placed : p.tx = t
    BY TxsPlaced
  <2>2. ASSUME NEW u \in ChainTxs, u # t PROVE in \notin Range(u.ins)
    <3>1. PICK q \in Placed : q.tx = u
      BY TxsPlaced
    <3>2. p # q /\ in \in Range(p.tx.ins)
      BY <2>1, <2>2, <3>1
    <3> QED
      BY <3>1, <3>2 DEF LedgerInv, Sound
  <2>3. PICK q \in Placed : Source(q, in, p.tx, p.height)
    BY <2>1 DEF LedgerInv, Sound
  <2>4. q.tx \in ChainTxs /\ HeightOfTx(q.tx) = q.height /\ HeightOfTx(t) = p.height
    BY <2>1, TxsPlaced, PlaceOfTx
  <2> QED
    BY <2>1, <2>2, <2>3, <2>4 DEF Source
<1> QED
  BY <1>1, Invariance, PTL

\* A transaction that is not a recharge spends an output with a lock in a block above
\* that height.
THEOREM LocksHold == Spec => []OutputLockHonoured
<1>1. LedgerInv => OutputLockHonoured
  <2> SUFFICES ASSUME LedgerInv, NEW t \in ChainTxs, NEW in \in Range(t.ins),
                      t.type # "recharge"
               PROVE  TxWithId(in.tx).outs[in.index].lock < HeightOfTx(t)
    BY DEF OutputLockHonoured
  <2>1. PICK p \in Placed : p.tx = t
    BY TxsPlaced
  <2>2. PICK q \in Placed : Source(q, in, p.tx, p.height)
    BY <2>1 DEF LedgerInv, Sound
  <2>3. TxWithId(q.tx.id) = q.tx /\ HeightOfTx(t) = p.height
    BY <2>1, PlaceOfTx
  <2> QED
    BY <2>1, <2>2, <2>3 DEF Source
<1> QED
  BY <1>1, Invariance, PTL

-----------------------------------------------------------------------------
(* Sums.                                                                   *)

\* What holds at 0 and is kept by each of n steps holds up to n.
LEMMA CountUp ==
  ASSUME NEW n \in Nat, NEW T, 0 \in T, \A k \in 1..n : k - 1 \in T => k \in T
  PROVE  \A k \in 0..n : k \in T
<1> DEFINE Bad == {k \in 0..n : k \notin T}
<1> SUFFICES ASSUME Bad # {} PROVE FALSE
  OBVIOUS
<1>1. PICK m \in Bad : \A l \in Bad : m <= l
  <2>1. Bad \in SUBSET Nat
    OBVIOUS
  <2> HIDE DEF Bad
  <2> QED
    BY <2>1, LeastNumber
<1>2. m \in 1..n /\ m - 1 \in 0..n
  OBVIOUS
<1>3. m - 1 \notin Bad
  BY <1>1, <1>2
<1> QED
  BY <1>2, <1>3

\* What holds of the empty set and of a set with one element more holds of every
\* part of a finite set.
LEMMA EverySubset ==
  ASSUME NEW U, IsFiniteSet(U), NEW T, {} \in T,
         \A A \in SUBSET U : \A x \in U \ A : A \in T => A \cup {x} \in T
  PROVE  \A A \in SUBSET U : A \in T
<1> DEFINE n == Cardinality(U)
           L == {k \in 0..n : \A A \in SUBSET U : Cardinality(A) = k => A \in T}
<1>0. n \in Nat /\ \A A \in SUBSET U : IsFiniteSet(A) /\ Cardinality(A) \in 0..n
  <2>1. n \in Nat
    BY FS_CardinalityType
  <2>2. ASSUME NEW A \in SUBSET U PROVE IsFiniteSet(A) /\ Cardinality(A) \in 0..n
    <3>1. IsFiniteSet(A) /\ Cardinality(A) <= n
      BY FS_Subset
    <3>2. Cardinality(A) \in Nat
      BY <3>1, FS_CardinalityType
    <3> QED
      BY <2>1, <3>1, <3>2
  <2> QED
    BY <2>1, <2>2
<1> HIDE DEF n
<1>1. 0 \in L
  <2>1. \A A \in SUBSET U : Cardinality(A) = 0 => A = {}
    BY <1>0, FS_EmptySet
  <2> QED
    BY <1>0, <2>1
<1>2. ASSUME NEW k \in 1..n, k - 1 \in L PROVE k \in L
  <2>1. ASSUME NEW A \in SUBSET U, Cardinality(A) = k PROVE A \in T
    <3>1. A # {}
      <4>1. Cardinality({}) = 0 /\ k # 0
        BY <1>0, FS_EmptySet
      <4> QED
        BY <2>1, <4>1
    <3>2. PICK x \in A : TRUE
      BY <3>1
    <3> DEFINE B == A \ {x}
    <3>3. Cardinality(B) = k - 1
      BY <1>0, <2>1, FS_RemoveElement
    <3>4. B \in SUBSET U /\ x \in U \ B /\ B \cup {x} = A
      OBVIOUS
    <3>5. B \in T
      BY <1>2, <3>3, <3>4
    <3> HIDE DEF B
    <3> QED
      BY <3>4, <3>5
  <2>2. k \in 0..n
    BY <1>0
  <2> QED
    BY <2>1, <2>2
<1>3. \A k \in 0..n : k \in L
  <2> HIDE DEF L
  <2> QED
    BY <1>0, <1>1, <1>2, CountUp
<1> QED
  BY <1>0, <1>3

Chosen(s) == CHOOSE x \in s : TRUE

\* g adds up f on the parts of U with at most m elements.
Adds(g, f, U, m) ==
  /\ g[{}] = 0
  /\ \A s \in SUBSET U : s # {} /\ Cardinality(s) <= m =>
       g[s] = f[Chosen(s)] + g[s \ {Chosen(s)}]

LEMMA WithoutChosen ==
  ASSUME NEW U, IsFiniteSet(U), NEW s \in SUBSET U, s # {}
  PROVE  /\ s \ {Chosen(s)} \in SUBSET U /\ Chosen(s) \in s
         /\ Cardinality(s) \in Nat \ {0}
         /\ Cardinality(s \ {Chosen(s)}) = Cardinality(s) - 1
         /\ Cardinality(s \ {Chosen(s)}) \in Nat
<1>1. Chosen(s) \in s
  BY DEF Chosen
<1>2. IsFiniteSet(s)
  BY FS_Subset
<1>3. Cardinality(s) \in Nat /\ Cardinality(s) # 0
  BY <1>2, FS_CardinalityType, FS_EmptySet
<1>4. Cardinality(s \ {Chosen(s)}) = Cardinality(s) - 1
  BY <1>1, <1>2, FS_RemoveElement
<1> QED
  BY <1>1, <1>3, <1>4

LEMMA AddersExist ==
  ASSUME NEW U, IsFiniteSet(U), NEW f, NEW n \in Nat
  PROVE  \E g : Adds(g, f, U, n)
<1> DEFINE T == {m \in 0..n : \E g : Adds(g, f, U, m)}
<1>1. 0 \in T
  <2> DEFINE g == [s \in SUBSET U |-> 0]
  <2>1. ASSUME NEW s \in SUBSET U, s # {} PROVE ~(Cardinality(s) <= 0)
    <3>1. Cardinality(s) \in Nat \ {0}
      BY <2>1, WithoutChosen
    <3> QED
      BY <3>1
  <2>2. {} \in SUBSET U
    OBVIOUS
  <2>3. Adds(g, f, U, 0)
    BY <2>1, <2>2 DEF Adds
  <2> QED
    BY <2>3
<1>2. ASSUME NEW m \in 1..n, m - 1 \in T PROVE m \in T
  <2>1. PICK g : Adds(g, f, U, m - 1)
    BY <1>2
  <2> DEFINE h == [s \in SUBSET U |-> IF s # {} /\ Cardinality(s) = m
                                        THEN f[Chosen(s)] + g[s \ {Chosen(s)}] ELSE g[s]]
  <2>2. h[{}] = 0
    BY <2>1 DEF Adds
  <2>3. ASSUME NEW s \in SUBSET U, s # {}, Cardinality(s) <= m
        PROVE  h[s] = f[Chosen(s)] + h[s \ {Chosen(s)}]
    <3> DEFINE r == s \ {Chosen(s)}
    <3>1. r \in SUBSET U /\ Cardinality(s) \in Nat \ {0} /\ Cardinality(r) = Cardinality(s) - 1
      BY <2>3, WithoutChosen
    <3>2. Cardinality(r) # m
      BY <2>3, <3>1
    <3> HIDE DEF r
    <3>3. h[r] = g[r]
      BY <3>1, <3>2
    <3>4. CASE Cardinality(s) = m
      BY <2>3, <3>3, <3>4 DEF r
    <3>5. CASE Cardinality(s) # m
      <4>1. Cardinality(s) <= m - 1
        BY <2>3, <3>1, <3>5
      <4>2. g[s] = f[Chosen(s)] + g[r]
        BY <2>1, <2>3, <4>1 DEF Adds, r
      <4>3. h[s] = g[s]
        BY <3>5
      <4> QED
        BY <3>3, <4>2, <4>3 DEF r
    <3> QED
      BY <3>4, <3>5
  <2> HIDE DEF h
  <2>4. Adds(h, f, U, m)
    BY <2>2, <2>3 DEF Adds
  <2>5. m \in 0..n
    OBVIOUS
  <2> QED
    BY <2>4, <2>5
<1>3. n \in T
  <2> HIDE DEF T
  <2>1. \A k \in 0..n : k \in T
    BY <1>1, <1>2, CountUp
  <2> QED
    BY <2>1
<1> QED
  BY <1>3

\* Two ways to add up agree where they both do, whatever they are part of.
LEMMA AddersAgree ==
  ASSUME NEW U, IsFiniteSet(U), NEW V, IsFiniteSet(V), NEW f, NEW g, NEW h,
         NEW m \in Nat, NEW n \in Nat, Adds(g, f, U, m), Adds(h, f, V, n),
         NEW c \in SUBSET (U \cap V), Cardinality(c) <= m, Cardinality(c) <= n
  PROVE  g[c] = h[c]
<1> DEFINE l == Cardinality(c)
           T == {k \in 0..l : \A s \in SUBSET (U \cap V) : Cardinality(s) = k => g[s] = h[s]}
<1>0. IsFiniteSet(U \cap V) /\ l \in Nat
  <2>1. IsFiniteSet(U \cap V)
    BY FS_Subset
  <2>2. IsFiniteSet(c)
    BY <2>1, FS_Subset
  <2> QED
    BY <2>1, <2>2, FS_CardinalityType
<1>1. ASSUME NEW s \in SUBSET (U \cap V), s # {}, Cardinality(s) \in 0..l,
             g[s \ {Chosen(s)}] = h[s \ {Chosen(s)}]
      PROVE  g[s] = h[s]
  <2>1. Cardinality(s) <= m /\ Cardinality(s) <= n
    BY <1>0, <1>1
  <2>2. s \in SUBSET U /\ s \in SUBSET V
    OBVIOUS
  <2> QED
    BY <1>1, <2>1, <2>2 DEF Adds
<1>2. 0 \in T
  <2>1. \A s \in SUBSET (U \cap V) : Cardinality(s) = 0 => s = {}
    BY <1>0, FS_Subset, FS_EmptySet
  <2>2. 0 \in 0..l /\ g[{}] = h[{}]
    BY <1>0 DEF Adds
  <2> HIDE DEF l
  <2> QED
    BY <2>1, <2>2
<1>3. ASSUME NEW k \in 1..l, k - 1 \in T PROVE k \in T
  <2>1. k \in 0..l
    BY <1>0
  <2>2. ASSUME NEW s \in SUBSET (U \cap V), Cardinality(s) = k PROVE g[s] = h[s]
    <3>1. CASE s = {}
      BY <3>1 DEF Adds
    <3>2. CASE s # {}
      <4>1. s \ {Chosen(s)} \in SUBSET (U \cap V) /\ Cardinality(s \ {Chosen(s)}) = k - 1
        BY <1>0, <2>2, <3>2, WithoutChosen
      <4>2. g[s \ {Chosen(s)}] = h[s \ {Chosen(s)}]
        BY <1>3, <4>1
      <4> QED
        BY <1>1, <2>1, <2>2, <3>2, <4>2
    <3> QED
      BY <3>1, <3>2
  <2> QED
    BY <2>1, <2>2
<1>4. l \in T
  <2> HIDE DEF T, l
  <2>1. \A k \in 0..l : k \in T
    BY <1>0, <1>2, <1>3, CountUp
  <2> QED
    BY <1>0, <2>1
<1> QED
  BY <1>4

\* What SumFunctionOnSet computes.
LEMMA SumIs ==
  ASSUME NEW U, IsFiniteSet(U), NEW f
  PROVE  \E g : Adds(g, f, U, Cardinality(U)) /\ SumFunctionOnSet(f, U) = g[U]
<1> DEFINE F(m) == CHOOSE g : Adds(g, f, U, m)
           eqn(g) == [s \in SUBSET U |-> IF s = {} THEN 0
                                         ELSE LET x == CHOOSE x \in s : TRUE
                                              IN  f[x] + g[s \ {x}]]
           sum == [s \in SUBSET U |-> F(Cardinality(s))[s]]
<1>0. \A s \in SUBSET U : Cardinality(s) \in Nat
  BY FS_Subset, FS_CardinalityType
<1>1. \A m \in Nat : Adds(F(m), f, U, m)
  BY AddersExist
<1> HIDE DEF F
<1>2. ASSUME NEW s \in SUBSET U
      PROVE  sum[s] = IF s = {} THEN 0 ELSE f[Chosen(s)] + sum[s \ {Chosen(s)}]
  <2>1. CASE s = {}
    BY <1>0, <1>1, <2>1 DEF Adds
  <2>2. CASE s # {}
    <3> DEFINE r == s \ {Chosen(s)}
               m == Cardinality(s)
               k == Cardinality(r)
    <3>1. r \in SUBSET U /\ m \in Nat /\ k \in Nat /\ m = k + 1
      BY <2>2, WithoutChosen
    <3>2. Adds(F(m), f, U, m) /\ Adds(F(k), f, U, k) /\ m <= m /\ k <= m /\ k <= k
      BY <1>1, <3>1
    <3>3. F(m)[s] = f[Chosen(s)] + F(m)[r]
      BY <2>2, <3>2 DEF Adds
    <3>4. F(m)[r] = F(k)[r]
      <4> HIDE DEF r, m
      <4>1. r \in SUBSET (U \cap U) /\ Cardinality(r) <= m /\ Cardinality(r) <= k
        BY <3>1, <3>2
      <4> QED
        BY <3>1, <3>2, <4>1, AddersAgree
    <3>5. sum[s] = F(m)[s] /\ sum[r] = F(k)[r]
      BY <3>1
    <3> QED
      BY <2>2, <3>3, <3>4, <3>5
  <2> QED
    BY <2>1, <2>2
<1>3. \E g : g = eqn(g)
  <2>1. sum = eqn(sum)
    BY <1>2 DEF Chosen
  <2> QED
    BY <2>1
<1> DEFINE iter == CHOOSE g : g = eqn(g)
<1>4. iter = eqn(iter)
  <2> HIDE DEF eqn
  <2> QED
    BY <1>3
<1>5. SumFunctionOnSet(f, U) = iter[U]
  BY DEF SumFunctionOnSet, FoldFunctionOnSet, MapThenFoldSet
<1> HIDE DEF iter
<1>6. Adds(iter, f, U, Cardinality(U))
  <2>1. iter[{}] = 0
    BY <1>4
  <2>2. \A s \in SUBSET U : s # {} => iter[s] = f[Chosen(s)] + iter[s \ {Chosen(s)}]
    BY <1>4 DEF Chosen
  <2> QED
    BY <2>1, <2>2 DEF Adds
<1> QED
  BY <1>5, <1>6

LEMMA SumOfNone ==
  ASSUME NEW f
  PROVE  SumFunctionOnSet(f, {}) = 0
<1>1. IsFiniteSet({})
  BY FS_EmptySet
<1>2. PICK g : Adds(g, f, {}, Cardinality({})) /\ SumFunctionOnSet(f, {}) = g[{}]
  BY <1>1, SumIs
<1> QED
  BY <1>2 DEF Adds

\* A sum takes the chosen element first.
LEMMA SumTakes ==
  ASSUME NEW U, IsFiniteSet(U), U # {}, NEW f
  PROVE  SumFunctionOnSet(f, U) = f[Chosen(U)] + SumFunctionOnSet(f, U \ {Chosen(U)})
<1> DEFINE V == U \ {Chosen(U)}
<1>1. V \in SUBSET U /\ IsFiniteSet(V) /\ Cardinality(U) \in Nat /\ Cardinality(V) \in Nat
      /\ Cardinality(V) = Cardinality(U) - 1
  BY WithoutChosen, FS_Subset
<1>2. PICK g : Adds(g, f, U, Cardinality(U)) /\ SumFunctionOnSet(f, U) = g[U]
  BY SumIs
<1>3. PICK h : Adds(h, f, V, Cardinality(V)) /\ SumFunctionOnSet(f, V) = h[V]
  BY <1>1, SumIs
<1>4. g[U] = f[Chosen(U)] + g[V]
  <2>1. U \in SUBSET U /\ Cardinality(U) <= Cardinality(U)
    BY <1>1
  <2> QED
    BY <1>2, <2>1 DEF Adds
<1>5. g[V] = h[V]
  <2> HIDE DEF V
  <2>1. V \in SUBSET (U \cap V) /\ Cardinality(V) <= Cardinality(U) /\ Cardinality(V) <= Cardinality(V)
    BY <1>1
  <2> QED
    BY <1>1, <1>2, <1>3, <2>1, AddersAgree
<1> QED
  BY <1>2, <1>3, <1>4, <1>5

\* The values of f on U are numbers.
Numbers(f, U) == IsFiniteSet(U) /\ \A x \in U : f[x] \in Int

\* In whatever order: a sum takes any element.
LEMMA SumAdd ==
  ASSUME NEW f, NEW U, Numbers(f, U), NEW c \in SUBSET U, NEW y \in U \ c
  PROVE  /\ SumFunctionOnSet(f, c) \in Int
         /\ SumFunctionOnSet(f, c \cup {y}) = SumFunctionOnSet(f, c) + f[y]
<1> DEFINE S(A) == SumFunctionOnSet(f, A)
           n == Cardinality(c)
           Good(A) == S(A) \in Int /\ \A x \in U \ A : S(A \cup {x}) = S(A) + f[x]
           T == {k \in 0..n : \A A \in SUBSET U : Cardinality(A) = k => Good(A)}
<1>0. /\ IsFiniteSet(U) /\ \A x \in U : f[x] \in Int
      /\ \A A \in SUBSET U : IsFiniteSet(A) /\ Cardinality(A) \in Nat
  <2>1. IsFiniteSet(U) /\ \A x \in U : f[x] \in Int
    BY DEF Numbers
  <2> QED
    BY <2>1, FS_Subset, FS_CardinalityType
<1>1. S({}) = 0 /\ \A x \in U : S({x}) = f[x]
  <2>1. S({}) = 0
    BY SumOfNone
  <2>2. ASSUME NEW x \in U PROVE S({x}) = f[x]
    <3>1. Chosen({x}) = x /\ {x} # {}
      BY DEF Chosen
    <3>2. IsFiniteSet({x})
      BY <1>0
    <3>3. S({x}) = f[x] + S({x} \ {x})
      BY <3>1, <3>2, SumTakes
    <3>4. {x} \ {x} = {}
      OBVIOUS
    <3> HIDE DEF S
    <3> QED
      BY <1>0, <2>1, <3>3, <3>4
  <2> QED
    BY <2>1, <2>2
<1>2. 0 \in T
  <2>1. \A A \in SUBSET U : Cardinality(A) = 0 => A = {}
    BY <1>0, FS_EmptySet
  <2> HIDE DEF S
  <2>2. Good({})
    <3>1. \A x \in U : {} \cup {x} = {x}
      OBVIOUS
    <3> QED
      BY <1>0, <1>1, <3>1
  <2>3. 0 \in 0..n
    BY <1>0
  <2> HIDE DEF Good, n
  <2> QED
    BY <2>1, <2>2, <2>3
<1>3. ASSUME NEW k \in 1..n, k - 1 \in T PROVE k \in T
  <2>1. \A A \in SUBSET U : Cardinality(A) = k - 1 => Good(A)
    <3> HIDE DEF Good
    <3> QED
      BY <1>3
  <2>2. ASSUME NEW A \in SUBSET U, Cardinality(A) = k PROVE Good(A)
    <3>1. A # {} /\ IsFiniteSet(A)
      <4>1. Cardinality({}) = 0 /\ k # 0
        BY <1>0, FS_EmptySet
      <4> QED
        BY <1>0, <2>2, <4>1
    <3>2. ASSUME NEW a \in A PROVE Good(A \ {a}) /\ S(A) = S(A \ {a}) + f[a]
      <4>1. Cardinality(A \ {a}) = k - 1 /\ A \ {a} \in SUBSET U
        BY <2>2, <3>1, FS_RemoveElement
      <4>2. Good(A \ {a})
        <5> HIDE DEF Good
        <5> QED
          BY <2>1, <4>1
      <4>3. a \in U \ (A \ {a}) /\ (A \ {a}) \cup {a} = A
        OBVIOUS
      <4> HIDE DEF S
      <4> QED
        BY <4>2, <4>3
    <3>3. PICK a \in A : TRUE
      BY <3>1
    <3>4. S(A) \in Int
      <4>1. S(A \ {a}) \in Int /\ f[a] \in Int /\ S(A) = S(A \ {a}) + f[a]
        BY <1>0, <3>2
      <4> HIDE DEF S
      <4> QED
        BY <4>1
    <3>5. ASSUME NEW x \in U \ A PROVE S(A \cup {x}) = S(A) + f[x]
      <4> DEFINE B == A \cup {x}
                 z == Chosen(B)
      <4>1. IsFiniteSet(B) /\ B # {}
        BY <3>1, FS_AddElement
      <4>2. z \in B
        BY DEF Chosen
      <4>3. S(B) = f[z] + S(B \ {z})
        BY <4>1, SumTakes
      <4> HIDE DEF z
      <4>4. CASE z = x
        <5>1. B \ {z} = A
          BY <4>4
        <5>2. f[x] \in Int /\ S(A) \in Int
          BY <1>0, <3>4
        <5>3. f[z] = f[x] /\ S(B \ {z}) = S(A)
          BY <4>4, <5>1
        <5> HIDE DEF S, B
        <5>4. S(B) = S(A) + f[x]
          BY <4>3, <5>2, <5>3
        <5> QED
          BY <5>4 DEF B
      <4>5. CASE z \in A
        <5> DEFINE C == A \ {z}
        <5>1. B \ {z} = C \cup {x} /\ x \in U \ C
          BY <4>5
        <5>2. Good(C) /\ S(A) = S(C) + f[z]
          BY <3>2, <4>5
        <5>3. S(C \cup {x}) = S(C) + f[x] /\ S(C) \in Int
          BY <5>1, <5>2
        <5>4. f[z] \in Int /\ f[x] \in Int
          BY <1>0, <4>5
        <5> HIDE DEF S, B, C
        <5>5. S(B) = S(A) + f[x]
          BY <4>3, <5>1, <5>2, <5>3, <5>4
        <5> QED
          BY <5>5 DEF B
      <4> QED
        BY <4>2, <4>4, <4>5
    <3> QED
      BY <3>4, <3>5
  <2>3. k \in 0..n
    BY <1>0
  <2> HIDE DEF Good, n
  <2> QED
    BY <2>2, <2>3
<1>4. n \in T
  <2>0. n \in Nat
    BY <1>0
  <2> HIDE DEF T, n
  <2>1. \A k \in 0..n : k \in T
    BY <1>2, <1>3, <2>0, CountUp
  <2> QED
    BY <2>0, <2>1
<1>5. Good(c)
  <2> HIDE DEF Good
  <2> QED
    BY <1>4
<1> QED
  BY <1>5

SumOf(f, U) == SumFunctionOnSet(f, U)

LEMMA SumSteps ==
  ASSUME NEW f, NEW U, Numbers(f, U)
  PROVE  /\ IsFiniteSet(U) /\ \A x \in U : f[x] \in Int
         /\ SumOf(f, {}) = 0 /\ SumOf(f, U) \in Int
         /\ \A A \in SUBSET U : SumOf(f, A) \in Int /\ Numbers(f, A)
         /\ \A A \in SUBSET U : \A x \in U \ A : SumOf(f, A \cup {x}) = SumOf(f, A) + f[x]
<1>1. IsFiniteSet(U) /\ \A x \in U : f[x] \in Int
  BY DEF Numbers
<1>2. SumOf(f, {}) = 0
  BY SumOfNone DEF SumOf
<1>3. ASSUME NEW A \in SUBSET U, NEW x \in U \ A
      PROVE  SumOf(f, A \cup {x}) = SumOf(f, A) + f[x] /\ SumOf(f, A) \in Int
  BY SumAdd DEF SumOf
<1>4. SumOf(f, U) \in Int
  <2>1. CASE U = {}
    BY <1>2, <2>1
  <2>2. CASE U # {}
    <3>1. PICK x \in U : TRUE
      BY <2>2
    <3> DEFINE A == U \ {x}
    <3>2. A \in SUBSET U /\ x \in U \ A /\ A \cup {x} = U
      OBVIOUS
    <3> HIDE DEF A
    <3>3. SumOf(f, A \cup {x}) = SumOf(f, A) + f[x] /\ SumOf(f, A) \in Int
      BY <1>3, <3>2
    <3>4. SumOf(f, A \cup {x}) \in Int
      <4>1. f[x] \in Int
        BY <1>1
      <4> QED
        BY <3>3, <4>1
    <3> QED
      BY <3>2, <3>4, Zenon
  <2> QED
    BY <2>1, <2>2
<1>5. ASSUME NEW A \in SUBSET U PROVE SumOf(f, A) \in Int /\ Numbers(f, A)
  <2>1. Numbers(f, A)
    BY <1>1, FS_Subset DEF Numbers
  <2>2. CASE A = U
    BY <1>4, <2>1, <2>2
  <2>3. CASE A # U
    <3>1. PICK x \in U \ A : TRUE
      BY <2>3
    <3> QED
      BY <1>3, <2>1, <3>1
  <2> QED
    BY <2>2, <2>3
<1> QED
  BY <1>1, <1>2, <1>3, <1>4, <1>5

LEMMA SumOfFunction ==
  ASSUME NEW f, NEW U, DOMAIN f = U
  PROVE  SumFunction(f) = SumOf(f, U)
  BY DEF SumFunction, SumOf

\* Three sums of which the third adds the first two.
LEMMA SumBoth ==
  ASSUME NEW U, NEW f, NEW g, NEW h, Numbers(f, U), Numbers(g, U),
         \A x \in U : h[x] = f[x] + g[x]
  PROVE  Numbers(h, U) /\ SumOf(h, U) = SumOf(f, U) + SumOf(g, U)
<1>1. /\ IsFiniteSet(U) /\ \A x \in U : f[x] \in Int /\ g[x] \in Int /\ h[x] \in Int
      /\ Numbers(h, U)
  BY SumSteps DEF Numbers
<1> DEFINE T == {A \in SUBSET U : SumOf(h, A) = SumOf(f, A) + SumOf(g, A)}
<1>2. {} \in T
  <2>1. SumOf(f, {}) = 0 /\ SumOf(g, {}) = 0 /\ SumOf(h, {}) = 0
    BY <1>1, SumSteps
  <2> QED
    BY <2>1
<1>3. ASSUME NEW A \in SUBSET U, NEW x \in U \ A, A \in T PROVE A \cup {x} \in T
  <2>1. SumOf(f, A \cup {x}) = SumOf(f, A) + f[x] /\ SumOf(f, A) \in Int
    BY SumSteps
  <2>2. SumOf(g, A \cup {x}) = SumOf(g, A) + g[x] /\ SumOf(g, A) \in Int
    BY SumSteps
  <2>3. SumOf(h, A \cup {x}) = SumOf(h, A) + h[x]
    BY <1>1, SumSteps
  <2>4. SumOf(h, A \cup {x}) = SumOf(f, A \cup {x}) + SumOf(g, A \cup {x})
    BY <1>1, <1>3, <2>1, <2>2, <2>3
  <2> QED
    BY <2>4
<1>4. \A A \in SUBSET U : A \in T
  <2> HIDE DEF T
  <2> QED
    BY <1>1, <1>2, <1>3, EverySubset
<1> QED
  BY <1>1, <1>4

LEMMA SumOfZeros ==
  ASSUME NEW U, IsFiniteSet(U), NEW f, \A x \in U : f[x] = 0
  PROVE  Numbers(f, U) /\ SumOf(f, U) = 0
<1>1. Numbers(f, U) /\ \A x \in U : f[x] = f[x] + f[x]
  BY DEF Numbers
<1>2. SumOf(f, U) = SumOf(f, U) + SumOf(f, U)
  BY <1>1, SumBoth
<1>3. SumOf(f, U) \in Int
  BY <1>1, SumSteps
<1>4. SumOf(f, U) = 0
  <2>1. \A s \in Int : s = s + s => s = 0
    OBVIOUS
  <2> QED
    BY <1>2, <1>3, <2>1, Zenon
<1> QED
  BY <1>1, <1>4

LEMMA SumSame ==
  ASSUME NEW U, NEW f, NEW g, Numbers(f, U), \A x \in U : g[x] = f[x]
  PROVE  Numbers(g, U) /\ SumOf(g, U) = SumOf(f, U)
<1> DEFINE z == [x \in U |-> 0]
<1>1. IsFiniteSet(U) /\ \A x \in U : f[x] \in Int
  BY SumSteps
<1>2. Numbers(z, U) /\ SumOf(z, U) = 0
  BY <1>1, SumOfZeros
<1>3. \A x \in U : g[x] = f[x] + z[x]
  BY <1>1
<1> HIDE DEF z
<1>4. Numbers(g, U) /\ SumOf(g, U) = SumOf(f, U) + SumOf(z, U)
  BY <1>2, <1>3, SumBoth
<1>5. SumOf(f, U) \in Int
  BY SumSteps
<1> QED
  BY <1>2, <1>4, <1>5

LEMMA SumOfNaturals ==
  ASSUME NEW U, IsFiniteSet(U), NEW f, \A x \in U : f[x] \in Nat
  PROVE  Numbers(f, U) /\ SumOf(f, U) \in Nat
<1>1. Numbers(f, U)
  BY DEF Numbers
<1> DEFINE T == {A \in SUBSET U : SumOf(f, A) \in Nat}
<1>2. {} \in T
  BY <1>1, SumSteps
<1>3. ASSUME NEW A \in SUBSET U, NEW x \in U \ A, A \in T PROVE A \cup {x} \in T
  <2>1. SumOf(f, A \cup {x}) = SumOf(f, A) + f[x]
    BY <1>1, SumSteps
  <2>2. SumOf(f, A \cup {x}) \in Nat
    BY <1>3, <2>1
  <2> QED
    BY <2>2
<1>4. \A A \in SUBSET U : A \in T
  <2> HIDE DEF T
  <2> QED
    BY <1>2, <1>3, EverySubset
<1> QED
  BY <1>1, <1>4

\* A sum is not less when no part of it is.
LEMMA SumNotLess ==
  ASSUME NEW U, NEW f, NEW g, Numbers(f, U), Numbers(g, U), \A x \in U : f[x] <= g[x]
  PROVE  SumOf(f, U) <= SumOf(g, U)
<1> DEFINE h == [x \in U |-> g[x] - f[x]]
<1>1. IsFiniteSet(U) /\ \A x \in U : f[x] \in Int /\ g[x] \in Int
  BY SumSteps
<1>2. (\A x \in U : h[x] \in Nat) /\ \A x \in U : g[x] = f[x] + h[x]
  BY <1>1
<1> HIDE DEF h
<1>3. Numbers(h, U) /\ SumOf(h, U) \in Nat
  BY <1>1, <1>2, SumOfNaturals
<1>4. SumOf(g, U) = SumOf(f, U) + SumOf(h, U)
  BY <1>2, <1>3, SumBoth
<1>5. SumOf(f, U) \in Int
  BY SumSteps
<1> QED
  BY <1>3, <1>4, <1>5

LEMMA Distribute ==
  ASSUME NEW c \in Int, NEW a \in Int, NEW b \in Int
  PROVE  c * (a + b) = c * a + c * b /\ c * a \in Int
  OBVIOUS

LEMMA SumTimes ==
  ASSUME NEW U, NEW f, NEW h, Numbers(f, U), NEW c \in Int, \A x \in U : h[x] = c * f[x]
  PROVE  Numbers(h, U) /\ SumOf(h, U) = c * SumOf(f, U)
<1>1. IsFiniteSet(U) /\ \A x \in U : f[x] \in Int
  BY SumSteps
<1>2. Numbers(h, U)
  BY <1>1, Distribute DEF Numbers
<1> DEFINE T == {A \in SUBSET U : SumOf(h, A) = c * SumOf(f, A)}
<1>3. {} \in T
  <2>1. SumOf(f, {}) = 0 /\ SumOf(h, {}) = 0
    BY <1>2, SumSteps
  <2> QED
    BY <2>1
<1>4. ASSUME NEW A \in SUBSET U, NEW x \in U \ A, A \in T PROVE A \cup {x} \in T
  <2>1. SumOf(f, A \cup {x}) = SumOf(f, A) + f[x] /\ SumOf(f, A) \in Int /\ f[x] \in Int
    BY SumSteps
  <2>2. SumOf(h, A \cup {x}) = SumOf(h, A) + h[x]
    BY <1>2, SumSteps
  <2>3. c * (SumOf(f, A) + f[x]) = c * SumOf(f, A) + c * f[x]
    BY <2>1, Distribute
  <2>4. SumOf(h, A \cup {x}) = c * SumOf(f, A \cup {x})
    BY <1>4, <2>1, <2>2, <2>3
  <2> QED
    BY <2>4
<1>5. \A A \in SUBSET U : A \in T
  <2> HIDE DEF T
  <2> QED
    BY <1>1, <1>3, <1>4, EverySubset
<1> QED
  BY <1>2, <1>5

\* A sum over two sets that are apart.
LEMMA SumSplit ==
  ASSUME NEW U, NEW f, Numbers(f, U), NEW A \in SUBSET U, NEW B \in SUBSET U,
         A \cap B = {}, A \cup B = U
  PROVE  SumOf(f, U) = SumOf(f, A) + SumOf(f, B)
<1>1. IsFiniteSet(U) /\ IsFiniteSet(B) /\ SumOf(f, A) \in Int /\ SumOf(f, {}) = 0
      /\ \A x \in U : f[x] \in Int
  BY SumSteps, FS_Subset
<1> DEFINE T == {C \in SUBSET B : SumOf(f, A \cup C) = SumOf(f, A) + SumOf(f, C)}
<1>2. {} \in T
  <2>1. A \cup {} = A
    OBVIOUS
  <2>2. SumOf(f, A \cup {}) = SumOf(f, A) + SumOf(f, {})
    BY <1>1, <2>1
  <2> QED
    BY <2>2
<1>3. ASSUME NEW C \in SUBSET B, NEW x \in B \ C, C \in T PROVE C \cup {x} \in T
  <2> DEFINE D == A \cup C
  <2>1. C \in SUBSET U /\ D \in SUBSET U /\ x \in U \ C /\ x \in U \ D /\ A \cup (C \cup {x}) = D \cup {x}
    OBVIOUS
  <2> HIDE DEF D
  <2>2. SumOf(f, C \cup {x}) = SumOf(f, C) + f[x] /\ SumOf(f, C) \in Int
    BY <2>1, SumSteps
  <2>3. SumOf(f, D \cup {x}) = SumOf(f, D) + f[x]
    BY <2>1, SumSteps
  <2>4. SumOf(f, D) = SumOf(f, A) + SumOf(f, C)
    BY <1>3 DEF D
  <2>5. SumOf(f, D \cup {x}) = SumOf(f, A) + SumOf(f, C \cup {x})
    <3>1. f[x] \in Int /\ SumOf(f, A) \in Int
      BY <1>1, <2>1
    <3> QED
      BY <2>2, <2>3, <2>4, <3>1
  <2>6. SumOf(f, A \cup (C \cup {x})) = SumOf(f, A) + SumOf(f, C \cup {x})
    BY <2>1, <2>5, Zenon
  <2> QED
    BY <2>6
<1>4. \A C \in SUBSET B : C \in T
  <2> HIDE DEF T
  <2> QED
    BY <1>1, <1>2, <1>3, EverySubset
<1> QED
  BY <1>4

LEMMA SumOfOne ==
  ASSUME NEW U, IsFiniteSet(U), NEW f, NEW y \in U, f[y] \in Int, \A x \in U \ {y} : f[x] = 0
  PROVE  Numbers(f, U) /\ SumOf(f, U) = f[y]
<1>1. Numbers(f, U)
  BY DEF Numbers
<1> DEFINE A == U \ {y}
<1>2. IsFiniteSet(A)
  BY FS_Subset
<1>3. SumOf(f, A) = 0
  BY <1>2, SumOfZeros
<1>4. A \in SUBSET U /\ y \in U \ A /\ A \cup {y} = U
  OBVIOUS
<1> HIDE DEF A
<1>5. SumOf(f, A \cup {y}) = SumOf(f, A) + f[y]
  BY <1>1, <1>4, SumSteps
<1> QED
  BY <1>1, <1>3, <1>4, <1>5

\* A sum over other names of the same things.
LEMMA SumRenamed ==
  ASSUME NEW U, IsFiniteSet(U), NEW e, \A x, y \in U : e[x] = e[y] => x = y,
         NEW f, NEW g, Numbers(f, {e[x] : x \in U}), \A x \in U : g[x] = f[e[x]]
  PROVE  Numbers(g, U) /\ SumOf(g, U) = SumOf(f, {e[x] : x \in U})
<1> DEFINE To(A) == {e[x] : x \in A}
           V == {e[x] : x \in U}
           T == {A \in SUBSET U : SumOf(g, A) = SumOf(f, To(A))}
<1>0. V = To(U) /\ Numbers(f, V)
  OBVIOUS
<1>1. \A y \in V : f[y] \in Int
  BY <1>0, SumSteps
<1>2. Numbers(g, U)
  BY <1>1 DEF Numbers
<1>3. {} \in T
  <2>1. To({}) = {}
    OBVIOUS
  <2>2. SumOf(g, {}) = SumOf(f, To({}))
    BY <1>0, <1>2, <2>1, SumSteps
  <2> QED
    BY <2>2
<1>4. ASSUME NEW A \in SUBSET U, NEW x \in U \ A, A \in T PROVE A \cup {x} \in T
  <2>1. To(A) \in SUBSET V /\ e[x] \in V \ To(A) /\ To(A \cup {x}) = To(A) \cup {e[x]}
    OBVIOUS
  <2>2. SumOf(g, A \cup {x}) = SumOf(g, A) + g[x]
    BY <1>2, SumSteps
  <2>3. SumOf(g, A) = SumOf(f, To(A))
    BY <1>4
  <2> HIDE DEF To, V
  <2>4. SumOf(f, To(A) \cup {e[x]}) = SumOf(f, To(A)) + f[e[x]]
    BY <1>0, <2>1, SumSteps
  <2>5. SumOf(g, A \cup {x}) = SumOf(f, To(A \cup {x}))
    BY <2>1, <2>2, <2>3, <2>4
  <2> QED
    BY <2>5
<1>5. \A A \in SUBSET U : A \in T
  <2> HIDE DEF T
  <2> QED
    BY <1>3, <1>4, EverySubset
<1>6. SumOf(g, U) = SumOf(f, To(U))
  <2> HIDE DEF To
  <2> QED
    BY <1>5
<1> QED
  BY <1>2, <1>6

LEMMA SumOnto ==
  ASSUME NEW U, IsFiniteSet(U), NEW e, \A x, y \in U : e[x] = e[y] => x = y,
         NEW T, \A y : y \in T <=> \E x \in U : y = e[x],
         NEW f, NEW g, Numbers(f, T), \A x \in U : g[x] = f[e[x]]
  PROVE  Numbers(g, U) /\ SumOf(g, U) = SumOf(f, T)
<1>1. T = {e[x] : x \in U}
  OBVIOUS
<1>2. Numbers(f, {e[x] : x \in U})
  BY <1>1, Zenon
<1>3. Numbers(g, U) /\ SumOf(g, U) = SumOf(f, {e[x] : x \in U})
  BY <1>2, SumRenamed
<1> QED
  BY <1>1, <1>3, Zenon

\* A sum over a family of sets that are apart.
LEMMA SumFamily ==
  ASSUME NEW I, IsFiniteSet(I), NEW S, NEW f, NEW g,
         Numbers(f, UNION {S[i] : i \in I}),
         \A i, j \in I : i # j => S[i] \cap S[j] = {},
         \A i \in I : g[i] = SumOf(f, S[i])
  PROVE  Numbers(g, I) /\ SumOf(f, UNION {S[i] : i \in I}) = SumOf(g, I)
<1> DEFINE All(J) == UNION {S[i] : i \in J}
           U == UNION {S[i] : i \in I}
           T == {J \in SUBSET I : SumOf(f, All(J)) = SumOf(g, J)}
<1>0. U = All(I) /\ Numbers(f, U) /\ \A i \in I : S[i] \in SUBSET U
  OBVIOUS
<1>1. \A i \in I : g[i] \in Int
  <2> HIDE DEF U
  <2> QED
    BY <1>0, SumSteps
<1>2. Numbers(g, I)
  BY <1>1 DEF Numbers
<1>3. {} \in T
  <2>1. All({}) = {}
    OBVIOUS
  <2>2. SumOf(f, {}) = 0 /\ SumOf(g, {}) = 0
    BY <1>0, <1>2, SumSteps
  <2>3. SumOf(f, All({})) = SumOf(g, {})
    BY <2>1, <2>2
  <2> QED
    BY <2>3
<1>4. ASSUME NEW J \in SUBSET I, NEW x \in I \ J, J \in T PROVE J \cup {x} \in T
  <2>1. All(J \cup {x}) = All(J) \cup S[x] /\ All(J \cup {x}) \in SUBSET U
    OBVIOUS
  <2>2. All(J) \cap S[x] = {}
    <3> SUFFICES ASSUME NEW y \in All(J), y \in S[x] PROVE FALSE
      OBVIOUS
    <3>1. PICK i \in J : y \in S[i]
      OBVIOUS
    <3> QED
      BY <3>1
  <2>3. SumOf(f, All(J)) = SumOf(g, J)
    BY <1>4
  <2> DEFINE W == All(J \cup {x})
             A == All(J)
             B == S[x]
  <2>4. A \in SUBSET W /\ B \in SUBSET W /\ A \cap B = {} /\ A \cup B = W /\ W \in SUBSET U
    BY <2>1, <2>2
  <2> HIDE DEF All, U, W, A, B
  <2>5. Numbers(f, W)
    BY <1>0, <2>4, SumSteps
  <2>6. SumOf(f, W) = SumOf(f, A) + SumOf(f, B)
    BY <2>4, <2>5, SumSplit
  <2>7. SumOf(g, J \cup {x}) = SumOf(g, J) + g[x]
    BY <1>2, SumSteps
  <2>8. g[x] = SumOf(f, B)
    BY DEF B
  <2>9. SumOf(f, All(J \cup {x})) = SumOf(g, J \cup {x})
    BY <2>3, <2>6, <2>7, <2>8 DEF W, A
  <2> QED
    BY <2>9
<1>5. \A J \in SUBSET I : J \in T
  <2> HIDE DEF T
  <2> QED
    BY <1>3, <1>4, EverySubset
<1>6. SumOf(f, All(I)) = SumOf(g, I)
  <2> HIDE DEF All
  <2> QED
    BY <1>5
<1> QED
  BY <1>2, <1>6

-----------------------------------------------------------------------------
(* What a recharge pays.                                                   *)

LEMMA TotalSum ==
  ASSUME NEW outs
  PROVE  Total(outs) = SumOf([k \in DOMAIN outs |-> outs[k].value], DOMAIN outs)
<1> DEFINE f == [k \in DOMAIN outs |-> outs[k].value]
           U == DOMAIN outs
<1>1. DOMAIN f = U /\ Total(outs) = SumFunction(f)
  BY DEF Total
<1> HIDE DEF f, U
<1>2. Total(outs) = SumOf(f, U)
  BY <1>1, SumOfFunction
<1> QED
  BY <1>2 DEF f, U

LEMMA FiniteDomain ==
  ASSUME NEW q, q \in Seq(Range(q))
  PROVE  IsFiniteSet(DOMAIN q)
<1> DEFINE n == Len(q)
<1>1. n \in Nat /\ DOMAIN q = 1..n
  OBVIOUS
<1> HIDE DEF n
<1> QED
  BY <1>1, FS_Interval

Left(t, k, i) ==
  IF t.main.deposits[i].owner = t.outs[k].owner
    THEN ExchangeRate * t.main.deposits[i].value - t.outs[k].value ELSE 0

LeftAt(t, k) == SumFunction([i \in DOMAIN t.main.deposits |-> Left(t, k, i)])

LEMMA RechargeParts ==
  ASSUME NEW t \in Txs, t.type = "recharge"
  PROVE  /\ IsFiniteSet(DOMAIN t.outs) /\ IsFiniteSet(DOMAIN t.main.deposits)
         /\ ExchangeRate \in Int
         /\ \A i \in DOMAIN t.main.deposits :
              /\ t.main.deposits[i].value \in Int /\ t.main.deposits[i].amount \in Int
              /\ ExchangeRate * t.main.deposits[i].value \in Int
              /\ t.main.deposits[i].amount * ExchangeRate \in Int
         /\ \A k \in DOMAIN t.outs : t.outs[k].value \in Int
         /\ \A k \in DOMAIN t.outs : \A i \in DOMAIN t.main.deposits : Left(t, k, i) \in Int
<1>1. IsFiniteSet(DOMAIN t.outs)
  BY TxAssumption, FiniteDomain
<1>2. t.main.deposits \in Seq(Range(t.main.deposits))
  BY DepositAssumption
<1>3. IsFiniteSet(DOMAIN t.main.deposits)
  BY <1>2, FiniteDomain
<1>4. \A p \in Range(t.main.deposits) : p.value \in Int /\ p.amount \in Int
  BY DepositAssumption
<1>5. ExchangeRate \in Int /\ \A k \in DOMAIN t.outs : t.outs[k].value \in Int
  BY LedgerAssumption
<1>6. ASSUME NEW i \in DOMAIN t.main.deposits
      PROVE  /\ t.main.deposits[i].value \in Int /\ t.main.deposits[i].amount \in Int
             /\ ExchangeRate * t.main.deposits[i].value \in Int
             /\ t.main.deposits[i].amount * ExchangeRate \in Int
  <2>1. t.main.deposits[i].value \in Int /\ t.main.deposits[i].amount \in Int
    BY <1>4 DEF Range
  <2> QED
    BY <1>5, <2>1, Distribute
<1>7. \A k \in DOMAIN t.outs : \A i \in DOMAIN t.main.deposits : Left(t, k, i) \in Int
  BY <1>5, <1>6 DEF Left
<1> QED
  BY <1>1, <1>3, <1>5, <1>6, <1>7

LEMMA RechargeFeeSum ==
  ASSUME NEW t \in Txs, t.type = "recharge"
  PROVE  /\ RechargeFee(t) = SumOf([k \in DOMAIN t.outs |-> LeftAt(t, k)], DOMAIN t.outs)
         /\ \A k \in DOMAIN t.outs : LeftAt(t, k) \in Int
         /\ RechargeFee(t) \in Int
<1> DEFINE O == DOMAIN t.outs
           D == DOMAIN t.main.deposits
           f == [k \in O |-> LeftAt(t, k)]
<1>1. IsFiniteSet(O) /\ IsFiniteSet(D) /\ \A k \in O : \A i \in D : Left(t, k, i) \in Int
  BY RechargeParts
<1>2. ASSUME NEW k \in O PROVE LeftAt(t, k) \in Int
  <2> DEFINE g == [i \in D |-> Left(t, k, i)]
  <2>1. Numbers(g, D) /\ DOMAIN g = D /\ LeftAt(t, k) = SumFunction(g)
    BY <1>1 DEF Numbers, LeftAt
  <2> HIDE DEF g, D
  <2>2. SumFunction(g) = SumOf(g, D) /\ SumOf(g, D) \in Int
    BY <2>1, SumOfFunction, SumSteps
  <2> QED
    BY <2>1, <2>2
<1>3. RechargeFee(t) = SumFunction(f)
  BY DEF RechargeFee, LeftAt, Left
<1>4. DOMAIN f = O /\ Numbers(f, O)
  BY <1>1, <1>2 DEF Numbers
<1> HIDE DEF f, O
<1>5. SumFunction(f) = SumOf(f, O) /\ SumOf(f, O) \in Int
  BY <1>4, SumOfFunction, SumSteps
<1> QED
  BY <1>2, <1>3, <1>5 DEF f, O

\* The output of a deposit.
LEMMA DepositPaid ==
  ASSUME NEW t \in Txs, t.type = "recharge", NEW d, CheckRechargeToSideChainTransaction(d, t),
         NEW i \in DOMAIN t.main.deposits
  PROVE  \E k \in DOMAIN t.outs :
           /\ t.outs[k].owner = t.main.deposits[i].owner
           /\ t.outs[k].value = t.main.deposits[i].amount * ExchangeRate
<1>1. PICK o \in Range(t.outs) :
             o.owner = t.main.deposits[i].owner
             /\ o.value = t.main.deposits[i].amount * ExchangeRate
  BY DEF CheckRechargeToSideChainTransaction
<1> QED
  BY <1>1 DEF Range

\* What is left of the deposits is the fee of a recharge.
LEMMA RechargeBalances ==
  ASSUME NEW t \in Txs, t.type = "recharge", NEW d, CheckRechargeToSideChainTransaction(d, t),
         PaysOnce(t)
  PROVE  /\ Total(t.outs) \in Int /\ Total(t.main.deposits) \in Int
         /\ RechargeFee(t) + Total(t.outs) = ExchangeRate * Total(t.main.deposits)
<1> DEFINE r == ExchangeRate
           O == DOMAIN t.outs
           D == DOMAIN t.main.deposits
           v == [i \in D |-> t.main.deposits[i].value]
           a == [i \in D |-> t.main.deposits[i].amount * r]
           rv == [i \in D |-> r * t.main.deposits[i].value]
           f == [k \in O |-> LeftAt(t, k)]
           Pays(i, k) == /\ t.outs[k].owner = t.main.deposits[i].owner
                         /\ t.outs[k].value = t.main.deposits[i].amount * r
           e == [i \in D |-> CHOOSE k \in O : Pays(i, k)]
           g == [i \in D |-> f[e[i]]]
           E == {e[i] : i \in D}
<1>1. /\ IsFiniteSet(O) /\ IsFiniteSet(D) /\ r \in Int
      /\ \A i \in D : /\ t.main.deposits[i].value \in Int /\ r * t.main.deposits[i].value \in Int
                      /\ t.main.deposits[i].amount * r \in Int
      /\ \A k \in O : t.outs[k].value \in Int
      /\ \A k \in O : \A i \in D : Left(t, k, i) \in Int
  BY RechargeParts
<1>2. ASSUME NEW i \in D PROVE e[i] \in O /\ Pays(i, e[i])
  <2>1. \E k \in O : Pays(i, k)
    BY DepositPaid
  <2> HIDE DEF Pays
  <2> QED
    BY <2>1
<1>3. \A i, j \in D : e[i] = e[j] => i = j
  <2>1. \A i, j \in D : t.main.deposits[i].owner = t.main.deposits[j].owner => i = j
    BY DEF PaysOnce
  <2> HIDE DEF e
  <2> QED
    BY <1>2, <2>1
<1>4. ASSUME NEW i \in D PROVE LeftAt(t, e[i]) = rv[i] - a[i]
  <2> DEFINE k == e[i]
             l == [j \in D |-> Left(t, k, j)]
  <2>1. k \in O /\ t.outs[k].owner = t.main.deposits[i].owner /\ t.outs[k].value = a[i]
    BY <1>2
  <2> HIDE DEF k
  <2>2. \A j \in D \ {i} : t.outs[k].owner # t.main.deposits[j].owner
    BY <2>1 DEF PaysOnce
  <2>3. \A j \in D \ {i} : l[j] = 0
    BY <2>2 DEF Left
  <2>4. l[i] = rv[i] - a[i] /\ l[i] \in Int
    BY <1>1, <2>1 DEF Left
  <2>5. LeftAt(t, k) = SumFunction(l) /\ DOMAIN l = D
    BY DEF LeftAt
  <2> HIDE DEF l
  <2>6. SumOf(l, D) = l[i]
    BY <1>1, <2>3, <2>4, SumOfOne
  <2>7. SumFunction(l) = SumOf(l, D)
    BY <2>5, SumOfFunction
  <2> QED
    BY <2>4, <2>5, <2>6, <2>7 DEF k
<1>5. ASSUME NEW k \in O \ E PROVE f[k] = 0
  <2> DEFINE l == [j \in D |-> Left(t, k, j)]
  <2>1. \A j \in D : t.outs[k].owner # t.main.deposits[j].owner
    <3> SUFFICES ASSUME NEW j \in D, t.outs[k].owner = t.main.deposits[j].owner PROVE FALSE
      OBVIOUS
    <3>1. e[j] \in O /\ t.outs[e[j]].owner = t.main.deposits[j].owner /\ e[j] \in E
      BY <1>2
    <3>2. e[j] = k
      BY <3>1 DEF PaysOnce
    <3> QED
      BY <3>1, <3>2
  <2>2. \A j \in D : l[j] = 0
    BY <2>1 DEF Left
  <2>3. LeftAt(t, k) = SumFunction(l) /\ DOMAIN l = D
    BY DEF LeftAt
  <2> HIDE DEF l
  <2>4. SumOf(l, D) = 0 /\ SumFunction(l) = SumOf(l, D)
    BY <1>1, <2>2, <2>3, SumOfZeros, SumOfFunction
  <2> QED
    BY <2>3, <2>4
<1>6. RechargeFee(t) = SumOf(f, O) /\ (\A k \in O : f[k] \in Int) /\ Numbers(f, O)
  <2>1. RechargeFee(t) = SumOf(f, O) /\ \A k \in O : f[k] \in Int
    BY RechargeFeeSum
  <2> QED
    BY <1>1, <2>1 DEF Numbers
<1>7. E \in SUBSET O
  BY <1>2
<1>8. /\ \A i \in D : g[i] = f[e[i]]
      /\ \A i \in D : rv[i] = g[i] + a[i]
  <2>1. ASSUME NEW i \in D PROVE g[i] = f[e[i]] /\ rv[i] = g[i] + a[i]
    <3>1. g[i] = f[e[i]] /\ f[e[i]] = LeftAt(t, e[i])
      BY <1>2
    <3>2. rv[i] \in Int /\ a[i] \in Int
      BY <1>1
    <3> HIDE DEF g, f, e, rv, a
    <3>3. g[i] = rv[i] - a[i]
      BY <1>4, <3>1
    <3> QED
      BY <3>1, <3>2, <3>3
  <2> HIDE DEF g, f, e, rv, a
  <2> QED
    BY <2>1
<1>9. (\A i \in D : rv[i] = r * v[i]) /\ Numbers(v, D) /\ Numbers(a, D)
  BY <1>1 DEF Numbers
<1>10. Total(t.outs) = SumOf(a, D) /\ Total(t.main.deposits) = SumOf(v, D)
  <2>1. Total(t.outs) = SumFunction(a) /\ DOMAIN a = D
    BY DEF CheckRechargeToSideChainTransaction
  <2>2. Total(t.main.deposits) = SumOf(v, D)
    BY TotalSum
  <2> HIDE DEF a, v, D
  <2> QED
    BY <2>1, <2>2, SumOfFunction
<1> HIDE DEF r, O, D, v, a, rv, f, Pays, e, g
<1>11. SumOf(f, O) = SumOf(f, E)
  <2> DEFINE Z == O \ E
  <2>1. Z \in SUBSET O /\ E \cap Z = {} /\ E \cup Z = O /\ \A k \in Z : f[k] = 0
    BY <1>5, <1>7
  <2>2. IsFiniteSet(Z)
    BY <1>1, <2>1, FS_Subset
  <2> HIDE DEF Z, E
  <2>3. SumOf(f, Z) = 0
    BY <2>1, <2>2, SumOfZeros
  <2>4. SumOf(f, O) = SumOf(f, E) + SumOf(f, Z) /\ SumOf(f, E) \in Int
    BY <1>6, <1>7, <2>1, SumSplit, SumSteps
  <2> QED
    BY <2>3, <2>4
<1>12. SumOf(g, D) = SumOf(f, E) /\ Numbers(g, D)
  <2>1. Numbers(f, E)
    BY <1>6, <1>7, SumSteps
  <2> QED
    BY <1>1, <1>3, <1>8, <2>1, SumRenamed
<1> HIDE DEF E
<1>13. SumOf(rv, D) = SumOf(g, D) + SumOf(a, D)
  BY <1>8, <1>9, <1>12, SumBoth
<1>14. SumOf(rv, D) = r * SumOf(v, D)
  BY <1>1, <1>9, SumTimes
<1>15. SumOf(v, D) \in Int /\ SumOf(a, D) \in Int
  BY <1>9, SumSteps
<1> QED
  BY <1>6, <1>10, <1>11, <1>12, <1>13, <1>14, <1>15 DEF r

-----------------------------------------------------------------------------
(* The reward of a block.                                                  *)

Values(t) == \A k \in DOMAIN t.outs : t.outs[k].value \in Nat

SameRecharge(t, u) == t.type = "recharge" /\ u.type = "recharge" /\ t.main.id = u.main.id

\* Block n as it was received.
Minted(n, b) ==
  /\ n \in 1..Len(CoinbaseIds) /\ 1 \in DOMAIN b.txs
  /\ b.txs[1].id = CoinbaseIds[n] /\ b.txs[1].type = "coinbase" /\ Values(b.txs[1])
  /\ \A k \in DOMAIN b.txs : k # 1 => b.txs[k] \in Txs
  /\ \A j, k \in DOMAIN b.txs : SameRecharge(b.txs[j], b.txs[k]) => j = k

\* The transactions of the blocks bs, and those that may come.
SeenTxs(bs) == Txs \cup {bs[n].txs[1] : n \in DOMAIN bs}

SeenOK(bs) ==
  /\ \A t, u \in SeenTxs(bs) : t.id = u.id => t = u
  /\ \A t \in SeenTxs(bs) : Values(t)

\* A store with transactions of the blocks bs, and with the asset.
OfSeen(d, bs) ==
  \A id \in DOMAIN d.txs :
    d.txs[id].tx.outs # << >> => d.txs[id].tx \in SeenTxs(bs) /\ d.txs[id].tx.id = id

\* The reward of a block was compared with its fees on some chain of such blocks.
Rewarded(bs, b) == \E d : OfSeen(d, bs) /\ RewardMatchesFees(d, b)

LEMMA SeenHas ==
  ASSUME NEW bs, NEW t
  PROVE  t \in SeenTxs(bs) <=> t \in Txs \/ \E n \in DOMAIN bs : t = bs[n].txs[1]
BY DEF SeenTxs

LEMMA MintedSeen ==
  ASSUME NEW bs, \A n \in DOMAIN bs : Minted(n, bs[n])
  PROVE  SeenOK(bs)
<1>1. ASSUME NEW n \in DOMAIN bs
      PROVE  /\ bs[n].txs[1].id = CoinbaseIds[n] /\ n \in DOMAIN CoinbaseIds
             /\ CoinbaseIds[n] \in Range(CoinbaseIds) /\ Values(bs[n].txs[1])
  <2>1. Minted(n, bs[n])
    OBVIOUS
  <2>2. DOMAIN CoinbaseIds = 1..Len(CoinbaseIds)
    BY TxAssumption
  <2> QED
    BY <2>1, <2>2 DEF Minted, Range
<1>2. \A m, n \in DOMAIN CoinbaseIds : CoinbaseIds[m] = CoinbaseIds[n] => m = n
  BY LedgerAssumption DEF IsInjective
<1>3. \A t \in Txs : t.id \notin Range(CoinbaseIds) /\ Values(t)
  BY LedgerAssumption DEF Values
<1>4. ASSUME NEW t \in SeenTxs(bs), NEW u \in SeenTxs(bs), t.id = u.id PROVE t = u
  <2>1. CASE t \in Txs /\ u \in Txs
    BY <1>4, <2>1, LedgerAssumption
  <2>2. CASE t \in Txs /\ u \notin Txs
    <3>1. PICK n \in DOMAIN bs : u = bs[n].txs[1]
      BY <2>2, SeenHas
    <3> QED
      BY <1>1, <1>3, <1>4, <2>2, <3>1
  <2>3. CASE t \notin Txs /\ u \in Txs
    <3>1. PICK n \in DOMAIN bs : t = bs[n].txs[1]
      BY <2>3, SeenHas
    <3> QED
      BY <1>1, <1>3, <1>4, <2>3, <3>1
  <2>4. CASE t \notin Txs /\ u \notin Txs
    <3>1. PICK n \in DOMAIN bs : u = bs[n].txs[1]
      BY <2>4, SeenHas
    <3>2. PICK m \in DOMAIN bs : t = bs[m].txs[1]
      BY <2>4, SeenHas
    <3>3. m = n
      BY <1>1, <1>2, <1>4, <3>1, <3>2
    <3> QED
      BY <3>1, <3>2, <3>3
  <2> QED
    BY <2>1, <2>2, <2>3, <2>4
<1>5. \A t \in SeenTxs(bs) : Values(t)
  BY <1>1, <1>3, SeenHas
<1> QED
  BY <1>4, <1>5 DEF SeenOK

\* What a store says of an output that is there.
LEMMA OutputSeen ==
  ASSUME NEW bs, SeenOK(bs), NEW d, OfSeen(d, bs), NEW in, in.tx \in DOMAIN d.txs,
         in.index \in DOMAIN d.txs[in.tx].tx.outs
  PROVE  /\ d.txs[in.tx].tx \in SeenTxs(bs) /\ d.txs[in.tx].tx.id = in.tx
         /\ Output(d, in).value \in Nat
<1>1. d.txs[in.tx].tx.outs # << >>
  OBVIOUS
<1>2. d.txs[in.tx].tx \in SeenTxs(bs) /\ d.txs[in.tx].tx.id = in.tx
  BY <1>1 DEF OfSeen
<1>3. Values(d.txs[in.tx].tx)
  BY <1>2 DEF SeenOK
<1> QED
  BY <1>2, <1>3 DEF Values, Output

LEMMA OutputAgrees ==
  ASSUME NEW bs, SeenOK(bs), NEW d, OfSeen(d, bs), NEW c, OfSeen(c, bs), NEW in,
         in.tx \in DOMAIN d.txs, in.index \in DOMAIN d.txs[in.tx].tx.outs,
         in.tx \in DOMAIN c.txs, in.index \in DOMAIN c.txs[in.tx].tx.outs
  PROVE  Output(d, in) = Output(c, in)
<1>1. d.txs[in.tx].tx \in SeenTxs(bs) /\ d.txs[in.tx].tx.id = in.tx
  BY OutputSeen
<1>2. c.txs[in.tx].tx \in SeenTxs(bs) /\ c.txs[in.tx].tx.id = in.tx
  BY OutputSeen
<1>3. d.txs[in.tx].tx = c.txs[in.tx].tx
  BY <1>1, <1>2 DEF SeenOK
<1> QED
  BY <1>3 DEF Output

LEMMA TotalOfNaturals ==
  ASSUME NEW outs, IsFiniteSet(DOMAIN outs), \A k \in DOMAIN outs : outs[k].value \in Nat
  PROVE  Total(outs) \in Nat
<1> DEFINE f == [k \in DOMAIN outs |-> outs[k].value]
           U == DOMAIN outs
<1>1. IsFiniteSet(U) /\ (\A k \in U : f[k] \in Nat) /\ Total(outs) = SumOf(f, U)
  BY TotalSum
<1> HIDE DEF f, U
<1> QED
  BY <1>1, SumOfNaturals

LEMMA FeeIsNumber ==
  ASSUME NEW bs, SeenOK(bs), NEW d, OfSeen(d, bs), NEW t \in Txs
  PROVE  /\ GetTxFee(d, t) \in Int /\ Total(t.outs) \in Nat
         /\ HasTxReference(d, t) => Total(References(d, t)) \in Nat
<1>1. IsFiniteSet(DOMAIN t.outs) /\ IsFiniteSet(DOMAIN t.ins)
  BY TxAssumption, FiniteDomain
<1>2. Total(t.outs) \in Nat
  <2>1. \A k \in DOMAIN t.outs : t.outs[k].value \in Nat
    BY LedgerAssumption
  <2> QED
    BY <1>1, <2>1, TotalOfNaturals
<1>3. ASSUME HasTxReference(d, t) PROVE Total(References(d, t)) \in Nat
  <2> DEFINE ref == References(d, t)
  <2>1. DOMAIN ref = DOMAIN t.ins /\ \A k \in DOMAIN t.ins : ref[k] = Output(d, t.ins[k])
    BY DEF References
  <2>2. ASSUME NEW k \in DOMAIN t.ins PROVE Output(d, t.ins[k]).value \in Nat
    <3>1. t.ins[k].tx \in DOMAIN d.txs /\ t.ins[k].index \in DOMAIN d.txs[t.ins[k].tx].tx.outs
      BY <1>3 DEF HasTxReference
    <3> QED
      BY <3>1, OutputSeen
  <2> HIDE DEF ref
  <2>3. Total(ref) \in Nat
    BY <1>1, <2>1, <2>2, TotalOfNaturals
  <2> QED
    BY <2>3 DEF ref
<1>4. CASE t.type = "recharge"
  <2>1. GetTxFee(d, t) = RechargeFee(t)
    BY <1>4 DEF GetTxFee
  <2> QED
    BY <1>2, <1>3, <1>4, <2>1, RechargeFeeSum
<1>5. CASE t.type # "recharge" /\ HasTxReference(d, t)
  <2>1. GetTxFee(d, t) = Total(References(d, t)) - Total(t.outs)
    BY <1>5 DEF GetTxFee
  <2> QED
    BY <1>2, <1>3, <1>5, <2>1
<1>6. CASE t.type # "recharge" /\ ~HasTxReference(d, t)
  <2>1. GetTxFee(d, t) = 0
    BY <1>6 DEF GetTxFee
  <2> QED
    BY <1>2, <1>3, <2>1
<1> QED
  BY <1>4, <1>5, <1>6

\* Whatever the chain was when the reward was checked, a transaction that passes
\* now pays at least the fee that it paid then.
LEMMA FeeNotLess ==
  ASSUME NEW bs, SeenOK(bs), NEW d, OfSeen(d, bs), NEW c, OfSeen(c, bs), NEW t \in Txs,
         NEW h, CheckTransactionContext(d, h, t)
  PROVE  GetTxFee(c, t) <= GetTxFee(d, t)
<1>1. GetTxFee(c, t) \in Int /\ GetTxFee(d, t) \in Int /\ t.type # "coinbase" /\ MinTxFee \in Nat
  BY FeeIsNumber, LedgerAssumption
<1>2. CASE t.type = "recharge"
  <2>1. GetTxFee(c, t) = GetTxFee(d, t)
    BY <1>2 DEF GetTxFee
  <2> QED
    BY <1>1, <2>1
<1>3. CASE t.type # "recharge"
  <2>1. HasTxReference(d, t) /\ GetTxFee(d, t) >= MinTxFee
    BY <1>1, <1>3 DEF CheckTransactionContext, VerifySignature, CheckTransactionBalance
  <2>2. CASE HasTxReference(c, t)
    <3>1. ASSUME NEW k \in DOMAIN t.ins PROVE Output(c, t.ins[k]) = Output(d, t.ins[k])
      <4>1. /\ t.ins[k].tx \in DOMAIN d.txs /\ t.ins[k].index \in DOMAIN d.txs[t.ins[k].tx].tx.outs
            /\ t.ins[k].tx \in DOMAIN c.txs /\ t.ins[k].index \in DOMAIN c.txs[t.ins[k].tx].tx.outs
        BY <2>1, <2>2 DEF HasTxReference
      <4> QED
        BY <4>1, OutputAgrees
    <3>2. References(c, t) = References(d, t)
      BY <3>1 DEF References
    <3>3. GetTxFee(c, t) = GetTxFee(d, t)
      BY <1>3, <2>1, <2>2, <3>2 DEF GetTxFee
    <3> QED
      BY <1>1, <3>3
  <2>3. CASE ~HasTxReference(c, t)
    <3>1. GetTxFee(c, t) = 0
      BY <1>3, <2>3 DEF GetTxFee
    <3> QED
      BY <1>1, <2>1, <3>1
  <2> QED
    BY <2>2, <2>3
<1> QED
  BY <1>2, <1>3

\* What a transaction brings from the main chain.
Deposit(t) == IF t.type = "recharge" THEN Brought(t) ELSE 0

LEMMA NothingReferred ==
  ASSUME NEW d, NEW t, t.ins = << >>
  PROVE  Total(References(d, t)) = 0
<1> DEFINE ref == References(d, t)
           f == [k \in DOMAIN ref |-> ref[k].value]
<1>1. DOMAIN ref = {}
  BY DEF References
<1>2. Total(ref) = SumOf(f, {})
  BY <1>1, TotalSum
<1> HIDE DEF ref, f
<1>3. SumOf(f, {}) = 0
  BY SumOfNone DEF SumOf
<1> QED
  BY <1>2, <1>3 DEF ref

\* A transaction that passes pays out no more than what comes in, less the fee.
LEMMA TxBalances ==
  ASSUME NEW bs, SeenOK(bs), NEW d, OfSeen(d, bs), NEW t \in Txs, NEW h,
         CheckTransactionContext(d, h, t), HasTxReference(d, t)
  PROVE  /\ Total(t.outs) \in Int /\ GetTxFee(d, t) \in Int
         /\ Total(References(d, t)) \in Int /\ Deposit(t) \in Int
         /\ Total(t.outs) + GetTxFee(d, t) <= Total(References(d, t)) + Deposit(t)
<1>1. /\ GetTxFee(d, t) \in Int /\ Total(t.outs) \in Int /\ t.type # "coinbase"
      /\ Total(References(d, t)) \in Nat
  BY FeeIsNumber, LedgerAssumption
<1>2. CASE t.type = "recharge"
  <2>1. GetTxFee(d, t) = RechargeFee(t) /\ Deposit(t) = Brought(t)
    BY <1>2 DEF GetTxFee, Deposit
  <2>2. CheckRechargeToSideChainTransaction(d, t)
    BY <1>1, <1>2 DEF CheckTransactionContext
  <2>3. Brought(t) = Total(t.outs) + RechargeFee(t)
    <3>1. CASE PaysOnce(t)
      <4>1. RechargeFee(t) + Total(t.outs) = ExchangeRate * Total(t.main.deposits)
        BY <1>2, <2>2, <3>1, RechargeBalances
      <4> QED
        BY <1>1, <2>1, <3>1, <4>1 DEF Brought
    <3>2. CASE ~PaysOnce(t)
      BY <3>2 DEF Brought
    <3> QED
      BY <3>1, <3>2
  <2> QED
    BY <1>1, <2>1, <2>3
<1>3. CASE t.type # "recharge"
  <2>1. GetTxFee(d, t) = Total(References(d, t)) - Total(t.outs) /\ Deposit(t) = 0
    BY <1>3 DEF GetTxFee, Deposit
  <2> QED
    BY <1>1, <2>1
<1> QED
  BY <1>2, <1>3

OutFlow(b) == [k \in DOMAIN b.txs |-> Total(b.txs[k].outs)]
InFlow(d, b) == [k \in DOMAIN b.txs |-> Total(References(d, b.txs[k]))]
DepositFlow(b) == [k \in DOMAIN b.txs |-> Deposit(b.txs[k])]

\* A block pays out no more than it spends and redeems.
LEMMA BlockBalances ==
  ASSUME NEW bs, SeenOK(bs), NEW d, OfSeen(d, bs), NEW n, NEW b, Minted(n, b), BlockOK(b),
         Rewarded(bs, b), NEW h, Checked(d, b, h),
         \A k \in DOMAIN b.txs : HasTxReference(d, b.txs[k])
  PROVE  /\ Numbers(OutFlow(b), DOMAIN b.txs) /\ Numbers(InFlow(d, b), DOMAIN b.txs)
         /\ Numbers(DepositFlow(b), DOMAIN b.txs)
         /\ SumOf(OutFlow(b), DOMAIN b.txs)
              <= SumOf(InFlow(d, b), DOMAIN b.txs) + SumOf(DepositFlow(b), DOMAIN b.txs)
<1> DEFINE K == DOMAIN b.txs
           A == K \ {1}
           out == OutFlow(b)
           in == InFlow(d, b)
           dep == DepositFlow(b)
           fee == [k \in A |-> GetTxFee(d, b.txs[k])]
           all == [k \in A |-> out[k] + fee[k]]
           got == [k \in A |-> in[k] + dep[k]]
<1>1. PICK c : OfSeen(c, bs) /\ RewardMatchesFees(c, b)
  BY DEF Rewarded
<1> DEFINE old == [k \in A |-> GetTxFee(c, b.txs[k])]
<1>2. 1 \in K /\ IsFiniteSet(K) /\ IsFiniteSet(A) /\ A = 2..Len(b.txs)
  <2>1. 1 \in K
    BY DEF Minted
  <2>2. Len(b.txs) \in Nat /\ K = 1..Len(b.txs)
    BY BlockSequence
  <2>3. IsFiniteSet(K)
    BY FiniteDomain DEF BlockOK
  <2>4. IsFiniteSet(A)
    BY <2>3, FS_Subset
  <2>5. A = 2..Len(b.txs)
    BY <2>2
  <2> QED
    BY <2>1, <2>3, <2>4, <2>5
<1>3. ASSUME NEW k \in A
      PROVE  /\ out[k] \in Int /\ in[k] \in Int /\ dep[k] \in Int /\ fee[k] \in Int
             /\ old[k] \in Int /\ old[k] <= fee[k] /\ all[k] <= got[k]
             /\ all[k] = out[k] + fee[k] /\ got[k] = in[k] + dep[k]
  <2> DEFINE t == b.txs[k]
  <2>1. t \in Txs /\ CheckTransactionContext(d, h, t) /\ HasTxReference(d, t)
    BY DEF Minted, Checked
  <2>2. /\ out[k] = Total(t.outs) /\ in[k] = Total(References(d, t)) /\ dep[k] = Deposit(t)
        /\ fee[k] = GetTxFee(d, t) /\ old[k] = GetTxFee(c, t)
        /\ all[k] = out[k] + fee[k] /\ got[k] = in[k] + dep[k]
    BY DEF OutFlow, InFlow, DepositFlow
  <2> HIDE DEF t, out, in, dep, fee, old, all, got
  <2>3. /\ Total(t.outs) \in Int /\ GetTxFee(d, t) \in Int
        /\ Total(References(d, t)) \in Int /\ Deposit(t) \in Int
        /\ Total(t.outs) + GetTxFee(d, t) <= Total(References(d, t)) + Deposit(t)
    BY <2>1, TxBalances
  <2>4. GetTxFee(c, t) <= GetTxFee(d, t) /\ GetTxFee(c, t) \in Int
    BY <1>1, <2>1, FeeNotLess, FeeIsNumber
  <2> QED
    BY <2>2, <2>3, <2>4
<1>4. in[1] = 0 /\ dep[1] = 0 /\ out[1] = SumOf(old, A) /\ out[1] \in Int
  <2> DEFINE t == b.txs[1]
  <2>1. t.type = "coinbase" /\ Values(t) /\ TxOK(t)
    BY <1>2 DEF Minted, BlockOK
  <2>2. out[1] = Total(t.outs) /\ in[1] = Total(References(d, t)) /\ dep[1] = Deposit(t)
    BY <1>2 DEF OutFlow, InFlow, DepositFlow
  <2>3. Total(t.outs) = SumFunction(old) /\ DOMAIN old = A
    BY <1>1, <1>2 DEF RewardMatchesFees, Fees
  <2> HIDE DEF t, A, old
  <2>4. Total(References(d, t)) = 0 /\ Deposit(t) = 0
    BY <2>1, NothingReferred DEF TxOK, Deposit
  <2>5. Total(t.outs) \in Int
    <3>1. IsFiniteSet(DOMAIN t.outs)
      BY <2>1, FiniteDomain DEF TxOK
    <3>2. Total(t.outs) \in Nat
      BY <2>1, <3>1, TotalOfNaturals DEF Values
    <3> QED
      BY <3>2
  <2>6. SumFunction(old) = SumOf(old, A)
    BY <2>3, SumOfFunction
  <2> QED
    BY <2>2, <2>3, <2>4, <2>5, <2>6
<1>5. A \in SUBSET K /\ 1 \in K \ A /\ A \cup {1} = K /\ \A k \in K : k \in A \/ k = 1
  BY <1>2
<1> HIDE DEF K, A, out, in, dep, fee, all, old, got
<1>6. Numbers(out, K) /\ Numbers(in, K) /\ Numbers(dep, K)
  <2>1. out[1] \in Int /\ in[1] \in Int /\ dep[1] \in Int
    BY <1>4
  <2>2. \A k \in K : out[k] \in Int /\ in[k] \in Int /\ dep[k] \in Int
    BY <1>3, <1>5, <2>1
  <2> QED
    BY <1>2, <2>2 DEF Numbers
<1>7. Numbers(fee, A) /\ Numbers(old, A) /\ Numbers(out, A) /\ Numbers(in, A) /\ Numbers(dep, A)
  BY <1>2, <1>3 DEF Numbers
<1>8. SumOf(all, A) = SumOf(out, A) + SumOf(fee, A)
  BY <1>3, <1>7, SumBoth
<1>9. SumOf(all, A) <= SumOf(in, A) + SumOf(dep, A)
  <2>1. SumOf(got, A) = SumOf(in, A) + SumOf(dep, A)
    BY <1>3, <1>7, SumBoth
  <2>2. Numbers(all, A) /\ Numbers(got, A)
    <3>1. ASSUME NEW k \in A PROVE all[k] \in Int /\ got[k] \in Int
      <4>1. /\ out[k] \in Int /\ in[k] \in Int /\ dep[k] \in Int /\ fee[k] \in Int
            /\ all[k] = out[k] + fee[k] /\ got[k] = in[k] + dep[k]
        BY <1>3
      <4> QED
        BY <4>1
    <3> QED
      BY <1>2, <3>1 DEF Numbers
  <2>3. SumOf(all, A) <= SumOf(got, A)
    BY <1>3, <2>2, SumNotLess
  <2> QED
    BY <2>1, <2>3
<1>10. SumOf(old, A) <= SumOf(fee, A)
  BY <1>3, <1>7, SumNotLess
<1>11. /\ SumOf(out, A \cup {1}) = SumOf(out, A) + out[1]
       /\ SumOf(in, A \cup {1}) = SumOf(in, A) + in[1]
       /\ SumOf(dep, A \cup {1}) = SumOf(dep, A) + dep[1]
  BY <1>5, <1>6, SumSteps
<1>12. /\ SumOf(out, K) = SumOf(out, A) + out[1]
       /\ SumOf(in, K) = SumOf(in, A) + in[1]
       /\ SumOf(dep, K) = SumOf(dep, A) + dep[1]
  BY <1>5, <1>11, Zenon
<1>13. /\ SumOf(out, A) \in Int /\ SumOf(in, A) \in Int /\ SumOf(dep, A) \in Int
       /\ SumOf(fee, A) \in Int /\ SumOf(old, A) \in Int
  BY <1>7, SumSteps
<1>14. SumOf(out, K) <= SumOf(in, K) + SumOf(dep, K)
  BY <1>4, <1>8, <1>9, <1>10, <1>12, <1>13
<1> QED
  BY <1>6, <1>14 DEF K, out, in, dep

-----------------------------------------------------------------------------
(* The money of a chain.                                                   *)

\* The names that e gives to the members of D[k], for every k.
NamesAt(D, e, k) == {e[k][x] : x \in D[k]}
Names(K, D, e) == UNION {NamesAt(D, e, k) : k \in K}

LEMMA FiniteImage ==
  ASSUME NEW U, IsFiniteSet(U), NEW e, NEW T, \A y : y \in T <=> \E x \in U : y = e[x]
  PROVE  IsFiniteSet(T)
<1> DEFINE f == [x \in U |-> e[x]]
<1>1. f \in Surjection(U, T)
  BY DEF Surjection
<1> HIDE DEF f
<1> QED
  BY <1>1, FS_Surjection

LEMMA NamesHas ==
  ASSUME NEW K, NEW D, NEW e, NEW o
  PROVE  o \in Names(K, D, e) <=> \E k \in K : o \in NamesAt(D, e, k)
BY Zenon DEF Names

NamedOnce(K, D, e) ==
  /\ IsFiniteSet(K) /\ \A k \in K : IsFiniteSet(D[k])
  /\ \A j, k \in K : \A x \in D[j], y \in D[k] : e[j][x] = e[k][y] => j = k /\ x = y

Valued(K, D, e, f, v) == \A k \in K : \A x \in D[k] : v[k][x] = f[e[k][x]] /\ v[k][x] \in Int

\* A sum over names, each given once.
LEMMA SumOfNames ==
  ASSUME NEW K, NEW D, NEW e, NamedOnce(K, D, e), NEW f, NEW v, Valued(K, D, e, f, v),
         NEW g, \A k \in K : g[k] = SumOf(v[k], D[k])
  PROVE  /\ Numbers(f, Names(K, D, e)) /\ Numbers(g, K)
         /\ SumOf(f, Names(K, D, e)) = SumOf(g, K)
<1> USE DEF NamedOnce, Valued
<1> DEFINE S == [k \in K |-> NamesAt(D, e, k)]
           U == UNION {S[k] : k \in K}
<1>1. \A k \in K : \A o : o \in S[k] <=> \E x \in D[k] : o = e[k][x]
  BY DEF NamesAt
<1>2. U = Names(K, D, e)
  <2>1. \A o : o \in U <=> \E k \in K : o \in NamesAt(D, e, k)
    OBVIOUS
  <2> QED
    BY <2>1, NamesHas
<1>3. \A o : o \in U <=> \E k \in K : o \in S[k]
  OBVIOUS
<1>4. \A k \in K : IsFiniteSet(S[k])
  <2> HIDE DEF S
  <2> QED
    BY <1>1, FiniteImage
<1>5. IsFiniteSet(U)
  <2> DEFINE T == {S[k] : k \in K}
  <2>1. \A y : y \in T <=> \E k \in K : y = S[k]
    OBVIOUS
  <2> HIDE DEF S, T
  <2>2. IsFiniteSet(T)
    BY <2>1, FiniteImage
  <2>3. \A y \in T : IsFiniteSet(y)
    BY <1>4, <2>1
  <2>4. IsFiniteSet(UNION T)
    BY <2>2, <2>3, FS_UNION
  <2> QED
    BY <2>4 DEF T
<1> HIDE DEF S, U
<1>6. Numbers(f, U)
  BY <1>1, <1>3, <1>5 DEF Numbers
<1>7. ASSUME NEW j \in K, NEW k \in K, j # k PROVE S[j] \cap S[k] = {}
  <2> SUFFICES ASSUME NEW o, o \in S[j], o \in S[k] PROVE FALSE
    OBVIOUS
  <2>1. PICK x \in D[j] : o = e[j][x]
    BY <1>1
  <2>2. PICK y \in D[k] : o = e[k][y]
    BY <1>1
  <2>3. \A a \in D[j], c \in D[k] : e[j][a] = e[k][c] => j = k /\ a = c
    OBVIOUS
  <2>4. e[j][x] = e[k][y] => j = k
    BY <2>3
  <2> QED
    BY <1>7, <2>1, <2>2, <2>4
<1>8. ASSUME NEW k \in K PROVE g[k] = SumOf(f, S[k])
  <2> DEFINE w == v[k]
             n == e[k]
             V == D[k]
             N == S[k]
  <2>1. \A y : y \in N <=> \E x \in V : y = n[x]
    BY <1>1
  <2>2. Numbers(f, N)
    BY <1>1, <1>3, <1>4 DEF Numbers
  <2>3. IsFiniteSet(V)
    OBVIOUS
  <2>4. \A x, y \in V : n[x] = n[y] => x = y
    OBVIOUS
  <2>5. \A x \in V : w[x] = f[n[x]]
    OBVIOUS
  <2>6. g[k] = SumOf(w, V)
    OBVIOUS
  <2> HIDE DEF w, n, V, N
  <2>7. SumOf(w, V) = SumOf(f, N)
    BY <2>1, <2>2, <2>3, <2>4, <2>5, SumOnto
  <2> QED
    BY <2>6, <2>7 DEF N
<1>9. Numbers(g, K) /\ SumOf(f, U) = SumOf(g, K)
  BY <1>6, <1>7, <1>8, SumFamily DEF U
<1> QED
  BY <1>2, <1>6, <1>9

\* What the outputs of the places P are worth.
WorthOf(P) == [o \in OutsOf(P) |-> (CHOOSE p \in P : p.tx.id = o.tx).tx.outs[o.index].value]

LEMMA WorthIs ==
  ASSUME NEW P, Sound(P), NEW p \in P, NEW o, o.tx = p.tx.id, o \in OutsOf(P)
  PROVE  WorthOf(P)[o] = p.tx.outs[o.index].value
<1>1. \A q, r \in P : q.tx.id = r.tx.id => q = r
  BY DEF Sound
<1>2. (CHOOSE q \in P : q.tx.id = o.tx) = p
  BY <1>1
<1> QED
  BY <1>2 DEF WorthOf

LEMMA PlacedOut ==
  ASSUME NEW P, NEW N, NEW o, o \in OutsOf(P) \/ o \in OutsOf(N)
  PROVE  o \in OutsOf(P \cup N)
BY OutsOfHas

\* What was there is worth what it was when a block is put on top.
LEMMA WorthBelow ==
  ASSUME NEW P, NEW b, OnTop(P, b), NEW o \in OutsOf(P)
  PROVE  o \in OutsOf(P \cup PlacesOf(b)) /\ WorthOf(P \cup PlacesOf(b))[o] = WorthOf(P)[o]
<1> DEFINE Q == P \cup PlacesOf(b)
<1>1. Sound(P) /\ Sound(Q)
  BY SoundBelow DEF OnTop
<1>2. PICK p \in P : p.tx.id = o.tx /\ o.index \in DOMAIN p.tx.outs
  BY <1>1, OutsAre
<1>3. o \in OutsOf(Q)
  BY PlacedOut
<1>4. WorthOf(P)[o] = p.tx.outs[o.index].value
  BY <1>1, <1>2, WorthIs
<1>5. p \in Q
  OBVIOUS
<1> HIDE DEF Q
<1>6. WorthOf(Q)[o] = p.tx.outs[o.index].value
  BY <1>1, <1>2, <1>3, <1>5, WorthIs
<1> QED
  BY <1>3, <1>4, <1>6 DEF Q

\* The outputs of a block are worth what its transactions pay.
LEMMA OutsWorth ==
  ASSUME NEW P, NEW b, OnTop(P, b), \A k \in DOMAIN b.txs : Values(b.txs[k])
  PROVE  /\ Numbers(WorthOf(P \cup PlacesOf(b)), OutsOf(PlacesOf(b)))
         /\ SumOf(WorthOf(P \cup PlacesOf(b)), OutsOf(PlacesOf(b))) = SumOf(OutFlow(b), DOMAIN b.txs)
<1> DEFINE N == PlacesOf(b)
           Q == P \cup N
           f == WorthOf(Q)
           g == OutFlow(b)
           K == DOMAIN b.txs
           D == [k \in K |-> DOMAIN b.txs[k].outs]
           e == [k \in K |-> [i \in DOMAIN b.txs[k].outs |-> Utxo(b.txs[k], i)]]
           v == [k \in K |-> [i \in DOMAIN b.txs[k].outs |-> b.txs[k].outs[i].value]]
<1>1. Sound(Q) /\ BlockOK(b)
  BY DEF OnTop
<1>2. IsFiniteSet(K)
  BY <1>1, FiniteDomain DEF BlockOK
<1>3. /\ \A k \in K : TxOK(b.txs[k])
      /\ \A j, k \in K : b.txs[j].id = b.txs[k].id => j = k
  BY <1>1 DEF BlockOK
<1>4. ASSUME NEW k \in K PROVE IsFiniteSet(D[k])
  <2>1. IsFiniteSet(DOMAIN b.txs[k].outs)
    BY <1>3, FiniteDomain DEF TxOK
  <2> QED
    BY <2>1
<1>5. ASSUME NEW k \in K, NEW i \in D[k]
      PROVE  /\ e[k][i].tx = b.txs[k].id /\ e[k][i].index = i
             /\ e[k][i] \in OutsOf(N) /\ v[k][i] = f[e[k][i]] /\ v[k][i] \in Int
  <2> DEFINE t == b.txs[k]
             o == Utxo(t, i)
  <2>1. /\ e[k][i] = o /\ v[k][i] = t.outs[i].value /\ o.tx = t.id /\ o.index = i
        /\ i \in DOMAIN t.outs
    BY DEF Utxo
  <2>2. o \in OutsOf(N)
    BY <2>1, PlacesInsOuts
  <2>3. o \in OutsOf(Q)
    BY <2>2, PlacedOut
  <2>4. Place(b.height, t) \in Q /\ Place(b.height, t).tx = t
    BY PlacesHave
  <2>5. t.outs[i].value \in Int
    BY <2>1 DEF Values
  <2> HIDE DEF Q, o, t, e, v
  <2>6. WorthOf(Q)[o] = t.outs[i].value
    BY <1>1, <2>1, <2>3, <2>4, WorthIs
  <2> QED
    BY <2>1, <2>2, <2>5, <2>6 DEF t
<1>6. ASSUME NEW j \in K, NEW k \in K, NEW x \in D[j], NEW y \in D[k], e[j][x] = e[k][y]
      PROVE  j = k /\ x = y
  <2>1. e[j][x].tx = b.txs[j].id /\ e[j][x].index = x
    BY <1>5
  <2>2. e[k][y].tx = b.txs[k].id /\ e[k][y].index = y
    BY <1>5
  <2> HIDE DEF e
  <2> QED
    BY <1>3, <1>6, <2>1, <2>2
<1>7. ASSUME NEW k \in K PROVE g[k] = SumOf(v[k], D[k])
  <2>1. Total(b.txs[k].outs) = SumOf([i \in DOMAIN b.txs[k].outs |-> b.txs[k].outs[i].value], DOMAIN b.txs[k].outs)
    BY TotalSum
  <2> QED
    BY <2>1 DEF OutFlow
<1>8. Names(K, D, e) = OutsOf(N)
  <2>1. ASSUME NEW o
        PROVE  o \in Names(K, D, e) <=> \E k \in K : \E i \in DOMAIN b.txs[k].outs : o = Utxo(b.txs[k], i)
    <3>1. \A k \in K : o \in NamesAt(D, e, k) <=> \E i \in DOMAIN b.txs[k].outs : o = Utxo(b.txs[k], i)
      BY DEF NamesAt
    <3> HIDE DEF K, D, e
    <3> QED
      BY <3>1, NamesHas
  <2>2. \A o : o \in Names(K, D, e) <=> o \in OutsOf(N)
    BY <2>1, PlacesInsOuts
  <2> HIDE DEF K, D, e, N
  <2> QED
    BY <2>2
<1> HIDE DEF f, g, K, D, e, v
<1>9. Numbers(f, Names(K, D, e)) /\ SumOf(f, Names(K, D, e)) = SumOf(g, K)
  <2>1. NamedOnce(K, D, e)
    BY <1>2, <1>4, <1>6 DEF NamedOnce
  <2>2. Valued(K, D, e, f, v)
    BY <1>5 DEF Valued
  <2>3. \A k \in K : g[k] = SumOf(v[k], D[k])
    BY <1>7
  <2> QED
    BY <2>1, <2>2, <2>3, SumOfNames
<1>10. Numbers(f, OutsOf(N)) /\ SumOf(f, OutsOf(N)) = SumOf(g, K)
  BY <1>8, <1>9, Zenon
<1> QED
  BY <1>10 DEF f, g, K

\* An output that a block spends is worth what the store says.
LEMMA InputWorth ==
  ASSUME NEW P, NEW b, OnTop(P, b), NEW d, StoreOK(d, P), NEW k \in DOMAIN b.txs,
         NEW in \in Range(b.txs[k].ins)
  PROVE  /\ WorthOf(P \cup PlacesOf(b))[in] = Output(d, in).value
         /\ in.tx \in DOMAIN d.txs /\ in.index \in DOMAIN d.txs[in.tx].tx.outs
<1> DEFINE Q == P \cup PlacesOf(b)
           p == Place(b.height, b.txs[k])
<1>1. p \in Q /\ p.tx = b.txs[k]
  BY PlacesHave
<1>2. Sound(P) /\ in \in Range(p.tx.ins)
  BY <1>1, SoundBelow
<1> HIDE DEF p
<1>3. PICK q \in P : Source(q, in, p.tx, p.height)
  BY <1>1, <1>2, SourcesBelow
<1>4. q.tx.id = in.tx /\ in.index \in DOMAIN q.tx.outs
  BY <1>3 DEF Source
<1>5. d.txs[in.tx] = q /\ in.tx \in DOMAIN d.txs
  BY <1>4 DEF StoreOK
<1>6. in \in OutsOf(P)
  <2>1. in \in InsOf(PlacesOf(b))
    BY PlacesInsOuts
  <2>2. InsOf(PlacesOf(b)) \subseteq UnspentIn(P)
    BY TopSpends
  <2> QED
    BY <2>1, <2>2 DEF UnspentIn
<1>7. WorthOf(P)[in] = q.tx.outs[in.index].value
  BY <1>2, <1>4, <1>6, WorthIs
<1>8. WorthOf(Q)[in] = WorthOf(P)[in]
  BY <1>6, WorthBelow
<1> HIDE DEF Q
<1>9. WorthOf(Q)[in] = Output(d, in).value
  BY <1>5, <1>7, <1>8 DEF Output
<1> QED
  BY <1>4, <1>5, <1>9 DEF Q

\* What a block spends is worth what its transactions refer to.
LEMMA InsWorth ==
  ASSUME NEW P, NEW b, OnTop(P, b), NEW d, StoreOK(d, P), NEW bs, SeenOK(bs), OfSeen(d, bs)
  PROVE  /\ Numbers(WorthOf(P \cup PlacesOf(b)), InsOf(PlacesOf(b)))
         /\ SumOf(WorthOf(P \cup PlacesOf(b)), InsOf(PlacesOf(b))) = SumOf(InFlow(d, b), DOMAIN b.txs)
<1> DEFINE N == PlacesOf(b)
           Q == P \cup N
           f == WorthOf(Q)
           g == InFlow(d, b)
           K == DOMAIN b.txs
           D == [k \in K |-> DOMAIN b.txs[k].ins]
           e == [k \in K |-> b.txs[k].ins]
           v == [k \in K |-> [x \in DOMAIN b.txs[k].ins |-> Output(d, b.txs[k].ins[x]).value]]
<1>1. BlockOK(b)
  BY DEF OnTop
<1>2. IsFiniteSet(K)
  BY <1>1, FiniteDomain DEF BlockOK
<1>3. ASSUME NEW k \in K PROVE IsFiniteSet(D[k])
  <2>1. TxOK(b.txs[k])
    BY <1>1 DEF BlockOK
  <2>2. IsFiniteSet(DOMAIN b.txs[k].ins)
    BY <2>1, FiniteDomain DEF TxOK
  <2> QED
    BY <2>2
<1>4. ASSUME NEW j \in K, NEW k \in K, NEW x \in D[j], NEW y \in D[k], e[j][x] = e[k][y]
      PROVE  j = k /\ x = y
  <2>1. DistinctInputs(b)
    BY <1>1 DEF BlockOK
  <2> QED
    BY <1>4, <2>1 DEF DistinctInputs
<1>5. ASSUME NEW k \in K, NEW x \in D[k] PROVE v[k][x] = f[e[k][x]] /\ v[k][x] \in Int
  <2> DEFINE in == b.txs[k].ins[x]
  <2>1. v[k][x] = Output(d, in).value /\ e[k][x] = in
    OBVIOUS
  <2>2. in \in Range(b.txs[k].ins)
    BY DEF Range
  <2> HIDE DEF in, v, e
  <2>3. /\ f[in] = Output(d, in).value
        /\ in.tx \in DOMAIN d.txs /\ in.index \in DOMAIN d.txs[in.tx].tx.outs
    BY <2>2, InputWorth
  <2>4. Output(d, in).value \in Nat
    BY <2>3, OutputSeen
  <2> HIDE DEF f
  <2> QED
    BY <2>1, <2>3, <2>4
<1>6. ASSUME NEW k \in K PROVE g[k] = SumOf(v[k], D[k])
  <2> DEFINE ref == References(d, b.txs[k])
  <2>1. DOMAIN ref = D[k] /\ \A x \in D[k] : ref[x] = Output(d, b.txs[k].ins[x])
    BY DEF References
  <2>2. Total(ref) = SumOf([x \in DOMAIN ref |-> ref[x].value], DOMAIN ref)
    BY TotalSum
  <2>3. [x \in DOMAIN ref |-> ref[x].value] = v[k]
    BY <2>1
  <2>4. g[k] = Total(ref)
    BY DEF InFlow
  <2> HIDE DEF ref, v, D, g
  <2> QED
    BY <2>1, <2>2, <2>3, <2>4, Zenon
<1>7. Names(K, D, e) = InsOf(N)
  <2>1. ASSUME NEW o
        PROVE  o \in Names(K, D, e) <=> \E k \in K : o \in Range(b.txs[k].ins)
    <3>1. \A k \in K : o \in NamesAt(D, e, k) <=> o \in Range(b.txs[k].ins)
      BY DEF NamesAt, Range
    <3> HIDE DEF K, D, e
    <3> QED
      BY <3>1, NamesHas
  <2>2. \A o : o \in Names(K, D, e) <=> o \in InsOf(N)
    BY <2>1, PlacesInsOuts
  <2> HIDE DEF K, D, e, N
  <2> QED
    BY <2>2
<1> HIDE DEF f, g, K, D, e, v
<1>8. Numbers(f, Names(K, D, e)) /\ SumOf(f, Names(K, D, e)) = SumOf(g, K)
  <2>1. NamedOnce(K, D, e)
    BY <1>2, <1>3, <1>4 DEF NamedOnce
  <2>2. Valued(K, D, e, f, v)
    BY <1>5 DEF Valued
  <2>3. \A k \in K : g[k] = SumOf(v[k], D[k])
    BY <1>6
  <2> QED
    BY <2>1, <2>2, <2>3, SumOfNames
<1>9. Numbers(f, InsOf(N)) /\ SumOf(f, InsOf(N)) = SumOf(g, K)
  BY <1>7, <1>8, Zenon
<1> QED
  BY <1>9 DEF f, g, K

\* The recharges of the places P.
Deposited(P) == {p.tx : p \in {q \in P : q.tx.type = "recharge"}}
DepositOf(P) == [t \in Deposited(P) |-> Brought(t)]

LEMMA DepositedHas ==
  ASSUME NEW P, NEW t
  PROVE  /\ t \in Deposited(P) <=> \E p \in P : p.tx.type = "recharge" /\ t = p.tx
         /\ t \in Deposited(P) => DepositOf(P)[t] = Brought(t)
BY DEF Deposited, DepositOf

\* What the recharges of a block are worth.
LEMMA DepositsWorth ==
  ASSUME NEW n, NEW b, Minted(n, b), BlockOK(b), Numbers(DepositFlow(b), DOMAIN b.txs),
         NEW f, \A m \in Deposited(PlacesOf(b)) : f[m] = Brought(m)
  PROVE  /\ Numbers(f, Deposited(PlacesOf(b)))
         /\ SumOf(f, Deposited(PlacesOf(b))) = SumOf(DepositFlow(b), DOMAIN b.txs)
<1> DEFINE K == DOMAIN b.txs
           M == Deposited(PlacesOf(b))
           R == {k \in K : b.txs[k].type = "recharge"}
           Z == K \ R
           g == DepositFlow(b)
           e == b.txs
<1>1. \A m : m \in M <=> \E k \in R : m = e[k]
  <2>1. ASSUME NEW m
        PROVE  m \in M <=> \E p \in PlacesOf(b) : p.tx.type = "recharge" /\ m = p.tx
    BY DepositedHas
  <2>2. ASSUME NEW m
        PROVE  (\E p \in PlacesOf(b) : p.tx.type = "recharge" /\ m = p.tx)
                 <=> \E k \in K : b.txs[k].type = "recharge" /\ m = b.txs[k]
    BY PlacesHave
  <2>3. ASSUME NEW m
        PROVE  (\E k \in K : b.txs[k].type = "recharge" /\ m = b.txs[k])
                 <=> \E k \in R : m = e[k]
    OBVIOUS
  <2> HIDE DEF M, R, e, K
  <2> QED
    BY <2>1, <2>2, <2>3
<1>2. ASSUME NEW j \in R, NEW k \in R, e[j] = e[k] PROVE j = k
  <2>1. SameRecharge(b.txs[j], b.txs[k])
    BY <1>2 DEF SameRecharge
  <2> QED
    BY <2>1 DEF Minted
<1>3. \A k \in R : g[k] = f[e[k]]
  <2>1. \A k \in R : g[k] = Brought(b.txs[k])
    BY DEF DepositFlow, Deposit
  <2>2. \A k \in R : e[k] \in M /\ e[k] = b.txs[k]
    BY <1>1
  <2> HIDE DEF M, R, g, e
  <2> QED
    BY <2>1, <2>2 DEF M
<1>4. \A k \in Z : g[k] = 0
  BY DEF DepositFlow, Deposit
<1>5. R \in SUBSET K /\ Z \in SUBSET K /\ R \cap Z = {} /\ R \cup Z = K /\ Numbers(g, K)
  OBVIOUS
<1> HIDE DEF K, M, R, Z, g, e
<1>6. IsFiniteSet(R) /\ IsFiniteSet(Z) /\ Numbers(g, R)
  BY <1>5, SumSteps, FS_Subset
<1>7. IsFiniteSet(M)
  BY <1>1, <1>6, FiniteImage
<1>8. Numbers(f, M)
  <2>1. \A k \in R : g[k] \in Int
    BY <1>6, SumSteps
  <2> QED
    BY <1>1, <1>3, <1>7, <2>1 DEF Numbers
<1>9. SumOf(g, R) = SumOf(f, M)
  BY <1>1, <1>2, <1>3, <1>6, <1>8, SumOnto
<1>10. SumOf(g, Z) = 0
  BY <1>4, <1>6, SumOfZeros
<1>11. SumOf(g, K) = SumOf(g, R) + SumOf(g, Z) /\ SumOf(g, R) \in Int
  <2>1. SumOf(g, K) = SumOf(g, R) + SumOf(g, Z)
    BY <1>5, SumSplit
  <2>2. SumOf(g, R) \in Int
    BY <1>6, SumSteps
  <2> QED
    BY <2>1, <2>2
<1>12. SumOf(f, M) = SumOf(g, K)
  BY <1>9, <1>10, <1>11
<1> QED
  BY <1>8, <1>12 DEF M, g, K

\* There is not more in the unspent outputs of P than the recharges brought.
Solvent(P) ==
  /\ Numbers(WorthOf(P), UnspentIn(P)) /\ Numbers(DepositOf(P), Deposited(P))
  /\ \A t \in Deposited(P) : t.main.id \in Proven
  /\ SumOf(WorthOf(P), UnspentIn(P)) <= SumOf(DepositOf(P), Deposited(P))

\* A recharge is below the top or there, not twice.
LEMMA DepositsApart ==
  ASSUME NEW P, NEW b, OnTop(P, b)
  PROVE  /\ Deposited(P \cup PlacesOf(b)) = Deposited(P) \cup Deposited(PlacesOf(b))
         /\ Deposited(P) \cap Deposited(PlacesOf(b)) = {}
<1> DEFINE N == PlacesOf(b)
           Q == P \cup N
<1>1. \A m : m \in Deposited(Q) <=> m \in Deposited(P) \/ m \in Deposited(N)
  BY DepositedHas
<1>2. ASSUME NEW m, m \in Deposited(P), m \in Deposited(N) PROVE FALSE
  <2>1. PICK p \in P : p.tx.type = "recharge" /\ m = p.tx
    BY <1>2, DepositedHas
  <2>2. PICK q \in N : q.tx.type = "recharge" /\ m = q.tx
    BY <1>2, DepositedHas
  <2>3. p \in Q /\ q \in Q /\ p.tx.main.id = q.tx.main.id
    BY <2>1, <2>2
  <2>4. p.height = q.height
    BY <2>1, <2>2, <2>3 DEF OnTop, Sound
  <2>5. q.height = b.height /\ p.height < b.height /\ p.height \in Nat /\ b.height \in Nat
    BY TopIsApart DEF OnTop
  <2> QED
    BY <2>4, <2>5
<1> HIDE DEF N, Q
<1>3. Deposited(Q) = Deposited(P) \cup Deposited(N) /\ Deposited(P) \cap Deposited(N) = {}
  BY <1>1, <1>2
<1> QED
  BY <1>3 DEF N, Q

\* The unspent outputs when a block is put on top: what was there and what it pays,
\* less what it spends.
LEMMA WorthOnTop ==
  ASSUME NEW P, NEW b, OnTop(P, b), NEW f,
         Numbers(f, UnspentIn(P)), Numbers(f, OutsOf(PlacesOf(b)))
  PROVE  /\ Numbers(f, UnspentIn(P \cup PlacesOf(b))) /\ Numbers(f, InsOf(PlacesOf(b)))
         /\ SumOf(f, UnspentIn(P \cup PlacesOf(b))) + SumOf(f, InsOf(PlacesOf(b)))
              = SumOf(f, UnspentIn(P)) + SumOf(f, OutsOf(PlacesOf(b)))
<1> DEFINE N == PlacesOf(b)
           Q == P \cup N
           U == UnspentIn(P)
           V == UnspentIn(Q)
           O == OutsOf(N)
           I == InsOf(N)
           W == U \cup O
<1>1. V = (U \cup O) \ I /\ I \cap V = {}
  BY UnspentOnTop
<1>2. I \subseteq U /\ O \cap OutsOf(P) = {}
  BY TopSpends
<1>3. U \cap O = {}
  BY <1>2 DEF UnspentIn
<1> HIDE DEF N, Q, U, V, O, I
<1>4. /\ U \in SUBSET W /\ O \in SUBSET W /\ V \in SUBSET W /\ I \in SUBSET W
      /\ U \cup O = W /\ V \cup I = W /\ V \cap I = {}
  BY <1>1, <1>2
<1>5. Numbers(f, U) /\ Numbers(f, O)
  BY DEF U, O, N
<1>6. Numbers(f, W)
  <2>1. IsFiniteSet(W)
    BY <1>5, FS_Union DEF Numbers
  <2> QED
    BY <1>5, <2>1 DEF Numbers
<1> HIDE DEF W
<1>7. SumOf(f, W) = SumOf(f, U) + SumOf(f, O)
  BY <1>3, <1>4, <1>6, SumSplit
<1>8. SumOf(f, W) = SumOf(f, V) + SumOf(f, I)
  BY <1>4, <1>6, SumSplit
<1>9. Numbers(f, V) /\ Numbers(f, I)
  BY <1>4, <1>6, SumSteps
<1>10. SumOf(f, V) + SumOf(f, I) = SumOf(f, U) + SumOf(f, O)
  BY <1>7, <1>8
<1> QED
  BY <1>9, <1>10 DEF U, V, O, I, Q, N

LEMMA RechargesProven ==
  ASSUME NEW d, NEW b, NEW h, Checked(d, b, h), NEW t \in Deposited(PlacesOf(b))
  PROVE  t.main.id \in Proven
<1>1. PICK p \in PlacesOf(b) : p.tx.type = "recharge" /\ t = p.tx
  BY DepositedHas
<1>2. PICK k \in DOMAIN b.txs : p = Place(b.height, b.txs[k])
  BY PlacesHave
<1>3. p.tx = b.txs[k]
  BY <1>2, PlacesHave
<1>4. CheckTransactionContext(d, h, p.tx)
  BY <1>3 DEF Checked
<1> QED
  BY <1>1, <1>4 DEF CheckTransactionContext, VerifySignature

\* A block that passes keeps the chain solvent.
LEMMA SolventOnTop ==
  ASSUME NEW P, NEW b, OnTop(P, b), Solvent(P), NEW d, StoreOK(d, P), NEW h, Checked(d, b, h),
         NEW bs, SeenOK(bs), OfSeen(d, bs), NEW n, Minted(n, b), Rewarded(bs, b)
  PROVE  Solvent(P \cup PlacesOf(b))
<1> DEFINE N == PlacesOf(b)
           Q == P \cup N
           K == DOMAIN b.txs
           f == WorthOf(Q)
           g == DepositOf(Q)
           U == UnspentIn(P)
           V == UnspentIn(Q)
           A == Deposited(P)
           B == Deposited(N)
           C == Deposited(Q)
           out == SumOf(OutFlow(b), K)
           in == SumOf(InFlow(d, b), K)
           dep == SumOf(DepositFlow(b), K)
<1>1. BlockOK(b)
  BY DEF OnTop
<1>2. Numbers(OutFlow(b), K) /\ Numbers(InFlow(d, b), K) /\ Numbers(DepositFlow(b), K) /\ out <= in + dep
  <2>1. ASSUME NEW k \in K PROVE HasTxReference(d, b.txs[k])
    <3>1. ASSUME NEW x \in DOMAIN b.txs[k].ins
          PROVE  /\ b.txs[k].ins[x].tx \in DOMAIN d.txs
                 /\ b.txs[k].ins[x].index \in DOMAIN d.txs[b.txs[k].ins[x].tx].tx.outs
      <4>1. b.txs[k].ins[x] \in Range(b.txs[k].ins)
        BY DEF Range
      <4> QED
        BY <4>1, InputWorth
    <3> QED
      BY <3>1 DEF HasTxReference
  <2> QED
    BY <1>1, <2>1, BlockBalances
<1>3. out \in Int /\ in \in Int /\ dep \in Int
  BY <1>2, SumSteps
<1>4. Numbers(f, OutsOf(N)) /\ SumOf(f, OutsOf(N)) = out
  <2>1. \A k \in K : Values(b.txs[k])
    <3>1. \A t \in Txs : Values(t)
      BY LedgerAssumption DEF Values
    <3> QED
      BY <3>1 DEF Minted
  <2> QED
    BY <2>1, OutsWorth
<1>5. SumOf(f, InsOf(N)) = in
  BY InsWorth
<1>6. Numbers(f, U) /\ SumOf(f, U) = SumOf(WorthOf(P), U)
  <2>1. \A o \in U : f[o] = WorthOf(P)[o]
    <3>1. \A o \in U : o \in OutsOf(P)
      BY DEF UnspentIn
    <3> QED
      BY <3>1, WorthBelow
  <2>2. Numbers(WorthOf(P), U)
    BY DEF Solvent
  <2> HIDE DEF f, U
  <2> QED
    BY <2>1, <2>2, SumSame
<1>7. Numbers(f, V) /\ SumOf(f, V) + SumOf(f, InsOf(N)) = SumOf(f, U) + SumOf(f, OutsOf(N))
  <2> HIDE DEF f
  <2> QED
    BY <1>4, <1>6, WorthOnTop
<1>8. C = A \cup B /\ A \cap B = {}
  BY DepositsApart
<1>9. \A m \in C : g[m] = Brought(m)
  BY DepositedHas
<1>10. Numbers(g, B) /\ SumOf(g, B) = dep
  <2>1. \A m \in Deposited(PlacesOf(b)) : g[m] = Brought(m)
    <3> HIDE DEF g, A, C
    <3> QED
      BY <1>8, <1>9
  <2> HIDE DEF g
  <2> QED
    BY <1>1, <1>2, <2>1, DepositsWorth
<1>11. Numbers(g, A) /\ SumOf(g, A) = SumOf(DepositOf(P), A)
  <2>1. \A m \in A : DepositOf(P)[m] = Brought(m)
    BY DepositedHas
  <2>2. Numbers(DepositOf(P), A)
    BY DEF Solvent
  <2> HIDE DEF g, A, B, C
  <2>3. \A m \in A : g[m] = DepositOf(P)[m]
    BY <1>8, <1>9, <2>1
  <2> QED
    BY <2>2, <2>3, SumSame
<1>12. SumOf(WorthOf(P), U) <= SumOf(DepositOf(P), A) /\ \A m \in A : m.main.id \in Proven
  BY DEF Solvent
<1>13. \A m \in B : m.main.id \in Proven
  BY RechargesProven
<1> HIDE DEF f, g, U, V, A, B, C, out, in, dep, N, Q
<1>14. Numbers(g, C) /\ SumOf(g, C) = SumOf(g, A) + SumOf(g, B)
  <2>1. A \in SUBSET C /\ B \in SUBSET C /\ A \cup B = C
    BY <1>8
  <2>2. IsFiniteSet(A \cup B)
    BY <1>10, <1>11, FS_Union DEF Numbers
  <2>3. Numbers(g, C)
    BY <1>8, <1>10, <1>11, <2>2 DEF Numbers
  <2> QED
    BY <1>8, <2>1, <2>3, SumSplit
<1>15. SumOf(f, U) \in Int /\ SumOf(f, V) \in Int /\ SumOf(g, A) \in Int
  BY <1>6, <1>7, <1>11, SumSteps
<1>16. SumOf(f, V) <= SumOf(g, C)
  BY <1>2, <1>3, <1>4, <1>5, <1>6, <1>7, <1>10, <1>11, <1>12, <1>14, <1>15
<1>17. \A m \in C : m.main.id \in Proven
  BY <1>8, <1>12, <1>13
<1>18. Solvent(Q)
  BY <1>7, <1>14, <1>16, <1>17 DEF Solvent, f, g, V, C
<1> QED
  BY <1>18 DEF Q, N

-----------------------------------------------------------------------------
(* The steps, and the theorem.                                             *)

LEMMA FirstAndRest ==
  ASSUME NEW A, NEW l \in Seq(A), NEW c, NEW q, q = <<c>> \o l
  PROVE  1 \in DOMAIN q /\ q[1] = c /\ \A k \in DOMAIN q : k # 1 => q[k] \in A
<1>1. /\ Len(l) \in Nat /\ DOMAIN q = 1..Len(l) + 1 /\ q[1] = c
      /\ \A k \in 2..Len(l) + 1 : q[k] = l[k - 1]
  OBVIOUS
<1>2. \A k \in 2..Len(l) + 1 : k - 1 \in 1..Len(l)
  BY <1>1
<1>3. \A i \in 1..Len(l) : l[i] \in A
  OBVIOUS
<1>4. \A k \in 1..Len(l) + 1 : k # 1 => k \in 2..Len(l) + 1
  BY <1>1
<1>5. ASSUME NEW k \in DOMAIN q, k # 1 PROVE q[k] \in A
  <2>1. k \in 2..Len(l) + 1
    BY <1>1, <1>4, <1>5
  <2>2. q[k] = l[k - 1] /\ k - 1 \in 1..Len(l)
    BY <1>1, <1>2, <2>1
  <2> QED
    BY <1>3, <2>2
<1> QED
  BY <1>1, <1>5

LEMMA FoundationShare ==
  ASSUME NEW reward \in Nat, NEW foundation \in {0, (3 * reward) \div 10}
  PROVE  foundation \in Nat /\ reward - foundation \in Nat
OBVIOUS

LEMMA CoinbaseValues ==
  ASSUME NEW n, NEW height, NEW reward \in Nat, NEW foundation \in {0, (3 * reward) \div 10}
  PROVE  /\ Values(CreateCoinBaseTx(n, height, reward, foundation))
         /\ CreateCoinBaseTx(n, height, reward, foundation).id = CoinbaseIds[n]
         /\ CreateCoinBaseTx(n, height, reward, foundation).type = "coinbase"
<1> DEFINE t == CreateCoinBaseTx(n, height, reward, foundation)
           o1 == [owner |-> Foundation, value |-> foundation, lock |-> 0]
           o2 == [owner |-> Miner, value |-> reward - foundation, lock |-> 0]
<1>1. t.id = CoinbaseIds[n] /\ t.type = "coinbase" /\ t.outs = <<o1, o2>>
  BY DEF CreateCoinBaseTx
<1>2. o1.value \in Nat /\ o2.value \in Nat
  BY FoundationShare
<1> HIDE DEF t, o1, o2
<1>3. DOMAIN t.outs = 1..2 /\ t.outs[1] = o1 /\ t.outs[2] = o2 /\ \A i \in 1..2 : i = 1 \/ i = 2
  BY <1>1
<1>4. Values(t)
  BY <1>2, <1>3 DEF Values
<1> QED
  BY <1>1, <1>4 DEF t

\* A block that is received.
LEMMA ReceivedMinted ==
  ASSUME NEW d, NEW n \in 1..Len(CoinbaseIds), NEW height, NEW parent, NEW S \in SUBSET Txs,
         NEW reward \in Nat, NEW foundation \in {0, (3 * reward) \div 10}, NEW b,
         Received(d, b, n, height, parent, S, reward, foundation)
  PROVE  Minted(n, b) /\ RewardMatchesFees(d, b)
<1> DEFINE c == CreateCoinBaseTx(n, height, reward, foundation)
           l == SetToSeq(S)
           R == {k \in DOMAIN b.txs : b.txs[k].type = "recharge"}
<1>1. b.txs = <<c>> \o l
  BY DEF Received
<1>2. l \in Seq(Txs)
  BY SequenceOfSet
<1>3. Values(c) /\ c.id = CoinbaseIds[n] /\ c.type = "coinbase"
  BY CoinbaseValues
<1>4. RewardMatchesFees(d, b) /\ IsInjective([k \in R |-> b.txs[k].main.id])
  BY DEF Received, PowCheckBlockSanity
<1>5. ASSUME NEW j \in DOMAIN b.txs, NEW k \in DOMAIN b.txs, SameRecharge(b.txs[j], b.txs[k])
      PROVE  j = k
  <2>1. j \in R /\ k \in R /\ b.txs[j].main.id = b.txs[k].main.id
    BY <1>5 DEF SameRecharge
  <2> HIDE DEF R
  <2> QED
    BY <1>4, <2>1 DEF IsInjective
<1> HIDE DEF c, l
<1>6. 1 \in DOMAIN b.txs /\ b.txs[1] = c /\ \A k \in DOMAIN b.txs : k # 1 => b.txs[k] \in Txs
  BY <1>1, <1>2, FirstAndRest
<1> QED
  BY <1>3, <1>4, <1>5, <1>6 DEF Minted

\* The places of the first h blocks of a chain, without those in un.
PlacedUpTo(bs, c, un, h) == UNION {PlacesOf(bs[c[k]]) : k \in {j \in 1..h : c[j] \notin un}}

LEMMA UpToHas ==
  ASSUME NEW bs, NEW c, NEW un, NEW h, NEW p
  PROVE  p \in PlacedUpTo(bs, c, un, h)
           <=> \E k \in 1..h : c[k] \notin un /\ p \in PlacesOf(bs[c[k]])
<1> DEFINE K == {j \in 1..h : c[j] \notin un}
<1>1. p \in PlacedUpTo(bs, c, un, h) <=> \E k \in K : p \in PlacesOf(bs[c[k]])
  BY Zenon DEF PlacedUpTo
<1> QED
  BY <1>1

LEMMA UpToSame ==
  ASSUME NEW bs, NEW c, NEW un, NEW new, NEW d, NEW vn, NEW h,
         \A k \in 1..h : new[d[k]] = bs[c[k]] /\ (d[k] \in vn <=> c[k] \in un)
  PROVE  PlacedUpTo(new, d, vn, h) = PlacedUpTo(bs, c, un, h)
<1>1. \A p : p \in PlacedUpTo(new, d, vn, h) <=> p \in PlacedUpTo(bs, c, un, h)
  BY UpToHas
<1> QED
  BY <1>1

LEMMA UpToAll ==
  ASSUME NEW bs, NEW c, NEW un, NEW h, DOMAIN c = 1..h
  PROVE  PlacedUpTo(bs, c, un, h) = PlacedOn(bs, c, un)
<1>1. {j \in 1..h : c[j] \notin un} = WrittenOn(c, un)
  BY DEF WrittenOn
<1> QED
  BY <1>1, Zenon DEF PlacedUpTo, PlacedOn

\* Every block is as it was received, and every part of the main chain that reaches
\* down to the genesis block is solvent: that part may be what is left of it.
MoneyInv ==
  /\ LedgerInv
  /\ \A n \in DOMAIN blocks : Minted(n, blocks[n]) /\ Rewarded(blocks, blocks[n])
  /\ \A h \in 0..Len(chain) : Solvent(PlacedUpTo(blocks, chain, unwritten, h))

LEMMA NothingSolvent == Solvent({})
<1>1. OutsOf({}) = {} /\ Deposited({}) = {}
  BY DEF OutsOf, Deposited
<1>2. UnspentIn({}) = {}
  BY <1>1 DEF UnspentIn
<1>3. \A f : Numbers(f, {}) /\ SumOf(f, {}) = 0
  BY SumOfNone, FS_EmptySet DEF SumOf, Numbers
<1>4. Numbers(WorthOf({}), UnspentIn({})) /\ SumOf(WorthOf({}), UnspentIn({})) = 0
  BY <1>2, <1>3, Zenon
<1>5. Numbers(DepositOf({}), Deposited({})) /\ SumOf(DepositOf({}), Deposited({})) = 0
  BY <1>1, <1>3, Zenon
<1>6. \A t \in Deposited({}) : t.main.id \in Proven
  BY <1>1
<1>7. 0 <= 0
  OBVIOUS
<1> QED
  BY <1>4, <1>5, <1>6, <1>7, Zenon DEF Solvent

LEMMA MoneyInit == Init => MoneyInv
<1> SUFFICES ASSUME Init PROVE MoneyInv
  OBVIOUS
<1>1. blocks = << >> /\ chain = << >> /\ LedgerInv
  BY InitHolds DEF Init
<1>2. 0..Len(chain) = {0}
  BY <1>1
<1>3. PlacedUpTo(blocks, chain, unwritten, 0) = {}
  BY UpToHas
<1>4. \A h \in 0..Len(chain) : Solvent(PlacedUpTo(blocks, chain, unwritten, h))
  BY <1>2, <1>3, NothingSolvent
<1>5. DOMAIN blocks = {}
  BY <1>1
<1> QED
  BY <1>1, <1>4, <1>5 DEF MoneyInv

LEMMA SeenGrows ==
  ASSUME NEW bs, NEW new, \A n \in DOMAIN bs : n \in DOMAIN new /\ new[n] = bs[n]
  PROVE  /\ \A d : OfSeen(d, bs) => OfSeen(d, new)
         /\ \A b : Rewarded(bs, b) => Rewarded(new, b)
<1>1. \A t \in SeenTxs(bs) : t \in SeenTxs(new)
  BY SeenHas
<1>2. \A d : OfSeen(d, bs) => OfSeen(d, new)
  BY <1>1 DEF OfSeen
<1>3. \A b : Rewarded(bs, b) => Rewarded(new, b)
  BY <1>2 DEF Rewarded
<1> QED
  BY <1>2, <1>3

\* The store holds transactions of blocks that were received.
LEMMA StoreOfSeen ==
  ASSUME MoneyInv
  PROVE  SeenOK(blocks) /\ OfSeen(db, blocks)
<1>1. LedgerInv /\ \A n \in DOMAIN blocks : Minted(n, blocks[n])
  BY DEF MoneyInv
<1>2. SeenOK(blocks)
  BY <1>1, MintedSeen
<1>3. /\ DOMAIN db.txs = {p.tx.id : p \in Placed} \cup {"asset"}
      /\ db.txs["asset"] = AssetPlace /\ \A p \in Placed : db.txs[p.tx.id] = p
  BY <1>1 DEF LedgerInv, StoreOK
<1>4. AssetPlace.tx.outs = << >>
  BY DEF AssetPlace, Place, GetGenesisBlock
<1>5. ASSUME NEW p \in Placed PROVE p.tx \in SeenTxs(blocks)
  <2>1. PICK h \in DOMAIN chain : p \in PlacesOf(blocks[chain[h]])
    BY PlacedHas DEF Placed
  <2> DEFINE n == chain[h]
  <2>2. n \in DOMAIN blocks
    BY <1>1, ChainFacts DEF LedgerInv
  <2>3. PICK k \in DOMAIN blocks[n].txs : p = Place(blocks[n].height, blocks[n].txs[k])
    BY <2>1, PlacesHave
  <2>4. p.tx = blocks[n].txs[k]
    BY <2>3, PlacesHave
  <2> HIDE DEF n
  <2>5. k = 1 \/ blocks[n].txs[k] \in Txs
    BY <1>1, <2>2 DEF Minted
  <2> QED
    BY <2>2, <2>4, <2>5, SeenHas
<1>6. ASSUME NEW id \in DOMAIN db.txs
      PROVE  db.txs[id].tx.outs # << >>
               => db.txs[id].tx \in SeenTxs(blocks) /\ db.txs[id].tx.id = id
  <2>1. CASE id = "asset"
    <3>1. db.txs[id] = AssetPlace
      BY <1>3, <2>1, Zenon
    <3>2. db.txs[id].tx.outs = << >>
      BY <1>4, <3>1, Zenon
    <3> QED
      BY <3>2
  <2>2. CASE id # "asset"
    <3>1. PICK p \in Placed : p.tx.id = id
      BY <1>3, <2>2
    <3>2. db.txs[id] = p
      BY <1>3, <3>1
    <3> QED
      BY <1>5, <3>1, <3>2
  <2> QED
    BY <2>1, <2>2
<1>7. OfSeen(db, blocks)
  BY <1>6 DEF OfSeen
<1> QED
  BY <1>2, <1>7

LEMMA MoneyReceive ==
  ASSUME MoneyInv, NEW parent \in Near, NEW S \in SUBSET Txs, NEW reward \in Nat,
         NEW foundation \in {0, (3 * reward) \div 10},
         ReceiveBlock(parent, S, reward, foundation)
  PROVE  MoneyInv'
<1> DEFINE n == Len(blocks) + 1
           height == HeightOf(parent) + 1
           b == [parent |-> parent, height |-> height,
                 txs |-> <<CreateCoinBaseTx(n, height, reward, foundation)>> \o SetToSeq(S)]
<1>1. LedgerInv /\ ChainOK
  BY DEF MoneyInv, LedgerInv
<1>2. LedgerInv'
  BY <1>1, ReceiveKeeps
<1>3. /\ n <= Len(CoinbaseIds) /\ PowCheckBlockSanity(db, b) /\ PowCheckBlockContext(b)
      /\ blocks' = Append(blocks, b) /\ chain' = chain /\ db' = db
      /\ unwritten' = unwritten
  BY DEF ReceiveBlock
<1>4. /\ Len(blocks) \in Nat /\ DOMAIN blocks = 1..Len(blocks) /\ Len(chain) \in Nat
      /\ \A h \in 1..Len(chain) : chain[h] \in 1..Len(blocks)
  BY <1>1, ChainFacts
<1>5. n \in 1..Len(CoinbaseIds)
  <2>1. Len(CoinbaseIds) \in Nat
    BY TxAssumption
  <2> QED
    BY <1>3, <1>4, <2>1
<1>6. Minted(n, b) /\ RewardMatchesFees(db, b)
  <2>1. Received(db, b, n, height, parent, S, reward, foundation)
    BY <1>3 DEF Received
  <2> HIDE DEF height, n, b
  <2> QED
    BY <1>5, <2>1, ReceivedMinted
<1> HIDE DEF b
<1>7. /\ Len(blocks') = n /\ DOMAIN blocks' = 1..n /\ blocks'[n] = b
      /\ \A m \in 1..Len(blocks) : blocks'[m] = blocks[m]
  <2> DEFINE A == Range(blocks) \cup {b}
  <2>1. blocks \in Seq(Range(blocks))
    BY <1>1 DEF ChainOK
  <2>2. blocks \in Seq(A) /\ b \in A
    BY <2>1
  <2> HIDE DEF A
  <2> QED
    BY <1>3, <2>2
<1>8. \A m \in DOMAIN blocks : m \in DOMAIN blocks' /\ blocks'[m] = blocks[m]
  BY <1>4, <1>7
<1>9. /\ \A d : OfSeen(d, blocks) => OfSeen(d, blocks')
      /\ \A c : Rewarded(blocks, c) => Rewarded(blocks', c)
  BY <1>8, SeenGrows
<1>10. Rewarded(blocks', b)
  BY <1>6, <1>9, StoreOfSeen DEF Rewarded
<1>11. ASSUME NEW m \in DOMAIN blocks' PROVE Minted(m, blocks'[m]) /\ Rewarded(blocks', blocks'[m])
  <2>1. m \in 1..Len(blocks) \/ m = n
    BY <1>4, <1>7, OneMore
  <2>2. CASE m \in 1..Len(blocks)
    <3>1. Minted(m, blocks[m]) /\ Rewarded(blocks, blocks[m]) /\ blocks'[m] = blocks[m]
      BY <1>4, <1>7, <2>2 DEF MoneyInv
    <3> QED
      BY <1>9, <3>1
  <2>3. CASE m = n
    BY <1>6, <1>7, <1>10, <2>3
  <2> QED
    BY <2>1, <2>2, <2>3
<1>12. ASSUME NEW h \in 0..Len(chain') PROVE Solvent(PlacedUpTo(blocks', chain', unwritten', h))
  <2>1. h \in 0..Len(chain) /\ \A k \in 1..h : k \in 1..Len(chain)
    BY <1>3, <1>4
  <2>2. \A k \in 1..h : blocks'[chain[k]] = blocks[chain[k]]
    BY <1>4, <1>7, <2>1
  <2>3. PlacedUpTo(blocks', chain, unwritten, h) = PlacedUpTo(blocks, chain, unwritten, h)
    BY <2>2, UpToSame
  <2>4. Solvent(PlacedUpTo(blocks, chain, unwritten, h))
    BY <2>1 DEF MoneyInv
  <2> QED
    BY <1>3, <2>3, <2>4
<1> QED
  BY <1>2, <1>11, <1>12 DEF MoneyInv

LEMMA MoneyConnect ==
  ASSUME MoneyInv, NEW n \in DOMAIN blocks, ConnectBlock(n)
  PROVE  MoneyInv'
<1> DEFINE b == blocks[n]
           m == Len(chain)
<1>1. LedgerInv /\ ChainOK /\ StoreOK(db, Placed)
  BY DEF MoneyInv, LedgerInv
<1>2. LedgerInv'
  BY <1>1, ConnectKeeps
<1>3. Connectable(n) /\ chain' = Append(chain, n) /\ blocks' = blocks
  BY DEF ConnectBlock
<1>4. m \in Nat /\ DOMAIN chain = 1..m
  BY <1>1, ChainFacts
<1>5. Len(chain') = m + 1 /\ DOMAIN chain' = 1..m + 1 /\ \A h \in 1..m : chain'[h] = chain[h]
  <2> DEFINE A == 1..Len(blocks)
  <2>1. chain \in Seq(A) /\ n \in A
    BY <1>1, ChainFacts DEF ChainOK
  <2> HIDE DEF A
  <2> QED
    BY <1>3, <1>4, <2>1
<1>6. Solvent(Placed)
  <2>1. PlacedUpTo(blocks, chain, unwritten, m) = Placed
    BY <1>4, UpToAll DEF Placed
  <2>2. m \in 0..m
    BY <1>4
  <2> QED
    BY <2>1, <2>2 DEF MoneyInv
<1>7. Solvent(Placed')
  <2>1. CASE OnTop(Placed, b) /\ Placed' = Placed \cup PlacesOf(b)
    <3>1. Checked(db, b, currentBlockHeight)
      BY <1>1, <1>3, ConnectableOnTop
    <3>2. Minted(n, b) /\ Rewarded(blocks, b)
      BY DEF MoneyInv
    <3> HIDE DEF b
    <3>3. Solvent(Placed \cup PlacesOf(b))
      BY <1>1, <1>6, <2>1, <3>1, <3>2, StoreOfSeen, SolventOnTop
    <3> QED
      BY <2>1, <3>3
  <2>2. CASE Placed' = Placed
    BY <1>6, <2>2
  <2> QED
    BY <1>1, <2>1, <2>2, ConnectPlaces
<1>8. \A k \in 1..m : chain[k] \in unwritten' <=> chain[k] \in unwritten
  <2>1. \A k \in 1..m : chain[k] # n
    BY <1>3, <1>4 DEF Connectable, Range
  <2>2. unwritten' = unwritten \/ unwritten' = unwritten \cup {n}
    BY <1>1, ConnectPlaces
  <2> QED
    BY <2>1, <2>2
<1> HIDE DEF b, m
<1>9. ASSUME NEW h \in 0..m + 1 PROVE Solvent(PlacedUpTo(blocks', chain', unwritten', h))
  <2>1. CASE h \in 0..m
    <3>1. \A k \in 1..h : k \in 1..m
      BY <1>4, <2>1
    <3>2. \A k \in 1..h : /\ blocks'[chain'[k]] = blocks[chain[k]]
                          /\ chain'[k] \in unwritten' <=> chain[k] \in unwritten
      BY <1>3, <1>5, <1>8, <3>1
    <3>3. PlacedUpTo(blocks', chain', unwritten', h) = PlacedUpTo(blocks, chain, unwritten, h)
      BY <3>2, UpToSame
    <3>4. Solvent(PlacedUpTo(blocks, chain, unwritten, h))
      BY <2>1 DEF MoneyInv, m
    <3> QED
      BY <3>3, <3>4
  <2>2. CASE h = m + 1
    <3>1. PlacedUpTo(blocks', chain', unwritten', h) = PlacedOn(blocks', chain', unwritten')
      BY <1>5, <2>2, UpToAll
    <3> QED
      BY <1>7, <3>1 DEF Placed
  <2>3. h \in 0..m \/ h = m + 1
    BY <1>4
  <2> QED
    BY <2>1, <2>2, <2>3
<1>10. \A k \in DOMAIN blocks' : Minted(k, blocks'[k]) /\ Rewarded(blocks', blocks'[k])
  BY <1>3 DEF MoneyInv
<1> QED
  BY <1>2, <1>5, <1>9, <1>10 DEF MoneyInv

LEMMA MoneyDisconnect ==
  ASSUME MoneyInv, DisconnectBlock
  PROVE  MoneyInv'
<1> DEFINE m == Len(chain)
<1>1. LedgerInv /\ ChainOK
  BY DEF MoneyInv, LedgerInv
<1>2. LedgerInv'
  BY <1>1, DisconnectKeeps
<1>3. chain # << >> /\ chain' = Front(chain) /\ blocks' = blocks /\ unwritten' = unwritten
  BY DEF DisconnectBlock
<1>4. m \in Nat \ {0} /\ Len(chain') = m - 1 /\ \A h \in 1..m - 1 : chain'[h] = chain[h]
  <2> DEFINE A == 1..Len(blocks)
  <2>1. chain \in Seq(A) /\ chain' = SubSeq(chain, 1, Len(chain) - 1)
    BY <1>1, <1>3 DEF ChainOK, Front
  <2> HIDE DEF A
  <2>2. Len(chain) \in Nat \ {0}
    BY <1>3, <2>1
  <2> QED
    BY <2>1, <2>2, FrontAndLast
<1>5. ASSUME NEW h \in 0..m - 1 PROVE Solvent(PlacedUpTo(blocks', chain', unwritten', h))
  <2>1. h \in 0..m /\ \A k \in 1..h : k \in 1..m - 1
    BY <1>4
  <2>2. \A k \in 1..h : /\ blocks'[chain'[k]] = blocks[chain[k]]
                        /\ chain'[k] \in unwritten' <=> chain[k] \in unwritten
    BY <1>3, <1>4, <2>1
  <2>3. PlacedUpTo(blocks', chain', unwritten', h) = PlacedUpTo(blocks, chain, unwritten, h)
    BY <2>2, UpToSame
  <2>4. Solvent(PlacedUpTo(blocks, chain, unwritten, h))
    BY <2>1 DEF MoneyInv
  <2> QED
    BY <2>3, <2>4
<1>6. \A k \in DOMAIN blocks' : Minted(k, blocks'[k]) /\ Rewarded(blocks', blocks'[k])
  BY <1>3 DEF MoneyInv
<1> QED
  BY <1>2, <1>4, <1>5, <1>6 DEF MoneyInv

LEMMA MoneySteps == MoneyInv /\ [Next]_vars => MoneyInv'
<1> SUFFICES ASSUME MoneyInv, [Next]_vars PROVE MoneyInv'
  OBVIOUS
<1>1. ASSUME NEW parent \in Near, NEW k \in 0..MaxTxs, NEW reward \in Rewards,
             NEW S \in kSubset(k, Txs), NEW foundation \in {0, (3 * reward) \div 10},
             ReceiveBlock(parent, S, reward, foundation)
      PROVE  MoneyInv'
  <2>1. S \in SUBSET Txs
    BY DEF kSubset
  <2>2. reward \in Nat
    BY LedgerAssumption
  <2> QED
    BY <1>1, <2>1, <2>2, MoneyReceive
<1>2. ASSUME NEW n \in DOMAIN blocks, ConnectBlock(n) PROVE MoneyInv'
  BY <1>2, MoneyConnect
<1>3. CASE DisconnectBlock
  BY <1>3, MoneyDisconnect
<1>4. CASE UNCHANGED vars
  <2>1. LedgerInv'
    BY <1>4, StepKeeps DEF MoneyInv
  <2> QED
    BY <1>4, <2>1 DEF vars, MoneyInv
<1> QED
  BY <1>1, <1>2, <1>3, <1>4 DEF Next

\* Two recharges of the main chain redeem two deposits.
LEMMA RedeemedOnce ==
  ASSUME MoneyInv, NEW t \in Deposited(Placed), NEW u \in Deposited(Placed),
         t.main.id = u.main.id
  PROVE  t = u
<1>1. ChainOK /\ Sound(Placed) /\ \A n \in DOMAIN blocks : Minted(n, blocks[n])
  BY DEF MoneyInv, LedgerInv
<1>2. PICK p \in Placed : p.tx.type = "recharge" /\ t = p.tx
  BY DepositedHas
<1>3. PICK q \in Placed : q.tx.type = "recharge" /\ u = q.tx
  BY DepositedHas
<1>4. p.height = q.height
  BY <1>1, <1>2, <1>3 DEF Sound
<1>5. PICK h \in DOMAIN chain : p \in PlacesOf(blocks[chain[h]])
  BY PlacedHas DEF Placed
<1>6. PICK i \in DOMAIN chain : q \in PlacesOf(blocks[chain[i]])
  BY PlacedHas DEF Placed
<1>7. PICK j \in DOMAIN blocks[chain[h]].txs :
             p = Place(blocks[chain[h]].height, blocks[chain[h]].txs[j])
  BY <1>5, PlacesHave
<1>8. PICK k \in DOMAIN blocks[chain[i]].txs :
             q = Place(blocks[chain[i]].height, blocks[chain[i]].txs[k])
  BY <1>6, PlacesHave
<1>9. h = i
  <2>1. blocks[chain[h]].height = h /\ blocks[chain[i]].height = i
    BY <1>1, ChainFacts DEF ChainOK
  <2>2. p.height = blocks[chain[h]].height /\ q.height = blocks[chain[i]].height
    BY <1>7, <1>8 DEF Place
  <2> QED
    BY <1>4, <2>1, <2>2
<1>10. p.tx = blocks[chain[h]].txs[j] /\ q.tx = blocks[chain[h]].txs[k]
  BY <1>7, <1>8, <1>9 DEF Place
<1>11. chain[h] \in DOMAIN blocks
  BY <1>1, ChainFacts
<1>12. j = k
  <2>1. SameRecharge(blocks[chain[h]].txs[j], blocks[chain[h]].txs[k])
    BY <1>2, <1>3, <1>10 DEF SameRecharge
  <2>2. Minted(chain[h], blocks[chain[h]])
    BY <1>1, <1>11
  <2> QED
    BY <1>7, <1>8, <1>9, <2>1, <2>2 DEF Minted
<1> QED
  BY <1>2, <1>3, <1>10, <1>12

\* What is solvent has created no money.
LEMMA SolventChain ==
  ASSUME MoneyInv
  PROVE  NoMoneyCreated
<1> DEFINE M == {t \in ChainTxs : t.type = "recharge"}
           U == UnspentOutputs
           f == [o \in U |-> TxWithId(o.tx).outs[o.index].value]
           g == [t \in M |-> Brought(t)]
           D == Deposited(Placed)
           V == UnspentIn(Placed)
<1>1. LedgerInv /\ Sound(Placed)
  BY DEF MoneyInv, LedgerInv
<1>2. Solvent(Placed)
  <2>1. Len(chain) \in 0..Len(chain) /\ DOMAIN chain = 1..Len(chain)
    BY <1>1, ChainFacts DEF LedgerInv
  <2>2. PlacedUpTo(blocks, chain, unwritten, Len(chain)) = Placed
    BY <2>1, UpToAll DEF Placed
  <2>3. Solvent(PlacedUpTo(blocks, chain, unwritten, Len(chain)))
    BY <2>1 DEF MoneyInv
  <2> QED
    BY <2>2, <2>3
<1>3. /\ Numbers(WorthOf(Placed), V) /\ Numbers(DepositOf(Placed), D)
      /\ \A t \in D : t.main.id \in Proven
      /\ SumOf(WorthOf(Placed), V) <= SumOf(DepositOf(Placed), D)
  BY <1>2 DEF Solvent
<1>4. M = D
  <2>1. \A t : t \in M <=> t \in ChainTxs /\ t.type = "recharge"
    OBVIOUS
  <2>2. \A t : t \in D <=> \E p \in Placed : p.tx.type = "recharge" /\ t = p.tx
    BY DepositedHas
  <2> HIDE DEF M, D
  <2>3. \A t : t \in M <=> t \in D
    BY <1>1, <2>1, <2>2, TxsPlaced
  <2> QED
    BY <2>3
<1>5. U = V
  BY <1>1, OutputsPlaced
<1>6. ASSUME NEW o \in V PROVE f[o] = WorthOf(Placed)[o]
  <2>1. o \in OutsOf(Placed)
    BY DEF UnspentIn
  <2>2. PICK p \in Placed : p.tx.id = o.tx
    BY <1>1, <2>1, OutsAre
  <2>3. WorthOf(Placed)[o] = p.tx.outs[o.index].value
    BY <1>1, <2>1, <2>2, WorthIs
  <2>4. TxWithId(o.tx) = p.tx
    BY <1>1, <2>2, PlaceOfTx
  <2>5. f[o] = TxWithId(o.tx).outs[o.index].value
    BY <1>5
  <2> QED
    BY <2>3, <2>4, <2>5
<1>7. \A m \in D : g[m] = DepositOf(Placed)[m]
  <2>1. \A m \in D : g[m] = Brought(m)
    BY <1>4
  <2>2. \A m \in D : DepositOf(Placed)[m] = Brought(m)
    BY DepositedHas
  <2> HIDE DEF g, D
  <2> QED
    BY <2>1, <2>2
<1>8. DOMAIN f = U /\ DOMAIN g = M
  OBVIOUS
<1> HIDE DEF U, f, g, V, D
<1>9. SumFunction(f) = SumOf(f, U) /\ SumFunction(g) = SumOf(g, M)
  <2> HIDE DEF M
  <2> QED
    BY <1>8, SumOfFunction
<1>10. SumOf(f, V) = SumOf(WorthOf(Placed), V)
  BY <1>3, <1>6, SumSame
<1>11. SumOf(g, D) = SumOf(DepositOf(Placed), D)
  BY <1>3, <1>7, SumSame
<1>12. (\A t \in M : t.main.id \in Proven) /\ SumFunction(f) <= SumFunction(g)
  <2> HIDE DEF M
  <2> QED
    BY <1>3, <1>4, <1>5, <1>9, <1>10, <1>11
<1>13. \A t, u \in M : t.main.id = u.main.id => t = u
  <2> SUFFICES ASSUME NEW t \in D, NEW u \in D, t.main.id = u.main.id PROVE t = u
    <3> HIDE DEF M
    <3> QED
      BY <1>4
  <2> QED
    BY RedeemedOnce DEF D
<1> QED
  BY <1>12, <1>13 DEF NoMoneyCreated, f, g, U

\* There is never more in the unspent outputs of the main chain than its recharges
\* brought, whatever chain the reward of a block was checked on
\* (blockvalidator.go:92), whatever a recharge spends and whatever reorganisation
\* followed; where a recharge pays each of its deposits once, it brought what was
\* deposited.
THEOREM MoneyConserved == Spec => []NoMoneyCreated
<1>1. MoneyInv /\ [Next]_vars => MoneyInv'
  BY MoneySteps
<1>2. MoneyInv => NoMoneyCreated
  BY SolventChain
<1> QED
  BY <1>1, <1>2, MoneyInit, PTL DEF Spec
=============================================================================
