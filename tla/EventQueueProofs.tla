--------------------------- MODULE EventQueueProofs ---------------------------
(* Theorems about EventQueue, for all threads, items and priorities.       *)
EXTENDS EventQueue, FiniteSetTheorems, SequenceTheorems, WellFoundedInduction, TLAPS

-------------------------------------------------------------------------------
(* Sequences: what inserting and removing one element does.                *)

(* r is s with e inserted at place k; read the other way, s is r without   *)
(* the element at place k.                                                 *)
InsertedAt(s, r, k, e) ==
  /\ Len(r) = Len(s) + 1
  /\ k \in 1..Len(r)
  /\ \A j \in 1..Len(r) :
       r[j] = IF j < k THEN s[j] ELSE IF j = k THEN e ELSE s[j - 1]

LEMMA AppendInserts ==
  ASSUME NEW S, NEW s \in Seq(S), NEW e \in S
  PROVE  /\ Append(s, e) \in Seq(S)
         /\ InsertedAt(s, Append(s, e), Len(s) + 1, e)
BY DEF InsertedAt

LEMMA PrependInserts ==
  ASSUME NEW S, NEW s \in Seq(S), NEW e \in S
  PROVE  /\ <<e>> \o s \in Seq(S)
         /\ InsertedAt(s, <<e>> \o s, 1, e)
<1>1. <<e>> \in Seq(S) /\ Len(<<e>>) = 1 /\ <<e>>[1] = e
  OBVIOUS
<1>2. QED
  BY <1>1, ConcatProperties DEF InsertedAt

LEMMA TailRemoves ==
  ASSUME NEW S, NEW s \in Seq(S), s # <<>>
  PROVE  /\ Tail(s) \in Seq(S)
         /\ Head(s) \in S
         /\ InsertedAt(Tail(s), s, 1, Head(s))
<1>1. Len(s) \in Nat \ {0} /\ Head(s) = s[1]
  BY EmptySeq
<1>2. QED
  BY <1>1, HeadTailProperties DEF InsertedAt

LEMMA RemoveAtRemoves ==
  ASSUME NEW S, NEW s \in Seq(S), NEW k \in 1..Len(s)
  PROVE  /\ RemoveAt(s, k) \in Seq(S)
         /\ InsertedAt(RemoveAt(s, k), s, k, s[k])
<1> DEFINE a == SubSeq(s, 1, k - 1)
           b == SubSeq(s, k + 1, Len(s))
<1>1. Len(s) \in Nat /\ k \in Nat /\ \A i \in 1..Len(s) : s[i] \in S
  BY LenProperties, ElementOfSeq
<1>2. /\ a \in Seq(S)
      /\ Len(a) = k - 1
      /\ \A i \in 1..(k - 1) : a[i] = s[i]
  BY <1>1, SubSeqProperties
<1>3. /\ b \in Seq(S)
      /\ Len(b) = Len(s) - k
      /\ \A i \in 1..(Len(s) - k) : b[i] = s[k + i]
  BY <1>1, SubSeqProperties
<1> DEFINE c == a \o b
<1> HIDE DEF a, b
<1>4. /\ c \in Seq(S)
      /\ Len(c) = Len(a) + Len(b)
      /\ \A i \in 1..(Len(a) + Len(b)) :
           c[i] = IF i <= Len(a) THEN a[i] ELSE b[i - Len(a)]
  BY <1>2, <1>3, ConcatProperties
<1> HIDE DEF c
<1>5. InsertedAt(c, s, k, s[k])
  <2>1. Len(s) = Len(c) + 1
    BY <1>1, <1>2, <1>3, <1>4
  <2>2. ASSUME NEW j \in 1..Len(s)
        PROVE  s[j] = IF j < k THEN c[j] ELSE IF j = k THEN s[k] ELSE c[j - 1]
    <3>1. CASE j < k
      <4>1. j \in 1..(Len(a) + Len(b)) /\ j <= Len(a)
        BY <1>1, <1>2, <1>3, <3>1
      <4>2. c[j] = a[j]
        BY <1>4, <4>1
      <4>3. a[j] = s[j]
        BY <1>1, <1>2, <3>1
      <4>4. QED
        BY <3>1, <4>2, <4>3
    <3>2. CASE j = k
      BY <1>1, <3>2
    <3>3. CASE j > k
      <4>1. /\ j - 1 \in 1..(Len(a) + Len(b))
            /\ ~(j - 1 <= Len(a))
            /\ (j - 1) - Len(a) = j - k
            /\ j - k \in 1..(Len(s) - k)
        BY <1>1, <1>2, <1>3, <3>3
      <4>2. b[j - k] = s[k + (j - k)] /\ k + (j - k) = j
        BY <1>1, <1>3, <4>1
      <4>3. c[j - 1] = b[(j - 1) - Len(a)]
        BY <1>4, <4>1
      <4>4. c[j - 1] = s[j]
        BY <4>1, <4>2, <4>3
      <4>5. ~(j < k) /\ j # k
        BY <1>1, <3>3
      <4>6. QED
        BY <4>4, <4>5
    <3>4. QED
      BY <1>1, <3>1, <3>2, <3>3
  <2>3. QED
    BY <1>1, <2>1, <2>2 DEF InsertedAt
<1>6. c = RemoveAt(s, k)
  BY DEF a, b, c, RemoveAt
<1>7. QED
  BY <1>4, <1>5, <1>6

-------------------------------------------------------------------------------
(* The largest element of a set of naturals with an upper bound.           *)
LEMMA MaxOfBounded ==
  ASSUME NEW n \in Nat, NEW S \in SUBSET (0..n), S # {}
  PROVE  Max(S) \in S /\ \A x \in S : Max(S) >= x
<1> DEFINE T == {y \in Nat : n - y \in S}
           R == OpToRel(<, Nat)
<1>1. T \subseteq Nat /\ T # {}
  <2>1. PICK x \in S : TRUE
    OBVIOUS
  <2>2. n - x \in T
    BY n - (n - x) = x
  <2>3. QED
    BY <2>2
<1>2. PICK m \in T : \A y \in T : ~(y < m)
  <2>1. PICK m \in T : \A y \in T : <<y, m>> \notin R
    BY <1>1, WFMin, NatLessThanWellFounded, Zenon
  <2>2. \A x, y \in Nat : y < x => <<y, x>> \in R
    BY DEF OpToRel
  <2>3. QED
    BY <1>1, <2>1, <2>2, Zenon
<1>3. m \in Nat /\ \A y \in T : m <= y
  BY <1>1, <1>2
<1>4. ASSUME NEW x \in S
      PROVE  n - m >= x
  <2>1. n - x \in T
    BY n - (n - x) = x
  <2>2. QED
    BY <1>3, <2>1
<1>5. n - m \in S /\ \A x \in S : n - m >= x
  BY <1>2, <1>4
<1>6. QED
  BY <1>5 DEF Max

-------------------------------------------------------------------------------
(* The lists: f before and g after an element e is inserted into the list  *)
(* of priority p at place k, or g before and f after it is removed.        *)

SlotsOf(f) == UNION {{p} \X (1..Len(f[p])) : p \in Prios}

ItemsOf(f) == UNION {ToSet(f[p]) : p \in Prios}

NoDuplicates(f) ==
  \A p, q \in Prios : \A j \in 1..Len(f[p]), k \in 1..Len(f[q]) :
    f[p][j] = f[q][k] => p = q /\ j = k

Insertion(f, g, p, k, e) ==
  /\ f \in [Prios -> Seq(Items)]
  /\ g \in [Prios -> Seq(Items)]
  /\ p \in Prios
  /\ \A q \in Prios \ {p} : f[q] = g[q]
  /\ InsertedAt(f[p], g[p], k, e)

LEMMA Lengths ==
  ASSUME NEW f \in [Prios -> Seq(Items)], NEW p \in Prios
  PROVE  f[p] \in Seq(Items) /\ Len(f[p]) \in Nat /\ DOMAIN f[p] = 1..Len(f[p])
BY LenProperties

LEMMA ItemsInLists ==
  ASSUME NEW f \in [Prios -> Seq(Items)]
  PROVE  \A x : x \in ItemsOf(f) <=>
           \E p \in Prios : \E i \in 1..Len(f[p]) : x = f[p][i]
<1>1. \A p \in Prios : ToSet(f[p]) = {f[p][i] : i \in 1..Len(f[p])}
  BY Lengths DEF ToSet
<1>2. QED
  BY <1>1 DEF ItemsOf

LEMMA InsertionSlots ==
  ASSUME NEW f, NEW g, NEW p, NEW k, NEW e, Insertion(f, g, p, k, e)
  PROVE  /\ IsFiniteSet(SlotsOf(f)) <=> IsFiniteSet(SlotsOf(g))
         /\ IsFiniteSet(SlotsOf(f)) =>
              Cardinality(SlotsOf(g)) = Cardinality(SlotsOf(f)) + 1
<1> DEFINE new == <<p, Len(g[p])>>
<1>1. /\ Len(f[p]) \in Nat
      /\ Len(g[p]) = Len(f[p]) + 1
  BY Lengths DEF Insertion, InsertedAt
<1>2. new \notin SlotsOf(f)
  BY <1>1 DEF SlotsOf
<1>3. SlotsOf(g) = SlotsOf(f) \cup {new}
  <2>1. 1..Len(g[p]) = (1..Len(f[p])) \cup {Len(g[p])}
    BY <1>1
  <2>2. \A q \in Prios : {q} \X (1..Len(g[q])) =
          IF q = p THEN ({q} \X (1..Len(f[q]))) \cup {new}
          ELSE {q} \X (1..Len(f[q]))
    BY <2>1 DEF Insertion
  <2>3. p \in Prios
    BY DEF Insertion
  <2>4. QED
    BY <2>2, <2>3 DEF SlotsOf
<1>4. SlotsOf(f) = SlotsOf(g) \ {new}
  BY <1>2, <1>3
<1> HIDE DEF new
<1>5. ASSUME IsFiniteSet(SlotsOf(f))
      PROVE  /\ IsFiniteSet(SlotsOf(g))
             /\ Cardinality(SlotsOf(g)) = Cardinality(SlotsOf(f)) + 1
  BY <1>2, <1>3, <1>5, FS_AddElement
<1>6. ASSUME IsFiniteSet(SlotsOf(g))
      PROVE  IsFiniteSet(SlotsOf(f))
  BY <1>4, <1>6, FS_RemoveElement
<1>7. QED
  BY <1>5, <1>6

LEMMA InsertionItems ==
  ASSUME NEW f, NEW g, NEW p, NEW k, NEW e, Insertion(f, g, p, k, e)
  PROVE  /\ ItemsOf(g) = ItemsOf(f) \cup {e}
         /\ NoDuplicates(g) <=> NoDuplicates(f) /\ e \notin ItemsOf(f)
<1> DEFINE Up(q, i) == IF q = p /\ i >= k THEN i + 1 ELSE i
           Down(q, j) == IF q = p /\ j > k THEN j - 1 ELSE j
<1>1. /\ p \in Prios /\ k \in 1..Len(g[p]) /\ g[p][k] = e
      /\ Len(f[p]) \in Nat /\ Len(g[p]) = Len(f[p]) + 1
      /\ \A q \in Prios : Len(f[q]) \in Nat /\ Len(g[q]) \in Nat
  BY Lengths DEF Insertion, InsertedAt
<1>2. ASSUME NEW q \in Prios, NEW i \in 1..Len(f[q])
      PROVE  /\ Up(q, i) \in 1..Len(g[q])
             /\ g[q][Up(q, i)] = f[q][i]
             /\ ~(q = p /\ Up(q, i) = k)
             /\ Down(q, Up(q, i)) = i
  <2>1. CASE q = p
    BY <1>1, <2>1 DEF Insertion, InsertedAt
  <2>2. CASE q # p
    BY <1>1, <2>2 DEF Insertion
  <2>3. QED
    BY <2>1, <2>2
<1>3. ASSUME NEW q \in Prios, NEW j \in 1..Len(g[q]), ~(q = p /\ j = k)
      PROVE  /\ Down(q, j) \in 1..Len(f[q])
             /\ f[q][Down(q, j)] = g[q][j]
             /\ Up(q, Down(q, j)) = j
  <2>1. CASE q = p
    BY <1>1, <1>3, <2>1 DEF Insertion, InsertedAt
  <2>2. CASE q # p
    BY <1>1, <2>2 DEF Insertion
  <2>3. QED
    BY <2>1, <2>2
<1> HIDE DEF Up, Down
<1>4. /\ \A x : x \in ItemsOf(f) <=>
           \E q \in Prios : \E i \in 1..Len(f[q]) : x = f[q][i]
      /\ \A x : x \in ItemsOf(g) <=>
           \E q \in Prios : \E i \in 1..Len(g[q]) : x = g[q][i]
  BY ItemsInLists DEF Insertion
<1>5. ItemsOf(g) = ItemsOf(f) \cup {e}
  <2>1. ASSUME NEW x \in ItemsOf(g), x # e
        PROVE  x \in ItemsOf(f)
    <3>1. PICK q \in Prios : \E j \in 1..Len(g[q]) : x = g[q][j]
      BY <1>4
    <3>2. PICK j \in 1..Len(g[q]) : x = g[q][j]
      BY <3>1
    <3>3. ~(q = p /\ j = k)
      BY <1>1, <2>1, <3>2
    <3>4. Down(q, j) \in 1..Len(f[q]) /\ f[q][Down(q, j)] = x
      BY <1>3, <3>2, <3>3
    <3>5. QED
      BY <1>4, <3>4
  <2>2. ASSUME NEW x \in ItemsOf(f)
        PROVE  x \in ItemsOf(g)
    <3>1. PICK q \in Prios : \E i \in 1..Len(f[q]) : x = f[q][i]
      BY <1>4
    <3>2. PICK i \in 1..Len(f[q]) : x = f[q][i]
      BY <3>1
    <3>3. Up(q, i) \in 1..Len(g[q]) /\ g[q][Up(q, i)] = x
      BY <1>2, <3>2
    <3>4. QED
      BY <1>4, <3>3
  <2>3. e \in ItemsOf(g)
    BY <1>1, <1>4
  <2>4. QED
    BY <2>1, <2>2, <2>3
<1>6. ASSUME NoDuplicates(g)
      PROVE  NoDuplicates(f) /\ e \notin ItemsOf(f)
  <2>1. ASSUME NEW q \in Prios, NEW r \in Prios,
               NEW i \in 1..Len(f[q]), NEW j \in 1..Len(f[r]),
               f[q][i] = f[r][j]
        PROVE  q = r /\ i = j
    <3>1. /\ Up(q, i) \in 1..Len(g[q]) /\ Up(r, j) \in 1..Len(g[r])
          /\ g[q][Up(q, i)] = g[r][Up(r, j)]
      BY <1>2, <2>1
    <3>2. q = r /\ Up(q, i) = Up(r, j)
      BY <1>6, <3>1, Zenon DEF NoDuplicates
    <3>3. Down(q, Up(q, i)) = i /\ Down(r, Up(r, j)) = j
      BY <1>2
    <3>4. QED
      BY <3>2, <3>3
  <2>2. ASSUME NEW q \in Prios, NEW i \in 1..Len(f[q]), f[q][i] = e
        PROVE  FALSE
    <3>1. /\ Up(q, i) \in 1..Len(g[q]) /\ g[q][Up(q, i)] = g[p][k]
          /\ ~(q = p /\ Up(q, i) = k)
      BY <1>1, <1>2, <2>2
    <3>2. QED
      BY <1>1, <1>6, <3>1, Zenon DEF NoDuplicates
  <2>3. e \notin ItemsOf(f)
    BY <1>4, <2>2
  <2>4. QED
    BY <2>1, <2>3, Zenon DEF NoDuplicates
<1>7. ASSUME NoDuplicates(f), e \notin ItemsOf(f)
      PROVE  NoDuplicates(g)
  <2>1. ASSUME NEW q \in Prios, NEW j \in 1..Len(g[q]), ~(q = p /\ j = k)
        PROVE  g[q][j] # e
    <3>1. Down(q, j) \in 1..Len(f[q]) /\ f[q][Down(q, j)] = g[q][j]
      BY <1>3, <2>1
    <3>2. QED
      BY <1>4, <1>7, <3>1
  <2>2. ASSUME NEW q \in Prios, NEW r \in Prios,
               NEW i \in 1..Len(g[q]), NEW j \in 1..Len(g[r]),
               ~(q = p /\ i = k), ~(r = p /\ j = k),
               g[q][i] = g[r][j]
        PROVE  q = r /\ i = j
    <3>1. /\ Down(q, i) \in 1..Len(f[q]) /\ Down(r, j) \in 1..Len(f[r])
          /\ f[q][Down(q, i)] = f[r][Down(r, j)]
      BY <1>3, <2>2
    <3>2. q = r /\ Down(q, i) = Down(r, j)
      BY <1>7, <3>1, Zenon DEF NoDuplicates
    <3>3. Up(q, Down(q, i)) = i /\ Up(r, Down(r, j)) = j
      BY <1>3, <2>2
    <3>4. QED
      BY <3>2, <3>3
  <2>3. ASSUME NEW q \in Prios, NEW r \in Prios,
               NEW i \in 1..Len(g[q]), NEW j \in 1..Len(g[r]),
               g[q][i] = g[r][j]
        PROVE  q = r /\ i = j
    <3>1. CASE q = p /\ i = k
      BY <1>1, <2>1, <2>3, <3>1, Zenon
    <3>2. CASE r = p /\ j = k
      BY <1>1, <2>1, <2>3, <3>2, Zenon
    <3>3. CASE ~(q = p /\ i = k) /\ ~(r = p /\ j = k)
      BY <2>2, <2>3, <3>3, Zenon
    <3>4. QED
      BY <3>1, <3>2, <3>3
  <2>4. QED
    BY <2>3, Zenon DEF NoDuplicates
<1>8. QED
  BY <1>5, <1>6, <1>7


-------------------------------------------------------------------------------
(* The inductive invariant.                                                *)

ListTypeOK ==
  /\ il \in [Prios -> Seq(Items)]
  /\ is \in Nat
  /\ where \in [Items -> {"unborn", "queued", "gone"} \cup Threads]

(* The lists, the count and the owners agree.                              *)
ListInv ==
  /\ IsFiniteSet(Slots(Prios))
  /\ SizeAgrees
  /\ OnePlace

(* A thread has an entry exactly while it sleeps, of the priority it waits *)
(* at unless it was broken.                                                *)
Registered ==
  \A t \in Threads :
    IF call[t] = "none" THEN pending[t] = NoEntry /\ prio[t] = 0
                        ELSE pending[t] \in {0, prio[t]}

Inv == TypeOK /\ ListInv /\ Registered /\ NoMissedWakeup

Forms ==
  /\ Slots(Prios) = SlotsOf(il)
  /\ Queued = ItemsOf(il)
  /\ OnePlace <=>
       /\ \A i \in Items : where[i] = "queued" <=> i \in Queued
       /\ NoDuplicates(il)

LEMMA ListForms == Forms /\ Forms'
BY DEF Forms, Slots, SlotsOf, Queued, ItemsOf, OnePlace, NoDuplicates

LEMMA Inserting ==
  ASSUME ListTypeOK, ListInv,
         NEW i \in Items, where[i] = "unborn",
         NEW p \in Prios, NEW r \in Seq(Items), NEW k, InsertedAt(il[p], r, k, i),
         il' = [il EXCEPT ![p] = r],
         is' = is + 1,
         where' = [where EXCEPT ![i] = "queued"]
  PROVE  ListTypeOK' /\ ListInv' /\ Queued' = Queued \cup {i}
<1>1. ListTypeOK'
  BY DEF ListTypeOK
<1>2. Insertion(il, il', p, k, i)
  BY DEF Insertion, ListTypeOK
<1>3. /\ IsFiniteSet(SlotsOf(il'))
      /\ Cardinality(SlotsOf(il')) = Cardinality(SlotsOf(il)) + 1
  BY <1>2, InsertionSlots, ListForms DEF ListInv, Forms
<1>4. /\ ItemsOf(il') = ItemsOf(il) \cup {i}
      /\ NoDuplicates(il') <=> NoDuplicates(il) /\ i \notin ItemsOf(il)
  BY <1>2, InsertionItems
<1>5. i \notin ItemsOf(il)
  BY ListForms DEF ListInv, Forms
<1>6. QED
  BY <1>1, <1>3, <1>4, <1>5, ListForms DEF Forms, ListInv, SizeAgrees, ListTypeOK

LEMMA Removing ==
  ASSUME ListTypeOK, ListInv,
         NEW p \in Prios, NEW r \in Seq(Items), NEW k \in 1..Len(il[p]),
         NEW i, i = il[p][k], InsertedAt(r, il[p], k, i),
         NEW w \in Threads \cup {"gone"},
         il' = [il EXCEPT ![p] = r],
         is' = is - 1,
         where' = [where EXCEPT ![i] = w]
  PROVE  /\ ListTypeOK' /\ ListInv'
         /\ i \in Items /\ where[i] = "queued"
         /\ Queued' = Queued \ {i}
<1>1. i \in Items
  BY ElementOfSeq DEF ListTypeOK
<1>2. Insertion(il', il, p, k, i)
  BY DEF Insertion, ListTypeOK
<1>3. /\ IsFiniteSet(SlotsOf(il'))
      /\ Cardinality(SlotsOf(il)) = Cardinality(SlotsOf(il')) + 1
  BY <1>2, InsertionSlots, ListForms DEF ListInv, Forms
<1>4. /\ ItemsOf(il) = ItemsOf(il') \cup {i}
      /\ NoDuplicates(il') /\ i \notin ItemsOf(il')
  BY <1>2, InsertionItems, ListForms DEF ListInv, Forms
<1>5. where[i] = "queued"
  BY <1>1, <1>4, ListForms DEF ListInv, Forms
<1>6. is' = Cardinality(SlotsOf(il')) /\ is' \in Nat
  BY <1>3, FS_CardinalityType, ListForms DEF ListInv, SizeAgrees, ListTypeOK, Forms
<1>7. ListTypeOK'
  BY <1>6 DEF ListTypeOK
<1>8. w # "queued"
  BY ThreadsAssumption
<1>9. \A j \in Items : where'[j] = "queued" <=> j \in ItemsOf(il')
  BY <1>1, <1>4, <1>8, ListForms DEF ListInv, Forms, ListTypeOK
<1>10. QED
  BY <1>1, <1>3, <1>4, <1>5, <1>6, <1>7, <1>9, ListForms DEF Forms, ListInv, SizeAgrees

LEMMA Dropping ==
  ASSUME ListTypeOK, DropAll
  PROVE  ListTypeOK' /\ ListInv' /\ Queued' = {}
<1>1. ListTypeOK'
  BY DEF ListTypeOK, DropAll
<1>2. \A p \in Prios : il'[p] = <<>> /\ Len(il'[p]) = 0
  BY DEF DropAll
<1>3. SlotsOf(il') = {} /\ ItemsOf(il') = {}
  BY <1>2 DEF SlotsOf, ItemsOf, ToSet
<1>4. NoDuplicates(il')
  BY <1>2 DEF NoDuplicates
<1>5. \A i \in Items : where'[i] # "queued"
  BY DEF DropAll, ListTypeOK
<1>6. QED
  BY <1>1, <1>3, <1>4, <1>5, FS_EmptySet, ListForms
     DEF Forms, ListInv, SizeAgrees, DropAll

LEMMA Keeping ==
  ASSUME ListTypeOK, ListInv, UNCHANGED <<il, is>>,
         \A i \in Items : where'[i] = "queued" <=> where[i] = "queued",
         where' \in [Items -> {"unborn", "queued", "gone"} \cup Threads]
  PROVE  ListTypeOK' /\ ListInv' /\ Queued' = Queued
BY ListForms DEF Forms, ListInv, SizeAgrees, ListTypeOK

-------------------------------------------------------------------------------
(* pick_up_.                                                               *)

LEMMA CandidatesBounded ==
  ASSUME NEW t \in Threads, NEW p \in 0..MaxPriority
  PROVE  /\ Candidates(t, p) \subseteq Prios
         /\ \A q \in Candidates(t, p) : il[q] # <<>>
BY PriorityAssumption DEF Candidates, NonEmpty, Above, Prios

(* A served thread takes the item at the front of one list.                *)
LEMMA PickUpTakes ==
  ASSUME ListTypeOK, ListInv,
         NEW t \in Threads, NEW p \in 0..MaxPriority, PickUp(t, p)
  PROVE  \/ UNCHANGED <<il, is, where>>
         \/ /\ ListTypeOK' /\ ListInv' /\ is' = is - 1
            /\ \E i \in Items :
                 /\ where[i] = "queued"
                 /\ where' = [where EXCEPT ![i] = t]
                 /\ Queued' = Queued \ {i}
<1>1. CASE Declines(t, p)
  BY <1>1 DEF PickUp
<1>2. CASE ~Declines(t, p)
  <2> DEFINE q == Max(Candidates(t, p))
  <2>1. Candidates(t, p) \in SUBSET (0..MaxPriority) /\ MaxPriority \in Nat
    BY CandidatesBounded, PriorityAssumption DEF Prios
  <2>2. q \in Candidates(t, p)
    BY <1>2, <2>1, MaxOfBounded DEF Declines
  <2>3. q \in Prios /\ il[q] # <<>>
    BY <2>2, CandidatesBounded
  <2> HIDE DEF q
  <2>4. /\ il' = [il EXCEPT ![q] = Tail(il[q])]
        /\ is' = is - 1
        /\ where' = [where EXCEPT ![Head(il[q])] = t]
    BY <1>2 DEF PickUp, q
  <2>5. /\ Tail(il[q]) \in Seq(Items)
        /\ InsertedAt(Tail(il[q]), il[q], 1, Head(il[q]))
    BY <2>3, TailRemoves DEF ListTypeOK
  <2>6. 1 \in 1..Len(il[q]) /\ Head(il[q]) = il[q][1]
    BY <2>3, <2>5 DEF ListTypeOK, InsertedAt
  <2>7. /\ ListTypeOK' /\ ListInv'
        /\ Head(il[q]) \in Items /\ where[Head(il[q])] = "queued"
        /\ Queued' = Queued \ {Head(il[q])}
    BY <2>3, <2>4, <2>5, <2>6, Removing
  <2>8. QED
    BY <2>4, <2>7
<1>3. QED
  BY <1>1, <1>2

LEMMA LeavePreserves ==
  ASSUME Inv, NEW t \in Threads, NEW p \in 0..MaxPriority,
         NEW tp \in NoEntry..MaxPriority, Leave(t, p, tp)
  PROVE  Inv'
<1>1. ListTypeOK /\ ListInv
  BY DEF Inv, TypeOK, ListTypeOK
<1>2. /\ ListTypeOK' /\ ListInv'
      /\ is' \in Nat
      /\ is = 0 => is' = 0
  <2>1. CASE UNCHANGED <<il, is, where>>
    BY <1>1, <2>1, Keeping DEF ListTypeOK
  <2>2. CASE PickUp(t, p) /\ is # 0
    BY <1>1, <2>1, <2>2, PickUpTakes DEF ListTypeOK
  <2>3. QED
    BY <2>1, <2>2 DEF Leave
<1>3. /\ pending' \in [Threads -> NoEntry..MaxPriority]
      /\ prio' \in [Threads -> 0..MaxPriority]
  <2>1. NoEntry \in NoEntry..MaxPriority /\ 0 \in 0..MaxPriority
    BY PriorityAssumption DEF NoEntry
  <2>2. /\ pending' = [pending EXCEPT ![t] = NoEntry]
        /\ prio' = [prio EXCEPT ![t] = 0]
    BY DEF Leave
  <2>3. QED
    BY <2>1, <2>2 DEF Inv, TypeOK
<1>4. TypeOK'
  BY <1>2, <1>3 DEF Inv, TypeOK, ListTypeOK, Leave, Calls
<1>5. Registered'
  BY DEF Inv, TypeOK, Registered, Leave, NoEntry
<1>6. NoMissedWakeup'
  BY <1>2 DEF Inv, TypeOK, NoMissedWakeup, Sleeping, Leave
<1>7. QED
  BY <1>2, <1>4, <1>5, <1>6 DEF Inv

-------------------------------------------------------------------------------
(* Every step preserves the invariant.                                     *)

LEMMA InvInit == Init => Inv
<1> SUFFICES ASSUME Init PROVE Inv
  OBVIOUS
<1>1. TypeOK
  BY PriorityAssumption
     DEF Init, TypeOK, NoEntry, Calls
<1>2. \A p \in Prios : il[p] = <<>> /\ Len(il[p]) = 0
  BY DEF Init
<1>3. SlotsOf(il) = {} /\ ItemsOf(il) = {} /\ NoDuplicates(il)
  BY <1>2 DEF SlotsOf, ItemsOf, ToSet, NoDuplicates
<1>4. ListInv
  BY <1>3, FS_EmptySet, ListForms DEF Forms, ListInv, SizeAgrees, Init
<1>5. Registered /\ NoMissedWakeup
  BY DEF Init, Registered, NoMissedWakeup, Sleeping
<1>6. QED
  BY <1>1, <1>4, <1>5 DEF Inv

(* What is left to show of a call that leaves the waiting threads as they  *)
(* are, except that it may notify them all.                                *)
LEMMA CallPreserves ==
  ASSUME Inv, ListTypeOK', ListInv', UNCHANGED <<call, prio>>,
         \/ UNCHANGED <<st, pending, notified>> /\ (is = 0 => is' = 0)
         \/ /\ NotifyAll
            /\ st' \in BOOLEAN
            /\ pending' \in [Threads -> NoEntry..MaxPriority]
            /\ \A t \in Threads : pending'[t] = pending[t] \/
                                  (pending[t] # NoEntry /\ pending'[t] = 0),
         pred' \in [Threads -> BOOLEAN]
  PROVE  Inv'
<1>1. notified' \in [Threads -> BOOLEAN]
  BY DEF Inv, TypeOK, NotifyAll
<1>2. TypeOK'
  BY <1>1 DEF Inv, TypeOK, ListTypeOK
<1>3. Registered'
  BY DEF Inv, Registered
<1>4. NoMissedWakeup'
  BY DEF Inv, TypeOK, NoMissedWakeup, NotifyAll, Sleeping
<1>5. QED
  BY <1>2, <1>3, <1>4 DEF Inv

LEMMA SleepPreserves ==
  ASSUME Inv, NEW t \in Threads, NEW p \in 0..MaxPriority,
         NEW c \in {"wait", "wait_for"},
         Wait(t, p, c), ~Awake(t, p)
  PROVE  Inv'
<1>1. ListTypeOK' /\ ListInv'
  BY Keeping DEF Inv, TypeOK, ListTypeOK, Wait
<1>2. /\ call[t] = "none"
      /\ pending' = [pending EXCEPT ![t] = p]
      /\ call' = [call EXCEPT ![t] = c]
      /\ prio' = [prio EXCEPT ![t] = p]
      /\ notified' = [notified EXCEPT ![t] = FALSE]
      /\ UNCHANGED <<st, il, is, pred, where>>
  BY DEF Wait
<1>3. st /\ p # 0 /\ is = 0
  BY DEF Awake, Inv, TypeOK
<1>4. p \in NoEntry..MaxPriority /\ c \in Calls /\ c # "none"
  BY PriorityAssumption DEF NoEntry, Calls
<1>5. TypeOK'
  BY <1>2, <1>4 DEF Inv, TypeOK
<1>6. Registered'
  BY <1>2, <1>4 DEF Inv, TypeOK, Registered
<1>7. NoMissedWakeup'
  BY <1>2, <1>3 DEF Inv, TypeOK, NoMissedWakeup, Sleeping
<1>8. QED
  BY <1>1, <1>5, <1>6, <1>7 DEF Inv

LEMMA ThreadPreserves ==
  ASSUME Inv, NEW t \in Threads, ThreadStep(t)
  PROVE  Inv'
<1>1. /\ prio[t] \in 0..MaxPriority /\ pending[t] \in NoEntry..MaxPriority
      /\ 0..MaxPriority \subseteq NoEntry..MaxPriority
  BY PriorityAssumption DEF Inv, TypeOK, NoEntry
<1>2. ASSUME NEW p \in 0..MaxPriority, NEW c \in {"wait", "wait_for"}, Wait(t, p, c)
      PROVE  Inv'
  BY <1>1, <1>2, LeavePreserves, SleepPreserves DEF Wait
<1>3. ASSUME call[t] # "none", Resume(t)
      PROVE  Inv'
  <2>1. CASE Leave(t, prio[t], pending[t])
    BY <1>1, <2>1, LeavePreserves
  <2>2. CASE /\ ~Awake(t, pending[t])
             /\ notified' = [notified EXCEPT ![t] = FALSE]
             /\ UNCHANGED <<st, il, is, pending, where, threadVars>>
    <3>1. ListTypeOK' /\ ListInv'
      BY <2>2, Keeping DEF Inv, TypeOK, ListTypeOK
    <3>2. st /\ pending[t] # 0 /\ is = 0
      BY <1>1, <2>2 DEF Awake, Inv, TypeOK
    <3>3. TypeOK'
      BY <2>2 DEF Inv, TypeOK, threadVars
    <3>4. Registered' /\ NoMissedWakeup'
      BY <2>2, <3>2 DEF Inv, TypeOK, Registered, NoMissedWakeup, Sleeping, threadVars
    <3>5. QED
      BY <3>1, <3>3, <3>4 DEF Inv
  <2>3. QED
    BY <1>3, <2>1, <2>2 DEF Resume
<1>4. CASE TimeOut(t)
  BY <1>1, <1>4, LeavePreserves DEF TimeOut
<1>5. QED
  BY <1>2, <1>3, <1>4 DEF ThreadStep, Wake, Poll

LEMMA NextPreserves == Inv /\ [Next]_vars => Inv'
<1> SUFFICES ASSUME Inv, [Next]_vars PROVE Inv'
  OBVIOUS
<1>1. ListTypeOK /\ ListInv
  BY DEF Inv, TypeOK, ListTypeOK
<1>2. ASSUME NEW t \in Threads, ThreadStep(t) PROVE Inv'
  BY <1>2, ThreadPreserves
<1>3. ASSUME NEW i \in Items, NEW p \in Prios, EmplaceBack(i, p) \/ EmplaceFront(i, p)
      PROVE  Inv'
  <2>1. CASE Refuse(i)
    <3>1. ListTypeOK' /\ ListInv'
      BY <1>1, <1>3, <2>1, Keeping DEF Refuse, EmplaceBack, EmplaceFront, ListTypeOK
    <3>2. QED
      BY <2>1, <3>1, CallPreserves DEF Refuse, Inv, TypeOK, threadVars
  <2>2. CASE st /\ ~Refuse(i)
    <3>1. PICK r, k : /\ r \in Seq(Items) /\ InsertedAt(il[p], r, k, i)
                      /\ il' = [il EXCEPT ![p] = r]
                      /\ where[i] = "unborn"
                      /\ is' = is + 1
                      /\ where' = [where EXCEPT ![i] = "queued"]
                      /\ NotifyAll
                      /\ UNCHANGED <<st, pending, threadVars>>
      BY <1>1, <1>3, <2>2, AppendInserts, PrependInserts
         DEF EmplaceBack, EmplaceFront, ListTypeOK
    <3>2. ListTypeOK' /\ ListInv'
      BY <1>1, <3>1, Inserting
    <3>3. QED
      BY <3>1, <3>2, CallPreserves DEF Inv, TypeOK, threadVars
  <2>3. QED
    BY <1>3, <2>1, <2>2 DEF EmplaceBack, EmplaceFront
<1>4. CASE CancelAll
  BY <1>1, <1>4, Dropping, CallPreserves DEF CancelAll, DropAll, Inv, TypeOK, threadVars
<1>5. ASSUME NEW i \in Items, Cancel(i) PROVE Inv'
  <2>1. PICK p \in Prios : \E k \in 1..Len(il[p]) :
          /\ il[p][k] = i
          /\ il' = [il EXCEPT ![p] = RemoveAt(il[p], k)]
          /\ is' = is - 1
          /\ where' = [where EXCEPT ![i] = "gone"]
          /\ UNCHANGED <<st, pending, notified, threadVars>>
    BY <1>5 DEF Cancel
  <2>2. PICK k \in 1..Len(il[p]) :
          /\ il[p][k] = i
          /\ il' = [il EXCEPT ![p] = RemoveAt(il[p], k)]
          /\ is' = is - 1
          /\ where' = [where EXCEPT ![i] = "gone"]
          /\ UNCHANGED <<st, pending, notified, threadVars>>
    BY <2>1
  <2>3. /\ RemoveAt(il[p], k) \in Seq(Items)
        /\ InsertedAt(RemoveAt(il[p], k), il[p], k, i)
    BY <1>1, <2>2, RemoveAtRemoves DEF ListTypeOK
  <2>4. ListTypeOK' /\ ListInv'
    BY <1>1, <2>2, <2>3, Removing
  <2>5. is' \in Nat
    BY <2>4 DEF ListTypeOK
  <2>6. is = 0 => is' = 0
    BY <2>2, <2>5
  <2>7. QED
    BY <2>2, <2>4, <2>6, CallPreserves DEF Inv, TypeOK, threadVars
<1>6. ASSUME NEW t \in Stoppable, BreakWaiter(t) PROVE Inv'
  <2>1. t \in Threads
    BY ThreadsAssumption
  <2>2. ListTypeOK' /\ ListInv'
    BY <1>1, <1>6, Keeping DEF BreakWaiter, ListTypeOK
  <2>3. 0 \in NoEntry..MaxPriority
    BY PriorityAssumption DEF NoEntry
  <2>4. pending' \in [Threads -> NoEntry..MaxPriority]
    BY <1>6, <2>1, <2>3 DEF BreakWaiter, Inv, TypeOK
  <2>5. QED
    BY <1>6, <2>1, <2>2, <2>4, CallPreserves DEF BreakWaiter, Inv, TypeOK, threadVars
<1>7. ASSUME NEW t \in Stoppable, Invalidate(t) PROVE Inv'
  <2>1. ListTypeOK' /\ ListInv'
    BY <1>1, <1>7, Keeping DEF Invalidate, ListTypeOK
  <2>2. QED
    BY <1>7, <2>1, CallPreserves DEF Invalidate, Inv, TypeOK
<1>8. CASE BreakQueue
  BY <1>1, <1>8, Dropping, CallPreserves DEF BreakQueue, Inv, TypeOK, threadVars
<1>9. CASE UNCHANGED vars
  BY <1>9 DEF vars, Inv, TypeOK, ListInv, SizeAgrees, Slots, OnePlace, Queued,
              Registered, NoMissedWakeup, Sleeping
<1>10. QED
  BY <1>2, <1>3, <1>4, <1>5, <1>6, <1>7, <1>8, <1>9 DEF Next

-------------------------------------------------------------------------------
(* What the invariant gives.                                               *)

(* A thread with no waiter above it is served whenever an item is queued.  *)
LEMMA HighestIsServed ==
  ASSUME Inv, NEW t \in Threads, NEW p \in 0..MaxPriority,
         HigherWaiters(t, p) = {}, is # 0
  PROVE  Candidates(t, p) # {}
<1>1. PICK s \in Slots(Prios) : TRUE
  BY FS_EmptySet DEF Inv, ListInv, SizeAgrees
<1>2. PICK q \in Prios : il[q] # <<>>
  BY <1>1 DEF Slots
<1>3. IsFiniteSet(Slots(Above(p))) /\ Slots(Above(p)) \subseteq Slots(Prios)
  <2>1. Above(p) \subseteq Prios
    BY PriorityAssumption DEF Above, Prios
  <2>2. QED
    BY <2>1, FS_Subset DEF Slots, Inv, ListInv
<1>4. Cardinality(HigherWaiters(t, p)) = 0
  BY FS_EmptySet
<1>5. CASE q \in Above(p)
  <2>1. Len(il[q]) \in Nat \ {0}
    BY <1>2, EmptySeq DEF Inv, TypeOK
  <2>2. <<q, 1>> \in Slots(Above(p))
    BY <1>5, <2>1 DEF Slots
  <2>3. Cardinality(Slots(Above(p))) > 0
    BY <1>3, <2>2, FS_EmptySet, FS_CardinalityType
  <2>4. ServesHigher(t, p)
    BY <1>4, <2>3 DEF ServesHigher
  <2>5. QED
    BY <1>2, <1>5, <2>4 DEF Candidates, NonEmpty
<1>6. CASE q \notin Above(p) /\ ~ServesHigher(t, p)
  BY <1>2, <1>6, PriorityAssumption DEF Candidates, NonEmpty, Above, Prios
<1>7. CASE ServesHigher(t, p)
  <2>1. Cardinality(Slots(Above(p))) > 0
    BY <1>4, <1>7 DEF ServesHigher
  <2>2. Slots(Above(p)) # {}
    BY <2>1, FS_EmptySet
  <2>3. PICK r \in Above(p) : il[r] # <<>>
    BY <2>2 DEF Slots
  <2>4. QED
    BY <1>7, <2>3 DEF Candidates, NonEmpty
<1>8. QED
  BY <1>5, <1>6, <1>7

LEMMA InvServes == Inv => SomeoneServes
<1> SUFFICES ASSUME Inv, is > 0, Sleeping # {}
             PROVE  \E t \in Sleeping :
                      /\ notified[t]
                      /\ pred[t] \/ pending[t] = 0 \/ ~Declines(t, prio[t])
  BY DEF SomeoneServes
<1>1. is # 0 /\ \A t \in Sleeping : t \in Threads /\ notified[t]
  BY DEF Inv, NoMissedWakeup, Sleeping, TypeOK
<1> DEFINE P == {prio[t] : t \in Sleeping}
<1>2. P \in SUBSET (0..MaxPriority) /\ P # {} /\ MaxPriority \in Nat
  <2>1. \A t \in Sleeping : prio[t] \in 0..MaxPriority
    BY DEF Inv, TypeOK, Sleeping
  <2>2. PICK t \in Sleeping : TRUE
    OBVIOUS
  <2>3. prio[t] \in P
    BY <2>2
  <2>4. QED
    BY <2>1, <2>3, PriorityAssumption
<1>3. Max(P) \in P /\ \A x \in P : Max(P) >= x
  BY <1>2, MaxOfBounded
<1>4. PICK t \in Sleeping : prio[t] = Max(P)
  BY <1>3
<1>5. \A u \in Sleeping : prio[u] <= prio[t]
  BY <1>3, <1>4
<1> HIDE DEF P
<1>6. prio[t] \in 0..MaxPriority
  BY <1>1 DEF Inv, TypeOK
<1>7. ASSUME NEW u \in Threads
      PROVE  ~(pending[u] > prio[t])
  <2>1. CASE call[u] = "none"
    BY <1>6, <2>1 DEF Inv, Registered, NoEntry
  <2>2. CASE call[u] # "none"
    <3>1. prio[u] \in 0..MaxPriority /\ prio[u] <= prio[t]
      BY <1>5, <2>2 DEF Inv, TypeOK, Sleeping
    <3>2. QED
      BY <1>6, <2>2, <3>1 DEF Inv, Registered
  <2>3. QED
    BY <2>1, <2>2
<1>8. HigherWaiters(t, prio[t]) = {}
  BY <1>7 DEF HigherWaiters
<1>9. QED
  BY <1>1, <1>6, <1>8, HighestIsServed DEF Declines

(* Who declines has a waiter above it, by the lemma; that waiter is asleep *)
(* with an item queued, so it is notified.                                 *)
LEMMA InvPasses == Inv => PassesToHigher
<1> SUFFICES ASSUME Inv, NEW t \in Threads, NEW p \in 0..MaxPriority,
                    is > 0, Declines(t, p)
             PROVE  \E u \in Threads \ {t} : pending[u] > p /\ notified[u]
  BY DEF PassesToHigher
<1>1. is # 0
  BY DEF Inv, TypeOK
<1>2. HigherWaiters(t, p) # {}
  BY <1>1, HighestIsServed DEF Declines
<1>3. PICK u \in Threads \ {t} : pending[u] > p
  BY <1>2 DEF HigherWaiters
<1>4. call[u] # "none"
  BY <1>3, PriorityAssumption DEF Inv, Registered, NoEntry
<1>5. notified[u]
  BY <1>1, <1>4 DEF Inv, NoMissedWakeup, Sleeping
<1>6. QED
  BY <1>3, <1>5

-------------------------------------------------------------------------------
(* The refinement.                                                         *)

Fresh == {i \in Items : where[i] = "unborn"}

Got == [t \in Threads |-> {i \in Items : where[i] = t}]

LEMMA PoolSees ==
  ASSUME UNCHANGED <<st, il, where>>
  PROVE  UNCHANGED Pool!vars
BY DEF Pool!vars, Queued

LEMMA OfferSeen ==
  ASSUME ListTypeOK, NEW i \in Items, where[i] = "unborn", UNCHANGED st,
         NEW w \in {"queued", "gone"}, where' = [where EXCEPT ![i] = w],
         Queued' = IF st THEN Queued \cup {i} ELSE Queued
  PROVE  Pool!Offer(i)
<1>1. Fresh' = Fresh \ {i}
  BY DEF ListTypeOK, Fresh
<1>2. \A t \in Threads : {j \in Items : where'[j] = t} = {j \in Items : where[j] = t}
  BY ThreadsAssumption DEF ListTypeOK
<1>3. UNCHANGED Got
  BY <1>2 DEF Got
<1>4. QED
  BY <1>1, <1>3 DEF Pool!Offer, Fresh, Got

LEMMA TakeSeen ==
  ASSUME ListTypeOK, NEW i \in Items, where[i] = "queued", i \in Queued, st, UNCHANGED st,
         NEW t \in Threads, where' = [where EXCEPT ![i] = t],
         Queued' = Queued \ {i}
  PROVE  Pool!Take(t, i)
<1>1. t \notin {"unborn", "queued", "gone"}
  BY ThreadsAssumption
<1>2. UNCHANGED Fresh
  BY <1>1 DEF ListTypeOK, Fresh
<1>3. ASSUME NEW u \in Threads
      PROVE  {j \in Items : where'[j] = u} =
               IF u = t THEN {j \in Items : where[j] = u} \cup {i}
               ELSE {j \in Items : where[j] = u}
  <2>1. u # "queued"
    BY ThreadsAssumption
  <2>2. QED
    BY <2>1 DEF ListTypeOK
<1>4. Got' = [Got EXCEPT ![t] = @ \cup {i}]
  BY <1>3 DEF Got
<1>5. QED
  BY <1>2, <1>4 DEF Pool!Take, Fresh, Got

(* Items that leave the lists for nobody.                                  *)
LEMMA DropSeen ==
  ASSUME ListTypeOK, \A i \in Items : where'[i] = where[i] \/
                       (where[i] = "queued" /\ where'[i] = "gone")
  PROVE  UNCHANGED <<Fresh, Got>>
<1>1. UNCHANGED Fresh
  BY DEF Fresh
<1>2. \A t \in Threads : {j \in Items : where'[j] = t} = {j \in Items : where[j] = t}
  BY ThreadsAssumption
<1>3. QED
  BY <1>1, <1>2 DEF Got

LEMMA LeaveSeen ==
  ASSUME Inv, NEW t \in Threads, NEW p \in 0..MaxPriority, NEW tp, Leave(t, p, tp)
  PROVE  [Pool!Next]_(Pool!vars)
<1>1. ListTypeOK /\ ListInv /\ UNCHANGED st
  BY DEF Inv, TypeOK, ListTypeOK, Leave
<1>2. CASE UNCHANGED <<il, is, where>>
  BY <1>1, <1>2, PoolSees
<1>3. CASE st /\ PickUp(t, p) /\ ~UNCHANGED <<il, is, where>>
  <2>1. PICK i \in Items : /\ where[i] = "queued"
                           /\ where' = [where EXCEPT ![i] = t]
                           /\ Queued' = Queued \ {i}
    BY <1>1, <1>3, PickUpTakes
  <2>2. i \in Queued
    BY <2>1 DEF Inv, ListInv, OnePlace
  <2>3. Pool!Take(t, i)
    BY <1>1, <1>3, <2>1, <2>2, TakeSeen
  <2>4. QED
    BY <2>3 DEF Pool!Next
<1>4. QED
  BY <1>2, <1>3 DEF Leave

LEMMA ThreadSeen ==
  ASSUME Inv, NEW t \in Threads, ThreadStep(t)
  PROVE  [Pool!Next]_(Pool!vars)
<1>1. prio[t] \in 0..MaxPriority
  BY DEF Inv, TypeOK
<1>2. ASSUME NEW p \in 0..MaxPriority, NEW c \in {"wait", "wait_for"}, Wait(t, p, c)
      PROVE  [Pool!Next]_(Pool!vars)
  <2>1. CASE Leave(t, p, p)
    BY <2>1, LeaveSeen
  <2>2. CASE UNCHANGED <<st, il, where>>
    BY <2>2, PoolSees
  <2>3. QED
    BY <1>2, <2>1, <2>2 DEF Wait
<1>3. ASSUME Resume(t)
      PROVE  [Pool!Next]_(Pool!vars)
  <2>1. CASE Leave(t, prio[t], pending[t])
    BY <1>1, <2>1, LeaveSeen
  <2>2. CASE UNCHANGED <<st, il, where>>
    BY <2>2, PoolSees
  <2>3. QED
    BY <1>3, <2>1, <2>2 DEF Resume
<1>4. CASE TimeOut(t)
  BY <1>1, <1>4, LeaveSeen DEF TimeOut
<1>5. QED
  BY <1>2, <1>3, <1>4 DEF ThreadStep, Wake, Poll

LEMMA StepSeen == Inv /\ [Next]_vars => [Pool!Next]_(Pool!vars)
<1> SUFFICES ASSUME Inv, [Next]_vars PROVE [Pool!Next]_(Pool!vars)
  OBVIOUS
<1>1. ListTypeOK /\ ListInv
  BY DEF Inv, TypeOK, ListTypeOK
<1>2. ASSUME NEW t \in Threads, ThreadStep(t) PROVE [Pool!Next]_(Pool!vars)
  BY <1>2, ThreadSeen
<1>3. ASSUME NEW i \in Items, NEW p \in Prios, EmplaceBack(i, p) \/ EmplaceFront(i, p)
      PROVE  [Pool!Next]_(Pool!vars)
  <2>1. CASE Refuse(i)
    <3>1. Queued' = Queued /\ ~st
      BY <2>1 DEF Refuse, Queued
    <3>2. Pool!Offer(i)
      BY <1>1, <1>3, <2>1, <3>1, OfferSeen DEF Refuse, EmplaceBack, EmplaceFront
    <3>3. QED
      BY <3>2 DEF Pool!Next
  <2>2. CASE st /\ ~Refuse(i)
    <3>1. PICK r, k : /\ r \in Seq(Items) /\ InsertedAt(il[p], r, k, i)
                      /\ il' = [il EXCEPT ![p] = r]
                      /\ where[i] = "unborn"
                      /\ is' = is + 1
                      /\ where' = [where EXCEPT ![i] = "queued"]
                      /\ UNCHANGED st
      BY <1>1, <1>3, <2>2, AppendInserts, PrependInserts
         DEF EmplaceBack, EmplaceFront, ListTypeOK
    <3>2. Queued' = Queued \cup {i}
      BY <1>1, <3>1, Inserting
    <3>3. Pool!Offer(i)
      BY <1>1, <2>2, <3>1, <3>2, OfferSeen
    <3>4. QED
      BY <3>3 DEF Pool!Next
  <2>3. QED
    BY <1>3, <2>1, <2>2 DEF EmplaceBack, EmplaceFront
<1>4. ASSUME DropAll PROVE Queued' = {} /\ UNCHANGED <<Fresh, Got>>
  BY <1>1, <1>4, Dropping, DropSeen DEF DropAll
<1>5. CASE CancelAll
  BY <1>4, <1>5 DEF CancelAll, Pool!Next, Pool!DropAll, Fresh, Got
<1>6. ASSUME NEW i \in Items, Cancel(i) PROVE [Pool!Next]_(Pool!vars)
  <2>1. PICK p \in Prios : \E k \in 1..Len(il[p]) :
          /\ il[p][k] = i
          /\ il' = [il EXCEPT ![p] = RemoveAt(il[p], k)]
          /\ is' = is - 1
          /\ where' = [where EXCEPT ![i] = "gone"]
          /\ UNCHANGED st
    BY <1>6 DEF Cancel
  <2>2. PICK k \in 1..Len(il[p]) :
          /\ il[p][k] = i
          /\ il' = [il EXCEPT ![p] = RemoveAt(il[p], k)]
          /\ is' = is - 1
          /\ where' = [where EXCEPT ![i] = "gone"]
          /\ UNCHANGED st
    BY <2>1
  <2>3. /\ RemoveAt(il[p], k) \in Seq(Items)
        /\ InsertedAt(RemoveAt(il[p], k), il[p], k, i)
    BY <1>1, <2>2, RemoveAtRemoves DEF ListTypeOK
  <2>4. where[i] = "queued" /\ Queued' = Queued \ {i}
    BY <1>1, <2>2, <2>3, Removing
  <2>5. i \in Queued
    BY <1>1, <2>4 DEF ListInv, OnePlace
  <2>6. UNCHANGED <<Fresh, Got>>
    BY <1>1, <2>2, <2>4, DropSeen DEF ListTypeOK
  <2>7. Pool!Drop(i)
    BY <2>2, <2>4, <2>5, <2>6 DEF Pool!Drop, Fresh, Got
  <2>8. QED
    BY <2>7 DEF Pool!Next
<1>7. CASE BreakQueue
  BY <1>4, <1>7 DEF BreakQueue, Pool!Next, Pool!Close, Fresh, Got
<1>8. CASE UNCHANGED <<st, il, where>>
  BY <1>8, PoolSees
<1>9. QED
  BY <1>2, <1>3, <1>5, <1>6, <1>7, <1>8 DEF Next, BreakWaiter, Invalidate, vars

LEMMA InitSeen == Init => Pool!Init
<1> SUFFICES ASSUME Init PROVE Pool!Init
  OBVIOUS
<1>1. Fresh = Items
  BY DEF Init, Fresh
<1>2. Queued = {}
  BY DEF Init, Queued, ToSet
<1>3. Got = [t \in Threads |-> {}]
  BY ThreadsAssumption DEF Init, Got
<1>4. QED
  BY <1>1, <1>2, <1>3 DEF Init, Pool!Init, Fresh, Got

-------------------------------------------------------------------------------
(* The theorems.                                                           *)

(* The inductive invariant holds in every reachable state.                 *)
THEOREM Invariance == Spec => []Inv
BY InvInit, NextPreserves, PTL DEF Spec

(* Every variable keeps its type; in particular is_ never wraps below 0.   *)
THEOREM TypeCorrect == Spec => []TypeOK
<1>1. Inv => TypeOK
  BY DEF Inv
<1>2. QED
  BY <1>1, Invariance, PTL

(* is_ always counts the queued items.                                     *)
THEOREM SizeCorrect == Spec => []SizeAgrees
<1>1. Inv => SizeAgrees
  BY DEF Inv, ListInv
<1>2. QED
  BY <1>1, Invariance, PTL

(* An item is at one place of one list while it is queued, else at none.   *)
THEOREM PlaceCorrect == Spec => []OnePlace
<1>1. Inv => OnePlace
  BY DEF Inv, ListInv
<1>2. QED
  BY <1>1, Invariance, PTL

(* No sleeping thread misses the notification of what it sleeps for.       *)
THEOREM WakeupCorrect == Spec => []NoMissedWakeup
<1>1. Inv => NoMissedWakeup
  BY DEF Inv
<1>2. QED
  BY <1>1, Invariance, PTL

(* While items are queued, some notified thread is about to take one.      *)
THEOREM ServiceCorrect == Spec => []SomeoneServes
BY InvServes, Invariance, PTL

(* Items are declined only for the sake of a notified higher thread.       *)
THEOREM PassingCorrect == Spec => []PassesToHigher
BY InvPasses, Invariance, PTL

(* The event queue implements the pool of items.                           *)
THEOREM PoolImplemented == Spec => ImplementsPool
BY InitSeen, StepSeen, Invariance, PTL DEF Spec, ImplementsPool, Pool!Spec

===============================================================================
