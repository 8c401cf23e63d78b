--------------------------- MODULE PriqueueTheorems ---------------------------
(***************************************************************************)
(* What the operations of PriqueueOps return, for lists of any length.     *)
(***************************************************************************)
EXTENDS PriqueueOps, FiniteSetTheorems, TLAPS

LEMMA AppendProperties ==
    ASSUME NEW S, NEW s \in Seq(S), NEW t \in Seq(S)
    PROVE  /\ s \o t \in Seq(S)
           /\ Len(s \o t) = Len(s) + Len(t)
           /\ \A k \in 1..Len(s) : (s \o t)[k] = s[k]
           /\ \A k \in 1..Len(t) : (s \o t)[Len(s) + k] = t[k]
OBVIOUS

LEMMA InsertAtProperties ==
    ASSUME NEW S, NEW q \in Seq(S), NEW p \in 1..(Len(q) + 1), NEW x \in S
    PROVE  /\ InsertAt(q, p, x) \in Seq(S)
           /\ Len(InsertAt(q, p, x)) = Len(q) + 1
           /\ \A k \in 1..(Len(q) + 1) :
                InsertAt(q, p, x)[k] =
                    IF k < p THEN q[k] ELSE IF k = p THEN x ELSE q[k - 1]
<1> DEFINE front == SubSeq(q, 1, p - 1)
           mid == front \o <<x>>
           back == SubSeq(q, p, Len(q))
           all == mid \o back
<1>1. /\ front \in Seq(S)
      /\ Len(front) = p - 1
      /\ \A k \in 1..(p - 1) : front[k] = q[k]
  OBVIOUS
<1>2. /\ back \in Seq(S)
      /\ Len(back) = Len(q) - p + 1
      /\ \A k \in 1..(Len(q) - p + 1) : back[k] = q[p + k - 1]
  OBVIOUS
<1> HIDE DEF front, back
<1>3. /\ mid \in Seq(S)
      /\ Len(mid) = p
      /\ \A k \in 1..(p - 1) : mid[k] = q[k]
      /\ mid[p] = x
  BY <1>1
<1> HIDE DEF mid
<1>4. /\ all \in Seq(S)
      /\ Len(all) = Len(q) + 1
      /\ \A k \in 1..p : all[k] = mid[k]
      /\ \A k \in 1..(Len(q) - p + 1) : all[p + k] = back[k]
  BY <1>2, <1>3, AppendProperties
<1>5. InsertAt(q, p, x) = all
  BY DEF InsertAt, mid, front, back
<1> HIDE DEF all
<1>6. ASSUME NEW k \in 1..(Len(q) + 1)
      PROVE  all[k] = IF k < p THEN q[k] ELSE IF k = p THEN x ELSE q[k - 1]
  <2>1. CASE k <= p
    BY <2>1, <1>3, <1>4
  <2>2. CASE k > p
    <3>1. /\ k - p \in 1..(Len(q) - p + 1)
          /\ p + (k - p) = k
      BY <2>2
    <3>2. all[k] = back[k - p]
      BY <3>1, <1>4
    <3> QED
      BY <3>1, <3>2, <2>2, <1>2
  <2> QED
    BY <2>1, <2>2
<1> QED
  BY <1>4, <1>5, <1>6

LEMMA RemoveAtProperties ==
    ASSUME NEW S, NEW q \in Seq(S), NEW p \in 1..Len(q)
    PROVE  /\ RemoveAt(q, p) \in Seq(S)
           /\ Len(RemoveAt(q, p)) = Len(q) - 1
           /\ \A k \in 1..(Len(q) - 1) :
                RemoveAt(q, p)[k] = IF k < p THEN q[k] ELSE q[k + 1]
<1> DEFINE front == SubSeq(q, 1, p - 1)
           back == SubSeq(q, p + 1, Len(q))
           all == front \o back
<1>1. /\ front \in Seq(S)
      /\ Len(front) = p - 1
      /\ \A k \in 1..(p - 1) : front[k] = q[k]
  OBVIOUS
<1>2. /\ back \in Seq(S)
      /\ Len(back) = Len(q) - p
      /\ \A k \in 1..(Len(q) - p) : back[k] = q[p + k]
  OBVIOUS
<1>3. RemoveAt(q, p) = all
  BY DEF RemoveAt
<1> HIDE DEF front, back
<1>4. /\ all \in Seq(S)
      /\ Len(all) = Len(q) - 1
      /\ \A k \in 1..(p - 1) : all[k] = front[k]
      /\ \A k \in 1..(Len(q) - p) : all[(p - 1) + k] = back[k]
  BY <1>1, <1>2, AppendProperties
<1> HIDE DEF all
<1>5. ASSUME NEW k \in 1..(Len(q) - 1)
      PROVE  all[k] = IF k < p THEN q[k] ELSE q[k + 1]
  <2>1. CASE k < p
    BY <2>1, <1>1, <1>4
  <2>2. CASE k >= p
    <3>1. /\ k - p + 1 \in 1..(Len(q) - p)
          /\ (p - 1) + (k - p + 1) = k
          /\ p + (k - p + 1) = k + 1
      BY <2>2
    <3>2. all[k] = back[k - p + 1]
      BY <3>1, <1>4
    <3> QED
      BY <3>1, <3>2, <2>2, <1>2
  <2> QED
    BY <2>1, <2>2
<1> QED
  BY <1>3, <1>4, <1>5

(* A non-empty set of positions has a first one.  The intervals 1..k are   *)
(* well founded under inclusion because they are finite; the smallest      *)
(* among those that end in P ends in its first element.                    *)
LEMMA FirstPosition ==
    ASSUME NEW n \in Nat, NEW P \in SUBSET (1..n), P # {}
    PROVE  \E k \in P : \A l \in 1..(k - 1) : l \notin P
<1> DEFINE T == {1..k : k \in P}
<1>1. T \subseteq FiniteSubsetsOf(Nat)
  <2> SUFFICES ASSUME NEW k \in P PROVE 1..k \in FiniteSubsetsOf(Nat)
    OBVIOUS
  <2>1. k \in Int /\ 1..k \subseteq Nat
    OBVIOUS
  <2>2. IsFiniteSet(1..k)
    BY <2>1, FS_Interval
  <2> QED
    BY <2>1, <2>2 DEF FiniteSubsetsOf
<1>2. T # {}
  OBVIOUS
<1>3. PICK x \in T : \A y \in T : ~(<<y, x>> \in StrictSubsetOrdering(Nat))
  <2> HIDE DEF T
  <2> QED
    BY <1>1, <1>2, FS_StrictSubsetOrderingWellFounded, WFMin
<1>4. PICK k \in P : x = 1..k
  OBVIOUS
<1>5. ASSUME NEW l \in 1..(k - 1), l \in P
      PROVE  FALSE
  <2>1. 1..l \in T
    BY <1>5
  <2>2. /\ 1..l \subseteq 1..k
        /\ k \in 1..k
        /\ k \notin 1..l
        /\ 1..l \in SUBSET Nat
        /\ 1..k \in SUBSET Nat
    BY <1>5
  <2>3. <<1..l, 1..k>> \in StrictSubsetOrdering(Nat)
    BY <2>2 DEF StrictSubsetOrdering
  <2> QED
    BY <1>3, <1>4, <2>1, <2>3
<1> QED
  BY <1>5

(* The scan finds the first element of S, or there is none.                *)
LEMMA FirstInProperties ==
    ASSUME NEW T, NEW q \in Seq(T), NEW S
    PROVE  /\ FirstIn(q, S) \in 0..Len(q)
           /\ FirstIn(q, S) = 0 => \A k \in 1..Len(q) : q[k] \notin S
           /\ FirstIn(q, S) # 0 =>
                /\ q[FirstIn(q, S)] \in S
                /\ \A l \in 1..(FirstIn(q, S) - 1) : q[l] \notin S
<1>1. CASE \E k \in 1..Len(q) : q[k] \in S
  <2> DEFINE P == {k \in 1..Len(q) : q[k] \in S}
  <2>1. P \in SUBSET (1..Len(q)) /\ P # {} /\ Len(q) \in Nat
    BY <1>1
  <2>2. PICK k \in P : \A l \in 1..(k - 1) : l \notin P
    <3> HIDE DEF P
    <3> QED BY <2>1, FirstPosition
  <2>3. k \in 1..Len(q) /\ q[k] \in S /\ \A l \in 1..(k - 1) : q[l] \notin S
    BY <2>2
  <2>4. /\ FirstIn(q, S) \in 1..Len(q)
        /\ q[FirstIn(q, S)] \in S
        /\ \A l \in 1..(FirstIn(q, S) - 1) : q[l] \notin S
    BY <1>1, <2>3 DEF FirstIn
  <2> QED
    BY <2>4
<1>2. CASE ~ \E k \in 1..Len(q) : q[k] \in S
  BY <1>2 DEF FirstIn
<1> QED
  BY <1>1, <1>2

(* The position priqueue_offer picks, from the results of the comparer:    *)
(* in front of the first node that is not passed, and nothing in front of  *)
(* it but the nodes that are.                                              *)
LEMMA OfferIndexProperties ==
    ASSUME NEW c \in Seq(Int)
    PROVE  /\ OfferIndex(c) \in 1..(Len(c) + 1)
           /\ OfferIndex(c) = 1 => c = <<>> \/ c[1] < 0
           /\ OfferIndex(c) > 1 => c # <<>> /\ c[1] >= 0
           /\ \A k \in 2..(OfferIndex(c) - 1) : c[k] > 0
           /\ OfferIndex(c) \in 2..Len(c) => c[OfferIndex(c)] <= 0
<1>1. CASE c = <<>> \/ c[1] < 0
  BY <1>1 DEF OfferIndex
<1>2. CASE ~(c = <<>> \/ c[1] < 0)
  <2> DEFINE P == {k \in 1..(Len(c) + 1) : k >= 2 /\ (k <= Len(c) => c[k] <= 0)}
  <2>1. P \in SUBSET (1..(Len(c) + 1)) /\ Len(c) + 1 \in Nat
    OBVIOUS
  <2>2. Len(c) >= 1 /\ Len(c) + 1 \in P
    BY <1>2
  <2>3. PICK k \in P : \A l \in 1..(k - 1) : l \notin P
    <3> HIDE DEF P
    <3> QED BY <2>1, <2>2, FirstPosition
  <2>4. /\ k \in 2..(Len(c) + 1)
        /\ k <= Len(c) => c[k] <= 0
        /\ \A l \in 2..(k - 1) : c[l] > 0
    BY <2>3
  <2>5. /\ OfferIndex(c) \in 2..(Len(c) + 1)
        /\ OfferIndex(c) <= Len(c) => c[OfferIndex(c)] <= 0
        /\ \A l \in 2..(OfferIndex(c) - 1) : c[l] > 0
    BY <1>2, <2>4 DEF OfferIndex
  <2> QED
    BY <1>2, <2>5
<1> QED
  BY <1>1, <1>2

(* Of the first n elements of a list: which they are, and that none of     *)
(* them is there twice.                                                    *)
Occurs(y, q, n) == \E k \in 1..n : q[k] = y
Distinct(q, n) == \A k, l \in 1..n : q[k] = q[l] => k = l

(* r is the list q of length n after x was put in at position p, and after *)
(* the element at position p was taken out.                                *)
IsPutIn(r, q, n, p, x) ==
    \A k \in 1..(n + 1) :
        r[k] = IF k < p THEN q[k] ELSE IF k = p THEN x ELSE q[k - 1]
IsTakenOut(r, q, n, p) ==
    \A k \in 1..(n - 1) : r[k] = IF k < p THEN q[k] ELSE q[k + 1]

LEMMA PutIn ==
    ASSUME NEW n \in Nat, NEW p \in 1..(n + 1), NEW q, NEW r, NEW x,
           IsPutIn(r, q, n, p, x), ~Occurs(x, q, n), Distinct(q, n)
    PROVE  /\ Distinct(r, n + 1)
           /\ \A y : Occurs(y, r, n + 1) <=> (y = x \/ Occurs(y, q, n))
<1> USE DEF Occurs, Distinct
<1>1. /\ \A k \in 1..(n + 1) : k < p => k \in 1..n /\ r[k] = q[k]
      /\ r[p] = x
      /\ \A k \in 1..(n + 1) : k > p => k - 1 \in 1..n /\ r[k] = q[k - 1]
  BY DEF IsPutIn
<1>2. \A k \in 1..n : k >= p => k + 1 \in 1..(n + 1) /\ r[k + 1] = q[k]
  <2> SUFFICES ASSUME NEW k \in 1..n, k >= p
               PROVE  k + 1 \in 1..(n + 1) /\ r[k + 1] = q[k]
    OBVIOUS
  <2>1. k + 1 \in 1..(n + 1) /\ k + 1 > p /\ (k + 1) - 1 = k
    OBVIOUS
  <2> QED
    BY <2>1, <1>1
<1>3. ASSUME NEW k \in 1..(n + 1), NEW l \in 1..(n + 1), k < l
      PROVE  r[k] # r[l]
  <2>1. CASE l <= p
    BY <2>1, <1>1, <1>3
  <2>2. CASE k <= p /\ l > p
    BY <2>2, <1>1, <1>3
  <2>3. CASE k > p
    <3>1. k - 1 \in 1..n /\ l - 1 \in 1..n /\ k - 1 # l - 1
      BY <2>3, <1>3
    <3>2. q[k - 1] # q[l - 1]
      BY <3>1
    <3>3. r[k] = q[k - 1] /\ r[l] = q[l - 1]
      BY <2>3, <1>1, <1>3
    <3> QED
      BY <3>2, <3>3
  <2> QED
    BY <2>1, <2>2, <2>3
<1>4. \A k, l \in 1..(n + 1) : r[k] = r[l] => k = l
  <2> SUFFICES ASSUME NEW k \in 1..(n + 1), NEW l \in 1..(n + 1), k # l
               PROVE  r[k] # r[l]
    OBVIOUS
  <2>1. k < l \/ l < k
    OBVIOUS
  <2> QED
    BY <2>1, <1>3
<1>5. ASSUME NEW k \in 1..(n + 1)
      PROVE  r[k] = x \/ \E l \in 1..n : q[l] = r[k]
  BY <1>1
<1>6. ASSUME NEW k \in 1..n
      PROVE  \E l \in 1..(n + 1) : r[l] = q[k]
  <2>1. CASE k < p
    BY <2>1, <1>1
  <2>2. CASE k >= p
    BY <2>2, <1>2
  <2> QED
    BY <2>1, <2>2
<1> QED
  BY <1>1, <1>4, <1>5, <1>6

LEMMA TakenOut ==
    ASSUME NEW n \in Nat, NEW p \in 1..n, NEW q, NEW r,
           IsTakenOut(r, q, n, p), Distinct(q, n)
    PROVE  /\ Distinct(r, n - 1)
           /\ \A y : Occurs(y, r, n - 1) <=> (y # q[p] /\ Occurs(y, q, n))
<1> USE DEF Occurs, Distinct
<1>1. /\ \A k \in 1..(n - 1) : k < p => k \in 1..n /\ r[k] = q[k]
      /\ \A k \in 1..(n - 1) : k >= p => k + 1 \in 1..n /\ r[k] = q[k + 1]
  BY DEF IsTakenOut
<1>2. \A k \in 1..n : k > p => k - 1 \in 1..(n - 1) /\ r[k - 1] = q[k]
  <2> SUFFICES ASSUME NEW k \in 1..n, k > p
               PROVE  k - 1 \in 1..(n - 1) /\ r[k - 1] = q[k]
    OBVIOUS
  <2>1. k - 1 \in 1..(n - 1) /\ k - 1 >= p /\ (k - 1) + 1 = k
    OBVIOUS
  <2> QED
    BY <2>1, <1>1
<1>3. ASSUME NEW k \in 1..(n - 1), NEW l \in 1..(n - 1), k < l
      PROVE  r[k] # r[l]
  <2>1. CASE l < p
    BY <2>1, <1>1, <1>3
  <2>2. CASE k < p /\ l >= p
    BY <2>2, <1>1, <1>3
  <2>3. CASE k >= p
    BY <2>3, <1>1, <1>3
  <2> QED
    BY <2>1, <2>2, <2>3
<1>4. \A k, l \in 1..(n - 1) : r[k] = r[l] => k = l
  <2> SUFFICES ASSUME NEW k \in 1..(n - 1), NEW l \in 1..(n - 1), k # l
               PROVE  r[k] # r[l]
    OBVIOUS
  <2>1. k < l \/ l < k
    OBVIOUS
  <2> QED
    BY <2>1, <1>3
<1>5. ASSUME NEW k \in 1..(n - 1)
      PROVE  r[k] # q[p] /\ \E l \in 1..n : q[l] = r[k]
  <2>1. CASE k < p
    BY <2>1, <1>1
  <2>2. CASE k >= p
    BY <2>2, <1>1
  <2> QED
    BY <2>1, <2>2
<1>6. ASSUME NEW k \in 1..n, k # p
      PROVE  \E l \in 1..(n - 1) : r[l] = q[k]
  <2>1. CASE k < p
    BY <2>1, <1>1
  <2>2. CASE k > p
    BY <2>2, <1>2
  <2> QED
    BY <1>6, <2>1, <2>2
<1> QED
  BY <1>4, <1>5, <1>6

(* What the elements of a list are, and what it is to have none twice.     *)
LEMMA ElementsOf ==
    ASSUME NEW S, NEW q \in Seq(S)
    PROVE  /\ \A x : x \in ToSet(q) <=> Occurs(x, q, Len(q))
           /\ IsInjective(q) <=> Distinct(q, Len(q))
<1>1. DOMAIN q = 1..Len(q)
  OBVIOUS
<1>2. ToSet(q) = {q[k] : k \in 1..Len(q)}
  BY <1>1 DEF ToSet
<1>3. IsInjective(q) <=> \A k, l \in 1..Len(q) : q[k] = q[l] => k = l
  BY <1>1, Zenon DEF IsInjective
<1> QED
  BY <1>2, <1>3 DEF Occurs, Distinct

(* Offering something new to a list without repetitions: it stands at the  *)
(* index OfferIndex, and everything else keeps its place or moves one up.  *)
LEMMA OfferProperties ==
    ASSUME NEW S, NEW q \in Seq(S), IsInjective(q),
           NEW ptr \in S, ptr \notin ToSet(q),
           NEW c \in Seq(Int), Len(c) = Len(q)
    PROVE  /\ OfferIndex(c) \in 1..(Len(q) + 1)
           /\ Offer(q, ptr, c) \in Seq(S)
           /\ Len(Offer(q, ptr, c)) = Len(q) + 1
           /\ IsPutIn(Offer(q, ptr, c), q, Len(q), OfferIndex(c), ptr)
           /\ IsInjective(Offer(q, ptr, c))
           /\ ToSet(Offer(q, ptr, c)) = ToSet(q) \cup {ptr}
<1> DEFINE p == OfferIndex(c)
           n == Len(q)
           r == Offer(q, ptr, c)
<1>1. p \in 1..(n + 1) /\ n \in Nat
  BY OfferIndexProperties
<1> HIDE DEF p
<1>2. /\ InsertAt(q, p, ptr) \in Seq(S)
      /\ Len(InsertAt(q, p, ptr)) = n + 1
      /\ \A k \in 1..(n + 1) :
            InsertAt(q, p, ptr)[k] =
                IF k < p THEN q[k] ELSE IF k = p THEN ptr ELSE q[k - 1]
  BY <1>1, InsertAtProperties, SMTT(30)
<1>3. r = InsertAt(q, p, ptr)
  BY DEF Offer, p
<1>4. r \in Seq(S) /\ Len(r) = n + 1 /\ IsPutIn(r, q, n, p, ptr)
  BY <1>2, <1>3 DEF IsPutIn
<1>5. /\ ~Occurs(ptr, q, n)
      /\ Distinct(q, n)
      /\ \A y : y \in ToSet(q) <=> Occurs(y, q, n)
  BY ElementsOf
<1> HIDE DEF r, n
<1>6. /\ Distinct(r, n + 1)
      /\ \A y : Occurs(y, r, n + 1) <=> (y = ptr \/ Occurs(y, q, n))
  BY <1>1, <1>4, <1>5, PutIn
<1>7. IsInjective(r)
  BY <1>4, <1>6, ElementsOf
<1>8. \A y : y \in ToSet(r) <=> Occurs(y, r, n + 1)
  BY <1>4, ElementsOf
<1>9. ToSet(r) = ToSet(q) \cup {ptr}
  BY <1>5, <1>6, <1>8
<1> QED
  BY <1>1, <1>4, <1>7, <1>9 DEF p, r, n

(* Taking an element out of a list without repetitions, at the index where *)
(* the scan finds it.                                                      *)
LEMMA TakeOutProperties ==
    ASSUME NEW S, NEW q \in Seq(S), IsInjective(q), NEW x \in ToSet(q)
    PROVE  /\ FirstIn(q, {x}) \in 1..Len(q)
           /\ q[FirstIn(q, {x})] = x
           /\ RemoveAt(q, FirstIn(q, {x})) \in Seq(S)
           /\ Len(RemoveAt(q, FirstIn(q, {x}))) = Len(q) - 1
           /\ IsTakenOut(RemoveAt(q, FirstIn(q, {x})), q, Len(q), FirstIn(q, {x}))
           /\ IsInjective(RemoveAt(q, FirstIn(q, {x})))
           /\ ToSet(RemoveAt(q, FirstIn(q, {x}))) = ToSet(q) \ {x}
<1> DEFINE p == FirstIn(q, {x})
           n == Len(q)
           r == RemoveAt(q, p)
<1>1. \E k \in 1..n : q[k] = x
  BY ElementsOf DEF Occurs
<1>2. p \in 1..n /\ q[p] = x /\ n \in Nat
  BY <1>1, FirstInProperties
<1> HIDE DEF p
<1>3. r \in Seq(S) /\ Len(r) = n - 1 /\ IsTakenOut(r, q, n, p)
  BY <1>2, RemoveAtProperties DEF IsTakenOut
<1>4. Distinct(q, n) /\ \A y : y \in ToSet(q) <=> Occurs(y, q, n)
  BY ElementsOf
<1> HIDE DEF r, n
<1>5. /\ Distinct(r, n - 1)
      /\ \A y : Occurs(y, r, n - 1) <=> (y # q[p] /\ Occurs(y, q, n))
  BY <1>2, <1>3, <1>4, TakenOut
<1>6. IsInjective(r)
  BY <1>3, <1>5, ElementsOf
<1>7. \A y : y \in ToSet(r) <=> Occurs(y, r, n - 1)
  BY <1>3, ElementsOf
<1>8. ToSet(r) = ToSet(q) \ {x}
  BY <1>2, <1>4, <1>5, <1>7
<1> QED
  BY <1>2, <1>3, <1>6, <1>8 DEF p, r, n

(* Min picks the least element of a non-empty set of naturals.             *)
LEMMA MinProperties ==
    ASSUME NEW S \in SUBSET Nat, S # {}
    PROVE  Min(S) \in S /\ \A s \in S : Min(S) <= s
<1>1. PICK s \in S : TRUE
  OBVIOUS
<1> DEFINE P == {k \in 1..(s + 1) : k - 1 \in S}
<1>2. s + 1 \in Nat /\ P \in SUBSET (1..(s + 1)) /\ s + 1 \in P
  BY <1>1
<1>3. PICK k \in P : \A l \in 1..(k - 1) : l \notin P
  <2> HIDE DEF P
  <2> QED
    BY <1>2, FirstPosition
<1>4. ASSUME NEW t \in S PROVE k - 1 <= t
  <2> SUFFICES ASSUME t < k - 1 PROVE FALSE
    BY <1>3
  <2>1. t + 1 \in 1..(k - 1) /\ t + 1 \in P
    BY <1>3
  <2> QED
    BY <2>1, <1>3
<1>5. \E m \in S : \A t \in S : m <= t
  BY <1>3, <1>4
<1> QED
  BY <1>5 DEF Min
=============================================================================
