------------------------- MODULE PriqueueListProofs -------------------------
(***************************************************************************)
(* The pointer code of libpriqueue.c keeps its list: in every state, for   *)
(* any memory, any keys and any indices, the list ends, is in order, and   *)
(* nothing but live memory is followed (ListTypeOK, UsesLiveMemory,        *)
(* ListSorted), until a call crashes or damages the list.  And it          *)
(* implements the sequence of Priqueue!Spec (ImplementsPriqueue).          *)
(*                                                                         *)
(* A list is the sequence s of its nodes (ListOf): the walk along next     *)
(* goes through s and nowhere else (WalkIs, ChainIs).  Linking a node in   *)
(* and cutting one out are Put and Cut of s, with their effect on the      *)
(* order and on the data.  The inductive invariant ListInv says that there *)
(* is such an s, and where in it the loop of the call under way stands,    *)
(* with what it has done so far (Structure): one predicate for each loop.  *)
(***************************************************************************)
EXTENDS PriqueueList, PriqueueTheorems

N == Cardinality(Nodes)

(* The address at place k of the list s; the end of the list is NULL.      *)
At(s, k) == IF k \in 1..Len(s) THEN s[k] ELSE NULL

(* The list s is on the heap with these fields.                            *)
ListOf(s, h, nx, al) ==
    /\ s \in Seq(Nodes)
    /\ h = At(s, 1)
    /\ \A k \in 1..Len(s) : s[k] \in al /\ nx[s[k]] = At(s, k + 1)
    /\ \A k, l \in 1..Len(s) : s[k] = s[l] => k = l

LEMMA Addresses == NULL \notin Nodes /\ Wild \notin Nodes /\ N \in Nat
BY ListAssumption, FS_CardinalityType DEF NULL, Wild, N

LEMMA NoLongerThanMemory ==
    ASSUME NEW s, NEW h, NEW nx, NEW al, ListOf(s, h, nx, al)
    PROVE  Len(s) \in Nat /\ Len(s) <= N
<1>1. s \in Seq(Nodes) /\ Len(s) \in Nat
  BY DEF ListOf
<1>2. s \in Injection(1..Len(s), Nodes)
  BY <1>1 DEF ListOf, Injection, IsInjective
<1>3. Cardinality(1..Len(s)) <= N
  BY <1>2, FS_Injection, ListAssumption DEF N
<1>4. Cardinality(1..Len(s)) = Len(s)
  <2>1. 1 \in Int /\ Len(s) \in Int
    BY <1>1
  <2>2. Cardinality(1..Len(s)) = IF 1 > Len(s) THEN 0 ELSE Len(s) - 1 + 1
    BY <2>1, FS_Interval
  <2> QED
    BY <1>1, <2>2
<1> QED
  BY <1>1, <1>3, <1>4

LEMMA WalkIs ==
    ASSUME NEW s, ListOf(s, head, next, allocated)
    PROVE  Walk = [k \in 0..N |-> At(s, k + 1)]
<1> DEFINE f == [k \in 0..N |-> At(s, k + 1)]
           step(g) == [k \in 0..N |-> IF k = 0 THEN head
                                      ELSE IF g[k - 1] = NULL THEN NULL
                                           ELSE next[g[k - 1]]]
<1>1. /\ s \in Seq(Nodes) /\ Len(s) \in Nat /\ N \in Nat /\ NULL \notin Nodes
      /\ head = At(s, 1)
      /\ \A k \in 1..Len(s) : next[s[k]] = At(s, k + 1)
  BY Addresses DEF ListOf
<1>2. ASSUME NEW k \in 1..N
      PROVE  At(s, k + 1) = IF At(s, k) = NULL THEN NULL ELSE next[At(s, k)]
  <2>1. CASE k \in 1..Len(s)
    <3>1. s[k] # NULL
      BY <1>1, <2>1
    <3> QED
      BY <1>1, <2>1, <3>1 DEF At
  <2>2. CASE k \notin 1..Len(s)
    BY <1>1, <2>2 DEF At
  <2> QED
    BY <2>1, <2>2
<1>3. f = step(f)
  <2>1. ASSUME NEW k \in 0..N
        PROVE  f[k] = step(f)[k]
    <3>1. CASE k = 0
      BY <1>1, <3>1
    <3>2. CASE k # 0
      <4>1. k \in 1..N /\ k - 1 \in 0..N /\ f[k - 1] = At(s, k)
        BY <1>1, <3>2
      <4> QED
        BY <1>2, <3>2, <4>1
    <3> QED
      BY <3>1, <3>2
  <2> QED
    BY <2>1
<1>4. Walk = step(Walk)
  <2>1. Walk = CHOOSE g : g = step(g)
    BY DEF Walk, N
  <2> HIDE DEF f, step
  <2> QED
    BY <1>3, <2>1
<1>5. ASSUME NEW k \in 0..N PROVE Walk[k] = f[k]
  <2> DEFINE P == {l \in 1..N : Walk[l] # f[l]}
  <2>1. Walk[0] = f[0]
    BY <1>1, <1>4
  <2>2. P = {}
    <3>1. P \in SUBSET (1..N) /\ \A l \in 1..N : l \in P <=> Walk[l] # f[l]
      OBVIOUS
    <3> HIDE DEF f, P, step
    <3> SUFFICES ASSUME P # {} PROVE FALSE
      OBVIOUS
    <3>2. PICK l \in P : \A m \in 1..(l - 1) : m \notin P
      BY <1>1, <3>1, FirstPosition
    <3>3. l \in 1..N /\ l - 1 \in 0..N /\ l # 0 /\ Walk[l] # f[l]
      BY <1>1, <3>1, <3>2
    <3>4. Walk[l - 1] = f[l - 1]
      <4>1. CASE l = 1
        BY <2>1, <4>1
      <4>2. CASE l # 1
        <5>1. l - 1 \in 1..(l - 1) /\ l - 1 \in 1..N
          BY <1>1, <3>3, <4>2
        <5> QED
          BY <3>1, <3>2, <5>1
      <4> QED
        BY <4>1, <4>2
    <3>5. Walk[l] = IF Walk[l - 1] = NULL THEN NULL ELSE next[Walk[l - 1]]
      BY <1>4, <3>3 DEF step
    <3>6. f[l] = IF f[l - 1] = NULL THEN NULL ELSE next[f[l - 1]]
      BY <1>3, <3>3 DEF step
    <3> QED
      BY <3>3, <3>4, <3>5, <3>6
  <2>3. CASE k = 0
    BY <2>1, <2>3
  <2>4. CASE k # 0
    <3>1. k \in 1..N
      BY <1>1, <2>4
    <3>2. k \notin P => Walk[k] = f[k]
      BY <3>1
    <3> HIDE DEF f, P, step
    <3> QED
      BY <2>2, <3>2
  <2> QED
    BY <2>3, <2>4
<1>6. Walk = [k \in 0..N |-> Walk[k]]
  BY <1>4
<1> HIDE DEF f, step
<1> QED
  BY <1>5, <1>6 DEF f

LEMMA ChainIs ==
    ASSUME NEW s, ListOf(s, head, next, allocated)
    PROVE  /\ Chain = s
           /\ Walk[N] = NULL
<1>1. /\ s \in Seq(Nodes) /\ Len(s) \in Nat /\ N \in Nat /\ Len(s) <= N
      /\ NULL \notin Nodes
  BY Addresses, NoLongerThanMemory DEF ListOf
<1>2. Walk = [k \in 0..N |-> At(s, k + 1)]
  BY WalkIs
<1>3. {k \in DOMAIN Walk : Walk[k] # NULL} = 0..(Len(s) - 1)
  <2>1. \A k \in 0..N : Walk[k] # NULL <=> k \in 0..(Len(s) - 1)
    <3> SUFFICES ASSUME NEW k \in 0..N
                 PROVE  At(s, k + 1) # NULL <=> k \in 0..(Len(s) - 1)
      BY <1>2
    <3>1. CASE k + 1 \in 1..Len(s)
      BY <1>1, <3>1 DEF At
    <3>2. CASE k + 1 \notin 1..Len(s)
      BY <1>1, <3>2 DEF At
    <3> QED
      BY <3>1, <3>2
  <2>2. DOMAIN Walk = 0..N /\ 0..(Len(s) - 1) \subseteq 0..N
    BY <1>1, <1>2
  <2> QED
    BY <2>1, <2>2
<1>4. Cardinality(0..(Len(s) - 1)) = Len(s)
  <2>1. 0 \in Int /\ Len(s) - 1 \in Int
    BY <1>1
  <2>2. Cardinality(0..(Len(s) - 1)) =
            IF 0 > Len(s) - 1 THEN 0 ELSE (Len(s) - 1) - 0 + 1
    BY <2>1, FS_Interval
  <2> QED
    BY <1>1, <2>2
<1>5. Chain = [k \in 1..Len(s) |-> Walk[k - 1]]
  BY <1>3, <1>4 DEF Chain
<1>6. \A k \in 1..Len(s) : Walk[k - 1] = s[k]
  BY <1>1, <1>2 DEF At
<1>7. Chain = s
  BY <1>1, <1>5, <1>6
<1>8. Walk[N] = NULL
  BY <1>1, <1>2 DEF At
<1> QED
  BY <1>7, <1>8

-----------------------------------------------------------------------------
(* What linking in and unlinking does to a list.                           *)

SortedOf(s, d) == \A k \in 2..Len(s) : cmp(d[s[k - 1]], d[s[k]]) <= 0

(* s with x at place p, and s without what is at place p.                  *)
Put(s, p, x) ==
    [k \in 1..(Len(s) + 1) |-> IF k < p THEN s[k] ELSE IF k = p THEN x ELSE s[k - 1]]
Cut(s, p) ==
    [k \in 1..(Len(s) - 1) |-> IF k < p THEN s[k] ELSE s[k + 1]]

LEMMA PutIs ==
    ASSUME NEW S, NEW s \in Seq(S), NEW p \in 1..(Len(s) + 1), NEW x \in S
    PROVE  /\ Put(s, p, x) \in Seq(S) /\ Len(Put(s, p, x)) = Len(s) + 1
           /\ \A k \in 1..(Len(s) + 1) :
                Put(s, p, x)[k] = IF k < p THEN s[k] ELSE IF k = p THEN x ELSE s[k - 1]
<1>1. \A k \in 1..(Len(s) + 1) :
        (IF k < p THEN s[k] ELSE IF k = p THEN x ELSE s[k - 1]) \in S
  OBVIOUS
<1>2. Len(s) + 1 \in Nat
  OBVIOUS
<1> QED
  BY <1>1, <1>2 DEF Put

LEMMA CutIs ==
    ASSUME NEW S, NEW s \in Seq(S), NEW p \in 1..Len(s)
    PROVE  /\ Cut(s, p) \in Seq(S) /\ Len(Cut(s, p)) = Len(s) - 1
           /\ \A k \in 1..(Len(s) - 1) :
                Cut(s, p)[k] = IF k < p THEN s[k] ELSE s[k + 1]
<1>1. \A k \in 1..(Len(s) - 1) : (IF k < p THEN s[k] ELSE s[k + 1]) \in S
  OBVIOUS
<1>2. Len(s) - 1 \in Nat
  OBVIOUS
<1> QED
  BY <1>1, <1>2 DEF Cut

(* The fields of other nodes may change.                                   *)
LEMMA ListKept ==
    ASSUME NEW s, NEW h, NEW nx, NEW al, ListOf(s, h, nx, al),
           NEW nx2, NEW al2,
           \A k \in 1..Len(s) : s[k] \in al2 /\ nx2[s[k]] = nx[s[k]]
    PROVE  ListOf(s, h, nx2, al2)
BY DEF ListOf

LEMMA SortedKept ==
    ASSUME NEW s \in Seq(Nodes), NEW d, SortedOf(s, d), NEW d2,
           \A k \in 1..Len(s) : d2[s[k]] = d[s[k]]
    PROVE  SortedOf(s, d2)
<1> SUFFICES ASSUME NEW k \in 2..Len(s)
             PROVE  cmp(d2[s[k - 1]], d2[s[k]]) <= 0
  BY DEF SortedOf
<1>1. k - 1 \in 1..Len(s) /\ k \in 1..Len(s)
  OBVIOUS
<1> QED
  BY <1>1 DEF SortedOf

LEMMA LinkIn ==
    ASSUME NEW s, NEW h, NEW nx, NEW al, ListOf(s, h, nx, al),
           NEW p \in 1..(Len(s) + 1), NEW x \in Nodes,
           \A k \in 1..Len(s) : s[k] # x,
           NEW h2, h2 = (IF p = 1 THEN x ELSE h),
           NEW al2, al \cup {x} \subseteq al2,
           NEW nx2, nx2[x] = At(s, p),
           p > 1 => nx2[s[p - 1]] = x,
           \A k \in 1..Len(s) : k # p - 1 => nx2[s[k]] = nx[s[k]]
    PROVE  ListOf(Put(s, p, x), h2, nx2, al2)
<1> DEFINE n == Len(s)
           r == Put(s, p, x)
<1>1. /\ s \in Seq(Nodes) /\ n \in Nat /\ h = At(s, 1)
      /\ \A k \in 1..n : s[k] \in al /\ nx[s[k]] = At(s, k + 1)
      /\ \A k, l \in 1..n : s[k] = s[l] => k = l
  BY DEF ListOf
<1>2. /\ r \in Seq(Nodes) /\ Len(r) = n + 1
      /\ \A k \in 1..(n + 1) :
            r[k] = IF k < p THEN s[k] ELSE IF k = p THEN x ELSE s[k - 1]
  BY <1>1, PutIs, SMTT(30)
<1> HIDE DEF r
<1>3. h2 = At(r, 1)
  BY <1>1, <1>2 DEF At
<1>4. ASSUME NEW k \in 1..(n + 1) PROVE r[k] \in al2 /\ nx2[r[k]] = At(r, k + 1)
  <2>1. CASE k < p - 1
    <3>1. r[k] = s[k] /\ r[k + 1] = s[k + 1] /\ k \in 1..n /\ k + 1 \in 1..n
      BY <1>1, <1>2, <2>1
    <3>2. At(r, k + 1) = s[k + 1] /\ At(s, k + 1) = s[k + 1]
      BY <1>1, <1>2, <3>1 DEF At
    <3> QED
      BY <1>1, <2>1, <3>1, <3>2
  <2>2. CASE k = p - 1
    <3>1. r[k] = s[k] /\ r[k + 1] = x /\ k \in 1..n /\ k + 1 \in 1..(n + 1) /\ p > 1
      BY <1>1, <1>2, <2>2
    <3>2. At(r, k + 1) = x
      BY <1>1, <1>2, <3>1 DEF At
    <3> QED
      BY <1>1, <2>2, <3>1, <3>2
  <2>3. CASE k = p
    <3>1. r[k] = x
      BY <1>2, <2>3
    <3>2. At(r, k + 1) = At(s, p)
      <4>1. CASE p = n + 1
        BY <1>1, <1>2, <2>3, <4>1 DEF At
      <4>2. CASE p # n + 1
        <5>1. p \in 1..n /\ k + 1 \in 1..(n + 1) /\ r[k + 1] = s[p]
          BY <1>1, <1>2, <2>3, <4>2
        <5> QED
          BY <1>2, <5>1 DEF At
      <4> QED
        BY <4>1, <4>2
    <3> QED
      BY <3>1, <3>2
  <2>4. CASE k > p
    <3>1. r[k] = s[k - 1] /\ k - 1 \in 1..n /\ k - 1 # p - 1
      BY <1>1, <1>2, <2>4
    <3>2. At(r, k + 1) = At(s, k)
      <4>1. CASE k = n + 1
        BY <1>1, <1>2, <4>1 DEF At
      <4>2. CASE k # n + 1
        <5>1. k \in 1..n /\ k + 1 \in 1..(n + 1) /\ r[k + 1] = s[k]
          <6>0. p \in Nat /\ k \in Nat /\ n \in Nat /\ k <= n + 1 /\ k >= 1
            BY <1>1
          <6>1. k \in 1..n /\ k + 1 \in 1..(n + 1) /\ ~(k + 1 < p) /\ k + 1 # p
            <7> HIDE DEF n
            <7> QED
              BY <6>0, <2>4, <4>2
          <6>2. r[k + 1] = s[(k + 1) - 1]
            BY <1>2, <6>1
          <6>3. (k + 1) - 1 = k
            BY <1>1
          <6> QED
            BY <6>1, <6>2, <6>3
        <5> QED
          BY <1>2, <5>1 DEF At
      <4> QED
        BY <4>1, <4>2
    <3>3. nx[s[k - 1]] = At(s, k)
      <4>1. nx[s[k - 1]] = At(s, (k - 1) + 1)
        BY <1>1, <3>1
      <4>2. (k - 1) + 1 = k
        BY <1>1
      <4> QED
        BY <4>1, <4>2
    <3> QED
      BY <1>1, <3>1, <3>2, <3>3
  <2> QED
    BY <1>1, <2>1, <2>2, <2>3, <2>4
<1>5. \A k, l \in 1..(n + 1) : r[k] = r[l] => k = l
  <2>1. IsPutIn(r, s, n, p, x)
    BY <1>2 DEF IsPutIn
  <2>2. ~Occurs(x, s, n) /\ Distinct(s, n)
    BY <1>1 DEF Occurs, Distinct
  <2>3. Distinct(r, n + 1)
    BY <1>1, <2>1, <2>2, PutIn
  <2> QED
    BY <2>3 DEF Distinct
<1> QED
  BY <1>2, <1>3, <1>4, <1>5 DEF ListOf, r

(* The node at p of s is linked out: the head or the link before it goes   *)
(* past it, the other links stay, and only its own memory may be freed.    *)
LinkedOut(s, p, h, nx, al, h2, nx2, al2) ==
    /\ h2 = (IF p = 1 THEN At(s, 2) ELSE h)
    /\ al \ {s[p]} \subseteq al2
    /\ p > 1 => nx2[s[p - 1]] = At(s, p + 1)
    /\ \A k \in 1..Len(s) : k # p - 1 /\ k # p => nx2[s[k]] = nx[s[k]]

LEMMA UnlinkFrom ==
    ASSUME NEW s, NEW h, NEW nx, NEW al, ListOf(s, h, nx, al),
           NEW p \in 1..Len(s), NEW h2, NEW nx2, NEW al2,
           LinkedOut(s, p, h, nx, al, h2, nx2, al2)
    PROVE  ListOf(Cut(s, p), h2, nx2, al2)
<1> DEFINE n == Len(s)
           r == Cut(s, p)
<1>0. /\ h2 = (IF p = 1 THEN At(s, 2) ELSE h) /\ al \ {s[p]} \subseteq al2
      /\ p > 1 => nx2[s[p - 1]] = At(s, p + 1)
      /\ \A k \in 1..n : k # p - 1 /\ k # p => nx2[s[k]] = nx[s[k]]
  BY DEF LinkedOut
<1>1. /\ s \in Seq(Nodes) /\ n \in Nat /\ h = At(s, 1)
      /\ \A k \in 1..n : s[k] \in al /\ nx[s[k]] = At(s, k + 1)
      /\ \A k, l \in 1..n : s[k] = s[l] => k = l
  BY DEF ListOf
<1>2. /\ r \in Seq(Nodes) /\ Len(r) = n - 1
      /\ \A k \in 1..(n - 1) : r[k] = IF k < p THEN s[k] ELSE s[k + 1]
  BY <1>1, CutIs, SMTT(30)
<1> HIDE DEF r
<1>3. h2 = At(r, 1)
  <2>1. CASE p = 1
    BY <1>0, <1>1, <1>2, <2>1 DEF At
  <2>2. CASE p # 1
    BY <1>0, <1>1, <1>2, <2>2 DEF At
  <2> QED
    BY <2>1, <2>2
<1>4. ASSUME NEW k \in 1..(n - 1) PROVE r[k] \in al2 /\ nx2[r[k]] = At(r, k + 1)
  <2>1. CASE k < p - 1
    <3>1. r[k] = s[k] /\ r[k + 1] = s[k + 1] /\ k \in 1..n /\ k + 1 \in 1..n
          /\ k + 1 \in 1..(n - 1) /\ k # p
      BY <1>1, <1>2, <2>1, SMTT(30)
    <3>2. At(r, k + 1) = s[k + 1] /\ At(s, k + 1) = s[k + 1]
      BY <1>1, <1>2, <3>1 DEF At
    <3>3. s[k] # s[p]
      BY <1>1, <3>1
    <3> QED
      BY <1>0, <1>1, <2>1, <3>1, <3>2, <3>3
  <2>2. CASE k = p - 1
    <3>1. r[k] = s[k] /\ k \in 1..n /\ p > 1 /\ k # p
      BY <1>1, <1>2, <2>2
    <3>2. At(r, k + 1) = At(s, p + 1)
      <4>1. CASE p = n
        BY <1>1, <1>2, <2>2, <4>1 DEF At
      <4>2. CASE p # n
        <5>1. k + 1 \in 1..(n - 1) /\ p + 1 \in 1..n /\ r[k + 1] = s[p + 1]
          BY <1>1, <1>2, <2>2, <4>2
        <5> QED
          BY <1>2, <5>1 DEF At
      <4> QED
        BY <4>1, <4>2
    <3>3. s[k] # s[p]
      BY <1>1, <3>1
    <3> QED
      BY <1>0, <1>1, <2>2, <3>1, <3>2, <3>3
  <2>3. CASE k >= p
    <3>1. r[k] = s[k + 1] /\ k + 1 \in 1..n /\ k + 1 # p - 1 /\ k + 1 # p
      BY <1>1, <1>2, <2>3
    <3>2. At(r, k + 1) = At(s, k + 2)
      <4>1. CASE k = n - 1
        BY <1>1, <1>2, <4>1 DEF At
      <4>2. CASE k # n - 1
        <5>1. k + 1 \in 1..(n - 1) /\ k + 2 \in 1..n /\ r[k + 1] = s[k + 2]
          <6>1. k + 1 \in 1..(n - 1) /\ k + 2 \in 1..n /\ ~(k + 1 < p)
            BY <1>1, <2>3, <4>2
          <6>2. r[k + 1] = s[(k + 1) + 1]
            BY <1>2, <6>1
          <6>3. (k + 1) + 1 = k + 2
            BY <1>1
          <6> QED
            BY <6>1, <6>2, <6>3
        <5> QED
          BY <1>2, <5>1 DEF At
      <4> QED
        BY <4>1, <4>2
    <3>3. nx[s[k + 1]] = At(s, k + 2)
      <4>1. nx[s[k + 1]] = At(s, (k + 1) + 1)
        BY <1>1, <3>1
      <4>2. (k + 1) + 1 = k + 2
        BY <1>1
      <4> QED
        BY <4>1, <4>2
    <3>4. s[k + 1] # s[p]
      BY <1>1, <3>1
    <3> QED
      BY <1>0, <1>1, <3>1, <3>2, <3>3, <3>4
  <2> QED
    BY <1>1, <2>1, <2>2, <2>3
<1>5. \A k, l \in 1..(n - 1) : r[k] = r[l] => k = l
  <2>1. IsTakenOut(r, s, n, p)
    BY <1>2 DEF IsTakenOut
  <2>2. Distinct(s, n)
    BY <1>1 DEF Distinct
  <2>3. Distinct(r, n - 1)
    BY <1>1, <2>1, <2>2, TakenOut
  <2> QED
    BY <2>3 DEF Distinct
<1> QED
  BY <1>2, <1>3, <1>4, <1>5 DEF ListOf, r

LEMMA SameSequence ==
    ASSUME NEW S, NEW a \in Seq(S), NEW b \in Seq(S), Len(a) = Len(b),
           \A k \in 1..Len(a) : a[k] = b[k]
    PROVE  a = b
OBVIOUS

(* The data pointers of a list.                                            *)
DataOf(s, d) == [k \in 1..Len(s) |-> d[s[k]]]

LEMMA DataOfIs ==
    ASSUME NEW s \in Seq(Nodes), NEW d \in [Nodes -> Ptrs]
    PROVE  /\ DataOf(s, d) \in Seq(Ptrs) /\ Len(DataOf(s, d)) = Len(s)
           /\ \A k \in 1..Len(s) : DataOf(s, d)[k] = d[s[k]]
<1>1. \A k \in 1..Len(s) : d[s[k]] \in Ptrs
  OBVIOUS
<1>2. Len(s) \in Nat
  OBVIOUS
<1> QED
  BY <1>1, <1>2 DEF DataOf

LEMMA CmpIs ==
    ASSUME NEW a \in Ptrs, NEW b \in Ptrs
    PROVE  /\ Key[a] \in Int /\ Key[b] \in Int
           /\ cmp(a, b) = Key[a] - Key[b] /\ cmp(a, b) \in Int
BY ListAssumption DEF cmp

LEMMA PutSorted ==
    ASSUME NEW s \in Seq(Nodes), NEW d, SortedOf(s, d),
           NEW p \in 1..(Len(s) + 1), NEW x \in Nodes,
           NEW d2, \A k \in 1..Len(s) : d2[s[k]] = d[s[k]],
           p > 1 => cmp(d2[s[p - 1]], d2[x]) <= 0,
           p <= Len(s) => cmp(d2[x], d2[s[p]]) <= 0
    PROVE  SortedOf(Put(s, p, x), d2)
<1> DEFINE n == Len(s)
           r == Put(s, p, x)
<1>1. /\ Len(r) = n + 1 /\ n \in Nat /\ p \in Nat /\ p >= 1 /\ p <= n + 1
      /\ \A k \in 1..(n + 1) :
            r[k] = IF k < p THEN s[k] ELSE IF k = p THEN x ELSE s[k - 1]
  <2>0. s \in Seq(Nodes) /\ p \in 1..(Len(s) + 1) /\ x \in Nodes
    OBVIOUS
  <2>1. /\ r \in Seq(Nodes) /\ Len(r) = n + 1
        /\ \A k \in 1..(n + 1) :
              r[k] = IF k < p THEN s[k] ELSE IF k = p THEN x ELSE s[k - 1]
    BY <2>0, PutIs
  <2>2. n \in Nat /\ p \in Nat /\ p >= 1 /\ p <= n + 1
    OBVIOUS
  <2> QED
    BY <2>1, <2>2
<1>2. \A k \in 2..n : cmp(d2[s[k - 1]], d2[s[k]]) <= 0
  <2>1. SortedOf(s, d2)
    BY SortedKept
  <2> QED
    BY <2>1 DEF SortedOf
<1> HIDE DEF r, n
<1> SUFFICES ASSUME NEW k \in 2..(n + 1)
             PROVE  cmp(d2[r[k - 1]], d2[r[k]]) <= 0
  BY <1>1 DEF SortedOf, r
<1>3. k \in Nat /\ k >= 2 /\ k <= n + 1 /\ k \in 1..(n + 1) /\ k - 1 \in 1..(n + 1)
  BY <1>1
<1>4. CASE k < p
  <2>1. k \in 2..n /\ k - 1 < p
    BY <1>1, <1>3, <1>4
  <2>2. r[k] = s[k] /\ r[k - 1] = s[k - 1]
    BY <1>1, <1>3, <1>4, <2>1
  <2> QED
    BY <1>2, <2>1, <2>2
<1>5. CASE k = p
  <2>1. k - 1 < p /\ p > 1 /\ ~(k < p)
    BY <1>1, <1>3, <1>5
  <2>2. r[k] = x /\ r[k - 1] = s[k - 1]
    BY <1>1, <1>3, <1>5, <2>1
  <2> QED
    BY <1>5, <2>1, <2>2
<1>6. CASE k = p + 1
  <2>1. k - 1 = p /\ ~(k < p) /\ k # p /\ ~(k - 1 < p) /\ p <= n
    BY <1>1, <1>3, <1>6
  <2>2. r[k] = s[k - 1] /\ r[k - 1] = x
    BY <1>1, <1>3, <2>1
  <2> QED
    BY <2>1, <2>2 DEF n
<1>7. CASE k > p + 1
  <2>1. /\ ~(k < p) /\ k # p /\ ~(k - 1 < p) /\ k - 1 # p
        /\ k - 1 \in 2..n /\ k - 1 \in 1..(n + 1)
    BY <1>1, <1>3, <1>7
  <2>2. r[k] = s[k - 1] /\ r[k - 1] = s[(k - 1) - 1]
    BY <1>1, <1>3, <2>1
  <2> QED
    BY <1>2, <2>1, <2>2
<1> QED
  BY <1>1, <1>3, <1>4, <1>5, <1>6, <1>7

LEMMA CutSorted ==
    ASSUME NEW s \in Seq(Nodes), NEW d \in [Nodes -> Ptrs], SortedOf(s, d),
           NEW p \in 1..Len(s)
    PROVE  SortedOf(Cut(s, p), d)
<1> DEFINE n == Len(s)
           r == Cut(s, p)
<1>1. /\ Len(r) = n - 1 /\ n \in Nat /\ p \in Nat /\ p >= 1 /\ p <= n
      /\ \A k \in 1..(n - 1) : r[k] = IF k < p THEN s[k] ELSE s[k + 1]
  <2>1. /\ Len(r) = n - 1
        /\ \A k \in 1..(n - 1) : r[k] = IF k < p THEN s[k] ELSE s[k + 1]
    BY CutIs
  <2>2. n \in Nat /\ p \in Nat /\ p >= 1 /\ p <= n
    OBVIOUS
  <2> QED
    BY <2>1, <2>2
<1>2. \A k \in 2..n : cmp(d[s[k - 1]], d[s[k]]) <= 0
  BY DEF SortedOf
<1>3. \A k \in 1..n : d[s[k]] \in Ptrs
  OBVIOUS
<1> HIDE DEF r, n
<1> SUFFICES ASSUME NEW k \in 2..(n - 1)
             PROVE  cmp(d[r[k - 1]], d[r[k]]) <= 0
  BY <1>1 DEF SortedOf, r
<1>4. k \in Nat /\ k >= 2 /\ k <= n - 1 /\ k \in 1..(n - 1) /\ k - 1 \in 1..(n - 1)
  BY <1>1
<1>5. CASE k < p
  <2>1. k \in 2..n /\ k - 1 < p
    BY <1>1, <1>4, <1>5
  <2>2. r[k] = s[k] /\ r[k - 1] = s[k - 1]
    BY <1>1, <1>4, <1>5, <2>1
  <2> QED
    BY <1>2, <2>1, <2>2
<1>6. CASE k = p
  <2>1. k - 1 < p /\ ~(k < p) /\ k \in 2..n /\ k + 1 \in 2..n
        /\ k - 1 \in 1..n /\ k \in 1..n /\ k + 1 \in 1..n /\ (k + 1) - 1 = k
    BY <1>1, <1>4, <1>6
  <2>2. r[k] = s[k + 1] /\ r[k - 1] = s[k - 1]
    BY <1>1, <1>4, <1>6, <2>1
  <2>3. cmp(d[s[k - 1]], d[s[k]]) <= 0 /\ cmp(d[s[k]], d[s[k + 1]]) <= 0
    <3>1. cmp(d[s[k - 1]], d[s[k]]) <= 0
      BY <1>2, <2>1
    <3>2. cmp(d[s[(k + 1) - 1]], d[s[k + 1]]) <= 0
      BY <1>2, <2>1
    <3> QED
      BY <2>1, <3>1, <3>2
  <2>4. d[s[k - 1]] \in Ptrs /\ d[s[k]] \in Ptrs /\ d[s[k + 1]] \in Ptrs
    BY <1>3, <2>1
  <2>5. cmp(d[s[k - 1]], d[s[k + 1]]) <= 0
    <3> DEFINE a == d[s[k - 1]]
               b == d[s[k]]
               c == d[s[k + 1]]
    <3>1. a \in Ptrs /\ b \in Ptrs /\ c \in Ptrs /\ cmp(a, b) <= 0 /\ cmp(b, c) <= 0
      BY <2>3, <2>4
    <3> HIDE DEF a, b, c
    <3>2. /\ cmp(a, b) = Key[a] - Key[b] /\ cmp(b, c) = Key[b] - Key[c]
          /\ cmp(a, c) = Key[a] - Key[c]
          /\ Key[a] \in Int /\ Key[b] \in Int /\ Key[c] \in Int
      BY <3>1, CmpIs
    <3>3. cmp(a, c) <= 0
      BY <3>1, <3>2
    <3> QED
      BY <3>3 DEF a, c
  <2> QED
    BY <2>2, <2>5
<1>7. CASE k > p
  <2>1. /\ ~(k < p) /\ ~(k - 1 < p) /\ k + 1 \in 2..n
        /\ (k + 1) - 1 = k /\ (k - 1) + 1 = k
    BY <1>1, <1>4, <1>7
  <2>2. r[k] = s[k + 1] /\ r[k - 1] = s[(k - 1) + 1]
    BY <1>1, <1>4, <2>1
  <2>3. cmp(d[s[(k + 1) - 1]], d[s[k + 1]]) <= 0
    BY <1>2, <2>1
  <2> QED
    BY <2>1, <2>2, <2>3
<1> QED
  BY <1>1, <1>4, <1>5, <1>6, <1>7

LEMMA DataOfPut ==
    ASSUME NEW s \in Seq(Nodes), NEW d \in [Nodes -> Ptrs],
           NEW d2 \in [Nodes -> Ptrs],
           \A k \in 1..Len(s) : d2[s[k]] = d[s[k]],
           NEW p \in 1..(Len(s) + 1), NEW x \in Nodes
    PROVE  DataOf(Put(s, p, x), d2) = InsertAt(DataOf(s, d), p, d2[x])
<1> DEFINE n == Len(s)
           q == DataOf(s, d)
           r == Put(s, p, x)
           a == DataOf(r, d2)
           b == InsertAt(q, p, d2[x])
<1>1. /\ q \in Seq(Ptrs) /\ Len(q) = n /\ n \in Nat /\ d2[x] \in Ptrs
      /\ \A k \in 1..n : q[k] = d[s[k]]
  BY DataOfIs
<1>2. /\ r \in Seq(Nodes) /\ Len(r) = n + 1
      /\ \A k \in 1..(n + 1) :
            r[k] = IF k < p THEN s[k] ELSE IF k = p THEN x ELSE s[k - 1]
  BY PutIs
<1>3. p \in 1..(Len(q) + 1)
  BY <1>1
<1> HIDE DEF q, r
<1>4. /\ a \in Seq(Ptrs) /\ Len(a) = n + 1
      /\ \A k \in 1..(n + 1) : a[k] = d2[r[k]]
  BY <1>2, DataOfIs
<1>5. /\ b \in Seq(Ptrs) /\ Len(b) = n + 1
      /\ \A k \in 1..(n + 1) :
            b[k] = IF k < p THEN q[k] ELSE IF k = p THEN d2[x] ELSE q[k - 1]
  BY <1>1, <1>3, InsertAtProperties
<1>6. ASSUME NEW k \in 1..(n + 1) PROVE a[k] = b[k]
  <2> HIDE DEF a, b
  <2>1. CASE k < p
    BY <1>1, <1>2, <1>4, <1>5, <2>1
  <2>2. CASE k = p
    BY <1>1, <1>2, <1>4, <1>5, <2>2
  <2>3. CASE k > p
    <3>1. k - 1 \in 1..n /\ ~(k < p) /\ k # p
      BY <1>1, <2>3
    <3>2. a[k] = d2[s[k - 1]]
      BY <1>2, <1>4, <3>1
    <3>3. b[k] = q[k - 1]
      BY <1>5, <3>1
    <3>4. q[k - 1] = d[s[k - 1]] /\ d2[s[k - 1]] = d[s[k - 1]]
      BY <1>1, <3>1
    <3> QED
      BY <3>2, <3>3, <3>4
  <2> QED
    BY <1>1, <2>1, <2>2, <2>3
<1> HIDE DEF a, b
<1>7. a = b
  BY <1>4, <1>5, <1>6, SameSequence
<1> QED
  BY <1>7 DEF a, b, q, r

LEMMA DataOfCut ==
    ASSUME NEW s \in Seq(Nodes), NEW d \in [Nodes -> Ptrs],
           NEW p \in 1..Len(s)
    PROVE  DataOf(Cut(s, p), d) = RemoveAt(DataOf(s, d), p)
<1> DEFINE n == Len(s)
           q == DataOf(s, d)
           r == Cut(s, p)
           a == DataOf(r, d)
           b == RemoveAt(q, p)
<1>1. /\ q \in Seq(Ptrs) /\ Len(q) = n /\ n \in Nat
      /\ \A k \in 1..n : q[k] = d[s[k]]
  BY DataOfIs
<1>2. /\ r \in Seq(Nodes) /\ Len(r) = n - 1
      /\ \A k \in 1..(n - 1) : r[k] = IF k < p THEN s[k] ELSE s[k + 1]
  BY CutIs
<1>3. p \in 1..Len(q)
  BY <1>1
<1> HIDE DEF q, r
<1>4. /\ a \in Seq(Ptrs) /\ Len(a) = n - 1
      /\ \A k \in 1..(n - 1) : a[k] = d[r[k]]
  BY <1>2, DataOfIs, SMTT(30)
<1>5. /\ b \in Seq(Ptrs) /\ Len(b) = n - 1
      /\ \A k \in 1..(n - 1) : b[k] = IF k < p THEN q[k] ELSE q[k + 1]
  BY <1>1, <1>3, RemoveAtProperties
<1>6. ASSUME NEW k \in 1..(n - 1) PROVE a[k] = b[k]
  <2> HIDE DEF a, b
  <2>1. k \in 1..n /\ k + 1 \in 1..n
    BY <1>1
  <2>2. CASE k < p
    BY <1>1, <1>2, <1>4, <1>5, <2>1, <2>2
  <2>3. CASE ~(k < p)
    BY <1>1, <1>2, <1>4, <1>5, <2>1, <2>3
  <2> QED
    BY <2>2, <2>3
<1> HIDE DEF a, b
<1>7. a = b
  BY <1>4, <1>5, <1>6, SameSequence
<1> QED
  BY <1>7 DEF a, b, q, r

-----------------------------------------------------------------------------
(* The inductive invariant.                                                *)

Entry == {"offer", "peek", "poll", "at", "remove_at", "remove", "size", "destroy"}
Loops == {"placing", "counting", "finding", "removing"}

(* Which calls and which locals go with the places of the code.            *)
LocalsOK ==
    /\ pc \in Idle \cup Entry \cup Loops \cup {"crashed"}
    /\ pc \in Entry \cup Idle =>
            insert = NULL /\ previous = NULL /\ temp = NULL /\ i = 0
    /\ insert \in allocated \cup {NULL}
    /\ pc \in Idle <=> call = Q!NoCall
    /\ pc \in Entry => call.op = pc
    /\ pc = "placing" => call.op = "offer" /\ i = 0
    /\ pc = "counting" => call.op \in {"offer", "size"}
    /\ pc = "finding" => call.op \in {"at", "remove_at"}
    /\ pc = "removing" => call.op = "remove"
    /\ corrupt => pc \in {"removing", "idle"}
    /\ corrupt /\ pc = "removing" => previous \in Nodes
    /\ pc = "offer" => Nodes \ allocated # {}
    /\ Len(before) <= N

(* What the results of the comparer against the element x are.             *)
Comparisons(x, q) == [k \in 1..Len(q) |-> cmp(x, q[k])]

(* A call finds the list as it was; priqueue_destroy takes it apart.       *)
EntryOK(s) ==
    pc \in Entry \ {"destroy"} => before = DataOf(s, data)

(* priqueue_offer: previous is a node of the list in front of which the    *)
(* new one does not go, temp is the next one.                              *)
PlaceOK(s) ==
    pc = "placing" =>
        /\ before = DataOf(s, data)
        /\ insert \in allocated /\ data[insert] = call.ptr
        /\ \A k \in 1..Len(s) : s[k] # insert
        /\ \E p \in 1..Len(s) :
            /\ previous = s[p] /\ temp = At(s, p + 1)
            /\ cmp(call.ptr, before[1]) >= 0
            /\ \A k \in 2..p : cmp(call.ptr, before[k]) > 0

(* priqueue_size: i nodes have been counted; the list of priqueue_offer is *)
(* the new one.                                                            *)
CountOK(s) ==
    pc = "counting" =>
        /\ i \in 0..Len(s) /\ temp = At(s, i + 1)
        /\ call.op = "size" => before = DataOf(s, data)
        /\ call.op = "offer" =>
            /\ Len(s) = Len(before) + 1
            /\ DataOf(s, data) =
                Offer(before, call.ptr, Comparisons(call.ptr, before))

(* x is not one of the first j indices.                                    *)
Beyond(x, j) == x \notin 0..(j - 1)

LEMMA BeyondNext ==
    ASSUME NEW x, NEW j \in Nat, Beyond(x, j), x # j
    PROVE  Beyond(x, j + 1)
<1>1. \A y \in 0..(j + 1 - 1) : y = j \/ y \in 0..(j - 1)
  OBVIOUS
<1>2. x \notin 0..(j - 1)
  BY DEF Beyond
<1>3. x \notin 0..(j + 1 - 1)
  BY <1>1, <1>2, Zenon
<1> QED
  BY <1>3 DEF Beyond

(* priqueue_at and priqueue_remove_at: the index is not one of the first i *)
IndexOK(s) ==
    pc = "finding" =>
        /\ before = DataOf(s, data)
        /\ i \in 0..Len(s) /\ temp = At(s, i + 1) /\ previous = At(s, i)
        /\ Beyond(call.index, i)

(* r is what priqueue_remove keeps of the first j elements of q when it is *)
(* called with x.                                                          *)
KeptOf(q, j, x, r) ==
    \E f \in [0..j -> Seq(Ptrs)] :
        /\ f[0] = <<>> /\ f[j] = r
        /\ \A k \in 1..j :
            f[k] = IF cmp(q[k], x) # 0 THEN Append(f[k - 1], q[k]) ELSE f[k - 1]

(* The data pointers of the first n nodes of a list.                       *)
DataUpTo(s, n, d) == [k \in 1..n |-> d[s[k]]]

(* The loop of priqueue_remove, called with x on q, stands at place p of s *)
(* and has removed n elements.                                             *)
StandsAt(s, d, q, x, p, n) ==
    /\ Len(q) = Len(s) + n
    /\ \A k \in p..Len(s) : d[s[k]] = q[k + n]
    /\ KeptOf(q, p - 1 + n, x, DataUpTo(s, p - 1, d))

(* priqueue_remove: temp is at place p of the list, and i elements in      *)
(* front of it have been removed.                                          *)
RemoveOK(s) ==
    pc = "removing" =>
        \E p \in 1..(Len(s) + 1) :
            /\ temp = At(s, p)
            /\ p > 1 => previous = s[p - 1]
            /\ p = 1 /\ i > 0 => previous = NULL
            /\ StandsAt(s, data, before, call.ptr, p, i)

Structure(s) ==
    /\ ListOf(s, head, next, allocated)
    /\ SortedOf(s, data)
    /\ EntryOK(s) /\ PlaceOK(s) /\ CountOK(s) /\ IndexOK(s) /\ RemoveOK(s)

ListInv ==
    /\ ListTypeOK
    /\ LocalsOK
    /\ Sound => \E s \in Seq(Nodes) : Structure(s)

LEMMA CallsAre ==
    /\ Q!NoCall \notin Q!Calls /\ Q!NoCall.op = "none"
    /\ \A c \in Q!Calls :
        /\ c.op \in Entry
        /\ c.op \in {"offer", "remove"} => c.ptr \in Ptrs
        /\ c.op \in {"at", "remove_at"} => c.index \in Indices
BY DEF Q!NoCall, Q!Calls, Entry

LEMMA FreshIs ==
    ASSUME allocated \subseteq Nodes, Nodes \ allocated # {}
    PROVE  Fresh \in Nodes /\ Fresh \notin allocated
<1>1. Nodes \ allocated \in SUBSET Nat
  BY ListAssumption
<1> QED
  BY <1>1, MinProperties DEF Fresh

(* What is returned has its type.                                          *)
ResultOK(r) == /\ r[1] \in {"void", "int"} => r[2] \in 0..MaxCount
               /\ r[1] = "ptr" => r[2] \in Ptrs

LEMMA CrashStep ==
    ASSUME ListInv, Crash, ~corrupt, pc \notin Idle
    PROVE  ListInv'
<1>1. ListTypeOK'
  BY DEF ListInv, ListTypeOK, Crash, heap, locals
<1>2. LocalsOK'
  BY DEF ListInv, LocalsOK, Crash, heap, locals, Idle, Entry, Loops
<1>3. ~Sound'
  BY DEF Sound, Crash
<1> QED
  BY <1>1, <1>2, <1>3 DEF ListInv

(* A call returns, with the list in whatever order its nodes are in.       *)
LEMMA ReturnStep ==
    ASSUME ListInv, NEW r, Return(r), ResultOK(r),
           pc \notin Idle \cup {"crashed"},
           head' \in Nodes \cup {NULL},
           next' \in [Nodes -> Nodes \cup {NULL}],
           data' \in [Nodes -> Ptrs], allocated' \subseteq Nodes,
           Sound => \E s \in Seq(Nodes) :
                        /\ ListOf(s, head', next', allocated')
                        /\ SortedOf(s, data')
    PROVE  ListInv'
<1>1. ListTypeOK'
  <2>1. <<>> \in Seq(Ptrs) /\ NULL \in Residues /\ 0 \in 0..MaxCount
    BY Addresses DEF Residues, MaxCount, N
  <2> QED
    BY <2>1 DEF ListInv, ListTypeOK, Return, ResultOK
<1>2. LocalsOK'
  <2>1. Len(<<>>) <= N
    BY Addresses
  <2> QED
    BY <2>1 DEF ListInv, LocalsOK, Return, Idle, Entry, Loops
<1>3. ASSUME Sound'
      PROVE  \E s \in Seq(Nodes) : Structure(s)'
  <2>1. Sound
    BY <1>3 DEF Sound, Return
  <2>2. PICK s \in Seq(Nodes) : /\ ListOf(s, head', next', allocated')
                                /\ SortedOf(s, data')
    BY <2>1
  <2>3. Structure(s)'
    BY <2>2 DEF Return, Structure, EntryOK, PlaceOK, CountOK, IndexOK, RemoveOK,
                Idle, Entry
  <2> QED
    BY <2>3
<1> QED
  BY <1>1, <1>2, <1>3 DEF ListInv

(* What is known of a sound list in a given place of the code.             *)
LEMMA ListIs ==
    ASSUME ListInv, Sound
    PROVE  \E s \in Seq(Nodes) :
            /\ Structure(s) /\ ListOf(s, head, next, allocated)
            /\ Chain = s /\ DataInList = DataOf(s, data)
            /\ Len(s) \in Nat /\ Len(s) <= N /\ N \in Nat
            /\ \A k \in 1..Len(s) : s[k] \in Nodes /\ s[k] # NULL
<1>1. PICK s \in Seq(Nodes) : Structure(s)
  BY DEF ListInv
<1>2. ListOf(s, head, next, allocated)
  BY <1>1 DEF Structure
<1>3. Chain = s
  BY <1>2, ChainIs
<1>4. DataInList = DataOf(s, data)
  BY <1>3 DEF DataInList, DataOf
<1>5. Len(s) \in Nat /\ Len(s) <= N /\ N \in Nat
  BY <1>2, NoLongerThanMemory, Addresses
<1>6. \A k \in 1..Len(s) : s[k] \in Nodes /\ s[k] # NULL
  BY Addresses
<1> QED
  BY <1>1, <1>2, <1>3, <1>4, <1>5, <1>6

LEMMA InitInv == priqueue_init => ListInv
<1> SUFFICES ASSUME priqueue_init PROVE ListInv
  OBVIOUS
<1>1. ListTypeOK
  <2>1. (CHOOSE p \in Ptrs : TRUE) \in Ptrs
    BY ListAssumption
  <2>2. <<>> \in Seq(Ptrs) /\ 0 \in 0..MaxCount
    BY Addresses DEF MaxCount, N
  <2> QED
    BY <2>1, <2>2 DEF priqueue_init, ListTypeOK, Residues, Q!NoResult
<1>2. LocalsOK
  <2>1. Len(<<>>) <= N
    BY Addresses
  <2> QED
    BY <2>1 DEF priqueue_init, LocalsOK, Idle, Entry, Loops
<1>3. Structure(<<>>)
  <2>1. ListOf(<<>>, head, next, allocated)
    BY DEF priqueue_init, ListOf, At
  <2>2. SortedOf(<<>>, data)
    BY DEF SortedOf
  <2> QED
    BY <2>1, <2>2 DEF priqueue_init, Structure, EntryOK, PlaceOK, CountOK, IndexOK,
                      RemoveOK, Idle, Entry
<1>4. <<>> \in Seq(Nodes)
  OBVIOUS
<1> QED
  BY <1>1, <1>2, <1>3, <1>4 DEF ListInv

LEMMA CallInv ==
    ASSUME ListInv, Call
    PROVE  ListInv'
<1>1. PICK c \in Q!Calls : /\ c.op = "offer" => Nodes \ allocated # {}
                           /\ call' = c /\ pc' = c.op
  BY DEF Call
<1>2. c.op \in Entry /\ c # Q!NoCall
  BY CallsAre
<1>3. Sound /\ pc = "idle" /\ pc \in Idle
  BY DEF Call, Sound, Idle
<1>4. PICK s \in Seq(Nodes) : /\ Structure(s)
                              /\ DataInList = DataOf(s, data)
                              /\ Len(s) <= N
  BY <1>3, ListIs
<1>5. before' \in Seq(Ptrs) /\ Len(before') <= N
  BY <1>4, DataOfIs DEF Call, ListInv, ListTypeOK
<1>6. ListTypeOK'
  <2>1. 0 \in 0..MaxCount
    BY Addresses DEF MaxCount, N
  <2> QED
    BY <1>1, <1>5, <2>1 DEF Call, ListInv, ListTypeOK, heap, locals, Q!NoResult
<1>7. LocalsOK'
  BY <1>1, <1>2, <1>3, <1>5
     DEF ListInv, LocalsOK, Call, heap, locals, Idle, Entry, Loops
<1>8. Structure(s)'
  <2>1. pc' \in Entry /\ before' = DataOf(s, data)
    BY <1>1, <1>2, <1>4 DEF Call
  <2> QED
    BY <1>4, <2>1
       DEF Call, heap, Structure, EntryOK, PlaceOK, CountOK, IndexOK, RemoveOK, Entry
<1> QED
  BY <1>6, <1>7, <1>8 DEF ListInv

LEMMA PeekInv ==
    ASSUME ListInv, priqueue_peek
    PROVE  ListInv'
<1>1. pc = "peek" /\ ~corrupt /\ Sound
  BY DEF priqueue_peek, ListInv, LocalsOK, Sound
<1>2. CASE head = NULL
  BY <1>1, <1>2, CrashStep DEF priqueue_peek, Idle
<1>3. CASE head # NULL
  <2>1. ResultOK(<<"ptr", data[head]>>)
    BY <1>3 DEF ResultOK, ListInv, ListTypeOK
  <2> QED
    <3>1. Return(<<"ptr", data[head]>>) /\ UNCHANGED heap
      BY <1>3 DEF priqueue_peek
    <3>2. PICK s \in Seq(Nodes) : Structure(s)
      BY <1>1 DEF ListInv
    <3>3. /\ head' = head /\ next' = next /\ data' = data /\ allocated' = allocated
          /\ head \in Nodes \cup {NULL} /\ next \in [Nodes -> Nodes \cup {NULL}]
          /\ data \in [Nodes -> Ptrs] /\ allocated \subseteq Nodes
      BY <3>1 DEF heap, ListInv, ListTypeOK
    <3>4. ListOf(s, head', next', allocated') /\ SortedOf(s, data')
      BY <3>2, <3>3 DEF Structure
    <3> HIDE DEF Return
    <3> QED
      BY <1>1, <2>1, <3>1, <3>3, <3>4, ReturnStep DEF Idle
<1> QED
  BY <1>2, <1>3

(* The first node is unlinked, and its memory is freed or kept.            *)
LEMMA HeadCut ==
    ASSUME NEW s \in Seq(Nodes), ListOf(s, head, next, allocated),
           SortedOf(s, data), data \in [Nodes -> Ptrs], head # NULL,
           NEW al, allocated \ {head} \subseteq al
    PROVE  /\ 1 \in 1..Len(s) /\ head = s[1] /\ next[head] = At(s, 2)
           /\ Cut(s, 1) \in Seq(Nodes)
           /\ ListOf(Cut(s, 1), next[head], next, al)
           /\ SortedOf(Cut(s, 1), data)
<1>1. /\ 1 \in 1..Len(s) /\ head = s[1]
  BY DEF ListOf, At
<1>2. next[s[1]] = At(s, 1 + 1)
  BY <1>1 DEF ListOf
<1>3. next[head] = At(s, 2)
  BY <1>1, <1>2
<1>4. ListOf(Cut(s, 1), next[head], next, al)
  <2>1. LinkedOut(s, 1, head, next, allocated, next[head], next, al)
    BY <1>1, <1>3 DEF LinkedOut
  <2> QED
    BY <1>1, <2>1, UnlinkFrom
<1>5. SortedOf(Cut(s, 1), data) /\ Cut(s, 1) \in Seq(Nodes)
  BY <1>1, CutSorted, CutIs
<1> QED
  BY <1>1, <1>3, <1>4, <1>5

LEMMA PollInv ==
    ASSUME ListInv, priqueue_poll
    PROVE  ListInv'
<1>1. pc = "poll" /\ ~corrupt /\ Sound
  BY DEF priqueue_poll, ListInv, LocalsOK, Sound
<1>2. CASE head = NULL
  BY <1>1, <1>2, CrashStep DEF priqueue_poll, Idle
<1>3. CASE head # NULL
  <2>1. ResultOK(<<"ptr", data[head]>>)
    BY <1>3 DEF ResultOK, ListInv, ListTypeOK
  <2>2. /\ Return(<<"ptr", data[head]>>)
        /\ head' = next[head] /\ UNCHANGED <<next, data, allocated>>
    BY <1>3 DEF priqueue_poll
  <2>3. PICK s \in Seq(Nodes) : Structure(s)
    BY <1>1 DEF ListInv
  <2>4. /\ head \in Nodes /\ next \in [Nodes -> Nodes \cup {NULL}]
        /\ data \in [Nodes -> Ptrs] /\ allocated \subseteq Nodes
    BY <1>3 DEF ListInv, ListTypeOK
  <2>5. ListOf(s, head, next, allocated) /\ SortedOf(s, data)
    BY <2>3 DEF Structure
  <2>6. /\ Cut(s, 1) \in Seq(Nodes)
        /\ ListOf(Cut(s, 1), next[head], next, allocated)
        /\ SortedOf(Cut(s, 1), data)
    BY <1>3, <2>4, <2>5, HeadCut
  <2>7. /\ next[head] \in Nodes \cup {NULL}
        /\ ListOf(Cut(s, 1), head', next', allocated')
        /\ SortedOf(Cut(s, 1), data')
    BY <2>2, <2>4, <2>6
  <2> HIDE DEF Return
  <2> QED
    BY <1>1, <2>1, <2>2, <2>4, <2>6, <2>7, ReturnStep DEF Idle
<1> QED
  BY <1>2, <1>3

(* The node that the loops of priqueue_at and priqueue_remove_at stand on. *)
LEMMA IndexAt ==
    ASSUME ListInv, pc = "finding"
    PROVE  /\ Sound /\ ~corrupt
           /\ \E s \in Seq(Nodes) :
                /\ Structure(s) /\ ListOf(s, head, next, allocated)
                /\ SortedOf(s, data)
                /\ Len(s) \in Nat /\ Len(s) <= N /\ N \in Nat /\ i \in 0..Len(s)
                /\ temp = At(s, i + 1) /\ previous = At(s, i)
                /\ Beyond(call.index, i)
                /\ before = DataOf(s, data)
                /\ temp # NULL =>
                    /\ temp \in Nodes /\ i + 1 \in 1..Len(s) /\ temp = s[i + 1]
                    /\ next[temp] = At(s, i + 2)
<1>1. Sound /\ ~corrupt
  BY DEF ListInv, LocalsOK, Sound
<1>2. PICK s \in Seq(Nodes) :
        /\ Structure(s) /\ ListOf(s, head, next, allocated)
        /\ Len(s) \in Nat /\ Len(s) <= N /\ N \in Nat
        /\ \A k \in 1..Len(s) : s[k] \in Nodes
  BY <1>1, ListIs
<1>3. /\ i \in 0..Len(s)
      /\ temp = At(s, i + 1) /\ previous = At(s, i)
      /\ Beyond(call.index, i) /\ before = DataOf(s, data)
  BY <1>2 DEF Structure, IndexOK
<1>4. SortedOf(s, data)
  BY <1>2 DEF Structure
<1>5. ASSUME temp # NULL
      PROVE  /\ temp \in Nodes /\ i + 1 \in 1..Len(s) /\ temp = s[i + 1]
             /\ next[temp] = At(s, i + 2)
  <2>1. i + 1 \in 1..Len(s) /\ temp = s[i + 1] /\ temp \in Nodes
    BY <1>2, <1>3, <1>5 DEF At
  <2>2. next[s[i + 1]] = At(s, (i + 1) + 1)
    <3>1. \A k \in 1..Len(s) : next[s[k]] = At(s, k + 1)
      BY <1>2 DEF ListOf
    <3> QED
      BY <2>1, <3>1
  <2>3. (i + 1) + 1 = i + 2
    BY <1>2, <1>3
  <2> QED
    BY <2>1, <2>2, <2>3
<1> QED
  BY <1>1, <1>2, <1>3, <1>4, <1>5

LEMMA AtInv ==
    ASSUME ListInv, priqueue_at
    PROVE  ListInv'
<1>1. pc \in Entry /\ pc # "destroy" /\ ~corrupt /\ Sound
  BY DEF priqueue_at, ListInv, LocalsOK, Sound, Entry
<1>2. PICK s \in Seq(Nodes) :
        /\ Structure(s) /\ ListOf(s, head, next, allocated)
        /\ Len(s) \in Nat
  BY <1>1, ListIs
<1>3. ListTypeOK'
  BY DEF priqueue_at, ListInv, ListTypeOK, heap, Stay
<1>4. LocalsOK'
  BY <1>1 DEF priqueue_at, ListInv, LocalsOK, heap, Stay, Idle, Entry, Loops
<1>5. Structure(s)'
  <2>1. head = At(s, 1) /\ NULL = At(s, 0) /\ i = 0 /\ previous = NULL
        /\ i \in 0..Len(s) /\ i + 1 = 1
    <3>1. i = 0 /\ previous = NULL
      BY <1>1 DEF ListInv, LocalsOK
    <3>2. head = At(s, 1)
      BY <1>2 DEF ListOf
    <3>3. NULL = At(s, 0)
      BY <1>2 DEF At
    <3> QED
      BY <1>2, <3>1, <3>2, <3>3
  <2>2. before = DataOf(s, data)
    BY <1>1, <1>2 DEF Structure, EntryOK
  <2>3. IndexOK(s)'
    <3>1. Beyond(call.index, i)
      BY <2>1 DEF Beyond
    <3>2. /\ temp' = head /\ previous' = previous /\ i' = i /\ call' = call
          /\ before' = before /\ data' = data
      BY DEF priqueue_at, heap, Stay
    <3>3. temp' = At(s, i' + 1) /\ previous' = At(s, i') /\ i' \in 0..Len(s)
      BY <2>1, <3>2
    <3> QED
      BY <2>2, <3>1, <3>2, <3>3 DEF IndexOK
  <2> QED
    BY <1>2, <2>3
       DEF priqueue_at, heap, Stay, Structure, EntryOK, PlaceOK, CountOK, RemoveOK, Entry
<1> QED
  BY <1>3, <1>4, <1>5 DEF ListInv

LEMMA LookForIndexInv ==
    ASSUME ListInv, LookForIndex
    PROVE  ListInv'
<1>1. pc = "finding" /\ i # call.index /\ temp # NULL
  BY DEF LookForIndex, Elsewhere
<1>2. PICK s \in Seq(Nodes) :
        /\ Structure(s) /\ ListOf(s, head, next, allocated)
        /\ Len(s) \in Nat /\ Len(s) <= N /\ N \in Nat /\ i \in 0..Len(s)
        /\ Beyond(call.index, i)
        /\ before = DataOf(s, data)
        /\ temp \in Nodes /\ i + 1 \in 1..Len(s) /\ temp = s[i + 1]
        /\ next[temp] = At(s, i + 2)
  BY <1>1, IndexAt
<1>3. ListTypeOK'
  <2>1. i + 1 \in 0..MaxCount
    BY <1>2 DEF MaxCount, N
  <2>2. /\ next[temp] \in Nodes \cup {NULL} /\ temp \in Residues
    BY <1>2 DEF ListInv, ListTypeOK, Residues
  <2> QED
    BY <2>1, <2>2 DEF LookForIndex, ListInv, ListTypeOK, heap, Stay
<1>4. LocalsOK'
  BY <1>1 DEF LookForIndex, ListInv, LocalsOK, heap, Stay, Idle, Entry, Loops
<1>5. Structure(s)'
  <2>1. /\ i' = i + 1 /\ temp' = At(s, i + 2) /\ previous' = At(s, i + 1)
    BY <1>1, <1>2 DEF LookForIndex, At
  <2>2. i + 1 + 1 = i + 2 /\ i + 1 \in 0..Len(s)
    BY <1>2
  <2>3. Beyond(call.index, i + 1)
    BY <1>1, <1>2, BeyondNext
  <2>4. IndexOK(s)'
    <3>1. call' = call /\ before' = before /\ data' = data
      BY DEF LookForIndex, heap, Stay
    <3>2. temp' = At(s, i' + 1) /\ previous' = At(s, i') /\ i' \in 0..Len(s)
      BY <2>1, <2>2
    <3>3. Beyond(call'.index, i')
      BY <2>1, <2>3, <3>1
    <3> QED
      BY <1>2, <3>1, <3>2, <3>3 DEF IndexOK
  <2> QED
    BY <1>1, <1>2, <2>4
       DEF LookForIndex, heap, Stay, Structure, EntryOK, PlaceOK, CountOK, RemoveOK,
           Entry
<1> QED
  BY <1>3, <1>4, <1>5 DEF ListInv

LEMMA AtFoundInv ==
    ASSUME ListInv, AtFound
    PROVE  ListInv'
<1>1. pc = "finding" /\ pc \notin Idle
  BY DEF AtFound, Idle
<1>2. Sound /\ ~corrupt
  BY <1>1, IndexAt
<1>3. CASE temp = NULL
  BY <1>1, <1>2, <1>3, CrashStep DEF AtFound
<1>4. CASE temp # NULL
  <2>1. ResultOK(<<"ptr", data[temp]>>)
    BY <1>4 DEF ResultOK, ListInv, ListTypeOK
  <2>2. Return(<<"ptr", data[temp]>>) /\ UNCHANGED heap
    BY <1>4 DEF AtFound
  <2>3. PICK s \in Seq(Nodes) : Structure(s)
    BY <1>2 DEF ListInv
  <2>4. /\ head' = head /\ next' = next /\ data' = data /\ allocated' = allocated
        /\ head \in Nodes \cup {NULL} /\ next \in [Nodes -> Nodes \cup {NULL}]
        /\ data \in [Nodes -> Ptrs] /\ allocated \subseteq Nodes
    BY <2>2 DEF heap, ListInv, ListTypeOK
  <2>5. ListOf(s, head', next', allocated') /\ SortedOf(s, data')
    BY <2>3, <2>4 DEF Structure
  <2> HIDE DEF Return
  <2> QED
    BY <1>1, <2>1, <2>2, <2>4, <2>5, ReturnStep
<1> QED
  BY <1>3, <1>4

(* A node behind the head is unlinked.                                     *)
LEMMA MidCut ==
    ASSUME NEW s \in Seq(Nodes), ListOf(s, head, next, allocated),
           SortedOf(s, data), data \in [Nodes -> Ptrs],
           next \in [Nodes -> Nodes \cup {NULL}],
           NEW p \in 2..Len(s),
           NEW nx, nx = [next EXCEPT ![s[p - 1]] = next[s[p]]]
    PROVE  /\ nx \in [Nodes -> Nodes \cup {NULL}]
           /\ next[s[p]] = At(s, p + 1)
           /\ Cut(s, p) \in Seq(Nodes)
           /\ ListOf(Cut(s, p), head, nx, allocated)
           /\ SortedOf(Cut(s, p), data)
<1>1. /\ p \in 1..Len(s) /\ p - 1 \in 1..Len(s) /\ p > 1 /\ p # 1
      /\ s[p] \in Nodes /\ s[p - 1] \in Nodes
  OBVIOUS
<1>2. next[s[p]] = At(s, p + 1)
  BY <1>1 DEF ListOf
<1>3. nx \in [Nodes -> Nodes \cup {NULL}] /\ nx[s[p - 1]] = At(s, p + 1)
  BY <1>1, <1>2
<1>4. ASSUME NEW k \in 1..Len(s), k # p - 1
      PROVE  nx[s[k]] = next[s[k]]
  <2>1. s[k] # s[p - 1] /\ s[k] \in Nodes
    BY <1>1, <1>4 DEF ListOf
  <2> QED
    BY <2>1
<1>5. ListOf(Cut(s, p), head, nx, allocated)
  <2>1. LinkedOut(s, p, head, next, allocated, head, nx, allocated)
    BY <1>1, <1>3, <1>4 DEF LinkedOut
  <2> QED
    BY <1>1, <2>1, UnlinkFrom
<1>6. SortedOf(Cut(s, p), data) /\ Cut(s, p) \in Seq(Nodes)
  BY <1>1, CutSorted, CutIs
<1> QED
  BY <1>2, <1>3, <1>5, <1>6

(* The node that is removed is the head or the one behind previous.        *)
LEMMA UnlinkCuts ==
    ASSUME NEW s \in Seq(Nodes), ListOf(s, head, next, allocated),
           SortedOf(s, data), data \in [Nodes -> Ptrs],
           next \in [Nodes -> Nodes \cup {NULL}],
           NEW p \in 1..Len(s), p > 1 => previous = s[p - 1],
           Unlink(s[p], previous)
    PROVE  /\ head' \in Nodes \cup {NULL}
           /\ next' \in [Nodes -> Nodes \cup {NULL}]
           /\ Cut(s, p) \in Seq(Nodes)
           /\ ListOf(Cut(s, p), head', next', allocated)
           /\ SortedOf(Cut(s, p), data)
<1>1. head = s[1] /\ head \in Nodes /\ head # NULL /\ 1 \in 1..Len(s)
  BY Addresses DEF ListOf, At
<1>2. CASE p = 1
  <2>1. head' = next[head] /\ next' = next
    BY <1>1, <1>2 DEF Unlink
  <2>2. allocated \ {head} \subseteq allocated
    OBVIOUS
  <2>3. /\ Cut(s, 1) \in Seq(Nodes)
        /\ ListOf(Cut(s, 1), next[head], next, allocated)
        /\ SortedOf(Cut(s, 1), data)
    BY <1>1, <2>2, HeadCut
  <2>4. next[head] \in Nodes \cup {NULL}
    BY <1>1
  <2> QED
    BY <1>2, <2>1, <2>3, <2>4
<1>3. CASE p # 1
  <2>1. p \in 2..Len(s) /\ s[p] # head /\ previous = s[p - 1]
    BY <1>1, <1>3 DEF ListOf
  <2>2. next' = [next EXCEPT ![s[p - 1]] = next[s[p]]] /\ head' = head
    BY <2>1 DEF Unlink
  <2> QED
    BY <1>1, <2>1, <2>2, MidCut
<1> QED
  BY <1>2, <1>3

LEMMA RemoveAtFoundInv ==
    ASSUME ListInv, RemoveAtFound
    PROVE  ListInv'
<1>1. pc = "finding" /\ pc \notin Idle \cup {"crashed"}
  BY DEF RemoveAtFound, Idle
<1>2. Sound /\ ~corrupt
  BY <1>1, IndexAt
<1>3. CASE temp = NULL
  BY <1>1, <1>2, <1>3, CrashStep DEF RemoveAtFound
<1>4. CASE temp # NULL
  <2>1. ResultOK(<<"ptr", data[temp]>>)
    BY <1>4 DEF ResultOK, ListInv, ListTypeOK
  <2>2. /\ Return(<<"ptr", data[temp]>>)
        /\ Unlink(temp, previous)
        /\ data' = data /\ allocated' = allocated
    BY <1>4 DEF RemoveAtFound
  <2>3. /\ next \in [Nodes -> Nodes \cup {NULL}]
        /\ data \in [Nodes -> Ptrs] /\ allocated \subseteq Nodes
    BY DEF ListInv, ListTypeOK
  <2>4. PICK s \in Seq(Nodes) :
            /\ ListOf(s, head, next, allocated) /\ SortedOf(s, data)
            /\ Len(s) \in Nat /\ i \in 0..Len(s) /\ previous = At(s, i)
            /\ i + 1 \in 1..Len(s) /\ temp = s[i + 1]
    BY <1>1, <1>4, IndexAt
  <2> DEFINE p == i + 1
  <2>5. p \in 1..Len(s) /\ temp = s[p]
    BY <2>4
  <2>6. p > 1 => previous = s[p - 1]
    BY <2>4 DEF At
  <2> HIDE DEF p, Return
  <2>7. /\ head' \in Nodes \cup {NULL}
        /\ next' \in [Nodes -> Nodes \cup {NULL}]
        /\ Cut(s, p) \in Seq(Nodes)
        /\ ListOf(Cut(s, p), head', next', allocated)
        /\ SortedOf(Cut(s, p), data)
    BY <2>2, <2>3, <2>4, <2>5, <2>6, UnlinkCuts
  <2>8. /\ ListOf(Cut(s, p), head', next', allocated')
        /\ SortedOf(Cut(s, p), data')
    BY <2>2, <2>7
  <2> QED
    BY <1>1, <2>1, <2>2, <2>3, <2>7, <2>8, ReturnStep
<1> QED
  BY <1>3, <1>4

LEMMA SizeInv ==
    ASSUME ListInv, priqueue_size
    PROVE  ListInv'
<1>1. pc = "size" /\ ~corrupt /\ Sound
  BY DEF priqueue_size, ListInv, LocalsOK, Sound
<1>2. PICK s \in Seq(Nodes) :
        /\ Structure(s) /\ ListOf(s, head, next, allocated)
        /\ Len(s) \in Nat
  BY <1>1, ListIs
<1>3. ListTypeOK'
  BY DEF priqueue_size, ListInv, ListTypeOK, heap, Stay
<1>4. LocalsOK'
  BY <1>1 DEF priqueue_size, ListInv, LocalsOK, heap, Stay, Idle, Entry, Loops
<1>5. Structure(s)'
  <2>1. i = 0 /\ i \in 0..Len(s) /\ i + 1 = 1 /\ call.op = "size"
    BY <1>1, <1>2 DEF ListInv, LocalsOK, Entry
  <2>2. head = At(s, 1)
    BY <1>2 DEF ListOf
  <2>3. before = DataOf(s, data)
    BY <1>1, <1>2 DEF Structure, EntryOK, Entry
  <2>4. CountOK(s)'
    <3>1. temp' = head /\ i' = i /\ call' = call /\ before' = before /\ data' = data
      BY DEF priqueue_size, heap, Stay
    <3> QED
      BY <2>1, <2>2, <2>3, <3>1 DEF CountOK
  <2> QED
    BY <1>2, <2>4
       DEF priqueue_size, heap, Stay, Structure, EntryOK, PlaceOK, IndexOK, RemoveOK,
           Entry
<1> QED
  BY <1>3, <1>4, <1>5 DEF ListInv

LEMMA CountInv ==
    ASSUME ListInv, Count
    PROVE  ListInv'
<1>1. pc = "counting" /\ temp # NULL /\ ~corrupt /\ Sound
  BY DEF Count, ListInv, LocalsOK, Sound
<1>2. PICK s \in Seq(Nodes) :
        /\ Structure(s) /\ ListOf(s, head, next, allocated)
        /\ Len(s) \in Nat /\ Len(s) <= N /\ N \in Nat
        /\ \A k \in 1..Len(s) : s[k] \in Nodes
  BY <1>1, ListIs
<1>3. /\ i \in 0..Len(s) /\ temp = At(s, i + 1)
  BY <1>1, <1>2 DEF Structure, CountOK
<1>4. i + 1 \in 1..Len(s) /\ temp = s[i + 1] /\ temp \in Nodes
  BY <1>1, <1>2, <1>3 DEF At
<1>5. next[temp] = At(s, i + 1 + 1)
  <2>1. \A k \in 1..Len(s) : next[s[k]] = At(s, k + 1)
    BY <1>2 DEF ListOf
  <2> QED
    BY <1>4, <2>1
<1>6. ListTypeOK'
  <2>1. i + 1 \in 0..MaxCount
    BY <1>2, <1>3, <1>4 DEF MaxCount, N
  <2>2. next[temp] \in Nodes \cup {NULL}
    BY <1>4 DEF ListInv, ListTypeOK
  <2> QED
    BY <2>1, <2>2 DEF Count, ListInv, ListTypeOK, heap, Stay
<1>7. LocalsOK'
  BY <1>1 DEF Count, ListInv, LocalsOK, heap, Stay, Idle, Entry, Loops
<1>8. Structure(s)'
  <2>1. CountOK(s)'
    <3>1. /\ temp' = next[temp] /\ i' = i + 1
          /\ call' = call /\ before' = before /\ data' = data
      BY DEF Count, heap, Stay
    <3>2. i' \in 0..Len(s) /\ temp' = At(s, i' + 1)
      BY <1>2, <1>4, <1>5, <3>1
    <3>3. CountOK(s)
      BY <1>2 DEF Structure
    <3> QED
      BY <1>1, <3>1, <3>2, <3>3 DEF CountOK
  <2> QED
    BY <1>1, <1>2, <2>1
       DEF Count, heap, Stay, Structure, EntryOK, PlaceOK, IndexOK, RemoveOK, Entry
<1> QED
  BY <1>6, <1>7, <1>8 DEF ListInv

(* When the end of the list is reached, every node has been counted.       *)
LEMMA CountedIs ==
    ASSUME ListInv, pc = "counting", temp = NULL
    PROVE  /\ Sound
           /\ \E s \in Seq(Nodes) :
                /\ Structure(s) /\ ListOf(s, head, next, allocated)
                /\ SortedOf(s, data)
                /\ i = Len(s) /\ Len(s) \in Nat /\ Len(s) <= N /\ N \in Nat
                /\ call.op = "size" => before = DataOf(s, data)
                /\ call.op = "offer" =>
                    /\ Len(s) = Len(before) + 1
                    /\ DataOf(s, data) =
                        Offer(before, call.ptr, Comparisons(call.ptr, before))
<1>1. Sound
  BY DEF ListInv, LocalsOK, Sound
<1>2. PICK s \in Seq(Nodes) :
        /\ Structure(s) /\ ListOf(s, head, next, allocated)
        /\ Len(s) \in Nat /\ Len(s) <= N /\ N \in Nat
        /\ \A k \in 1..Len(s) : s[k] # NULL
  BY <1>1, ListIs
<1>3. /\ i \in 0..Len(s) /\ temp = At(s, i + 1)
      /\ call.op = "size" => before = DataOf(s, data)
      /\ call.op = "offer" =>
            /\ Len(s) = Len(before) + 1
            /\ DataOf(s, data) =
                Offer(before, call.ptr, Comparisons(call.ptr, before))
  BY <1>2 DEF Structure, CountOK
<1>4. i = Len(s)
  <2>1. i + 1 \notin 1..Len(s)
    BY <1>2, <1>3 DEF At
  <2> QED
    BY <1>2, <1>3, <2>1
<1>5. SortedOf(s, data)
  BY <1>2 DEF Structure
<1> QED
  BY <1>1, <1>2, <1>3, <1>4, <1>5

LEMMA CountReturnsInv ==
    ASSUME ListInv, CountReturns
    PROVE  ListInv'
<1>1. pc = "counting" /\ temp = NULL /\ pc \notin Idle \cup {"crashed"}
  BY DEF CountReturns, Idle
<1>2. PICK s \in Seq(Nodes) :
        /\ ListOf(s, head, next, allocated) /\ SortedOf(s, data)
        /\ i = Len(s) /\ Len(s) \in Nat /\ Len(s) <= N /\ N \in Nat
        /\ call.op = "offer" => Len(s) = Len(before) + 1
  BY <1>1, CountedIs
<1>3. Counted \in 0..MaxCount
  <2>1. Len(before) \in Nat
    BY DEF ListInv, ListTypeOK
  <2>2. CASE call.op = "offer"
    BY <1>2, <2>1, <2>2 DEF Counted, MaxCount, N
  <2>3. CASE call.op # "offer"
    BY <1>2, <2>3 DEF Counted, MaxCount, N
  <2> QED
    BY <2>2, <2>3
<1>4. ResultOK(<<"int", Counted>>)
  BY <1>3 DEF ResultOK
<1>5. Return(<<"int", Counted>>) /\ UNCHANGED heap
  BY DEF CountReturns
<1>6. /\ head' = head /\ next' = next /\ data' = data /\ allocated' = allocated
      /\ head \in Nodes \cup {NULL} /\ next \in [Nodes -> Nodes \cup {NULL}]
      /\ data \in [Nodes -> Ptrs] /\ allocated \subseteq Nodes
  BY <1>5 DEF heap, ListInv, ListTypeOK
<1>7. ListOf(s, head', next', allocated') /\ SortedOf(s, data')
  BY <1>2, <1>6
<1> QED
  <2> HIDE DEF Return
  <2> QED
    BY <1>1, <1>4, <1>5, <1>6, <1>7, ReturnStep

LEMMA FreeHeadInv ==
    ASSUME ListInv, FreeHead
    PROVE  ListInv'
<1>1. /\ pc = "destroy" /\ head # NULL /\ ~corrupt /\ Sound
  BY DEF FreeHead, ListInv, LocalsOK, Sound
<1>2. PICK s \in Seq(Nodes) :
        /\ ListOf(s, head, next, allocated) /\ SortedOf(s, data)
  BY <1>1, ListIs DEF Structure
<1>3. /\ head \in Nodes /\ next \in [Nodes -> Nodes \cup {NULL}]
      /\ data \in [Nodes -> Ptrs]
  BY <1>1 DEF ListInv, ListTypeOK
<1>4. /\ head' = next[head] /\ allocated' = allocated \ {head}
      /\ next' = next /\ data' = data /\ pc' = pc
  BY DEF FreeHead
<1>5. allocated \ {head} \subseteq allocated'
  BY <1>4
<1>6. /\ Cut(s, 1) \in Seq(Nodes)
      /\ ListOf(Cut(s, 1), next[head], next, allocated')
      /\ SortedOf(Cut(s, 1), data)
  BY <1>1, <1>2, <1>3, <1>5, HeadCut
<1>7. ListTypeOK'
  <2>1. next[head] \in Nodes \cup {NULL}
    BY <1>3
  <2> QED
    BY <1>4, <2>1 DEF FreeHead, ListInv, ListTypeOK, locals, Stay
<1>8. LocalsOK'
  BY <1>1 DEF FreeHead, ListInv, LocalsOK, locals, Stay, Idle, Entry, Loops
<1>9. Structure(Cut(s, 1))'
  <2>1. /\ ListOf(Cut(s, 1), head', next', allocated')
        /\ SortedOf(Cut(s, 1), data')
    BY <1>4, <1>6
  <2> QED
    BY <1>1, <1>4, <2>1
       DEF Structure, EntryOK, PlaceOK, CountOK, IndexOK, RemoveOK, Entry
<1> QED
  BY <1>6, <1>7, <1>8, <1>9 DEF ListInv

LEMMA DestroyReturnsInv ==
    ASSUME ListInv, DestroyReturns
    PROVE  ListInv'
<1>1. /\ pc = "destroy" /\ ~corrupt /\ Sound /\ pc \notin Idle \cup {"crashed"}
  BY DEF DestroyReturns, ListInv, LocalsOK, Sound, Idle
<1>2. PICK s \in Seq(Nodes) :
        /\ ListOf(s, head, next, allocated) /\ SortedOf(s, data)
  BY <1>1, ListIs DEF Structure
<1>3. ResultOK(Q!NoResult)
  BY Addresses DEF ResultOK, Q!NoResult, MaxCount, N
<1>4. Return(Q!NoResult) /\ UNCHANGED heap
  BY DEF DestroyReturns
<1>5. /\ head' = head /\ next' = next /\ data' = data /\ allocated' = allocated
      /\ head \in Nodes \cup {NULL} /\ next \in [Nodes -> Nodes \cup {NULL}]
      /\ data \in [Nodes -> Ptrs] /\ allocated \subseteq Nodes
  BY <1>4 DEF heap, ListInv, ListTypeOK
<1>6. ListOf(s, head', next', allocated') /\ SortedOf(s, data')
  BY <1>2, <1>5
<1> QED
  <2> HIDE DEF Return
  <2> QED
    BY <1>1, <1>3, <1>4, <1>5, <1>6, ReturnStep

-----------------------------------------------------------------------------
(* priqueue_offer links the new node in where Offer puts it.               *)

LEMMA OfferIndexIs ==
    ASSUME NEW q \in Seq(Ptrs), NEW x \in Ptrs, NEW p \in 1..(Len(q) + 1),
           p = 1 => q = <<>> \/ cmp(x, q[1]) < 0,
           p > 1 => cmp(x, q[1]) >= 0,
           \A k \in 2..(p - 1) : cmp(x, q[k]) > 0,
           p \in 2..Len(q) => cmp(x, q[p]) <= 0
    PROVE  OfferIndex(Comparisons(x, q)) = p
<1> DEFINE c == Comparisons(x, q)
           o == OfferIndex(c)
<1>1. /\ c \in Seq(Int) /\ Len(c) = Len(q) /\ Len(q) \in Nat
      /\ \A k \in 1..Len(q) : c[k] = cmp(x, q[k])
  <2>1. \A k \in 1..Len(q) : cmp(x, q[k]) \in Int
    <3> SUFFICES ASSUME NEW k \in 1..Len(q) PROVE cmp(x, q[k]) \in Int
      OBVIOUS
    <3>1. q[k] \in Ptrs
      OBVIOUS
    <3> QED
      BY <3>1, CmpIs
  <2>2. Len(q) \in Nat
    OBVIOUS
  <2> QED
    BY <2>1, <2>2 DEF Comparisons
<1> HIDE DEF c
<1>2. /\ o \in 1..(Len(c) + 1)
      /\ o = 1 => c = <<>> \/ c[1] < 0
      /\ o > 1 => c # <<>> /\ c[1] >= 0
      /\ \A k \in 2..(o - 1) : c[k] > 0
      /\ o \in 2..Len(c) => c[o] <= 0
  BY <1>1, OfferIndexProperties
<1> HIDE DEF o
<1>3. CASE p = 1
  <2>1. c = <<>> \/ c[1] < 0
    BY <1>1, <1>3
  <2>2. ~(o > 1)
    <3>1. CASE c = <<>>
      BY <1>2, <3>1
    <3>2. CASE c # <<>>
      <4>1. c[1] < 0 /\ c[1] \in Int /\ ~(c[1] >= 0)
        BY <1>1, <2>1, <3>2
      <4> QED
        BY <1>2, <4>1
    <3> QED
      BY <3>1, <3>2
  <2>3. o = 1
    BY <1>1, <1>2, <2>2
  <2> QED
    BY <1>3, <2>3 DEF o, c
<1>4. CASE p > 1
  <2>1. Len(q) \in Nat /\ p \in Nat /\ p <= Len(q) + 1 /\ 1 \in 1..Len(q)
    BY <1>1, <1>4
  <2>2. o > 1
    <3>1. c # <<>> /\ c[1] >= 0 /\ c[1] \in Int
      BY <1>1, <1>4, <2>1
    <3>2. ~(c[1] < 0)
      BY <3>1
    <3> QED
      BY <1>1, <1>2, <3>1, <3>2
  <2>3. ~(o < p)
    <3> SUFFICES ASSUME o < p PROVE FALSE
      OBVIOUS
    <3>1. o \in 2..(p - 1) /\ o \in 2..Len(c) /\ o \in 1..Len(q)
      BY <1>1, <1>2, <2>1, <2>2
    <3>2. c[o] <= 0 /\ c[o] > 0 /\ c[o] \in Int
      BY <1>1, <1>2, <3>1
    <3> QED
      BY <3>2
  <2>4. ~(p < o)
    <3> SUFFICES ASSUME p < o PROVE FALSE
      OBVIOUS
    <3>1. p \in 2..(o - 1) /\ p \in 2..Len(q) /\ p \in 1..Len(q)
      BY <1>1, <1>2, <1>4, <2>1
    <3>2. c[p] <= 0 /\ c[p] > 0 /\ c[p] \in Int
      BY <1>1, <1>2, <3>1
    <3> QED
      BY <3>2
  <2>5. o \in Nat
    BY <1>1, <1>2
  <2>6. o = p
    BY <2>1, <2>3, <2>4, <2>5
  <2> QED
    BY <2>6 DEF o, c
<1> QED
  BY <1>3, <1>4

LEMMA OfferInv ==
    ASSUME ListInv, priqueue_offer
    PROVE  ListInv'
<1> DEFINE x == call.ptr
<1>1. /\ pc = "offer" /\ ~corrupt /\ Sound /\ call.op = "offer"
      /\ i = 0 /\ previous = NULL /\ x \in Ptrs
  <2>1. call.op = "offer" /\ call \in Q!Calls
    BY DEF priqueue_offer, ListInv, LocalsOK, ListTypeOK, Entry, Idle
  <2> QED
    BY <2>1, CallsAre DEF priqueue_offer, ListInv, LocalsOK, Sound, Entry
<1>2. PICK s \in Seq(Nodes) :
        /\ Structure(s) /\ ListOf(s, head, next, allocated)
        /\ Len(s) \in Nat /\ Len(s) <= N /\ N \in Nat
        /\ \A k \in 1..Len(s) : s[k] \in Nodes /\ s[k] # NULL
  BY <1>1, ListIs
<1>3. /\ head \in Nodes \cup {NULL} /\ next \in [Nodes -> Nodes \cup {NULL}]
      /\ data \in [Nodes -> Ptrs] /\ allocated \subseteq Nodes
  BY DEF ListInv, ListTypeOK
<1>4. PICK f \in Nodes : f = Fresh /\ f \notin allocated
  BY <1>1, <1>3, FreshIs DEF ListInv, LocalsOK
<1>5. SortedOf(s, data) /\ before = DataOf(s, data)
  BY <1>1, <1>2 DEF Structure, EntryOK, Entry
<1>6. /\ before \in Seq(Ptrs) /\ Len(before) = Len(s)
      /\ \A k \in 1..Len(s) : before[k] = data[s[k]]
  BY <1>3, <1>5, DataOfIs
<1>7. \A k \in 1..Len(s) : s[k] # f /\ s[k] \in allocated
  BY <1>2, <1>4 DEF ListOf
<1>8. /\ insert' = f /\ allocated' = allocated \cup {f}
      /\ data' = [data EXCEPT ![f] = x]
      /\ next' = [next EXCEPT ![f] = IF GoesFirst THEN head ELSE NULL]
      /\ i' = i /\ call' = call /\ result' = result /\ corrupt' = corrupt
      /\ before' = before
  BY <1>4 DEF priqueue_offer, Stay
<1>9. /\ data' \in [Nodes -> Ptrs] /\ data'[f] = x
      /\ \A k \in 1..Len(s) : data'[s[k]] = data[s[k]]
  BY <1>1, <1>2, <1>3, <1>4, <1>7, <1>8
<1>10. /\ next' \in [Nodes -> Nodes \cup {NULL}]
       /\ next'[f] = IF GoesFirst THEN head ELSE NULL
       /\ \A k \in 1..Len(s) : next'[s[k]] = next[s[k]]
  BY <1>2, <1>3, <1>4, <1>7, <1>8
<1>11. head = At(s, 1)
  BY <1>2 DEF ListOf
<1> HIDE DEF x
<1>12. CASE GoesFirst
  <2>1. head' = f /\ pc' = "counting" /\ temp' = f /\ previous' = previous
    BY <1>4, <1>12 DEF priqueue_offer
  <2>2. ListTypeOK'
    BY <1>1, <1>3, <1>4, <1>8, <1>9, <1>10, <2>1 DEF ListInv, ListTypeOK
  <2>3. LocalsOK'
    BY <1>1, <1>8, <2>1 DEF ListInv, LocalsOK, Idle, Entry, Loops
  <2> DEFINE r == Put(s, 1, f)
  <2>4. r \in Seq(Nodes) /\ Len(r) = Len(s) + 1 /\ r[1] = f
    <3>1. 1 \in 1..(Len(s) + 1)
      BY <1>2
    <3>2. /\ r \in Seq(Nodes) /\ Len(r) = Len(s) + 1
          /\ \A k \in 1..(Len(s) + 1) :
                r[k] = IF k < 1 THEN s[k] ELSE IF k = 1 THEN f ELSE s[k - 1]
      BY <3>1, PutIs, SMTT(30)
    <3> QED
      BY <3>1, <3>2
  <2>5. ListOf(r, head', next', allocated')
    <3> DEFINE p == 1
               h2 == head'
               nx2 == next'
               al2 == allocated'
    <3>1. p \in 1..(Len(s) + 1) /\ p = 1
      BY <1>2
    <3>2. /\ h2 = (IF p = 1 THEN f ELSE head)
          /\ allocated \cup {f} \subseteq al2
          /\ nx2[f] = At(s, p)
      BY <1>8, <1>10, <1>11, <1>12, <2>1
    <3>3. p > 1 => nx2[s[p - 1]] = f
      OBVIOUS
    <3>4. \A k \in 1..Len(s) : k # p - 1 => nx2[s[k]] = next[s[k]]
      BY <1>10
    <3>5. \A k \in 1..Len(s) : s[k] # f
      BY <1>7
    <3> HIDE DEF p, h2, nx2, al2
    <3>6. ListOf(Put(s, p, f), h2, nx2, al2)
      BY <1>2, <3>1, <3>2, <3>3, <3>4, <3>5, LinkIn
    <3> QED
      BY <3>1, <3>6 DEF h2, nx2, al2
  <2>6. /\ Len(s) >= 1 => cmp(x, data[s[1]]) < 0 /\ data[s[1]] \in Ptrs
        /\ s = <<>> \/ cmp(x, before[1]) < 0
    BY <1>2, <1>3, <1>6, <1>11, <1>12 DEF GoesFirst, At, x
  <2>7. SortedOf(r, data')
    <3>1. 1 \in 1..(Len(s) + 1)
      BY <1>2
    <3>2. 1 <= Len(s) => cmp(data'[f], data'[s[1]]) <= 0
      BY <1>1, <1>2, <1>9, <2>6, CmpIs
    <3>3. 1 > 1 => cmp(data'[s[1 - 1]], data'[f]) <= 0
      OBVIOUS
    <3> QED
      BY <1>4, <1>5, <1>9, <3>1, <3>2, <3>3, PutSorted
  <2>8. DataOf(r, data') = Offer(before, x, Comparisons(x, before))
    <3>1. 1 \in 1..(Len(s) + 1)
      BY <1>2
    <3>2. DataOf(r, data') = InsertAt(DataOf(s, data), 1, data'[f])
      BY <1>3, <1>4, <1>9, <3>1, DataOfPut, ZenonT(40)
    <3>3. OfferIndex(Comparisons(x, before)) = 1
      <4>1. 1 \in 1..(Len(before) + 1) /\ \A k \in 2..(1 - 1) : cmp(x, before[k]) > 0
        BY <1>2, <1>6
      <4>2. before = <<>> \/ cmp(x, before[1]) < 0
        BY <1>6, <2>6
      <4> QED
        BY <1>1, <1>6, <4>1, <4>2, OfferIndexIs
    <3> QED
      BY <1>5, <1>9, <3>2, <3>3 DEF Offer
  <2>9. CountOK(r)'
    <3>1. /\ 0 \in 0..Len(r) /\ 1 \in 1..Len(r) /\ 0 + 1 = 1
          /\ Len(r) = Len(before) + 1
      BY <1>2, <1>6, <2>4
    <3>2. temp' = At(r, 1)
      BY <2>1, <2>4, <3>1 DEF At
    <3>3. i' = 0 /\ call'.op = "offer" /\ call'.ptr = x /\ before' = before
      BY <1>1, <1>8 DEF x
    <3>4. i' \in 0..Len(r) /\ temp' = At(r, i' + 1)
      BY <3>1, <3>2, <3>3
    <3>5. call'.op = "size" => before' = DataOf(r, data')
      BY <3>3
    <3>6. /\ Len(r) = Len(before') + 1
          /\ DataOf(r, data') =
                Offer(before', call'.ptr, Comparisons(call'.ptr, before'))
      BY <2>8, <3>1, <3>3
    <3> HIDE DEF r
    <3> QED
      BY <3>4, <3>5, <3>6 DEF CountOK
  <2> HIDE DEF r
  <2>10. Structure(r)'
    BY <2>1, <2>5, <2>7, <2>9
       DEF Structure, EntryOK, PlaceOK, IndexOK, RemoveOK, Entry
  <2> QED
    BY <2>2, <2>3, <2>4, <2>10 DEF ListInv
<1>13. CASE ~GoesFirst
  <2>1. /\ previous' = head /\ temp' = next[head]
        /\ pc' = "placing" /\ head' = head
    BY <1>13 DEF priqueue_offer
  <2>2. /\ 1 \in 1..Len(s) /\ head = s[1] /\ head \in Nodes
        /\ next[head] = At(s, 2) /\ next[head] \in Nodes \cup {NULL}
    <3>1. head # NULL
      BY <1>13 DEF GoesFirst
    <3>2. 1 \in 1..Len(s) /\ head = s[1] /\ head \in Nodes
      BY <1>2, <1>11, <3>1 DEF At
    <3>3. \A k \in 1..Len(s) : next[s[k]] = At(s, k + 1)
      BY <1>2 DEF ListOf
    <3>4. next[s[1]] = At(s, 1 + 1)
      BY <3>2, <3>3
    <3> QED
      BY <1>3, <3>2, <3>4
  <2>3. cmp(x, before[1]) >= 0
    <3>1. ~(cmp(x, data[head]) < 0)
      BY <1>13 DEF GoesFirst, x
    <3>2. data[head] \in Ptrs /\ before[1] = data[head]
      BY <1>3, <1>6, <2>2
    <3> QED
      BY <1>1, <3>1, <3>2, CmpIs
  <2>4. ListTypeOK'
    BY <1>1, <1>3, <1>4, <1>8, <1>9, <1>10, <2>1, <2>2
       DEF ListInv, ListTypeOK, Residues
  <2>5. LocalsOK'
    BY <1>1, <1>8, <2>1 DEF ListInv, LocalsOK, Idle, Entry, Loops
  <2>6. ListOf(s, head', next', allocated')
    <3>1. \A k \in 1..Len(s) : s[k] \in allocated' /\ next'[s[k]] = next[s[k]]
      BY <1>7, <1>8, <1>10
    <3> QED
      BY <1>2, <2>1, <3>1, ListKept
  <2>7. SortedOf(s, data')
    BY <1>5, <1>9, SortedKept
  <2>8. PlaceOK(s)'
    <3>1. before' = DataOf(s, data')
      BY <1>5, <1>8, <1>9 DEF DataOf
    <3>2. insert' \in allocated' /\ data'[insert'] = call'.ptr
          /\ \A k \in 1..Len(s) : s[k] # insert'
      BY <1>7, <1>8, <1>9 DEF x
    <3>3. /\ previous' = s[1] /\ temp' = At(s, 1 + 1)
          /\ cmp(call'.ptr, before'[1]) >= 0
          /\ \A k \in 2..1 : cmp(call'.ptr, before'[k]) > 0
      BY <1>8, <2>1, <2>2, <2>3 DEF x
    <3> QED
      BY <2>2, <3>1, <3>2, <3>3 DEF PlaceOK
  <2>9. Structure(s)'
    BY <2>1, <2>6, <2>7, <2>8
       DEF Structure, EntryOK, CountOK, IndexOK, RemoveOK, Entry
  <2> QED
    BY <2>4, <2>5, <2>9 DEF ListInv
<1> QED
  BY <1>12, <1>13

LEMMA LookForPlaceInv ==
    ASSUME ListInv, LookForPlace
    PROVE  ListInv'
<1> DEFINE x == call.ptr
<1>1. /\ pc = "placing" /\ ~corrupt /\ Sound /\ call.op = "offer"
      /\ i = 0 /\ x \in Ptrs
  <2>1. call.op = "offer" /\ call \in Q!Calls
    BY DEF LookForPlace, ListInv, LocalsOK, ListTypeOK, Entry, Idle
  <2> QED
    BY <2>1, CallsAre DEF LookForPlace, ListInv, LocalsOK, Sound, Entry
<1>2. PICK s \in Seq(Nodes) :
        /\ Structure(s) /\ ListOf(s, head, next, allocated)
        /\ Len(s) \in Nat /\ Len(s) <= N /\ N \in Nat
        /\ \A k \in 1..Len(s) : s[k] \in Nodes /\ s[k] # NULL
  BY <1>1, ListIs
<1>3. /\ head \in Nodes \cup {NULL} /\ next \in [Nodes -> Nodes \cup {NULL}]
      /\ data \in [Nodes -> Ptrs] /\ allocated \subseteq Nodes
  BY DEF ListInv, ListTypeOK
<1>4. /\ SortedOf(s, data) /\ before = DataOf(s, data)
      /\ insert \in allocated /\ data[insert] = x
      /\ \A k \in 1..Len(s) : s[k] # insert
  BY <1>1, <1>2 DEF Structure, PlaceOK
<1>5. PICK p \in 1..Len(s) :
        /\ previous = s[p] /\ temp = At(s, p + 1)
        /\ cmp(x, before[1]) >= 0
        /\ \A k \in 2..p : cmp(x, before[k]) > 0
  BY <1>1, <1>2 DEF Structure, PlaceOK
<1>6. /\ before \in Seq(Ptrs) /\ Len(before) = Len(s)
      /\ \A k \in 1..Len(s) : before[k] = data[s[k]] /\ before[k] \in Ptrs
  <2>1. /\ before \in Seq(Ptrs) /\ Len(before) = Len(s)
        /\ \A k \in 1..Len(s) : before[k] = data[s[k]]
    BY <1>3, <1>4, DataOfIs
  <2> QED
    BY <2>1
<1>7. PICK m \in Nodes : m = insert
  BY <1>3, <1>4
<1>8. /\ call' = call /\ result' = result /\ corrupt' = corrupt /\ before' = before
      /\ head' = head /\ data' = data /\ allocated' = allocated /\ insert' = m
      /\ i' = i
  BY <1>7 DEF LookForPlace, Stay, heap
<1>9. p + 1 \in 1..(Len(s) + 1) /\ p + 1 > 1 /\ (p + 1) - 1 = p /\ p + 1 # 1
      /\ p \in Nat
  BY <1>2
<1> HIDE DEF x
<1>10. CASE IsBehind
  <2>1. /\ previous' = temp /\ temp' = next[temp] /\ next' = next /\ pc' = pc
    BY <1>7, <1>10 DEF LookForPlace, heap
  <2>2. temp # NULL /\ cmp(x, data[temp]) > 0
    BY <1>4, <1>10 DEF IsBehind
  <2>3. p + 1 \in 1..Len(s) /\ temp = s[p + 1] /\ temp \in Nodes
    BY <1>2, <1>5, <1>9, <2>2 DEF At
  <2>4. next[temp] = At(s, p + 1 + 1)
    <3>1. \A k \in 1..Len(s) : next[s[k]] = At(s, k + 1)
      BY <1>2 DEF ListOf
    <3> QED
      BY <2>3, <3>1
  <2>5. ListTypeOK'
    <3>1. next[temp] \in Nodes \cup {NULL} /\ temp \in Residues
      BY <1>3, <2>3 DEF Residues
    <3> QED
      BY <1>7, <1>8, <2>1, <3>1 DEF ListInv, ListTypeOK
  <2>6. LocalsOK'
    BY <1>1, <1>4, <1>7, <1>8, <2>1 DEF ListInv, LocalsOK, Idle, Entry, Loops
  <2>7. PlaceOK(s)'
    <3>1. cmp(x, before[p + 1]) > 0
      BY <1>6, <2>2, <2>3
    <3>2. \A k \in 2..(p + 1) : cmp(x, before[k]) > 0
      <4> SUFFICES ASSUME NEW k \in 2..(p + 1) PROVE cmp(x, before[k]) > 0
        OBVIOUS
      <4>1. k = p + 1 \/ k \in 2..p
        BY <1>9
      <4> QED
        BY <1>5, <3>1, <4>1
    <3>3. /\ before' = DataOf(s, data') /\ insert' \in allocated'
          /\ data'[insert'] = call'.ptr
          /\ \A k \in 1..Len(s) : s[k] # insert'
      BY <1>4, <1>7, <1>8 DEF x
    <3>4. /\ previous' = s[p + 1] /\ temp' = At(s, p + 1 + 1)
          /\ cmp(call'.ptr, before'[1]) >= 0
          /\ \A k \in 2..(p + 1) : cmp(call'.ptr, before'[k]) > 0
      BY <1>5, <1>8, <2>1, <2>3, <2>4, <3>2 DEF x
    <3> QED
      BY <2>3, <3>3, <3>4 DEF PlaceOK
  <2>8. Structure(s)'
    BY <1>1, <1>2, <1>8, <2>1, <2>7
       DEF Structure, EntryOK, CountOK, IndexOK, RemoveOK, Entry
  <2> QED
    BY <2>5, <2>6, <2>8 DEF ListInv
<1>11. CASE ~IsBehind
  <2>1. next' = LinkedIn /\ pc' = "counting" /\ temp' = head /\ previous' = previous
    BY <1>11 DEF LookForPlace
  <2>2. previous = s[p] /\ s[p] \in Nodes /\ s[p] # m /\ temp = At(s, p + 1)
        /\ temp \in Nodes \cup {NULL}
    BY <1>2, <1>4, <1>5, <1>7 DEF ListInv, ListTypeOK
  <2>3. next' = [next EXCEPT ![m] = temp, ![s[p]] = m]
    BY <1>7, <2>1, <2>2 DEF LinkedIn
  <2>4. /\ next' \in [Nodes -> Nodes \cup {NULL}]
        /\ next'[m] = At(s, p + 1) /\ next'[s[p]] = m
    BY <1>3, <1>7, <2>2, <2>3
  <2>5. ASSUME NEW k \in 1..Len(s), k # p
        PROVE  next'[s[k]] = next[s[k]]
    <3>1. s[k] # s[p] /\ s[k] # m /\ s[k] \in Nodes
      BY <1>2, <1>4, <1>7, <2>5 DEF ListOf
    <3> QED
      BY <1>3, <2>3, <3>1
  <2>6. ListTypeOK'
    BY <1>3, <1>7, <1>8, <2>1, <2>4 DEF ListInv, ListTypeOK
  <2>7. LocalsOK'
    BY <1>1, <1>4, <1>7, <1>8, <2>1 DEF ListInv, LocalsOK, Idle, Entry, Loops
  <2> DEFINE o == p + 1
             r == Put(s, o, m)
  <2>8. o \in 1..(Len(s) + 1) /\ o > 1 /\ o - 1 = p /\ o # 1 /\ o \in Nat
    BY <1>9
  <2>9. /\ next'[m] = At(s, o) /\ next'[s[o - 1]] = m
        /\ \A k \in 1..Len(s) : k # o - 1 => next'[s[k]] = next[s[k]]
    BY <1>9, <2>4, <2>5
  <2>10. /\ o \in 2..Len(before) => cmp(x, before[o]) <= 0
         /\ \A k \in 2..(o - 1) : cmp(x, before[k]) > 0
    <3>1. ASSUME o \in 2..Len(before) PROVE cmp(x, before[o]) <= 0
      <4>1. o \in 1..Len(s) /\ temp = s[o] /\ temp # NULL
        BY <1>2, <1>6, <2>2, <2>8, <3>1 DEF At
      <4>2. ~(cmp(x, data[temp]) > 0)
        BY <1>4, <1>11, <4>1 DEF IsBehind
      <4>3. before[o] = data[temp] /\ before[o] \in Ptrs
        BY <1>6, <4>1
      <4> QED
        BY <1>1, <4>2, <4>3, CmpIs
    <3> QED
      BY <1>5, <2>8, <3>1
  <2>11. cmp(data[s[p]], x) <= 0
    <3>1. cmp(x, before[p]) >= 0
      <4>1. CASE p = 1
        BY <1>5, <4>1
      <4>2. CASE p # 1
        <5>1. p \in 2..p
          BY <1>9, <4>2
        <5>2. cmp(x, before[p]) > 0
          BY <1>5, <5>1
        <5> QED
          <6>1. before[p] \in Ptrs
            BY <1>6
          <6>2. cmp(x, before[p]) \in Int
            BY <1>1, <6>1, CmpIs
          <6> QED
            BY <5>2, <6>2
      <4> QED
        BY <4>1, <4>2
    <3>2. before[p] = data[s[p]] /\ before[p] \in Ptrs
      BY <1>6
    <3> QED
      BY <1>1, <3>1, <3>2, CmpIs
  <2> HIDE DEF o
  <2>12. r \in Seq(Nodes) /\ Len(r) = Len(s) + 1 /\ ListOf(r, head', next', allocated')
    <3> DEFINE h2 == head'
               nx2 == next'
               al2 == allocated'
    <3>1. h2 = (IF o = 1 THEN m ELSE head) /\ allocated \cup {m} \subseteq al2
      BY <1>4, <1>7, <1>8, <2>8
    <3>2. nx2[m] = At(s, o) /\ (o > 1 => nx2[s[o - 1]] = m)
      BY <2>9
    <3>3. \A k \in 1..Len(s) : k # o - 1 => nx2[s[k]] = next[s[k]]
      BY <2>9
    <3>4. \A k \in 1..Len(s) : s[k] # m
      BY <1>4, <1>7
    <3> HIDE DEF h2, nx2, al2
    <3>5. ListOf(r, h2, nx2, al2)
      BY <1>2, <2>8, <3>1, <3>2, <3>3, <3>4, LinkIn
    <3>6. r \in Seq(Nodes) /\ Len(r) = Len(s) + 1
      <4>1. s \in Seq(Nodes) /\ o \in 1..(Len(s) + 1) /\ m \in Nodes
        BY <2>8
      <4> HIDE DEF o
      <4> QED
        BY <4>1, PutIs
    <3> QED
      BY <3>5, <3>6 DEF h2, nx2, al2
  <2>13. SortedOf(r, data)
    <3>1. o > 1 => cmp(data[s[o - 1]], data[m]) <= 0
      BY <1>4, <1>7, <2>8, <2>11
    <3>2. o <= Len(s) => cmp(data[m], data[s[o]]) <= 0
      <4> SUFFICES ASSUME o <= Len(s) PROVE cmp(data[m], data[s[o]]) <= 0
        OBVIOUS
      <4>1. o \in 2..Len(before) /\ o \in 1..Len(s)
        BY <1>2, <1>6, <2>8
      <4> QED
        BY <1>4, <1>6, <1>7, <2>10, <4>1
    <3>3. \A k \in 1..Len(s) : data[s[k]] = data[s[k]]
      OBVIOUS
    <3> QED
      BY <1>4, <2>8, <3>1, <3>2, <3>3, PutSorted
  <2>14. DataOf(r, data) = Offer(before, x, Comparisons(x, before))
    <3>1. \A k \in 1..Len(s) : data[s[k]] = data[s[k]]
      OBVIOUS
    <3>2. DataOf(r, data) = InsertAt(DataOf(s, data), o, data[m])
      BY <1>3, <2>8, <3>1, DataOfPut
    <3>3. OfferIndex(Comparisons(x, before)) = o
      <4>1. o \in 1..(Len(before) + 1) /\ o # 1
        BY <1>6, <2>8
      <4> QED
        BY <1>1, <1>5, <1>6, <2>10, <4>1, OfferIndexIs
    <3> QED
      BY <1>4, <1>7, <3>2, <3>3 DEF Offer
  <2> HIDE DEF r
  <2>15. CountOK(r)'
    <3>1. /\ i' = 0 /\ call'.op = "offer" /\ call'.ptr = x /\ before' = before
          /\ data' = data /\ temp' = head'
      BY <1>1, <1>8, <2>1 DEF x
    <3>2. i' \in 0..Len(r) /\ temp' = At(r, i' + 1)
      <4>1. head' = At(r, 1)
        BY <2>12 DEF ListOf
      <4>2. 0 \in 0..Len(r) /\ 0 + 1 = 1
        BY <1>2, <2>12
      <4> QED
        BY <3>1, <4>1, <4>2
    <3>3. call'.op = "size" => before' = DataOf(r, data')
      BY <3>1
    <3>4. /\ Len(r) = Len(before') + 1
          /\ DataOf(r, data') =
                Offer(before', call'.ptr, Comparisons(call'.ptr, before'))
      BY <1>6, <2>12, <2>14, <3>1
    <3> QED
      BY <3>2, <3>3, <3>4 DEF CountOK
  <2>16. Structure(r)'
    BY <1>8, <2>1, <2>12, <2>13, <2>15
       DEF Structure, EntryOK, PlaceOK, IndexOK, RemoveOK, Entry
  <2> QED
    BY <2>6, <2>7, <2>12, <2>16 DEF ListInv
<1> QED
  BY <1>10, <1>11

-----------------------------------------------------------------------------
(* priqueue_remove keeps the elements that differ.                         *)

LEMMA FrontIs ==
    ASSUME NEW s \in Seq(Nodes), NEW d \in [Nodes -> Ptrs], NEW n \in 0..Len(s)
    PROVE  /\ DataUpTo(s, n, d) \in Seq(Ptrs) /\ Len(DataUpTo(s, n, d)) = n
           /\ \A k \in 1..n : DataUpTo(s, n, d)[k] = d[s[k]]
<1>1. \A k \in 1..n : k \in 1..Len(s) /\ d[s[k]] \in Ptrs
  OBVIOUS
<1>2. n \in Nat
  OBVIOUS
<1> QED
  BY <1>1, <1>2 DEF DataUpTo

LEMMA NothingKept ==
    ASSUME NEW q, NEW x, NEW s \in Seq(Nodes), NEW d \in [Nodes -> Ptrs]
    PROVE  KeptOf(q, 0, x, DataUpTo(s, 0, d))
<1> DEFINE f == [k \in 0..0 |-> <<>>]
<1>1. DataUpTo(s, 0, d) = <<>>
  <2>1. /\ DataUpTo(s, 0, d) \in Seq(Ptrs) /\ Len(DataUpTo(s, 0, d)) = 0
        /\ 0 \in 0..Len(s)
    BY FrontIs
  <2> QED
    BY <2>1
<1>2. f \in [0..0 -> Seq(Ptrs)] /\ f[0] = <<>>
  <2>1. <<>> \in Seq(Ptrs)
    OBVIOUS
  <2> QED
    BY <2>1
<1>3. \A k \in 1..0 :
        f[k] = IF cmp(q[k], x) # 0 THEN Append(f[k - 1], q[k]) ELSE f[k - 1]
  OBVIOUS
<1> HIDE DEF f
<1> QED
  BY <1>1, <1>2, <1>3 DEF KeptOf

LEMMA OneMore ==
    ASSUME NEW q \in Seq(Ptrs), NEW x, NEW j \in 0..(Len(q) - 1),
           NEW r, KeptOf(q, j, x, r)
    PROVE  /\ r \in Seq(Ptrs)
           /\ cmp(q[j + 1], x) # 0 => KeptOf(q, j + 1, x, Append(r, q[j + 1]))
           /\ cmp(q[j + 1], x) = 0 => KeptOf(q, j + 1, x, r)
<1>1. PICK f \in [0..j -> Seq(Ptrs)] :
        /\ f[0] = <<>> /\ f[j] = r
        /\ \A k \in 1..j :
            f[k] = IF cmp(q[k], x) # 0 THEN Append(f[k - 1], q[k]) ELSE f[k - 1]
  BY DEF KeptOf
<1>2. /\ j \in Nat /\ j + 1 \in Nat /\ q[j + 1] \in Ptrs /\ r \in Seq(Ptrs)
      /\ j + 1 # 0 /\ (j + 1) - 1 = j
  BY <1>1
<1> DEFINE t == IF cmp(q[j + 1], x) # 0 THEN Append(r, q[j + 1]) ELSE r
           g == [k \in 0..(j + 1) |-> IF k = j + 1 THEN t ELSE f[k]]
<1>3. t \in Seq(Ptrs)
  BY <1>2
<1> HIDE DEF t
<1>4. g \in [0..(j + 1) -> Seq(Ptrs)]
  <2> SUFFICES ASSUME NEW k \in 0..(j + 1), k # j + 1 PROVE f[k] \in Seq(Ptrs)
    BY <1>3
  <2>1. k \in 0..j
    BY <1>2
  <2> QED
    BY <1>1, <2>1
<1>5. g[0] = <<>> /\ g[j + 1] = t
  BY <1>1, <1>2
<1>6. ASSUME NEW k \in 1..(j + 1)
      PROVE  g[k] = IF cmp(q[k], x) # 0 THEN Append(g[k - 1], q[k]) ELSE g[k - 1]
  <2>1. CASE k = j + 1
    <3>1. g[k] = t /\ g[k - 1] = r
      BY <1>1, <1>2, <2>1
    <3> HIDE DEF g
    <3> QED
      BY <2>1, <3>1 DEF t
  <2>2. CASE k # j + 1
    <3>1. k \in 1..j /\ k - 1 \in 0..j
      BY <1>2, <2>2
    <3>2. g[k] = f[k] /\ g[k - 1] = f[k - 1]
      BY <1>2, <3>1
    <3> HIDE DEF g
    <3> QED
      BY <1>1, <3>1, <3>2
  <2> QED
    BY <2>1, <2>2
<1> HIDE DEF g
<1>7. KeptOf(q, j + 1, x, t)
  BY <1>4, <1>5, <1>6 DEF KeptOf
<1> QED
  BY <1>2, <1>7 DEF t

(* Where the loop of priqueue_remove stands in a sound list.               *)
LEMMA RemovingAt ==
    ASSUME ListInv, Sound, pc = "removing"
    PROVE  \E s \in Seq(Nodes) :
            /\ Structure(s) /\ ListOf(s, head, next, allocated)
            /\ SortedOf(s, data)
            /\ Len(s) \in Nat /\ Len(s) <= N /\ N \in Nat /\ i \in Nat
            /\ \A k \in 1..Len(s) : s[k] \in Nodes /\ s[k] # NULL
            /\ \E p \in 1..(Len(s) + 1) :
                /\ temp = At(s, p)
                /\ p > 1 => previous = s[p - 1] /\ previous \in Nodes
                /\ p = 1 /\ i > 0 => previous = NULL
                /\ StandsAt(s, data, before, call.ptr, p, i)
                /\ temp # NULL =>
                    /\ p \in 1..Len(s) /\ temp = s[p] /\ temp \in Nodes
                    /\ next[temp] = At(s, p + 1)
                    /\ p = 1 <=> temp = head
<1>1. PICK s \in Seq(Nodes) :
        /\ Structure(s) /\ ListOf(s, head, next, allocated)
        /\ Len(s) \in Nat /\ Len(s) <= N /\ N \in Nat
        /\ \A k \in 1..Len(s) : s[k] \in Nodes /\ s[k] # NULL
  BY ListIs
<1>2. PICK p \in 1..(Len(s) + 1) :
        /\ temp = At(s, p)
        /\ p > 1 => previous = s[p - 1]
        /\ p = 1 /\ i > 0 => previous = NULL
        /\ StandsAt(s, data, before, call.ptr, p, i)
  BY <1>1 DEF Structure, RemoveOK
<1>3. p > 1 => previous \in Nodes
  BY <1>1, <1>2
<1>4. ASSUME temp # NULL
      PROVE  /\ p \in 1..Len(s) /\ temp = s[p] /\ temp \in Nodes
             /\ next[temp] = At(s, p + 1)
             /\ p = 1 <=> temp = head
  <2>1. p \in 1..Len(s) /\ temp = s[p] /\ temp \in Nodes
    BY <1>1, <1>2, <1>4 DEF At
  <2>2. /\ \A k \in 1..Len(s) : next[s[k]] = At(s, k + 1)
        /\ \A k, l \in 1..Len(s) : s[k] = s[l] => k = l
        /\ head = At(s, 1)
    BY <1>1 DEF ListOf
  <2>3. 1 \in 1..Len(s) /\ head = s[1]
    BY <1>1, <2>1, <2>2 DEF At
  <2> QED
    BY <2>1, <2>2, <2>3
<1>5. i \in Nat
  BY Addresses DEF ListInv, ListTypeOK, MaxCount, N
<1>6. SortedOf(s, data)
  BY <1>1 DEF Structure
<1> HIDE DEF MaxCount
<1> QED
  BY <1>1, <1>2, <1>3, <1>4, <1>5, <1>6

LEMMA RemoveInv ==
    ASSUME ListInv, priqueue_remove
    PROVE  ListInv'
<1>1. pc = "remove" /\ ~corrupt /\ Sound
  BY DEF priqueue_remove, ListInv, LocalsOK, Sound
<1>2. PICK s \in Seq(Nodes) :
        /\ Structure(s) /\ ListOf(s, head, next, allocated)
        /\ Len(s) \in Nat
  BY <1>1, ListIs
<1>3. ListTypeOK'
  BY DEF priqueue_remove, ListInv, ListTypeOK, heap, Stay
<1>4. LocalsOK'
  BY <1>1 DEF priqueue_remove, ListInv, LocalsOK, heap, Stay, Idle, Entry, Loops
<1>5. Structure(s)'
  <2>1. i = 0 /\ data \in [Nodes -> Ptrs]
    BY <1>1 DEF ListInv, LocalsOK, ListTypeOK, Entry
  <2>2. head = At(s, 1)
    BY <1>2 DEF ListOf
  <2>3. before = DataOf(s, data)
    BY <1>1, <1>2 DEF Structure, EntryOK, Entry
  <2>4. /\ Len(before) = Len(s) + 0
        /\ \A k \in 1..Len(s) : data[s[k]] = before[k + 0]
    <3>1. Len(before) = Len(s) /\ \A k \in 1..Len(s) : before[k] = data[s[k]]
      BY <2>1, <2>3, DataOfIs
    <3>2. \A k \in 1..Len(s) : k + 0 = k
      OBVIOUS
    <3> QED
      BY <1>2, <3>1, <3>2
  <2>5. KeptOf(before, 1 - 1 + 0, call.ptr, DataUpTo(s, 1 - 1, data))
    <3>1. 1 - 1 + 0 = 0 /\ 1 - 1 = 0
      OBVIOUS
    <3> QED
      BY <2>1, <3>1, NothingKept
  <2>6. RemoveOK(s)'
    <3>1. /\ temp' = head /\ i' = 0 /\ call' = call /\ before' = before
          /\ data' = data
      BY <2>1 DEF priqueue_remove, heap, Stay
    <3>2. 1 \in 1..(Len(s) + 1) /\ ~(1 > 1) /\ ~(0 > 0)
      BY <1>2
    <3> QED
      BY <2>2, <2>4, <2>5, <3>1, <3>2 DEF RemoveOK, StandsAt
  <2> QED
    BY <1>2, <2>6
       DEF priqueue_remove, heap, Stay, Structure, EntryOK, PlaceOK, CountOK, IndexOK,
           Entry
<1> QED
  BY <1>3, <1>4, <1>5 DEF ListInv

LEMMA RemoveKeepsInv ==
    ASSUME ListInv, RemoveKeeps
    PROVE  ListInv'
<1>1. /\ pc = "removing" /\ pc' = pc /\ temp # NULL /\ temp \in Nodes
      /\ cmp(data[temp], call.ptr) # 0
      /\ previous' = temp /\ temp' = next[temp] /\ next[temp] \in Nodes \cup {NULL}
      /\ head' = head /\ next' = next /\ data' = data /\ allocated' = allocated
      /\ insert' = insert /\ i' = i /\ call' = call /\ result' = result
      /\ corrupt' = corrupt /\ before' = before
  BY DEF RemoveKeeps, Matches, heap, Stay, ListInv, ListTypeOK
<1>2. ListTypeOK'
  BY <1>1 DEF ListInv, ListTypeOK, Residues
<1>3. LocalsOK'
  BY <1>1 DEF ListInv, LocalsOK, Idle, Entry, Loops
<1>4. ASSUME Sound'
      PROVE  \E s \in Seq(Nodes) : Structure(s)'
  <2>1. Sound
    BY <1>1, <1>4 DEF Sound
  <2>2. PICK s \in Seq(Nodes) :
            /\ Structure(s)
            /\ Len(s) \in Nat /\ i \in Nat
            /\ \E p \in 1..Len(s) :
                /\ StandsAt(s, data, before, call.ptr, p, i)
                /\ temp = s[p] /\ next[temp] = At(s, p + 1)
    BY <1>1, <2>1, RemovingAt
  <2>3. PICK p \in 1..Len(s) :
            /\ Len(before) = Len(s) + i
            /\ \A k \in p..Len(s) : data[s[k]] = before[k + i]
            /\ KeptOf(before, p - 1 + i, call.ptr, DataUpTo(s, p - 1, data))
            /\ temp = s[p] /\ next[temp] = At(s, p + 1)
    BY <2>2 DEF StandsAt
  <2>4. before \in Seq(Ptrs) /\ data \in [Nodes -> Ptrs]
    BY DEF ListInv, ListTypeOK
  <2> DEFINE j == p - 1 + i
             o == p + 1
  <2>5. /\ j \in 0..(Len(before) - 1) /\ j + 1 = p + i /\ j + 1 = o - 1 + i
        /\ o \in 1..(Len(s) + 1) /\ o > 1 /\ o - 1 = p /\ o # 1 /\ p \in p..Len(s)
        /\ p - 1 \in 0..Len(s) /\ p \in 0..Len(s) /\ p - 1 + 1 = p /\ p \in Nat
    BY <2>2, <2>3
  <2>6. before[j + 1] = data[temp]
    BY <2>3, <2>5
  <2>7. DataUpTo(s, p, data) = Append(DataUpTo(s, p - 1, data), data[s[p]])
    <3> DEFINE a == DataUpTo(s, p, data)
               b == DataUpTo(s, p - 1, data)
    <3>1. /\ a \in Seq(Ptrs) /\ Len(a) = p
          /\ \A k \in 1..p : a[k] = data[s[k]]
      BY <2>4, <2>5, FrontIs
    <3>2. /\ b \in Seq(Ptrs) /\ Len(b) = p - 1
          /\ \A k \in 1..(p - 1) : b[k] = data[s[k]]
      BY <2>4, <2>5, FrontIs
    <3>3. data[s[p]] \in Ptrs
      BY <2>4
    <3> HIDE DEF a, b
    <3> DEFINE c == Append(b, data[s[p]])
    <3>4. /\ c \in Seq(Ptrs) /\ Len(c) = p
          /\ \A k \in 1..p : c[k] = IF k = p THEN data[s[p]] ELSE b[k]
      BY <2>5, <3>2, <3>3
    <3> HIDE DEF c
    <3>5. \A k \in 1..p : a[k] = c[k]
      <4> SUFFICES ASSUME NEW k \in 1..p PROVE a[k] = c[k]
        OBVIOUS
      <4>1. CASE k = p
        BY <3>1, <3>4, <4>1
      <4>2. CASE k # p
        <5>1. k \in 1..(p - 1)
          BY <2>5, <4>2
        <5> QED
          BY <3>1, <3>2, <3>4, <4>2, <5>1
      <4> QED
        BY <4>1, <4>2
    <3>6. a = c
      BY <3>1, <3>4, <3>5, SameSequence
    <3> QED
      BY <3>6 DEF a, b, c
  <2>8. KeptOf(before, j + 1, call.ptr, DataUpTo(s, p, data))
    <3> HIDE DEF j
    <3>1. KeptOf(before, j, call.ptr, DataUpTo(s, p - 1, data))
      BY <2>3 DEF j
    <3>2. KeptOf(before, j + 1, call.ptr, Append(DataUpTo(s, p - 1, data), before[j + 1]))
      BY <1>1, <2>4, <2>5, <2>6, <3>1, OneMore
    <3> QED
      BY <2>3, <2>6, <2>7, <3>2
  <2> HIDE DEF j
  <2>9. RemoveOK(s)'
    <3>1. temp' = At(s, o) /\ previous' = s[o - 1]
      BY <1>1, <2>3, <2>5
    <3>2. KeptOf(before', o - 1 + i', call'.ptr, DataUpTo(s, o - 1, data'))
      BY <1>1, <2>5, <2>8
    <3>3. \A k \in o..Len(s) : data'[s[k]] = before'[k + i']
      BY <1>1, <2>3, <2>5
    <3>4. Len(before') = Len(s) + i'
      BY <1>1, <2>3
    <3>5. o \in 1..(Len(s) + 1) /\ o # 1
      BY <2>5
    <3> HIDE DEF o
    <3> QED
      BY <3>1, <3>2, <3>3, <3>4, <3>5 DEF RemoveOK, StandsAt
  <2>10. Structure(s)'
    BY <1>1, <2>2, <2>9
       DEF Structure, EntryOK, PlaceOK, CountOK, IndexOK, Entry
  <2> QED
    BY <2>10
<1> QED
  BY <1>2, <1>3, <1>4 DEF ListInv

(* The loop goes on in the list without the node at place p.               *)
LEMMA CutGoesOn ==
    ASSUME NEW s \in Seq(Nodes), NEW d \in [Nodes -> Ptrs], NEW q \in Seq(Ptrs),
           NEW x, NEW p \in 1..Len(s), NEW n \in Nat,
           StandsAt(s, d, q, x, p, n), cmp(d[s[p]], x) = 0
    PROVE  /\ StandsAt(Cut(s, p), d, q, x, p, n + 1)
           /\ p \in 1..(Len(Cut(s, p)) + 1)
           /\ At(s, p + 1) = At(Cut(s, p), p)
           /\ p > 1 => Cut(s, p)[p - 1] = s[p - 1]
<1> DEFINE r == Cut(s, p)
<1>0. /\ Len(q) = Len(s) + n
      /\ \A k \in p..Len(s) : d[s[k]] = q[k + n]
      /\ KeptOf(q, p - 1 + n, x, DataUpTo(s, p - 1, d))
  BY DEF StandsAt
<1>1. /\ r \in Seq(Nodes) /\ Len(r) = Len(s) - 1
      /\ \A k \in 1..(Len(s) - 1) : r[k] = IF k < p THEN s[k] ELSE s[k + 1]
  BY CutIs
<1> HIDE DEF r
<1> DEFINE m == Len(s)
           j == p - 1 + n
<1>2. /\ m \in Nat /\ p \in Nat /\ p >= 1 /\ p <= m
      /\ j \in 0..(Len(q) - 1) /\ j + 1 = p - 1 + (n + 1) /\ j + 1 = p + n
      /\ p \in p..m
  BY <1>0
<1>3. Len(q) = Len(r) + (n + 1)
  BY <1>0, <1>1, <1>2
<1>4. ASSUME NEW k \in p..Len(r) PROVE d[r[k]] = q[k + (n + 1)]
  <2>0. Len(r) = m - 1 /\ m \in Nat /\ p \in Nat /\ p >= 1
    BY <1>1, <1>2
  <2> HIDE DEF m, j
  <2>1. k \in 1..(m - 1) /\ ~(k < p) /\ k + 1 \in p..m /\ (k + 1) + n = k + (n + 1)
    BY <2>0
  <2>2. r[k] = s[k + 1]
    BY <1>1, <2>1 DEF m
  <2>3. d[s[k + 1]] = q[(k + 1) + n]
    BY <1>0, <2>1 DEF m
  <2> QED
    BY <2>1, <2>2, <2>3
<1>5. DataUpTo(r, p - 1, d) = DataUpTo(s, p - 1, d)
  <2>1. \A k \in 1..(p - 1) : r[k] = s[k]
    <3> SUFFICES ASSUME NEW k \in 1..(p - 1) PROVE r[k] = s[k]
      OBVIOUS
    <3>1. k \in 1..(m - 1) /\ k < p
      BY <1>2
    <3> QED
      BY <1>1, <3>1
  <2> QED
    BY <2>1 DEF DataUpTo
<1>6. KeptOf(q, j + 1, x, DataUpTo(r, p - 1, d))
  <2>1. d[s[p]] = q[p + n]
    BY <1>0, <1>2
  <2>2. cmp(q[j + 1], x) = 0
    BY <1>2, <2>1
  <2>3. KeptOf(q, j, x, DataUpTo(r, p - 1, d))
    BY <1>0, <1>5
  <2> HIDE DEF j
  <2> QED
    BY <1>2, <2>2, <2>3, OneMore
<1>7. At(s, p + 1) = At(r, p)
  <2>1. CASE p = m
    BY <1>1, <1>2, <2>1 DEF At
  <2>2. CASE p # m
    <3>1. p \in 1..(m - 1) /\ p + 1 \in 1..m /\ ~(p < p)
      BY <1>2, <2>2
    <3>2. r[p] = s[p + 1]
      BY <1>1, <3>1
    <3> QED
      BY <1>1, <3>1, <3>2 DEF At
  <2> QED
    BY <2>1, <2>2
<1>8. ASSUME p > 1 PROVE r[p - 1] = s[p - 1]
  <2>1. p - 1 \in 1..(m - 1) /\ p - 1 < p
    BY <1>2, <1>8
  <2> QED
    BY <1>1, <2>1
<1>9. p \in 1..(Len(r) + 1)
  BY <1>1, <1>2
<1>10. StandsAt(r, d, q, x, p, n + 1)
  BY <1>2, <1>3, <1>4, <1>6 DEF StandsAt
<1> QED
  BY <1>7, <1>8, <1>9, <1>10 DEF r

LEMMA RemoveHeadInv ==
    ASSUME ListInv, RemoveHead
    PROVE  ListInv'
<1>1. /\ pc = "removing" /\ pc' = pc /\ temp # NULL /\ temp \in Nodes
      /\ cmp(data[temp], call.ptr) = 0
      /\ previous = NULL /\ previous' = previous
      /\ head' = next[head] /\ temp' = next[head] /\ i' = i + 1
      /\ next' = next /\ data' = data /\ allocated' = allocated
      /\ insert' = insert /\ call' = call /\ result' = result
      /\ corrupt' = corrupt /\ before' = before
  BY DEF RemoveHead, Matches, Stay, ListInv, ListTypeOK
<1>2. Sound
  BY <1>1, Addresses DEF ListInv, LocalsOK, Sound
<1>3. PICK s \in Seq(Nodes) :
        /\ Structure(s) /\ ListOf(s, head, next, allocated) /\ SortedOf(s, data)
        /\ Len(s) \in Nat /\ Len(s) <= N /\ N \in Nat /\ i \in Nat
        /\ \E p \in 1..(Len(s) + 1) :
            /\ p > 1 => previous \in Nodes
            /\ StandsAt(s, data, before, call.ptr, p, i)
            /\ p \in 1..Len(s) /\ temp = s[p]
            /\ p = 1 <=> temp = head
  BY <1>1, <1>2, RemovingAt
<1>4. PICK p \in 1..Len(s) :
        /\ p = 1
        /\ StandsAt(s, data, before, call.ptr, p, i)
        /\ temp = s[p] /\ temp = head
  BY <1>1, <1>3, Addresses
<1>5. /\ next \in [Nodes -> Nodes \cup {NULL}] /\ data \in [Nodes -> Ptrs]
      /\ before \in Seq(Ptrs) /\ head # NULL /\ head \in Nodes
  BY <1>1, <1>4 DEF ListInv, ListTypeOK
<1>6. /\ next[head] = At(s, 2) /\ Cut(s, 1) \in Seq(Nodes)
      /\ ListOf(Cut(s, 1), next[head], next, allocated)
      /\ SortedOf(Cut(s, 1), data)
  <2>1. allocated \ {head} \subseteq allocated
    OBVIOUS
  <2> QED
    BY <1>3, <1>5, <2>1, HeadCut
<1> DEFINE r == Cut(s, p)
<1>7. r \in Seq(Nodes) /\ ListOf(r, head', next', allocated') /\ SortedOf(r, data')
  BY <1>1, <1>4, <1>6
<1>8. /\ StandsAt(r, data, before, call.ptr, p, i + 1)
      /\ p \in 1..(Len(r) + 1)
      /\ At(s, p + 1) = At(r, p)
  <2>1. cmp(data[s[p]], call.ptr) = 0
    BY <1>1, <1>4
  <2>2. StandsAt(s, data, before, call.ptr, p, i) /\ i \in Nat
    BY <1>3, <1>4
  <2> QED
    BY <1>5, <2>1, <2>2, CutGoesOn
<1>9. p + 1 = 2
  BY <1>4
<1> HIDE DEF r
<1>10. ListTypeOK'
  <2>1. i + 1 \in 0..MaxCount
    <3>0. Len(before) <= N
      BY DEF ListInv, LocalsOK
    <3>1. Len(before) <= N /\ Len(r) \in Nat
      BY <1>7, <3>0
    <3>2. Len(before) = Len(r) + (i + 1)
      BY <1>8 DEF StandsAt
    <3>3. i + 1 \in Nat /\ N \in Nat
      BY <1>3
    <3>4. i + 1 <= N
      BY <3>1, <3>2, <3>3
    <3> QED
      BY <3>3, <3>4 DEF MaxCount, N
  <2>2. next[head] \in Nodes \cup {NULL}
    BY <1>5
  <2> QED
    BY <1>1, <2>1, <2>2 DEF ListInv, ListTypeOK
<1>11. LocalsOK'
  BY <1>1 DEF ListInv, LocalsOK, Idle, Entry, Loops
<1>12. RemoveOK(r)'
  <2>1. temp' = At(r, p)
    BY <1>1, <1>6, <1>8, <1>9
  <2>2. ~(p > 1) /\ previous' = NULL
    BY <1>1, <1>4
  <2> QED
    BY <1>1, <1>8, <2>1, <2>2 DEF RemoveOK
<1>13. Structure(r)'
  BY <1>1, <1>7, <1>12 DEF Structure, EntryOK, PlaceOK, CountOK, IndexOK, Entry
<1> QED
  BY <1>7, <1>10, <1>11, <1>13 DEF ListInv

LEMMA RemoveNextInv ==
    ASSUME ListInv, RemoveNext
    PROVE  ListInv'
<1>1. /\ pc = "removing" /\ pc' = pc /\ temp # NULL /\ temp \in Nodes
      /\ cmp(data[temp], call.ptr) = 0
      /\ previous \in Nodes /\ previous' = previous
      /\ next' = [next EXCEPT ![previous] = next[temp]]
      /\ temp' = next[temp] /\ i' = Min({i + 1, MaxCount})
      /\ head' = head /\ data' = data /\ allocated' = allocated
      /\ insert' = insert /\ call' = call /\ result' = result
      /\ corrupt' = (corrupt \/ temp = head) /\ before' = before
  BY DEF RemoveNext, Matches, ListInv, ListTypeOK
<1>2. /\ next \in [Nodes -> Nodes \cup {NULL}] /\ data \in [Nodes -> Ptrs]
      /\ before \in Seq(Ptrs) /\ i \in Nat /\ i \in 0..MaxCount
      /\ MaxCount \in Nat /\ MaxCount = N + 1 /\ N \in Nat
  BY Addresses DEF ListInv, ListTypeOK, MaxCount, N
<1>3. /\ Min({i + 1, MaxCount}) \in {i + 1, MaxCount}
      /\ Min({i + 1, MaxCount}) <= i + 1
      /\ Min({i + 1, MaxCount}) <= MaxCount
  <2>1. {i + 1, MaxCount} \in SUBSET Nat /\ {i + 1, MaxCount} # {}
    BY <1>2
  <2> QED
    BY <2>1, MinProperties
<1>4. ListTypeOK'
  <2>1. i' \in 0..MaxCount
    BY <1>1, <1>2, <1>3
  <2>2. next[temp] \in Nodes \cup {NULL}
    BY <1>1, <1>2
  <2>3. next' \in [Nodes -> Nodes \cup {NULL}]
    BY <1>1, <1>2, <2>2
  <2>4. corrupt' \in BOOLEAN
    BY <1>1, Zenon DEF ListInv, ListTypeOK
  <2> HIDE DEF MaxCount
  <2> QED
    BY <1>1, <2>1, <2>2, <2>3, <2>4 DEF ListInv, ListTypeOK
<1>5. LocalsOK'
  BY <1>1 DEF ListInv, LocalsOK, Idle, Entry, Loops
<1>6. ASSUME Sound'
      PROVE  \E s \in Seq(Nodes) : Structure(s)'
  <2>1. Sound /\ temp # head
    BY <1>1, <1>6 DEF Sound
  <2>2. PICK s \in Seq(Nodes) :
            /\ Structure(s) /\ ListOf(s, head, next, allocated) /\ SortedOf(s, data)
            /\ Len(s) \in Nat /\ Len(s) <= N
            /\ \E p \in 1..(Len(s) + 1) :
                /\ p > 1 => previous = s[p - 1]
                /\ StandsAt(s, data, before, call.ptr, p, i)
                /\ p \in 1..Len(s) /\ temp = s[p]
                /\ p = 1 <=> temp = head
    BY <1>1, <2>1, RemovingAt
  <2>3. PICK p \in 1..Len(s) :
            /\ p # 1
            /\ p > 1 => previous = s[p - 1]
            /\ StandsAt(s, data, before, call.ptr, p, i)
            /\ temp = s[p]
    BY <2>1, <2>2
  <2>4. p > 1 /\ previous = s[p - 1] /\ p \in 2..Len(s)
    BY <2>2, <2>3
  <2> DEFINE r == Cut(s, p)
  <2>5. /\ next[s[p]] = At(s, p + 1) /\ r \in Seq(Nodes)
        /\ ListOf(r, head, next', allocated) /\ SortedOf(r, data)
    <3> DEFINE nx == next'
    <3>1. nx = [next EXCEPT ![s[p - 1]] = next[s[p]]]
      BY <1>1, <2>3, <2>4
    <3> HIDE DEF nx
    <3>2. /\ next[s[p]] = At(s, p + 1) /\ r \in Seq(Nodes)
          /\ ListOf(r, head, nx, allocated) /\ SortedOf(r, data)
      BY <1>2, <2>2, <2>4, <3>1, MidCut
    <3> QED
      BY <3>2 DEF nx
  <2>6. /\ StandsAt(r, data, before, call.ptr, p, i + 1)
        /\ p \in 1..(Len(r) + 1)
        /\ At(s, p + 1) = At(r, p)
        /\ p > 1 => r[p - 1] = s[p - 1]
    <3>1. cmp(data[s[p]], call.ptr) = 0
      BY <1>1, <2>3
    <3> QED
      BY <1>2, <2>3, <3>1, CutGoesOn
  <2> HIDE DEF r
  <2>7. i' = i + 1
    <3>1. Len(before) <= N /\ Len(r) \in Nat
      BY <2>5 DEF ListInv, LocalsOK
    <3>2. i + 1 <= N
      BY <1>2, <2>6, <3>1 DEF StandsAt
    <3> QED
      BY <1>1, <1>2, <1>3, <3>2
  <2>8. RemoveOK(r)'
    <3>1. temp' = At(r, p) /\ previous' = r[p - 1] /\ ~(p = 1)
      BY <1>1, <2>3, <2>4, <2>5, <2>6
    <3> QED
      BY <1>1, <2>6, <2>7, <3>1 DEF RemoveOK
  <2>9. Structure(r)'
    BY <1>1, <2>5, <2>8 DEF Structure, EntryOK, PlaceOK, CountOK, IndexOK, Entry
  <2> QED
    BY <2>5, <2>9
<1> QED
  BY <1>4, <1>5, <1>6 DEF ListInv

LEMMA RemoveWildInv ==
    ASSUME ListInv, RemoveWild
    PROVE  ListInv'
<1>1. pc = "removing" /\ previous = Wild /\ Crash /\ pc \notin Idle
  BY DEF RemoveWild, Idle
<1>2. ~corrupt
  BY <1>1, Addresses DEF ListInv, LocalsOK
<1> QED
  BY <1>1, <1>2, CrashStep

LEMMA RemoveReturnsInv ==
    ASSUME ListInv, RemoveReturns
    PROVE  ListInv'
<1>1. /\ pc = "removing" /\ Return(<<"int", i>>) /\ UNCHANGED heap
      /\ pc \notin Idle \cup {"crashed"}
  BY DEF RemoveReturns, Idle
<1>2. ResultOK(<<"int", i>>)
  BY DEF ResultOK, ListInv, ListTypeOK
<1>3. /\ head' = head /\ next' = next /\ data' = data /\ allocated' = allocated
      /\ head \in Nodes \cup {NULL} /\ next \in [Nodes -> Nodes \cup {NULL}]
      /\ data \in [Nodes -> Ptrs] /\ allocated \subseteq Nodes
  BY <1>1 DEF heap, ListInv, ListTypeOK
<1>4. Sound => \E s \in Seq(Nodes) :
                    /\ ListOf(s, head', next', allocated')
                    /\ SortedOf(s, data')
  BY <1>3 DEF ListInv, Structure
<1> QED
  <2> HIDE DEF Return
  <2> QED
    BY <1>1, <1>2, <1>3, <1>4, ReturnStep

-----------------------------------------------------------------------------
LEMMA NextInv == ListInv /\ [Next]_vars => ListInv'
<1> SUFFICES ASSUME ListInv, [Next]_vars PROVE ListInv'
  OBVIOUS
<1>1. CASE Call
  BY <1>1, CallInv
<1>2. CASE priqueue_offer
  BY <1>2, OfferInv
<1>3. CASE LookForPlace
  BY <1>3, LookForPlaceInv
<1>4. CASE priqueue_peek
  BY <1>4, PeekInv
<1>5. CASE priqueue_poll
  BY <1>5, PollInv
<1>6. CASE priqueue_at
  BY <1>6, AtInv
<1>7. CASE LookForIndex
  BY <1>7, LookForIndexInv
<1>8. CASE AtFound
  BY <1>8, AtFoundInv
<1>9. CASE RemoveAtFound
  BY <1>9, RemoveAtFoundInv
<1>10. CASE priqueue_remove
  BY <1>10, RemoveInv
<1>11. CASE RemoveKeeps
  BY <1>11, RemoveKeepsInv
<1>12. CASE RemoveHead
  BY <1>12, RemoveHeadInv
<1>13. CASE RemoveNext
  BY <1>13, RemoveNextInv
<1>14. CASE RemoveWild
  BY <1>14, RemoveWildInv
<1>15. CASE RemoveReturns
  BY <1>15, RemoveReturnsInv
<1>16. CASE priqueue_size
  BY <1>16, SizeInv
<1>17. CASE Count
  BY <1>17, CountInv
<1>18. CASE CountReturns
  BY <1>18, CountReturnsInv
<1>19. CASE FreeHead
  BY <1>19, FreeHeadInv
<1>20. CASE DestroyReturns
  BY <1>20, DestroyReturnsInv
<1>21. CASE UNCHANGED vars
  <2>1. ListTypeOK'
    BY <1>21 DEF ListInv, ListTypeOK, vars
  <2>2. LocalsOK'
    BY <1>21 DEF ListInv, LocalsOK, vars
  <2>3. ASSUME NEW s \in Seq(Nodes), Structure(s) PROVE Structure(s)'
    BY <1>21, <2>3
       DEF Structure, EntryOK, PlaceOK, CountOK, IndexOK, RemoveOK, vars
  <2>4. Sound' => Sound
    BY <1>21 DEF Sound, vars
  <2> QED
    BY <2>1, <2>2, <2>3, <2>4 DEF ListInv
<1> QED
  BY <1>1, <1>2, <1>3, <1>4, <1>5, <1>6, <1>7, <1>8, <1>9, <1>10, <1>11, <1>12,
     <1>13, <1>14, <1>15, <1>16, <1>17, <1>18, <1>19, <1>20, <1>21
     DEF Next, Serve

(* The nodes on the heap form one list, and every loop of libpriqueue.c    *)
(* stands in it where its locals say.                                      *)
THEOREM ListInvariant == Spec => []ListInv
<1>1. priqueue_init => ListInv
  BY InitInv
<1> QED
  BY <1>1, NextInv, PTL DEF Spec

(* Every variable has its type.                                            *)
THEOREM ListTypeCorrect == Spec => []ListTypeOK
<1>1. ListInv => ListTypeOK
  BY DEF ListInv
<1> QED
  BY <1>1, ListInvariant, PTL

LEMMA InvUsesLiveMemory == ListInv => UsesLiveMemory
<1> SUFFICES ASSUME ListInv, Sound PROVE UsesLiveMemory
  BY DEF UsesLiveMemory
<1>1. PICK s \in Seq(Nodes) :
        /\ Structure(s) /\ ListOf(s, head, next, allocated)
        /\ Chain = s /\ Len(s) \in Nat
  BY ListIs
<1>2. \A k \in 1..Len(s) : s[k] \in allocated
  BY <1>1 DEF ListOf
<1>3. Walk[Cardinality(Nodes)] = NULL
  BY <1>1, ChainIs DEF N
<1>4. \A k \in DOMAIN Chain : Chain[k] \in allocated
  BY <1>1, <1>2
<1>5. \A k : At(s, k) \in allocated \cup {NULL}
  BY <1>2 DEF At
<1>6. temp \in allocated \cup {NULL}
  <2>1. CASE pc \in Idle \cup Entry
    BY <2>1 DEF ListInv, LocalsOK
  <2>2. CASE pc = "placing"
    BY <1>1, <1>5, <2>2 DEF Structure, PlaceOK
  <2>3. CASE pc = "counting"
    BY <1>1, <1>5, <2>3 DEF Structure, CountOK
  <2>4. CASE pc = "finding"
    BY <1>1, <1>5, <2>4 DEF Structure, IndexOK
  <2>5. CASE pc = "removing"
    BY <1>1, <1>5, <2>5 DEF Structure, RemoveOK
  <2> QED
    BY <2>1, <2>2, <2>3, <2>4, <2>5 DEF ListInv, LocalsOK, Loops, Sound
<1>7. pc = "placing" => previous \in allocated
  BY <1>1, <1>2 DEF Structure, PlaceOK
<1>8. insert \in allocated \cup {NULL}
  BY DEF ListInv, LocalsOK
<1> QED
  BY <1>3, <1>4, <1>6, <1>7, <1>8 DEF UsesLiveMemory

(* The list ends, and the code only follows pointers to memory that it has *)
(* not freed.                                                              *)
THEOREM NoDanglingPointer == Spec => []UsesLiveMemory
BY InvUsesLiveMemory, ListInvariant, PTL

LEMMA InvListSorted == ListInv => ListSorted
<1> SUFFICES ASSUME ListInv, Sound
             PROVE  \A k \in 2..Len(Chain) : cmp(DataInList[k - 1], DataInList[k]) <= 0
  BY DEF ListSorted
<1>1. PICK s \in Seq(Nodes) :
        /\ Structure(s) /\ Chain = s /\ DataInList = DataOf(s, data)
        /\ Len(s) \in Nat
  BY ListIs
<1>2. SortedOf(s, data)
  BY <1>1 DEF Structure
<1> SUFFICES ASSUME NEW k \in 2..Len(s)
             PROVE  cmp(DataInList[k - 1], DataInList[k]) <= 0
  BY <1>1
<1>3. k \in 1..Len(s) /\ k - 1 \in 1..Len(s)
  BY <1>1
<1>4. DataInList[k - 1] = data[s[k - 1]] /\ DataInList[k] = data[s[k]]
  BY <1>1, <1>3 DEF DataOf
<1> QED
  BY <1>2, <1>4 DEF SortedOf

(* The list stays in the order of its comparer, although the head and the  *)
(* other nodes are compared differently when one is offered.               *)
THEOREM ListStaysSorted == Spec => []ListSorted
BY InvListSorted, ListInvariant, PTL

-----------------------------------------------------------------------------
(* The refinement of Priqueue: a call that returns has its effect, and the *)
(* steps of the loops are steps of no call.                                *)

DataAgrees == \A s \in Seq(Nodes) :
                ListOf(s, head, next, allocated) => DataInList = DataOf(s, data)

LEMMA DataAgree == DataAgrees
<1> SUFFICES ASSUME NEW s \in Seq(Nodes), ListOf(s, head, next, allocated)
             PROVE  DataInList = DataOf(s, data)
  BY DEF DataAgrees
<1>1. Chain = s
  BY ChainIs
<1> QED
  BY <1>1 DEF DataInList, DataOf

LEMMA DataAgreeNext == DataAgrees'
BY DataAgree, PTL

(* The variables of Priqueue.                                              *)
Queue == IF pc \in Idle THEN DataInList ELSE before
Defined == ~corrupt /\ pc # "crashed"

(* A step within a call.                                                   *)
LEMMA WithinCall ==
    ASSUME pc \notin Idle, pc' \notin Idle, before' = before,
           call' = call, result' = result, Defined' = Defined
    PROVE  UNCHANGED Q!vars
BY DEF Q!vars, Queue, Defined

LEMMA WhenCrashing ==
    ASSUME pc \notin Idle, Crash, ~corrupt, pc # "crashed",
           Q!Missing \/ Q!FirstMatches
    PROVE  Q!Next
<1>1. Q!BecomesUndefined
  BY DEF Q!BecomesUndefined, Crash
<1> QED
  BY <1>1 DEF Q!Next

(* What a return of the pointer code is to Priqueue.                       *)
LEMMA WhenReturning ==
    ASSUME ListInv, Sound, pc \notin Idle, NEW r, Return(r),
           NEW s \in Seq(Nodes), ListOf(s, head', next', allocated'),
           NEW op, call.op = op, NEW q, q = DataOf(s, data')
    PROVE  Q!Return(op, q, r)
<1>1. pc' \in Idle /\ corrupt' = corrupt /\ pc' # "crashed"
  BY DEF Return, Idle
<1>2. DataInList' = DataOf(s, data')
  BY DataAgreeNext DEF DataAgrees
<1>3. (IF pc' \in Idle THEN DataInList' ELSE before') = q
  BY <1>1, <1>2
<1>4. /\ ~corrupt /\ pc # "crashed"
      /\ (~corrupt' /\ pc' # "crashed") = (~corrupt /\ pc # "crashed")
  BY <1>1 DEF Sound
<1>5. result' = r /\ call' = Q!NoCall
  BY DEF Return
<1> QED
  BY <1>3, <1>4, <1>5 DEF Q!Return

LEMMA TailIs ==
    ASSUME NEW S, NEW q \in Seq(S), q # <<>>
    PROVE  Tail(q) = RemoveAt(q, 1)
<1> DEFINE a == Tail(q)
           b == RemoveAt(q, 1)
<1>1. 1 \in 1..Len(q) /\ Len(q) \in Nat
  OBVIOUS
<1>2. /\ a \in Seq(S) /\ Len(a) = Len(q) - 1
      /\ \A k \in 1..(Len(q) - 1) : a[k] = q[k + 1]
  BY <1>1
<1>3. /\ b \in Seq(S) /\ Len(b) = Len(q) - 1
      /\ \A k \in 1..(Len(q) - 1) : b[k] = IF k < 1 THEN q[k] ELSE q[k + 1]
  BY <1>1, RemoveAtProperties
<1> HIDE DEF a, b
<1>4. \A k \in 1..Len(a) : a[k] = b[k]
  BY <1>1, <1>2, <1>3
<1> QED
  <2>1. a = b
    BY <1>2, <1>3, <1>4, SameSequence
  <2> QED
    BY <2>1 DEF a, b

(* The loop has come to the end of the list: there is no such index.       *)
LEMMA NotThere ==
    ASSUME NEW s \in Seq(Nodes), NEW n \in 0..Len(s), At(s, n + 1) = NULL,
           NEW x, Beyond(x, n)
    PROVE  x \notin 0..(Len(s) - 1)
<1>1. n + 1 \notin 1..Len(s)
  <2>1. ASSUME n + 1 \in 1..Len(s) PROVE FALSE
    <3>1. s[n + 1] \in Nodes /\ At(s, n + 1) = s[n + 1]
      BY <2>1 DEF At
    <3> QED
      BY <3>1, Addresses
  <2> QED
    BY <2>1
<1>2. n = Len(s)
  BY <1>1
<1> QED
  BY <1>2, Zenon DEF Beyond

(* The queue of Priqueue while a call is served.                           *)
LEMMA EntryFinds ==
    ASSUME ListInv, pc \in Entry \ {"destroy"}
    PROVE  /\ Sound /\ ~corrupt /\ pc \notin Idle /\ pc # "crashed"
           /\ call.op = pc /\ call \in Q!Calls
           /\ \E s \in Seq(Nodes) :
                /\ Structure(s) /\ ListOf(s, head, next, allocated)
                /\ SortedOf(s, data) /\ before = DataOf(s, data)
                /\ head = At(s, 1) /\ Len(s) \in Nat /\ Len(before) = Len(s)
                /\ \A k \in 1..Len(s) : s[k] # NULL /\ before[k] = data[s[k]]
<1>1. Sound /\ ~corrupt /\ pc \notin Idle /\ pc # "crashed" /\ call.op = pc
  BY DEF ListInv, LocalsOK, Sound, Entry, Idle
<1>2. call \in Q!Calls
  BY <1>1 DEF ListInv, ListTypeOK, LocalsOK
<1>3. PICK s \in Seq(Nodes) :
        /\ Structure(s) /\ ListOf(s, head, next, allocated)
        /\ Len(s) \in Nat
        /\ \A k \in 1..Len(s) : s[k] # NULL
  BY <1>1, ListIs
<1>4. /\ SortedOf(s, data) /\ before = DataOf(s, data) /\ head = At(s, 1)
  BY <1>3 DEF Structure, EntryOK, ListOf
<1>5. Len(before) = Len(s) /\ \A k \in 1..Len(s) : before[k] = data[s[k]]
  BY <1>4, DataOfIs DEF ListInv, ListTypeOK
<1> QED
  BY <1>1, <1>2, <1>3, <1>4, <1>5

LEMMA CallStep ==
    ASSUME ListInv, Call
    PROVE  Q!Next
<1>1. pc = "idle" /\ ~corrupt /\ Sound /\ pc # "crashed" /\ pc \in Idle
  BY DEF Call, Sound, Idle
<1>2. PICK c \in Q!Calls : call' = c /\ pc' = c.op
  BY DEF Call
<1>3. pc' \notin Idle /\ pc' # "crashed"
  BY <1>2, CallsAre DEF Idle, Entry
<1>4. call = Q!NoCall
  BY <1>1 DEF ListInv, LocalsOK
<1>5. before' = DataInList /\ result' = Q!NoResult /\ corrupt' = corrupt
  BY DEF Call
<1>6. Q!Call
  BY <1>1, <1>2, <1>3, <1>4, <1>5 DEF Q!Call
<1> QED
  BY <1>6 DEF Q!Next

LEMMA PeekStep ==
    ASSUME ListInv, priqueue_peek
    PROVE  Q!Next
<1>1. pc = "peek" /\ pc \in Entry \ {"destroy"}
  BY DEF priqueue_peek, Entry
<1>2. Sound /\ ~corrupt /\ pc \notin Idle /\ pc # "crashed" /\ call.op = "peek"
  BY <1>1, EntryFinds
<1>3. PICK s \in Seq(Nodes) :
        /\ ListOf(s, head, next, allocated) /\ before = DataOf(s, data)
        /\ head = At(s, 1) /\ Len(s) \in Nat /\ Len(before) = Len(s)
        /\ \A k \in 1..Len(s) : s[k] # NULL /\ before[k] = data[s[k]]
  BY <1>1, EntryFinds
<1>4. CASE head = NULL
  <2>1. ~(1 \in 1..Len(s))
    BY <1>3, <1>4 DEF At
  <2>2. before = <<>>
    BY <1>3, <2>1 DEF ListInv, ListTypeOK
  <2>3. Q!Missing
    BY <1>2, <2>2 DEF Q!Missing
  <2> QED
    BY <1>2, <1>4, <2>3, WhenCrashing DEF priqueue_peek
<1>5. CASE head # NULL
  <2>1. 1 \in 1..Len(s) /\ before[1] = data[head] /\ before # <<>>
    BY <1>3, <1>5 DEF At
  <2>2. Return(<<"ptr", before[1]>>) /\ UNCHANGED heap
    BY <1>5, <2>1 DEF priqueue_peek
  <2>3. ListOf(s, head', next', allocated') /\ before = DataOf(s, data')
    BY <1>3, <2>2 DEF heap
  <2> DEFINE r == <<"ptr", before[1]>>
  <2> HIDE DEF r
  <2>4. Q!Return("peek", before, r)
    BY <1>2, <2>2, <2>3, WhenReturning DEF r
  <2>5. Q!PeekReturns
    BY <1>2, <2>1, <2>4 DEF Q!PeekReturns, r
  <2> QED
    BY <2>5 DEF Q!Next, Q!AgreedReturns
<1> QED
  BY <1>4, <1>5

LEMMA PollStep ==
    ASSUME ListInv, priqueue_poll
    PROVE  Q!Next
<1>1. pc = "poll" /\ pc \in Entry \ {"destroy"}
  BY DEF priqueue_poll, Entry
<1>2. Sound /\ ~corrupt /\ pc \notin Idle /\ pc # "crashed" /\ call.op = "poll"
  BY <1>1, EntryFinds
<1>3. PICK s \in Seq(Nodes) :
        /\ ListOf(s, head, next, allocated) /\ SortedOf(s, data)
        /\ before = DataOf(s, data)
        /\ head = At(s, 1) /\ Len(s) \in Nat /\ Len(before) = Len(s)
        /\ \A k \in 1..Len(s) : s[k] # NULL /\ before[k] = data[s[k]]
  BY <1>1, EntryFinds
<1>4. CASE head = NULL
  <2>1. ~(1 \in 1..Len(s))
    BY <1>3, <1>4 DEF At
  <2>2. before = <<>>
    BY <1>3, <2>1 DEF ListInv, ListTypeOK
  <2>3. Q!Missing
    BY <1>2, <2>2 DEF Q!Missing
  <2> QED
    BY <1>2, <1>4, <2>3, WhenCrashing DEF priqueue_poll
<1>5. CASE head # NULL
  <2>1. 1 \in 1..Len(s) /\ before[1] = data[head] /\ before # <<>>
    BY <1>3, <1>5 DEF At
  <2>2. /\ Return(<<"ptr", before[1]>>)
        /\ head' = next[head] /\ UNCHANGED <<next, data, allocated>>
    BY <1>5, <2>1 DEF priqueue_poll
  <2>3. data \in [Nodes -> Ptrs] /\ before \in Seq(Ptrs)
    BY DEF ListInv, ListTypeOK
  <2>4. /\ Cut(s, 1) \in Seq(Nodes)
        /\ ListOf(Cut(s, 1), next[head], next, allocated)
    <3>1. allocated \ {head} \subseteq allocated
      OBVIOUS
    <3> QED
      BY <1>3, <1>5, <2>3, <3>1, HeadCut
  <2>5. Tail(before) = DataOf(Cut(s, 1), data)
    <3>1. DataOf(Cut(s, 1), data) = RemoveAt(before, 1)
      BY <1>3, <2>1, <2>3, DataOfCut
    <3>2. Tail(before) = RemoveAt(before, 1)
      BY <1>3, <2>1, <2>3, TailIs
    <3> QED
      BY <3>1, <3>2
  <2> DEFINE r == <<"ptr", before[1]>>
             c == Cut(s, 1)
  <2>6. c \in Seq(Nodes) /\ ListOf(c, head', next', allocated')
        /\ Tail(before) = DataOf(c, data')
    BY <2>2, <2>4, <2>5
  <2> HIDE DEF r, c
  <2>7. Q!Return("poll", Tail(before), r)
    BY <1>2, <2>2, <2>6, WhenReturning DEF r
  <2>8. Q!PollReturns
    BY <1>2, <2>1, <2>7 DEF Q!PollReturns, r
  <2> QED
    BY <2>8 DEF Q!Next, Q!AgreedReturns
<1> QED
  BY <1>4, <1>5

LEMMA AtFoundStep ==
    ASSUME ListInv, AtFound
    PROVE  Q!Next
<1>1. pc = "finding" /\ pc \notin Idle /\ pc # "crashed" /\ call.op = "at"
      /\ (i = call.index \/ temp = NULL)
  BY DEF AtFound, Elsewhere, Idle
<1>2. Sound /\ ~corrupt
  BY <1>1, IndexAt
<1>3. PICK s \in Seq(Nodes) :
        /\ ListOf(s, head, next, allocated)
        /\ Len(s) \in Nat /\ i \in 0..Len(s)
        /\ temp = At(s, i + 1) /\ Beyond(call.index, i)
        /\ before = DataOf(s, data)
        /\ temp # NULL => i + 1 \in 1..Len(s) /\ temp = s[i + 1]
  BY <1>1, IndexAt
<1>4. Len(before) = Len(s) /\ \A k \in 1..Len(s) : before[k] = data[s[k]]
  BY <1>3, DataOfIs DEF ListInv, ListTypeOK
<1>5. CASE temp = NULL
  <2>1. call.index \notin 0..(Len(before) - 1)
    BY <1>3, <1>4, <1>5, NotThere
  <2>2. Q!Missing
    BY <1>1, <2>1 DEF Q!Missing, Q!HasIndex
  <2> QED
    BY <1>1, <1>2, <1>5, <2>2, WhenCrashing DEF AtFound
<1>6. CASE temp # NULL
  <2>1. /\ call.index = i /\ i + 1 \in 1..Len(s) /\ before[i + 1] = data[temp]
        /\ i \in 0..(Len(before) - 1)
    BY <1>1, <1>3, <1>4, <1>6
  <2> DEFINE r == <<"ptr", before[i + 1]>>
  <2>2. Return(r) /\ UNCHANGED heap
    BY <1>6, <2>1 DEF AtFound
  <2>3. ListOf(s, head', next', allocated') /\ before = DataOf(s, data')
    BY <1>3, <2>2 DEF heap
  <2> HIDE DEF r
  <2>4. Q!Return("at", before, r)
    BY <1>1, <1>2, <2>2, <2>3, WhenReturning
  <2>5. Q!AtReturns
    BY <1>1, <2>1, <2>4 DEF Q!AtReturns, Q!HasIndex, r
  <2> QED
    BY <2>5 DEF Q!Next, Q!AgreedReturns
<1> QED
  BY <1>5, <1>6

LEMMA RemoveAtFoundStep ==
    ASSUME ListInv, RemoveAtFound
    PROVE  Q!Next
<1>1. pc = "finding" /\ pc \notin Idle /\ pc # "crashed" /\ call.op = "remove_at"
      /\ (i = call.index \/ temp = NULL)
  BY DEF RemoveAtFound, Elsewhere, Idle
<1>2. Sound /\ ~corrupt
  BY <1>1, IndexAt
<1>3. PICK s \in Seq(Nodes) :
        /\ ListOf(s, head, next, allocated) /\ SortedOf(s, data)
        /\ Len(s) \in Nat /\ i \in 0..Len(s)
        /\ temp = At(s, i + 1) /\ previous = At(s, i) /\ Beyond(call.index, i)
        /\ before = DataOf(s, data)
        /\ temp # NULL => i + 1 \in 1..Len(s) /\ temp = s[i + 1]
  BY <1>1, IndexAt
<1>4. Len(before) = Len(s) /\ \A k \in 1..Len(s) : before[k] = data[s[k]]
  BY <1>3, DataOfIs DEF ListInv, ListTypeOK
<1>5. CASE temp = NULL
  <2>1. call.index \notin 0..(Len(before) - 1)
    BY <1>3, <1>4, <1>5, NotThere
  <2>2. Q!Missing
    BY <1>1, <2>1 DEF Q!Missing, Q!HasIndex
  <2> QED
    BY <1>1, <1>2, <1>5, <2>2, WhenCrashing DEF RemoveAtFound
<1>6. CASE temp # NULL
  <2>1. /\ call.index = i /\ i + 1 \in 1..Len(s) /\ before[i + 1] = data[temp]
        /\ i \in 0..(Len(before) - 1)
    BY <1>1, <1>3, <1>4, <1>6
  <2> DEFINE r == <<"ptr", before[i + 1]>>
  <2>2. /\ Return(r) /\ Unlink(temp, previous)
        /\ data' = data /\ allocated' = allocated
    BY <1>6, <2>1 DEF RemoveAtFound
  <2>3. /\ next \in [Nodes -> Nodes \cup {NULL}] /\ data \in [Nodes -> Ptrs]
        /\ i \in Nat
    BY <1>3 DEF ListInv, ListTypeOK
  <2>4. PICK p \in 1..Len(s) : p = i + 1
    BY <2>1
  <2>5. temp = s[p] /\ (p > 1 => previous = s[p - 1])
    BY <1>3, <1>6, <2>3, <2>4 DEF At
  <2>6. /\ Cut(s, p) \in Seq(Nodes)
        /\ ListOf(Cut(s, p), head', next', allocated)
    BY <1>3, <2>2, <2>3, <2>5, UnlinkCuts
  <2>7. DataOf(Cut(s, p), data) = RemoveAt(before, p)
    BY <1>3, <2>3, DataOfCut
  <2> DEFINE c == Cut(s, p)
  <2>8. c \in Seq(Nodes) /\ ListOf(c, head', next', allocated')
        /\ RemoveAt(before, p) = DataOf(c, data')
    BY <2>2, <2>6, <2>7
  <2> HIDE DEF r, c
  <2>9. Q!Return("remove_at", RemoveAt(before, p), r)
    BY <1>1, <1>2, <2>2, <2>8, WhenReturning
  <2>10. Q!RemoveAtReturns
    <3>1. \A q, k : Q!RemoveAt(q, k) = RemoveAt(q, k)
      BY DEF Q!RemoveAt, RemoveAt
    <3> QED
      BY <1>1, <2>1, <2>4, <2>9, <3>1 DEF Q!RemoveAtReturns, Q!HasIndex, r
  <2> QED
    BY <2>10 DEF Q!Next, Q!AgreedReturns
<1> QED
  BY <1>5, <1>6

LEMMA SameOffer == \A q, x, c : Q!Offer(q, x, c) = Offer(q, x, c)
<1>1. \A c : Q!OfferIndex(c) = OfferIndex(c)
  BY DEF Q!OfferIndex, OfferIndex
<1>2. \A q, k, x : Q!InsertAt(q, k, x) = InsertAt(q, k, x)
  BY DEF Q!InsertAt, InsertAt
<1> QED
  BY <1>1, <1>2 DEF Q!Offer, Offer

LEMMA CountReturnsStep ==
    ASSUME ListInv, CountReturns
    PROVE  Q!Next
<1>1. pc = "counting" /\ temp = NULL /\ pc \notin Idle /\ pc # "crashed"
  BY DEF CountReturns, Idle
<1>2. call.op \in {"offer", "size"}
  BY <1>1 DEF ListInv, LocalsOK
<1>3. Sound /\ ~corrupt
  BY <1>1, CountedIs DEF Sound
<1>4. PICK s \in Seq(Nodes) :
        /\ ListOf(s, head, next, allocated)
        /\ i = Len(s) /\ Len(s) \in Nat
        /\ call.op = "size" => before = DataOf(s, data)
        /\ call.op = "offer" =>
            /\ Len(s) = Len(before) + 1
            /\ DataOf(s, data) =
                Offer(before, call.ptr, Comparisons(call.ptr, before))
  BY <1>1, CountedIs
<1>5. Return(<<"int", Counted>>) /\ UNCHANGED heap
  BY DEF CountReturns
<1>6. ListOf(s, head', next', allocated') /\ DataOf(s, data') = DataOf(s, data)
  BY <1>4, <1>5 DEF heap
<1>7. Len(before) \in Nat /\ data \in [Nodes -> Ptrs]
  BY DEF ListInv, ListTypeOK
<1>8. CASE call.op = "size"
  <2>1. Counted = Len(before)
    BY <1>4, <1>7, <1>8, DataOfIs DEF Counted
  <2> DEFINE r == <<"int", Len(before)>>
  <2>2. Return(r) /\ before = DataOf(s, data')
    BY <1>4, <1>5, <1>6, <1>8, <2>1
  <2> HIDE DEF r
  <2>3. Q!Return("size", before, r)
    BY <1>1, <1>3, <1>6, <1>8, <2>2, WhenReturning
  <2>4. Q!SizeReturns
    BY <1>1, <2>3 DEF Q!SizeReturns, r
  <2> QED
    BY <2>4 DEF Q!Next, Q!AgreedReturns
<1>9. CASE call.op = "offer"
  <2>1. Counted = Len(before)
    BY <1>4, <1>7, <1>9 DEF Counted
  <2> DEFINE r == <<"int", Len(before)>>
             q == Offer(before, call.ptr, Comparisons(call.ptr, before))
  <2>2. Return(r) /\ q = DataOf(s, data')
    BY <1>4, <1>5, <1>6, <1>9, <2>1
  <2> HIDE DEF r, q
  <2>3. Q!Return("offer", q, r)
    BY <1>1, <1>3, <1>6, <1>9, <2>2, WhenReturning
  <2> DEFINE c == [k \in 1..Len(before) |-> Q!cmp(call.ptr, before[k])]
  <2>4. c = Comparisons(call.ptr, before)
    BY DEF Q!cmp, cmp, Comparisons
  <2>5. Q!Offer(before, call.ptr, c) = q
    BY <2>4, SameOffer DEF q
  <2>6. Q!Return("offer", Q!Offer(before, call.ptr, c), <<"int", Len(before)>>)
    BY <2>3, <2>5 DEF r
  <2>7. Q!OfferReturns(Q!LastIndex)
    BY <1>1, <2>6 DEF Q!OfferReturns, Q!Comparisons, Q!LastIndex
  <2> QED
    BY <1>9, <2>7 DEF Q!Next
<1> QED
  BY <1>2, <1>8, <1>9

LEMMA DestroyReturnsStep ==
    ASSUME ListInv, DestroyReturns
    PROVE  Q!Next
<1>1. /\ pc = "destroy" /\ head = NULL /\ ~corrupt /\ Sound
      /\ pc \notin Idle /\ pc # "crashed" /\ call.op = "destroy"
  BY DEF DestroyReturns, ListInv, LocalsOK, Sound, Idle, Entry
<1>2. PICK s \in Seq(Nodes) :
        /\ ListOf(s, head, next, allocated) /\ Len(s) \in Nat
        /\ \A k \in 1..Len(s) : s[k] # NULL
  BY <1>1, ListIs
<1>3. s = <<>>
  <2>1. ~(1 \in 1..Len(s))
    BY <1>1, <1>2 DEF ListOf, At
  <2> QED
    BY <1>2, <2>1
<1>4. Return(Q!NoResult) /\ UNCHANGED heap
  BY DEF DestroyReturns
<1>5. ListOf(s, head', next', allocated') /\ <<>> = DataOf(s, data')
  <2>1. Len(s) = 0
    BY <1>3
  <2>2. DataOf(s, data') = <<>>
    BY <2>1 DEF DataOf
  <2> QED
    BY <1>2, <1>4, <2>2 DEF heap
<1>6. Q!Return("destroy", <<>>, Q!NoResult)
  <2> DEFINE r == Q!NoResult
             q == <<>>
  <2>1. Return(r) /\ q = DataOf(s, data')
    BY <1>4, <1>5
  <2> HIDE DEF r, q
  <2>2. Q!Return("destroy", q, r)
    BY <1>1, <1>5, <2>1, WhenReturning
  <2> QED
    BY <2>2 DEF r, q
<1> QED
  BY <1>6 DEF Q!DestroyReturns, Q!AgreedReturns, Q!Next


(* What is kept of the whole list is what Priqueue says: the equation of a *)
(* recursive function determines it.                                       *)
LEMMA RemainingIs ==
    ASSUME pc \notin Idle, before \in Seq(Ptrs),
           NEW r, KeptOf(before, Len(before), call.ptr, r)
    PROVE  Q!Without(Q!Alike) = r
<1> DEFINE q == IF pc \in Idle THEN DataInList ELSE before
           n == Len(before)
           S == Q!Alike
           step(g) == [k \in 0..Len(q) |->
                            IF k = 0 THEN <<>>
                            ELSE IF q[k] \in S THEN g[k - 1]
                                 ELSE Append(g[k - 1], q[k])]
           kept == CHOOSE g : g = step(g)
<1>1. Q!Without(S) = kept[Len(q)]
  BY DEF Q!Without
<1>2. q = before /\ Len(q) = n /\ n \in Nat
  OBVIOUS
<1>3. PICK f \in [0..n -> Seq(Ptrs)] :
        /\ f[0] = <<>> /\ f[n] = r
        /\ \A k \in 1..n : f[k] = IF cmp(before[k], call.ptr) # 0
                                  THEN Append(f[k - 1], before[k]) ELSE f[k - 1]
  BY DEF KeptOf
<1>4. \A k \in 1..n : q[k] \in S <=> ~(cmp(before[k], call.ptr) # 0)
  <2>1. \A k \in 1..n : q[k] = before[k] /\ before[k] \in Ptrs
    BY <1>2
  <2>2. \A y \in Ptrs : y \in S <=> cmp(y, call.ptr) = 0
    BY DEF Q!Alike, Q!cmp, cmp
  <2> QED
    BY <2>1, <2>2
<1> HIDE DEF q, S
<1>5. f = step(f)
  <2>1. ASSUME NEW k \in 0..n
        PROVE  f[k] = IF k = 0 THEN <<>>
                      ELSE IF q[k] \in S THEN f[k - 1]
                           ELSE Append(f[k - 1], q[k])
    <3>1. CASE k = 0
      BY <1>3, <3>1
    <3>2. CASE k # 0
      <4>1. k \in 1..n
        BY <1>2, <3>2
      <4> QED
        BY <1>2, <1>3, <1>4, <3>2, <4>1
    <3> QED
      BY <3>1, <3>2
  <2>2. f = [k \in 0..n |-> f[k]]
    OBVIOUS
  <2> HIDE DEF n
  <2> QED
    BY <1>2, <2>1, <2>2
<1>6. kept = step(kept)
  <2> HIDE DEF step
  <2> QED
    BY <1>5
<1> HIDE DEF kept
<1> DEFINE P == {k \in 1..n : kept[k] # f[k]}
<1>7. kept[0] = f[0]
  BY <1>2, <1>3, <1>6
<1>8. P = {}
  <2>1. P \in SUBSET (1..n) /\ \A l \in 1..n : l \in P <=> kept[l] # f[l]
    OBVIOUS
  <2> HIDE DEF P, step
  <2> SUFFICES ASSUME P # {} PROVE FALSE
    OBVIOUS
  <2>2. PICK l \in P : \A m \in 1..(l - 1) : m \notin P
    BY <1>2, <2>1, FirstPosition
  <2>3. l \in 1..n /\ l \in 0..n /\ l # 0 /\ kept[l] # f[l]
    BY <1>2, <2>1, <2>2
  <2>4. kept[l - 1] = f[l - 1]
    <3>1. CASE l = 1
      BY <1>7, <3>1
    <3>2. CASE l # 1
      <4>1. l - 1 \in 1..(l - 1) /\ l - 1 \in 1..n
        BY <1>2, <2>3, <3>2
      <4> QED
        BY <2>1, <2>2, <4>1
    <3> QED
      BY <3>1, <3>2
  <2>5. kept[l] = IF q[l] \in S THEN kept[l - 1] ELSE Append(kept[l - 1], q[l])
    BY <1>2, <1>6, <2>3 DEF step
  <2>6. f[l] = IF q[l] \in S THEN f[l - 1] ELSE Append(f[l - 1], q[l])
    BY <1>2, <1>5, <2>3 DEF step
  <2> QED
    BY <2>3, <2>4, <2>5, <2>6
<1>9. kept[n] = f[n]
  <2>1. CASE n = 0
    BY <1>7, <2>1
  <2>2. CASE n # 0
    <3>1. n \in 1..n
      BY <1>2, <2>2
    <3>2. n \notin P => kept[n] = f[n]
      BY <3>1
    <3> HIDE DEF P
    <3> QED
      BY <1>8, <3>2
  <2> QED
    BY <2>1, <2>2
<1> QED
  BY <1>1, <1>2, <1>3, <1>9 DEF S

LEMMA RemoveReturnsStep ==
    ASSUME ListInv, RemoveReturns
    PROVE  Q!Next
<1>1. /\ pc = "removing" /\ temp = NULL /\ pc \notin Idle /\ pc # "crashed"
      /\ Return(<<"int", i>>) /\ UNCHANGED heap
  BY DEF RemoveReturns, Idle
<1>2. CASE corrupt
  <2>1. Q!StaysUndefined
    BY <1>1, <1>2 DEF Q!StaysUndefined, Return
  <2> QED
    BY <2>1 DEF Q!Next
<1>3. CASE ~corrupt
  <2>1. Sound /\ call.op = "remove"
    BY <1>1, <1>3 DEF Sound, ListInv, LocalsOK
  <2>2. PICK s \in Seq(Nodes) :
            /\ ListOf(s, head, next, allocated) /\ Len(s) \in Nat /\ i \in Nat
            /\ \A k \in 1..Len(s) : s[k] # NULL
            /\ \E p \in 1..(Len(s) + 1) :
                /\ temp = At(s, p)
                /\ StandsAt(s, data, before, call.ptr, p, i)
    BY <1>1, <2>1, RemovingAt
  <2>3. PICK p \in 1..(Len(s) + 1) :
            /\ temp = At(s, p)
            /\ StandsAt(s, data, before, call.ptr, p, i)
    BY <2>2
  <2>4. p = Len(s) + 1
    <3>1. ~(p \in 1..Len(s))
      BY <1>1, <2>2, <2>3 DEF At
    <3> QED
      BY <2>2, <3>1
  <2>5. /\ Len(before) = Len(s) + i /\ p - 1 + i = Len(before) /\ p - 1 = Len(s)
        /\ KeptOf(before, p - 1 + i, call.ptr, DataUpTo(s, p - 1, data))
    BY <2>2, <2>3, <2>4 DEF StandsAt
  <2>6. DataUpTo(s, Len(s), data) = DataOf(s, data)
    BY DEF DataUpTo, DataOf
  <2>7. before \in Seq(Ptrs) /\ data \in [Nodes -> Ptrs]
    BY DEF ListInv, ListTypeOK
  <2> DEFINE q == DataOf(s, data)
             r == <<"int", i>>
  <2>8. q = DataOf(s, data') /\ ListOf(s, head', next', allocated') /\ Return(r)
    BY <1>1, <2>2 DEF heap
  <2>9. Q!Without(Q!Alike) = q
    <3>1. KeptOf(before, Len(before), call.ptr, q)
      BY <2>5, <2>6
    <3> QED
      BY <1>1, <2>7, <3>1, RemainingIs
  <2>10. Len(q) = Len(s) /\ Len(before) - Len(q) = i
    <3>1. Len(q) = Len(s)
      BY <2>7, DataOfIs
    <3> QED
      BY <2>2, <2>5, <3>1
  <2> HIDE DEF q, r
  <2>11. Q!Return("remove", q, r)
    BY <1>1, <2>1, <2>8, WhenReturning
  <2>12. Q!Return("remove", Q!Without(Q!Alike),
                  <<"int", Len(before) - Len(Q!Without(Q!Alike))>>)
    BY <2>9, <2>10, <2>11 DEF r
  <2>13. Q!RemoveReturns(Q!Alike)
    BY <1>1, <2>12 DEF Q!RemoveReturns
  <2> QED
    BY <2>1, <2>13 DEF Q!Next
<1> QED
  BY <1>2, <1>3

(* The steps of the loops, and those that enter one.                       *)
LEMMA LoopSteps ==
    ASSUME ListInv,
           \/ priqueue_offer \/ LookForPlace \/ priqueue_at \/ LookForIndex
           \/ priqueue_remove \/ RemoveKeeps \/ RemoveHead
           \/ priqueue_size \/ Count \/ FreeHead
    PROVE  UNCHANGED Q!vars
<1>1. CASE priqueue_offer
  <2>1. /\ pc \notin Idle /\ pc' \notin Idle /\ pc # "crashed" /\ pc' # "crashed"
        /\ Stay
    BY <1>1 DEF priqueue_offer, Idle
  <2> QED
    BY <2>1, WithinCall DEF Stay, Defined
<1>2. CASE LookForPlace
  <2>1. /\ pc \notin Idle /\ pc' \notin Idle /\ pc # "crashed" /\ pc' # "crashed"
        /\ Stay
    BY <1>2 DEF LookForPlace, Idle
  <2> QED
    BY <2>1, WithinCall DEF Stay, Defined
<1>3. CASE priqueue_at
  <2>1. /\ pc \notin Idle /\ pc' \notin Idle /\ pc # "crashed" /\ pc' # "crashed"
        /\ Stay
    BY <1>3 DEF priqueue_at, Idle
  <2> QED
    BY <2>1, WithinCall DEF Stay, Defined
<1>4. CASE LookForIndex
  <2>1. /\ pc \notin Idle /\ pc' \notin Idle /\ pc # "crashed" /\ pc' # "crashed"
        /\ Stay
    BY <1>4 DEF LookForIndex, Idle
  <2> QED
    BY <2>1, WithinCall DEF Stay, Defined
<1>5. CASE priqueue_remove
  <2>1. /\ pc \notin Idle /\ pc' \notin Idle /\ pc # "crashed" /\ pc' # "crashed"
        /\ Stay
    BY <1>5 DEF priqueue_remove, Idle
  <2> QED
    BY <2>1, WithinCall DEF Stay, Defined
<1>6. CASE RemoveKeeps
  <2>1. /\ pc \notin Idle /\ pc' \notin Idle /\ pc # "crashed" /\ pc' # "crashed"
        /\ Stay
    BY <1>6 DEF RemoveKeeps, Idle
  <2> QED
    BY <2>1, WithinCall DEF Stay, Defined
<1>7. CASE RemoveHead
  <2>1. /\ pc \notin Idle /\ pc' \notin Idle /\ pc # "crashed" /\ pc' # "crashed"
        /\ Stay
    BY <1>7 DEF RemoveHead, Idle
  <2> QED
    BY <2>1, WithinCall DEF Stay, Defined
<1>8. CASE priqueue_size
  <2>1. /\ pc \notin Idle /\ pc' \notin Idle /\ pc # "crashed" /\ pc' # "crashed"
        /\ Stay
    BY <1>8 DEF priqueue_size, Idle
  <2> QED
    BY <2>1, WithinCall DEF Stay, Defined
<1>9. CASE Count
  <2>1. /\ pc \notin Idle /\ pc' \notin Idle /\ pc # "crashed" /\ pc' # "crashed"
        /\ Stay
    BY <1>9 DEF Count, Idle
  <2> QED
    BY <2>1, WithinCall DEF Stay, Defined
<1>10. CASE FreeHead
  <2>1. /\ pc \notin Idle /\ pc' \notin Idle /\ pc # "crashed" /\ pc' # "crashed"
        /\ Stay
    BY <1>10 DEF FreeHead, Idle
  <2> QED
    BY <2>1, WithinCall DEF Stay, Defined
<1> QED
  BY <1>1, <1>2, <1>3, <1>4, <1>5, <1>6, <1>7, <1>8, <1>9, <1>10

(* When priqueue_remove is to remove a node with a previous that it has    *)
(* not assigned, the element is the first one of the queue.                *)
LEMMA RemovingFirst ==
    ASSUME ListInv, Sound, pc = "removing", Matches, previous # NULL,
           temp = head \/ previous \notin Nodes
    PROVE  Q!FirstMatches
<1>1. temp # NULL /\ cmp(data[temp], call.ptr) = 0
  BY DEF Matches
<1>2. PICK s \in Seq(Nodes) :
        /\ Len(s) \in Nat /\ i \in Nat
        /\ \E p \in 1..(Len(s) + 1) :
            /\ p > 1 => previous = s[p - 1] /\ previous \in Nodes
            /\ p = 1 /\ i > 0 => previous = NULL
            /\ StandsAt(s, data, before, call.ptr, p, i)
            /\ p \in 1..Len(s) /\ temp = s[p]
            /\ p = 1 <=> temp = head
  BY <1>1, RemovingAt
<1>3. PICK p \in 1..Len(s) :
        /\ p > 1 => previous = s[p - 1] /\ previous \in Nodes
        /\ p = 1 /\ i > 0 => previous = NULL
        /\ StandsAt(s, data, before, call.ptr, p, i)
        /\ temp = s[p]
        /\ p = 1 <=> temp = head
  BY <1>2
<1>4. p = 1 /\ i = 0
  <2>1. p = 1
    BY <1>2, <1>3
  <2> QED
    BY <1>2, <1>3, <2>1
<1>5. data[temp] = before[1] /\ Len(before) = Len(s)
  <2>1. Len(before) = Len(s) + i /\ \A k \in p..Len(s) : data[s[k]] = before[k + i]
    BY <1>3 DEF StandsAt
  <2>2. 1 \in p..Len(s)
    BY <1>2, <1>3, <1>4
  <2>3. data[s[1]] = before[1 + i]
    BY <2>1, <2>2
  <2> QED
    BY <1>2, <1>3, <1>4, <2>1, <2>3
<1>6. before # <<>>
  BY <1>2, <1>3, <1>5
<1>7. cmp(before[1], call.ptr) = 0
  BY <1>1, <1>5
<1>8. before[1] \in Q!Alike
  <2>1. before[1] \in Ptrs
    BY <1>6 DEF ListInv, ListTypeOK
  <2> QED
    BY <1>7, <2>1 DEF Q!Alike, Q!cmp, cmp
<1>9. call.op = "remove" /\ pc \notin Idle
  BY DEF ListInv, LocalsOK, Idle
<1> QED
  BY <1>6, <1>8, <1>9 DEF Q!FirstMatches

LEMMA RemoveNextStep ==
    ASSUME ListInv, RemoveNext
    PROVE  [Q!Next]_(Q!vars)
<1>1. /\ pc = "removing" /\ pc' = pc /\ pc \notin Idle /\ pc # "crashed" /\ Matches
      /\ previous \in Nodes /\ previous # NULL
      /\ corrupt' = (corrupt \/ temp = head)
      /\ before' = before /\ call' = call /\ result' = result
  BY Addresses DEF RemoveNext, Idle
<1>2. CASE corrupt
  <2>1. Q!StaysUndefined
    BY <1>1, <1>2 DEF Q!StaysUndefined
  <2> QED
    BY <2>1 DEF Q!Next
<1>3. CASE ~corrupt /\ temp = head
  <2>1. Q!FirstMatches
    BY <1>1, <1>3, RemovingFirst DEF Sound
  <2>2. Q!BecomesUndefined
    BY <1>1, <1>3, <2>1 DEF Q!BecomesUndefined
  <2> QED
    BY <2>2 DEF Q!Next
<1>4. CASE ~corrupt /\ temp # head
  <2>1. corrupt' = FALSE
    BY <1>1, <1>4
  <2>2. Defined' = Defined
    BY <1>1, <1>4, <2>1 DEF Defined
  <2>3. UNCHANGED Q!vars
    BY <1>1, <2>2, WithinCall
  <2> QED
    BY <2>3
<1> QED
  BY <1>2, <1>3, <1>4

LEMMA RemoveWildStep ==
    ASSUME ListInv, RemoveWild
    PROVE  Q!Next
<1>1. /\ pc = "removing" /\ pc \notin Idle /\ pc # "crashed" /\ Matches
      /\ previous = Wild /\ previous # NULL /\ previous \notin Nodes /\ Crash
  BY Addresses DEF RemoveWild, Idle, Wild, NULL
<1>2. ~corrupt
  BY <1>1 DEF ListInv, LocalsOK
<1>3. Q!FirstMatches
  BY <1>1, <1>2, RemovingFirst DEF Sound
<1> QED
  BY <1>1, <1>2, <1>3, WhenCrashing

LEMMA ListUnchanged ==
    ASSUME UNCHANGED vars
    PROVE  DataInList' = DataInList
<1>1. head' = head /\ next' = next /\ data' = data
  BY DEF vars
<1>2. Walk' = Walk
  BY <1>1 DEF Walk
<1>3. Chain' = Chain
  BY <1>2 DEF Chain
<1> QED
  BY <1>1, <1>3 DEF DataInList

LEMMA InitImplements == priqueue_init => Q!Init
<1> SUFFICES ASSUME priqueue_init PROVE Q!Init
  OBVIOUS
<1>1. ListOf(<<>>, head, next, allocated) /\ <<>> \in Seq(Nodes)
  BY DEF priqueue_init, ListOf, At
<1>2. DataInList = DataOf(<<>>, data)
  BY <1>1, DataAgree DEF DataAgrees
<1>3. DataInList = <<>>
  BY <1>2 DEF DataOf
<1> QED
  BY <1>3 DEF priqueue_init, Q!Init, Idle

LEMMA NextImplements == ListInv /\ [Next]_vars => [Q!Next]_(Q!vars)
<1> SUFFICES ASSUME ListInv, [Next]_vars PROVE [Q!Next]_(Q!vars)
  OBVIOUS
<1>1. CASE Call
  BY <1>1, CallStep
<1>2. CASE \/ priqueue_offer \/ LookForPlace \/ priqueue_at \/ LookForIndex
           \/ priqueue_remove \/ RemoveKeeps \/ RemoveHead
           \/ priqueue_size \/ Count \/ FreeHead
  BY <1>2, LoopSteps
<1>3. CASE priqueue_peek
  BY <1>3, PeekStep
<1>4. CASE priqueue_poll
  BY <1>4, PollStep
<1>5. CASE AtFound
  BY <1>5, AtFoundStep
<1>6. CASE RemoveAtFound
  BY <1>6, RemoveAtFoundStep
<1>7. CASE RemoveNext
  BY <1>7, RemoveNextStep
<1>8. CASE RemoveWild
  BY <1>8, RemoveWildStep
<1>9. CASE RemoveReturns
  BY <1>9, RemoveReturnsStep
<1>10. CASE CountReturns
  BY <1>10, CountReturnsStep
<1>11. CASE DestroyReturns
  BY <1>11, DestroyReturnsStep
<1>12. CASE UNCHANGED vars
  <2>1. DataInList' = DataInList
    BY <1>12, ListUnchanged
  <2> QED
    BY <1>12, <2>1 DEF vars, Q!vars
<1> QED
  BY <1>1, <1>2, <1>3, <1>4, <1>5, <1>6, <1>7, <1>8, <1>9, <1>10, <1>11, <1>12
     DEF Next, Serve

(* The nodes implement the sequence that the code keeps: every call of     *)
(* libpriqueue.c has the effect and the result of Priqueue!Spec, and only  *)
(* a call for an element that is not there, or the removal of a first      *)
(* element that matches, crashes or damages the list.                      *)
THEOREM QueueImplemented == Spec => ImplementsPriqueue
BY InitImplements, NextImplements, ListInvariant, PTL
   DEF Spec, ImplementsPriqueue, Q!Spec
=============================================================================
