---------------------------- MODULE SearchProofs ----------------------------
(***************************************************************************)
(* Theorems about the search panel of search.js, for any texts, any        *)
(* tables, any result pages and any number of timers that nobody can stop. *)
(***************************************************************************)
EXTENDS SearchPage, FiniteSetTheorems, WellFoundedInduction, TLAPS

\* The box, without the bounds that depend on other variables.
Boxes ==
  [active : BOOLEAN, searchActive : BOOLEAN, field : Texts,
   lastSearchValue : Texts, lastResultsPage : Pages, searchIndex : Nat,
   shown : BOOLEAN, close : BOOLEAN, menu : BOOLEAN,
   timer : BOOLEAN, strays : Nat, hides : Nat,
   page : Pages, term : Texts, loading : BOOLEAN]

\* BoxAgrees, of any box b over a frame with the page l.
Agrees(b, l) ==
  /\ b.shown = b.close
  /\ b.active = b.searchActive
  /\ b.active \/ b.field = Label
  /\ b.shown => b.page = b.lastResultsPage
  /\ b.shown => (b.page \in Content => b.term = b.lastSearchValue)
  /\ b.shown => b.loading \/ l = b.page

SameTimers(a, b) ==
  a.timer = b.timer /\ a.strays = b.strays /\ a.hides = b.hides

-----------------------------------------------------------------------------
\* The methods of SearchBox, on any box.

LEMMA TextsFacts == "" \in Texts /\ Label \in Texts
BY TextAssumption

LEMMA PagesFacts == NoPage \in Pages /\ NoMatches \in Pages /\ Content \subseteq Pages
BY DEF Pages

LEMMA ActivateFacts ==
  ASSUME NEW b \in Boxes, NEW l, NEW isActive \in BOOLEAN
  PROVE  LET a == Activate(b, isActive)
         IN  /\ a \in Boxes /\ (Agrees(b, l) => Agrees(a, l))
             /\ SameTimers(a, b) /\ a.searchIndex = b.searchIndex
             /\ a.shown = b.shown /\ (isActive \/ b.shown => a.active)
<1> DEFINE a == Activate(b, isActive)
<1>1. CASE isActive \/ b.shown
  <2> DEFINE r == [b EXCEPT !.active = TRUE,
                   !.searchActive = @ \/ b.field = Label,
                   !.field = IF @ = Label THEN "" ELSE @]
  <2>1. a = r
    BY <1>1 DEF Activate
  <2>2. r \in Boxes
    BY TextsFacts DEF Boxes
  <2>3. /\ SameTimers(r, b) /\ r.searchIndex = b.searchIndex /\ r.active
        /\ r.shown = b.shown /\ (Agrees(b, l) => Agrees(r, l))
    BY DEF Boxes, SameTimers, Agrees
  <2> QED
    BY <2>1, <2>2, <2>3
<1>2. CASE ~(isActive \/ b.shown)
  <2> DEFINE r == [b EXCEPT !.active = FALSE, !.searchActive = FALSE, !.field = Label,
                   !.lastSearchValue = "", !.lastResultsPage = NoPage]
  <2>1. a = r
    BY <1>2 DEF Activate
  <2>2. r \in Boxes
    BY TextsFacts, PagesFacts DEF Boxes
  <2>3. /\ SameTimers(r, b) /\ r.searchIndex = b.searchIndex
        /\ r.shown = b.shown /\ (Agrees(b, l) => Agrees(r, l))
    BY <1>2 DEF Boxes, SameTimers, Agrees
  <2> QED
    BY <1>2, <2>1, <2>2, <2>3
<1> QED
  BY <1>1, <1>2

\* The methods that only touch what is displayed and the timers.
LEMMA HideResultsFacts ==
  ASSUME NEW b \in Boxes, NEW l
  PROVE  LET a == HideResults(b)
         IN  a \in Boxes /\ (Agrees(b, l) => Agrees(a, l))
             /\ SameTimers(a, b) /\ a.searchIndex = b.searchIndex /\ ~a.shown
             /\ a.active = b.active /\ a.field = b.field
<1>1. HideResults(b) \in Boxes
  BY DEF HideResults, Boxes
<1> QED
  BY <1>1 DEF HideResults, Boxes, Agrees, SameTimers

LEMMA TimerFacts ==
  ASSUME NEW b \in Boxes, NEW l,
         NEW a \in {CloseSelectionWindow(b), KillTimer(b), StartTimer(b),
                    OnSearchSelectShow(b), OnSearchSelectHide(b)}
  PROVE  /\ a \in Boxes /\ (Agrees(b, l) => Agrees(a, l))
         /\ a.strays = b.strays /\ a.searchIndex = b.searchIndex
         /\ a.shown = b.shown /\ a.active = b.active /\ a.field = b.field
<1>1. CASE a = CloseSelectionWindow(b)
  <2>1. a \in Boxes
    BY <1>1 DEF CloseSelectionWindow, Boxes
  <2> QED
    BY <1>1, <2>1 DEF CloseSelectionWindow, Boxes, Agrees
<1>2. CASE a = KillTimer(b)
  <2>1. a \in Boxes
    BY <1>2 DEF KillTimer, Boxes
  <2> QED
    BY <1>2, <2>1 DEF KillTimer, Boxes, Agrees
<1>3. CASE a = StartTimer(b)
  <2>1. a \in Boxes
    BY <1>3 DEF StartTimer, Boxes
  <2> QED
    BY <1>3, <2>1 DEF StartTimer, Boxes, Agrees
<1>4. CASE a = OnSearchSelectShow(b)
  <2>2. (IF b.hides > 0 THEN b.hides - 1 ELSE 0) \in Nat
    BY DEF Boxes
  <2>1. a \in Boxes
    BY <1>4, <2>2 DEF OnSearchSelectShow, Boxes
  <2> QED
    BY <1>4, <2>1 DEF OnSearchSelectShow, Boxes, Agrees
<1>5. CASE a = OnSearchSelectHide(b)
  <2>2. b.hides + 1 \in Nat
    BY DEF Boxes
  <2>1. a \in Boxes
    BY <1>5, <2>2 DEF OnSearchSelectHide, Boxes
  <2> QED
    BY <1>5, <2>1 DEF OnSearchSelectHide, Boxes, Agrees
<1> QED
  BY <1>1, <1>2, <1>3, <1>4, <1>5

LEMMA ForgetTimerFacts ==
  ASSUME NEW b \in Boxes
  PROVE  /\ ForgetTimer(b) \in Boxes
         /\ ForgetTimer(b).strays = IF b.timer THEN b.strays + 1 ELSE b.strays
<1>1. b.timer \in BOOLEAN /\ b.strays \in Nat
  BY DEF Boxes
<1>2. (IF b.timer THEN b.strays + 1 ELSE b.strays) \in Nat
  BY <1>1
<1>3. ForgetTimer(b) \in Boxes
  BY <1>2 DEF ForgetTimer, Boxes
<1> QED
  BY <1>3 DEF ForgetTimer, Boxes

\* A search sends the frame to a page, displays it and remembers both.
LEMMA SearchFacts ==
  ASSUME NEW b \in Boxes, NEW l
  PROVE  LET a == Search(b)
         IN  a \in Boxes /\ (Agrees(b, l) => Agrees(a, l))
             /\ a.hides = b.hides /\ a.searchIndex = b.searchIndex
             /\ (a.strays = IF b.timer THEN b.strays + 1 ELSE b.strays)
             /\ a.active = b.active /\ a.field = b.field
             /\ (b.shown => a.shown)
<1> DEFINE f == ForgetTimer(b)
<1>1. /\ f \in Boxes /\ (Agrees(b, l) => Agrees(f, l))
      /\ f.hides = b.hides /\ f.searchIndex = b.searchIndex
      /\ f.strays = (IF b.timer THEN b.strays + 1 ELSE b.strays)
      /\ f.active = b.active /\ f.field = b.field /\ f.shown = b.shown /\ f.close = b.close
  <2>1. f \in Boxes /\ f.strays = (IF b.timer THEN b.strays + 1 ELSE b.strays)
    BY ForgetTimerFacts
  <2> QED
    BY <2>1 DEF ForgetTimer, Boxes, Agrees
<1>2. CASE SearchFails(b)
  BY <1>1, <1>2 DEF Search
<1>3. CASE ~SearchFails(b)
  <2> DEFINE value == Trimmed[b.field]
             page  == ResultsPage(b)
             term  == IF page = NoMatches THEN "" ELSE value
             r     == [f EXCEPT !.page = page, !.loading = TRUE, !.term = term,
                                !.shown = TRUE, !.close = @ \/ ~b.shown,
                                !.lastSearchValue = value, !.lastResultsPage = page]
  <2>1. Search(b) = r
    BY <1>3 DEF Search
  <2>2. value \in Texts /\ term \in Texts
    BY TextAssumption DEF Boxes
  <2>3. page \in Pages
    BY DEF ResultsPage, Pages
  <2>4. page \in Content => term = value
    BY ContentAssumption
  <2> HIDE DEF value, page, term, f
  <2>5. r \in Boxes
    BY <1>1, <2>2, <2>3 DEF Boxes
  <2>6. /\ r.hides = f.hides /\ r.searchIndex = f.searchIndex /\ r.strays = f.strays
        /\ r.active = f.active /\ r.field = f.field /\ r.shown
    BY <1>1 DEF Boxes
  <2>7. Agrees(b, l) => Agrees(r, l)
    BY <1>1, <2>4 DEF Boxes, Agrees
  <2> QED
    BY <1>1, <2>1, <2>5, <2>6, <2>7
<1> QED
  BY <1>2, <1>3

\* What the last part of OnSearchFieldChange leaves.
LEMMA FieldChangedFacts ==
  ASSUME NEW b \in Boxes, NEW l
  PROVE  LET a == FieldChanged(b)
         IN  a \in Boxes /\ (Agrees(b, l) => Agrees(a, l))
             /\ a.strays = b.strays /\ a.hides = b.hides /\ a.searchIndex = b.searchIndex
             /\ a.active = b.active /\ a.field = b.field
             /\ (b.shown => a.shown \/ Squeezed[b.field] = "")
<1> DEFINE value == Squeezed[b.field]
<1>1. CASE value = b.lastSearchValue
  BY <1>1 DEF FieldChanged
<1>2. CASE value # b.lastSearchValue /\ value # ""
  <2>1. FieldChanged(b) = StartTimer(b)
    BY <1>2 DEF FieldChanged
  <2>2. StartTimer(b).hides = b.hides
    BY DEF StartTimer, Boxes
  <2>3. /\ StartTimer(b) \in Boxes /\ (Agrees(b, l) => Agrees(StartTimer(b), l))
        /\ StartTimer(b).strays = b.strays /\ StartTimer(b).searchIndex = b.searchIndex
        /\ StartTimer(b).shown = b.shown
        /\ StartTimer(b).active = b.active /\ StartTimer(b).field = b.field
    BY TimerFacts
  <2> QED
    BY <2>1, <2>2, <2>3
<1>3. CASE value # b.lastSearchValue /\ value = ""
  <2> DEFINE h == HideResults(b)
             r == [h EXCEPT !.lastSearchValue = ""]
  <2>1. FieldChanged(b) = r
    BY <1>3 DEF FieldChanged
  <2>2. /\ h \in Boxes /\ (Agrees(b, l) => Agrees(h, l)) /\ SameTimers(h, b)
        /\ h.searchIndex = b.searchIndex /\ ~h.shown /\ h.active = b.active /\ h.field = b.field
    BY HideResultsFacts
  <2> HIDE DEF h
  <2>3. r \in Boxes
    BY <2>2, TextsFacts DEF Boxes
  <2>4. /\ SameTimers(r, h) /\ r.searchIndex = h.searchIndex /\ ~r.shown
        /\ r.active = h.active /\ r.field = h.field
        /\ (Agrees(h, l) => Agrees(r, l))
    BY <2>2 DEF Boxes, SameTimers, Agrees
  <2> QED
    BY <1>3, <2>1, <2>2, <2>3, <2>4 DEF SameTimers
<1> QED
  BY <1>1, <1>2, <1>3

LEMMA OnSelectItemFacts ==
  ASSUME NEW b \in Boxes, NEW l, NEW id \in Nat
  PROVE  LET a == OnSelectItem(b, id)
         IN  a \in Boxes /\ (Agrees(b, l) => Agrees(a, l))
             /\ a.hides = b.hides /\ a.searchIndex = id
             /\ a.strays \in {b.strays, IF b.timer THEN b.strays + 1 ELSE b.strays}
             /\ a.active = b.active /\ a.field = b.field
             /\ (b.shown => a.shown)
<1> DEFINE c == [b EXCEPT !.searchIndex = id]
<1>1. c \in Boxes
  BY DEF Boxes
<1>2. /\ (Agrees(b, l) => Agrees(c, l)) /\ c.hides = b.hides /\ c.searchIndex = id
      /\ c.strays = b.strays /\ c.timer = b.timer
      /\ c.active = b.active /\ c.field = b.field /\ c.shown = b.shown
  BY DEF Boxes, Agrees
<1>3. OnSelectItem(b, id) = IF SearchesAtOnce(c) THEN Search(c) ELSE c
  BY DEF OnSelectItem
<1> HIDE DEF c
<1>4. CASE SearchesAtOnce(c)
  BY <1>1, <1>2, <1>3, <1>4, SearchFacts
<1>5. CASE ~SearchesAtOnce(c)
  BY <1>1, <1>2, <1>3, <1>5
<1> QED
  BY <1>4, <1>5

LEMMA FocusMovesFacts ==
  ASSUME NEW b \in Boxes, NEW l, NEW p
  PROVE  LET a == FocusMoves(b, p)
         IN  a \in Boxes /\ (Agrees(b, l) => Agrees(a, l))
             /\ SameTimers(a, b) /\ a.searchIndex = b.searchIndex /\ a.shown = b.shown
             /\ ((focus = Field => b.active) /\ p = Field => a.active)
             /\ (focus # Field /\ p # Field => a = b)
             /\ (b.active /\ b.shown => a.active)
BY ActivateFacts DEF FocusMoves, SameTimers

LEMMA RunningTimers ==
  ASSUME NEW b \in Boxes
  PROVE  /\ KillTimer(b).hides = b.hides /\ ~KillTimer(b).timer
         /\ CloseSelectionWindow(b).hides = b.hides
         /\ OnSearchSelectShow(b).hides = (IF b.hides > 0 THEN b.hides - 1 ELSE 0)
         /\ OnSearchSelectHide(b).hides = b.hides + 1
<1>1. /\ KillTimer(b).hides = b.hides /\ ~KillTimer(b).timer
      /\ CloseSelectionWindow(b).hides = b.hides
  BY DEF KillTimer, CloseSelectionWindow, Boxes
<1>2. OnSearchSelectShow(b).hides = (IF b.hides > 0 THEN b.hides - 1 ELSE 0)
  BY DEF OnSearchSelectShow, Boxes
<1>3. OnSearchSelectHide(b).hides = b.hides + 1
  BY DEF OnSearchSelectHide, Boxes
<1> QED
  BY <1>1, <1>2, <1>3

-----------------------------------------------------------------------------
\* Where the arrow keys lead, for any rows of which consecutive ones are
\* displayed.

Consecutive(V) == \A r \in Rows : (\E a, b \in V : a <= r /\ r <= b) => r \in V

ResultsOK == visible \subseteq Rows /\ open \subseteq Rows /\ Consecutive(visible)

LEMMA RowsFacts ==
  /\ Rows \subseteq Nat
  /\ \A r \in Rows : Children[r] \in Nat
  /\ \A r, s \in Rows : r < s => r + 1 \in Rows /\ s - 1 \in Rows
<1>1. Cardinality(Rows) \in Nat
  BY RowAssumption, FS_CardinalityType
<1> QED
  BY <1>1, RowAssumption

LEMMA LeastExists ==
  ASSUME NEW S \in SUBSET Nat, S # {}
  PROVE  \E x \in S : \A y \in S : x <= y
<1> DEFINE R == {ss \in Nat \X Nat : ss[1] < ss[2]}
<1>1. IsWellFoundedOn(R, Nat)
  <2>1. R = OpToRel(<, Nat)
    BY Zenon DEF OpToRel
  <2> QED
    BY <2>1, NatLessThanWellFounded, Zenon
<1>2. PICK x \in S : \A y \in S : ~(<<y, x>> \in R)
  BY <1>1, WFMin, Zenon
<1>3. ASSUME NEW y \in S PROVE x <= y
  <2>1. <<y, x>> \in Nat \X Nat
    OBVIOUS
  <2>2. ~(<<y, x>>[1] < <<y, x>>[2])
    BY <1>2, <2>1, Zenon
  <2> QED
    BY <2>2
<1> QED
  BY <1>3

LEMMA MinIs ==
  ASSUME NEW S \in SUBSET Int, NEW m \in S, \A y \in S : m <= y
  PROVE  Min(S) = m
<1>1. \E x \in S : \A y \in S : x <= y
  OBVIOUS
<1>2. Min(S) = CHOOSE x \in S : \A y \in S : x <= y
  BY DEF Min
<1>3. Min(S) \in S /\ \A y \in S : Min(S) <= y
  BY <1>1, <1>2
<1>4. Min(S) \in Int /\ m \in Int
  BY <1>3
<1>5. Min(S) <= m /\ m <= Min(S)
  BY <1>3
<1> QED
  BY <1>4, <1>5

LEMMA MaxIs ==
  ASSUME NEW S \in SUBSET Int, NEW m \in S, \A y \in S : m >= y
  PROVE  Max(S) = m
<1>1. \E x \in S : \A y \in S : x >= y
  OBVIOUS
<1>2. Max(S) = CHOOSE x \in S : \A y \in S : x >= y
  BY DEF Max
<1>3. Max(S) \in S /\ \A y \in S : Max(S) >= y
  BY <1>1, <1>2
<1>4. Max(S) \in Int /\ m \in Int
  BY <1>3
<1>5. Max(S) >= m /\ m >= Max(S)
  BY <1>3
<1> QED
  BY <1>4, <1>5

LEMMA RowsFromFacts ==
  ASSUME NEW n, NEW s
  PROVE  s \in RowsFrom(n) <=> s \in visible /\ s >= n
BY DEF RowsFrom

LEMMA RowsUpToFacts ==
  ASSUME NEW n, NEW s
  PROVE  s \in RowsUpTo(n) <=> s \in visible /\ s <= n
BY DEF RowsUpTo

LEMMA DisplayedIsLinks ==
  ASSUME ResultsOK
  PROVE  Displayed \subseteq Links
BY DEF ResultsOK, Displayed, Links

LEMMA NavNextDisplayed ==
  ASSUME ResultsOK, NEW n \in Int, RowsFrom(n) # {}
  PROVE  NavNext(n) \in Displayed
<1>1. RowsFrom(n) \in SUBSET Nat
  BY RowsFacts DEF RowsFrom, ResultsOK
<1>2. PICK m \in RowsFrom(n) : \A y \in RowsFrom(n) : m <= y
  BY <1>1, LeastExists
<1>3. Min(RowsFrom(n)) = m
  BY <1>1, <1>2, MinIs
<1> QED
  BY <1>2, <1>3 DEF NavNext, RowsFrom, Displayed

\* A link that is displayed is that of a visible row or of a child of one.
RowShown(p) == \E r \in visible : p = Row(r)
ChildShown(p) ==
  \E r \in visible \cap open : \E c \in 0 .. (Children[r] - 1) : p = Child(r, c)

LEMMA DisplayedFacts ==
  /\ \A p \in Displayed : RowShown(p) \/ ChildShown(p)
  /\ \A p : RowShown(p) \/ ChildShown(p) => p \in Displayed
BY DEF Displayed, ChildrenOf, RowShown, ChildShown

\* The row below a visible one, when it has visible rows below it.
LEMMA NextRowFacts ==
  ASSUME ResultsOK, NEW p, p.row \in visible
  PROVE  \/ NextRow(p) = p /\ \A s \in visible : s <= p.row
         \/ NextRow(p) = Row(p.row + 1) /\ p.row + 1 \in visible
<1> DEFINE r == p.row
<1>1. r \in Nat /\ visible \subseteq Nat
  BY RowsFacts DEF ResultsOK
<1>2. CASE RowsFrom(r + 1) = {}
  BY <1>1, <1>2 DEF NextRow, RowsFrom
<1>3. CASE RowsFrom(r + 1) # {}
  <2>1. PICK s \in visible : s >= r + 1
    BY <1>3 DEF RowsFrom
  <2>2. r + 1 \in Rows
    BY <1>1, <2>1, RowsFacts DEF ResultsOK
  <2>3. r + 1 \in visible
    BY <1>1, <2>1, <2>2 DEF ResultsOK, Consecutive
  <2>8. RowsFrom(r + 1) \subseteq visible
    BY RowsFromFacts
  <2>9. visible \subseteq Int
    BY <1>1
  <2>5. RowsFrom(r + 1) \in SUBSET Int
    BY <2>8, <2>9, Zenon
  <2>6. r + 1 \in RowsFrom(r + 1)
    BY <1>1, <2>3, RowsFromFacts
  <2>7. \A y \in RowsFrom(r + 1) : r + 1 <= y
    BY RowsFromFacts
  <2>4. Min(RowsFrom(r + 1)) = r + 1
    BY <2>5, <2>6, <2>7, MinIs
  <2> QED
    BY <1>3, <2>3, <2>4 DEF NextRow, NavNext
<1> QED
  BY <1>2, <1>3

\* Down: to the next link, or nowhere from the last one.
DownIsNext(p) ==
  \/ DownFrom(p) = p /\ \A q \in Displayed : ~Above(p, q)
  \/ /\ DownFrom(p) \in Displayed /\ Above(p, DownFrom(p))
     /\ \A q \in Displayed : Above(p, q) => q = DownFrom(p) \/ Above(DownFrom(p), q)

LEMMA DownFacts ==
  ASSUME ResultsOK, NEW p \in Displayed
  PROVE  DownIsNext(p)
<1>0. visible \subseteq Nat /\ \A r \in visible : Children[r] \in Nat
  BY RowsFacts DEF ResultsOK
<1>1. CASE RowShown(p)
  <2>1. PICK r \in visible : p = Row(r)
    BY <1>1 DEF RowShown
  <2>2. p.at = "row" /\ p.row = r
    BY <2>1 DEF Row
  <2>3. CASE ChildrenShown(r)
    <3>1. DownFrom(p) = Child(r, 0)
      BY <2>2, <2>3 DEF DownFrom, DownFromRow
    <3>2. Child(r, 0) \in Displayed
      BY <1>0, <2>3, DisplayedFacts DEF ChildrenShown, HasChildren, ChildShown
    <3>3. Above(p, Child(r, 0))
      BY <1>0, <2>2 DEF Above, Rank, Child
    <3>4. ASSUME NEW q \in Displayed, Above(p, q)
          PROVE  q = Child(r, 0) \/ Above(Child(r, 0), q)
      BY <1>0, <2>2, <3>4, DisplayedFacts DEF Above, Rank, Child, Row, RowShown, ChildShown
    <3> QED
      BY <3>1, <3>2, <3>3, <3>4 DEF DownIsNext
  <2>4. CASE ~ChildrenShown(r)
    <3>1. DownFrom(p) = NextRow(p)
      BY <2>2, <2>4 DEF DownFrom, DownFromRow
    <3>2. ASSUME NEW q \in Displayed, Above(p, q)
          PROVE  q.row > r /\ q.row \in visible
      BY <1>0, <2>2, <2>4, <3>2, DisplayedFacts
         DEF Above, Rank, Child, Row, RowShown, ChildShown, ChildrenShown, HasChildren
    <3>3. CASE NextRow(p) = p /\ \A s \in visible : s <= p.row
      <4>1. ASSUME NEW q \in Displayed, Above(p, q) PROVE FALSE
        <5>1. q.row > r /\ q.row \in visible
          BY <3>2, <4>1
        <5>2. q.row \in Nat /\ r \in Nat
          BY <1>0, <5>1
        <5>3. q.row <= r
          BY <2>2, <3>3, <5>1
        <5> QED
          BY <5>1, <5>2, <5>3
      <4> QED
        BY <3>1, <3>3, <4>1 DEF DownIsNext
    <3>4. CASE NextRow(p) = Row(p.row + 1) /\ p.row + 1 \in visible
      <4>1. Row(r + 1) \in Displayed /\ Above(p, Row(r + 1))
        BY <1>0, <2>2, <3>4, DisplayedFacts DEF RowShown, Above, Row
      <4>2. ASSUME NEW q \in Displayed, Above(p, q)
            PROVE  q = Row(r + 1) \/ Above(Row(r + 1), q)
        BY <1>0, <3>2, <4>2, DisplayedFacts DEF Above, Rank, Child, Row, RowShown, ChildShown
      <4> QED
        BY <2>2, <3>1, <3>4, <4>1, <4>2 DEF DownIsNext
    <3> QED
      BY <2>2, <3>3, <3>4, NextRowFacts
  <2> QED
    BY <2>3, <2>4
<1>2. CASE ChildShown(p)
  <2>0. PICK r \in visible \cap open : \E c \in 0 .. (Children[r] - 1) : p = Child(r, c)
    BY <1>2 DEF ChildShown
  <2>1. PICK c \in 0 .. (Children[r] - 1) : p = Child(r, c)
    BY <2>0
  <2>2. p.at = "child" /\ p.row = r /\ p.child = c /\ c \in Nat
    BY <1>0, <2>1 DEF Child
  <2>3. CASE c + 1 < Children[r]
    <3>1. DownFrom(p) = Child(r, c + 1)
      BY <2>2, <2>3 DEF DownFrom, DownFromChild
    <3>2. Child(r, c + 1) \in Displayed
      BY <1>0, <2>2, <2>3, DisplayedFacts DEF ChildShown
    <3>3. Above(p, Child(r, c + 1))
      BY <1>0, <2>2 DEF Above, Rank, Child
    <3>4. ASSUME NEW q \in Displayed, Above(p, q)
          PROVE  q = Child(r, c + 1) \/ Above(Child(r, c + 1), q)
      BY <1>0, <2>2, <3>4, DisplayedFacts DEF Above, Rank, Child, Row, RowShown, ChildShown
    <3> QED
      BY <3>1, <3>2, <3>3, <3>4 DEF DownIsNext
  <2>4. CASE ~(c + 1 < Children[r])
    <3>1. DownFrom(p) = NextRow(p)
      BY <2>2, <2>4 DEF DownFrom, DownFromChild
    <3>2. ASSUME NEW q \in Displayed, Above(p, q)
          PROVE  q.row > r /\ q.row \in visible
      BY <1>0, <2>2, <2>4, <3>2, DisplayedFacts
         DEF Above, Rank, Child, Row, RowShown, ChildShown
    <3>3. CASE NextRow(p) = p /\ \A s \in visible : s <= p.row
      <4>1. ASSUME NEW q \in Displayed, Above(p, q) PROVE FALSE
        <5>1. q.row > r /\ q.row \in visible
          BY <3>2, <4>1
        <5>2. q.row \in Nat /\ r \in Nat
          BY <1>0, <5>1
        <5>3. q.row <= r
          BY <2>2, <3>3, <5>1
        <5> QED
          BY <5>1, <5>2, <5>3
      <4> QED
        BY <3>1, <3>3, <4>1 DEF DownIsNext
    <3>4. CASE NextRow(p) = Row(p.row + 1) /\ p.row + 1 \in visible
      <4>1. Row(r + 1) \in Displayed /\ Above(p, Row(r + 1))
        BY <1>0, <2>2, <3>4, DisplayedFacts DEF RowShown, Above, Row
      <4>2. ASSUME NEW q \in Displayed, Above(p, q)
            PROVE  q = Row(r + 1) \/ Above(Row(r + 1), q)
        BY <1>0, <3>2, <4>2, DisplayedFacts DEF Above, Rank, Child, Row, RowShown, ChildShown
      <4> QED
        BY <2>2, <3>1, <3>4, <4>1, <4>2 DEF DownIsNext
    <3> QED
      BY <2>2, <3>3, <3>4, NextRowFacts
  <2> QED
    BY <2>3, <2>4
<1> QED
  BY <1>1, <1>2, DisplayedFacts

\* Up: to the link before, or to the search field from the first one.
UpIsPrevious(q) ==
  \/ UpFrom(q) = FieldOfParent /\ \A p \in Displayed : ~Above(p, q)
  \/ /\ UpFrom(q) \in Displayed /\ Above(UpFrom(q), q)
     /\ \A p \in Displayed : Above(p, q) => p = UpFrom(q) \/ Above(p, UpFrom(q))

LEMMA UpFacts ==
  ASSUME ResultsOK, NEW q \in Displayed
  PROVE  UpIsPrevious(q)
<1>0. visible \subseteq Nat /\ \A r \in visible : Children[r] \in Nat
  BY RowsFacts DEF ResultsOK
<1>1. CASE RowShown(q)
  <2>1. PICK r \in visible : q = Row(r)
    BY <1>1 DEF RowShown
  <2>2. q.at = "row" /\ q.row = r /\ r \in Nat
    BY <1>0, <2>1 DEF Row
  <2>3. UpFrom(q) = UpFromRow(r)
    BY <2>2 DEF UpFrom
  <2>4. ASSUME NEW p \in Displayed, Above(p, q)
        PROVE  p.row < r /\ p.row \in visible
    BY <1>0, <2>2, <2>4, DisplayedFacts DEF Above, Rank, Child, Row, RowShown, ChildShown
  <2>5. CASE RowsUpTo(r - 1) = {}
    <3>1. UpFrom(q) = FieldOfParent
      BY <2>3, <2>5 DEF UpFromRow
    <3>2. \A p \in Displayed : ~Above(p, q)
      <4> SUFFICES ASSUME NEW p \in Displayed, Above(p, q) PROVE FALSE
        OBVIOUS
      <4>1. p.row < r /\ p.row \in visible
        BY <2>4
      <4>3. p.row \in Nat
        BY <1>0, <4>1
      <4>4. p.row <= r - 1
        BY <2>2, <4>1, <4>3
      <4>2. p.row \in RowsUpTo(r - 1)
        BY <4>1, <4>4, RowsUpToFacts
      <4> QED
        BY <2>5, <4>2
    <3> QED
      BY <3>1, <3>2 DEF UpIsPrevious
  <2>6. CASE RowsUpTo(r - 1) # {}
    <3>1. PICK s \in visible : s <= r - 1
      BY <2>6 DEF RowsUpTo
    <3>2. r - 1 \in Rows
      BY <1>0, <2>2, <3>1, RowsFacts DEF ResultsOK
    <3>3. r - 1 \in visible
      BY <1>0, <2>2, <3>1, <3>2 DEF ResultsOK, Consecutive
    <3>10. RowsUpTo(r - 1) \subseteq visible
      BY RowsUpToFacts
    <3>11. visible \subseteq Int
      BY <1>0
    <3>0. RowsUpTo(r - 1) \in SUBSET Int
      BY <3>10, <3>11, Zenon
    <3>8. r - 1 \in RowsUpTo(r - 1)
      BY <1>0, <2>2, <3>3, RowsUpToFacts
    <3>9. \A y \in RowsUpTo(r - 1) : r - 1 >= y
      BY <1>0, <2>2, <3>0, RowsUpToFacts
    <3>4. Max(RowsUpTo(r - 1)) = r - 1
      BY <3>0, <3>8, <3>9, MaxIs
    <3>5. NavPrev(r - 1) = Row(r - 1) /\ NavPrev(r - 1).row = r - 1
      BY <3>4 DEF NavPrev, Row
    <3>6. CASE ChildrenShown(r - 1)
      <4> DEFINE d == Child(r - 1, Children[r - 1] - 1)
      <4>1. UpFrom(q) = d
        BY <2>3, <2>6, <3>5, <3>6 DEF UpFromRow, ChildrenShown
      <4>2. d \in Displayed
        BY <1>0, <3>3, <3>6, DisplayedFacts DEF ChildShown, ChildrenShown, HasChildren
      <4>3. Above(d, q)
        BY <1>0, <2>2 DEF Above, Child
      <4>4. ASSUME NEW p \in Displayed, Above(p, q)
            PROVE  p = d \/ Above(p, d)
        <5>1. d.row = r - 1 /\ d.at = "child" /\ Rank(d) = Children[r - 1]
          BY <1>0, <3>3 DEF Child, Rank
        <5>0. p.row < r /\ p.row \in visible
          BY <2>4, <4>4
        <5>6. p.row \in Nat /\ r \in Nat
          BY <1>0, <2>2, <5>0
        <5>2. p.row <= r - 1 /\ p.row \in Nat
          BY <5>0, <5>6
        <5>3. CASE RowShown(p)
          BY <1>0, <2>2, <3>3, <3>6, <5>1, <5>2, <5>3
             DEF Above, Rank, Row, RowShown, ChildrenShown, HasChildren
        <5>4. CASE ChildShown(p)
          <6>1. PICK u \in visible \cap open : \E c \in 0 .. (Children[u] - 1) : p = Child(u, c)
            BY <5>4 DEF ChildShown
          <6>2. PICK c \in 0 .. (Children[u] - 1) : p = Child(u, c)
            BY <6>1
          <6>3. p.row = u /\ Rank(p) = c + 1
            BY <6>2 DEF Child, Rank
          <6>4. CASE u = r - 1 /\ c = Children[u] - 1
            BY <6>2, <6>4
          <6>5. CASE ~(u = r - 1 /\ c = Children[u] - 1)
            BY <1>0, <2>2, <3>3, <5>1, <5>2, <6>3, <6>5 DEF Above
          <6> QED
            BY <6>4, <6>5
        <5> QED
          BY <5>3, <5>4, DisplayedFacts
      <4> QED
        BY <4>1, <4>2, <4>3, <4>4 DEF UpIsPrevious
    <3>7. CASE ~ChildrenShown(r - 1)
      <4>1. UpFrom(q) = Row(r - 1)
        BY <2>3, <2>6, <3>5, <3>7 DEF UpFromRow
      <4>2. Row(r - 1) \in Displayed /\ Above(Row(r - 1), q)
        BY <1>0, <2>2, <3>3, DisplayedFacts DEF RowShown, Above, Row
      <4>3. ASSUME NEW p \in Displayed, Above(p, q)
            PROVE  p = Row(r - 1) \/ Above(p, Row(r - 1))
        BY <1>0, <2>2, <2>4, <3>3, <3>7, <4>3, DisplayedFacts
           DEF Above, Rank, Child, Row, RowShown, ChildShown, ChildrenShown, HasChildren
      <4> QED
        BY <4>1, <4>2, <4>3 DEF UpIsPrevious
    <3> QED
      BY <3>6, <3>7
  <2> QED
    BY <2>5, <2>6
<1>2. CASE ChildShown(q)
  <2>0. PICK r \in visible \cap open : \E c \in 0 .. (Children[r] - 1) : q = Child(r, c)
    BY <1>2 DEF ChildShown
  <2>1. PICK c \in 0 .. (Children[r] - 1) : q = Child(r, c)
    BY <2>0
  <2>2. q.at = "child" /\ q.row = r /\ q.child = c /\ c \in Nat /\ r \in Nat
    BY <1>0, <2>1 DEF Child
  <2>3. CASE c > 0
    <3>1. UpFrom(q) = Child(r, c - 1)
      BY <2>2, <2>3 DEF UpFrom, UpFromChild
    <3>2. Child(r, c - 1) \in Displayed
      BY <1>0, <2>2, <2>3, DisplayedFacts DEF ChildShown
    <3>3. Above(Child(r, c - 1), q)
      BY <1>0, <2>2 DEF Above, Rank, Child
    <3>4. ASSUME NEW p \in Displayed, Above(p, q)
          PROVE  p = Child(r, c - 1) \/ Above(p, Child(r, c - 1))
      <4>1. Child(r, c - 1).row = r /\ Rank(Child(r, c - 1)) = c /\ Rank(q) = c + 1
        BY <2>2 DEF Child, Rank
      <4>2. CASE RowShown(p)
        BY <1>0, <2>2, <2>3, <3>4, <4>1, <4>2 DEF Above, Rank, Row, RowShown
      <4>3. CASE ChildShown(p)
        <5>1. PICK s \in visible \cap open : \E e \in 0 .. (Children[s] - 1) : p = Child(s, e)
          BY <4>3 DEF ChildShown
        <5>2. PICK e \in 0 .. (Children[s] - 1) : p = Child(s, e)
          BY <5>1
        <5>3. p.row = s /\ Rank(p) = e + 1
          BY <5>2 DEF Child, Rank
        <5>4. CASE s = r /\ e = c - 1
          BY <5>2, <5>4
        <5>5. CASE ~(s = r /\ e = c - 1)
          BY <1>0, <2>2, <3>4, <4>1, <5>3, <5>5 DEF Above
        <5> QED
          BY <5>4, <5>5
      <4> QED
        BY <4>2, <4>3, DisplayedFacts
    <3> QED
      BY <3>1, <3>2, <3>3, <3>4 DEF UpIsPrevious
  <2>4. CASE c = 0
    <3>1. UpFrom(q) = Row(r)
      BY <2>2, <2>4 DEF UpFrom, UpFromChild
    <3>2. Row(r) \in Displayed /\ Above(Row(r), q)
      BY <1>0, <2>2, <2>4, DisplayedFacts DEF RowShown, Above, Rank, Row
    <3>3. ASSUME NEW p \in Displayed, Above(p, q)
          PROVE  p = Row(r) \/ Above(p, Row(r))
      BY <1>0, <2>2, <2>4, <3>3, DisplayedFacts DEF Above, Rank, Child, Row, RowShown, ChildShown
    <3> QED
      BY <3>1, <3>2, <3>3 DEF UpIsPrevious
  <2> QED
    BY <2>2, <2>3, <2>4
<1> QED
  BY <1>1, <1>2, DisplayedFacts

LEMMA AboveFacts ==
  ASSUME ResultsOK, NEW p \in Displayed, NEW q \in Displayed
  PROVE  ~(Above(p, q) /\ Above(q, p)) /\ ~Above(p, p)
<1>0. visible \subseteq Nat /\ \A r \in visible : Children[r] \in Nat
  BY RowsFacts DEF ResultsOK
<1>1. p.row \in Nat /\ q.row \in Nat /\ Rank(p) \in Nat /\ Rank(q) \in Nat
  BY <1>0, DisplayedFacts DEF Rank, Child, Row, RowShown, ChildShown
<1> QED
  BY <1>1 DEF Above

LEMMA ConsecutiveRowsNavigable ==
  ASSUME ResultsOK
  PROVE  NavFollowsDisplay
<1> SUFFICES ASSUME NEW p \in Displayed
             PROVE  /\ \A q \in Displayed : Adjacent(p, q) => DownFrom(p) = q /\ UpFrom(q) = p
                    /\ (\A q \in Displayed : ~Above(q, p)) => UpFrom(p) = FieldOfParent
                    /\ (\A q \in Displayed : ~Above(p, q)) => DownFrom(p) = p
  BY DEF NavFollowsDisplay
<1>1. ASSUME NEW q \in Displayed, Adjacent(p, q) PROVE DownFrom(p) = q /\ UpFrom(q) = p
  BY <1>1, DownFacts, UpFacts DEF Adjacent, DownIsNext, UpIsPrevious
<1>2. (\A q \in Displayed : ~Above(q, p)) => UpFrom(p) = FieldOfParent
  BY UpFacts DEF UpIsPrevious
<1>3. (\A q \in Displayed : ~Above(p, q)) => DownFrom(p) = p
  BY DownFacts DEF DownIsNext
<1> QED
  BY <1>1, <1>2, <1>3

-----------------------------------------------------------------------------
\* The invariant: what the box is to the element f that has the focus and to
\* the mouse, and what the frame is.

BoxFits(b, f, m) ==
  /\ b \in Boxes /\ Agrees(b, loaded) /\ (f = Field => b.active)
  /\ b.searchIndex <= sections /\ b.strays <= MaxStrays /\ b.hides <= 1
  /\ m => b.hides = 0
  /\ f \in Links => b.shown \/ (b.active /\ Squeezed[b.field] = "")

KeysOK ==
  /\ lastKey \in Keys \cup {NoKey} /\ repeatOn \in BOOLEAN
  /\ held \in Keys \cup {NoKey} /\ mouseOver \in BOOLEAN

FrameOK ==
  /\ sections \in SectionCounts /\ loaded \in Pages /\ ResultsOK
  /\ focus \in Displayed \cup {Field, Menu, Nothing}

IInv == BoxFits(box, focus, mouseOver) /\ KeysOK /\ FrameOK

LEMMA NotLinks ==
  /\ Field \notin Links /\ Menu \notin Links /\ Nothing \notin Links
  /\ Field # Menu /\ Field # Nothing /\ Menu # Nothing
<1>1. ASSUME NEW p \in Links PROVE p.at \in {"row", "child"}
  BY DEF Links, ChildrenOf, Row, Child
<1>2. Field.at = "field" /\ Menu.at = "menu" /\ Nothing.at = "nothing"
  BY DEF Field, FieldOfParent, Menu, Nothing
<1> QED
  BY <1>1, <1>2

LEMMA Initially == Init => IInv
<1> SUFFICES ASSUME Init PROVE IInv
  OBVIOUS
<1>1. /\ InitialBox \in Boxes /\ Agrees(InitialBox, NoPage)
      /\ InitialBox.strays = 0 /\ InitialBox.hides = 0 /\ ~InitialBox.searchActive
  BY TextsFacts, PagesFacts DEF InitialBox, Boxes, Agrees
<1> DEFINE c == [InitialBox EXCEPT !.searchIndex = 0]
<1>2. /\ c \in Boxes /\ Agrees(c, NoPage) /\ c.searchIndex = 0
      /\ c.strays = 0 /\ c.hides = 0 /\ ~c.searchActive
  BY <1>1 DEF Boxes, Agrees
<1>3. box = c
  BY <1>2 DEF Init, OnSelectItem, SearchesAtOnce
<1>4. focus = Nothing /\ loaded = NoPage /\ sections \in SectionCounts
  BY DEF Init
<1>5. sections \in Nat /\ MaxStrays \in Nat
  BY <1>4, PageAssumption
<1> HIDE DEF c
<1>6. BoxFits(box, focus, mouseOver)
  <2>1. box \in Boxes /\ Agrees(box, loaded)
    BY <1>2, <1>3, <1>4
  <2>2. focus # Field /\ focus \notin Links
    BY <1>4, NotLinks
  <2>3. box.searchIndex <= sections /\ box.strays <= MaxStrays /\ box.hides = 0
    BY <1>2, <1>3, <1>5
  <2>4. box.hides <= 1
    BY <2>3
  <2> QED
    BY <2>1, <2>2, <2>3, <2>4, Zenon DEF BoxFits
<1>7. KeysOK
  BY DEF Init, EmptyPage, KeysOK
<1>8. FrameOK
  BY PagesFacts DEF Init, EmptyPage, FrameOK, ResultsOK, Consecutive
<1> QED
  BY <1>6, <1>7, <1>8 DEF IInv

-----------------------------------------------------------------------------
\* The methods keep what the box is to the focus f and the mouse m.

LEMMA FitsWithoutFocus ==
  ASSUME NEW b, NEW f, NEW m, BoxFits(b, f, m)
  PROVE  BoxFits(b, Nothing, m)
BY NotLinks, Zenon DEF BoxFits

LEMMA TimerFits ==
  ASSUME NEW b, NEW f, NEW m, BoxFits(b, f, m),
         NEW a \in {CloseSelectionWindow(b), KillTimer(b)}
  PROVE  BoxFits(a, f, m)
<1>1. b \in Boxes
  BY DEF BoxFits
<1>2. /\ a \in Boxes /\ (Agrees(b, loaded) => Agrees(a, loaded))
      /\ a.strays = b.strays /\ a.searchIndex = b.searchIndex
      /\ a.shown = b.shown /\ a.active = b.active /\ a.field = b.field
  BY <1>1, TimerFacts
<1>3. a.hides = b.hides
  BY <1>1, RunningTimers
<1> QED
  BY <1>2, <1>3, Zenon DEF BoxFits

LEMMA StartsFits ==
  ASSUME NEW b, NEW f, NEW m, BoxFits(b, f, m), f \in Links => b.active
  PROVE  BoxFits(FieldChanged(b), f, m)
<1> DEFINE a == FieldChanged(b)
<1>1. b \in Boxes
  BY DEF BoxFits
<1>2. /\ a \in Boxes /\ (Agrees(b, loaded) => Agrees(a, loaded))
      /\ a.strays = b.strays /\ a.hides = b.hides /\ a.searchIndex = b.searchIndex
      /\ a.active = b.active /\ a.field = b.field
      /\ (b.shown => a.shown \/ Squeezed[b.field] = "")
  BY <1>1, FieldChangedFacts
<1> HIDE DEF a
<1>4. BoxFits(a, f, m)
  BY <1>2, Zenon DEF BoxFits
<1> QED
  BY <1>4 DEF a

LEMMA SearchFits ==
  ASSUME NEW b, NEW f, NEW m, BoxFits(b, f, m), b.timer => b.strays < MaxStrays
  PROVE  BoxFits(Search(b), f, m)
<1> DEFINE a == Search(b)
<1>1. b \in Boxes /\ b.strays <= MaxStrays
  BY DEF BoxFits
<1>2. /\ a \in Boxes /\ (Agrees(b, loaded) => Agrees(a, loaded))
      /\ a.hides = b.hides /\ a.searchIndex = b.searchIndex
      /\ a.active = b.active /\ a.field = b.field /\ (b.shown => a.shown)
      /\ a.strays = IF b.timer THEN b.strays + 1 ELSE b.strays
  BY <1>1, SearchFacts
<1>3. a.strays <= MaxStrays
  BY <1>1, <1>2, PageAssumption DEF Boxes
<1> HIDE DEF a
<1>4. BoxFits(a, f, m)
  BY <1>2, <1>3, Zenon DEF BoxFits
<1> QED
  BY <1>4 DEF a

LEMMA SelectFits ==
  ASSUME NEW b, NEW f, NEW m, BoxFits(b, f, m), b.timer => b.strays < MaxStrays,
         NEW id \in Nat, id <= sections
  PROVE  BoxFits(OnSelectItem(b, id), f, m)
<1> DEFINE a == OnSelectItem(b, id)
<1>1. b \in Boxes /\ b.strays <= MaxStrays
  BY DEF BoxFits
<1>2. /\ a \in Boxes /\ (Agrees(b, loaded) => Agrees(a, loaded))
      /\ a.hides = b.hides /\ a.searchIndex = id
      /\ a.active = b.active /\ a.field = b.field /\ (b.shown => a.shown)
      /\ a.strays \in {b.strays, IF b.timer THEN b.strays + 1 ELSE b.strays}
  BY <1>1, OnSelectItemFacts
<1>3. a.strays <= MaxStrays
  BY <1>1, <1>2, PageAssumption DEF Boxes
<1> HIDE DEF a
<1>4. BoxFits(a, f, m)
  BY <1>2, <1>3, Zenon DEF BoxFits
<1> QED
  BY <1>4 DEF a

LEMMA FocusFits ==
  ASSUME NEW b, NEW m, BoxFits(b, Nothing, m), focus = Field => b.active,
         NEW p, p \in Links => b.shown
  PROVE  BoxFits(FocusMoves(b, p), p, m)
<1> DEFINE a == FocusMoves(b, p)
<1>1. b \in Boxes
  BY DEF BoxFits
<1>2. /\ a \in Boxes /\ (Agrees(b, loaded) => Agrees(a, loaded))
      /\ SameTimers(a, b) /\ a.searchIndex = b.searchIndex /\ a.shown = b.shown
      /\ ((focus = Field => b.active) /\ p = Field => a.active)
  BY <1>1, FocusMovesFacts
<1> HIDE DEF a
<1>3. a.strays = b.strays /\ a.hides = b.hides
  BY <1>2 DEF SameTimers
<1>4. BoxFits(a, p, m)
  BY <1>2, <1>3, Zenon DEF BoxFits
<1> QED
  BY <1>4 DEF a

\* Closing the results and leaving the field, from a focus outside both.
LEMMA HideFits ==
  ASSUME NEW b, NEW m, BoxFits(b, Nothing, m)
  PROVE  BoxFits(HideResults(b), Nothing, m) /\ ~HideResults(b).shown
<1> DEFINE a == HideResults(b)
<1>1. b \in Boxes
  BY DEF BoxFits
<1>2. /\ a \in Boxes /\ (Agrees(b, loaded) => Agrees(a, loaded))
      /\ SameTimers(a, b) /\ a.searchIndex = b.searchIndex /\ ~a.shown
  BY <1>1, HideResultsFacts
<1> HIDE DEF a
<1>3. a.strays = b.strays /\ a.hides = b.hides
  BY <1>2 DEF SameTimers
<1>4. BoxFits(a, Nothing, m)
  BY <1>2, <1>3, NotLinks, Zenon DEF BoxFits
<1> QED
  BY <1>2, <1>4 DEF a

LEMMA ActivateFits ==
  ASSUME NEW b, NEW m, BoxFits(b, Nothing, m)
  PROVE  BoxFits(Activate(b, FALSE), Nothing, m)
<1> DEFINE a == Activate(b, FALSE)
<1>1. b \in Boxes
  BY DEF BoxFits
<1>2. /\ a \in Boxes /\ (Agrees(b, loaded) => Agrees(a, loaded))
      /\ SameTimers(a, b) /\ a.searchIndex = b.searchIndex
  BY <1>1, ActivateFacts
<1> HIDE DEF a
<1>3. a.strays = b.strays /\ a.hides = b.hides
  BY <1>2 DEF SameTimers
<1>4. BoxFits(a, Nothing, m)
  BY <1>2, <1>3, NotLinks, Zenon DEF BoxFits
<1> QED
  BY <1>4 DEF a

LEMMA CloseFits ==
  ASSUME NEW b, NEW m, BoxFits(b, Nothing, m)
  PROVE  BoxFits(CloseResultsWindow(b), Nothing, m)
BY HideFits, ActivateFits, Zenon DEF CloseResultsWindow

LEMMA ForgetFits ==
  ASSUME NEW b, NEW m, BoxFits(b, Nothing, m), ~b.shown
  PROVE  BoxFits([b EXCEPT !.lastSearchValue = ""], Nothing, m)
<1> DEFINE a == [b EXCEPT !.lastSearchValue = ""]
<1>1. b \in Boxes
  BY DEF BoxFits
<1>2. a \in Boxes
  BY <1>1, TextsFacts DEF Boxes
<1>3. /\ a.strays = b.strays /\ a.hides = b.hides /\ a.searchIndex = b.searchIndex
      /\ (Agrees(b, loaded) => Agrees(a, loaded))
  BY <1>1, <1>2 DEF Boxes, Agrees
<1> HIDE DEF a
<1>4. BoxFits(a, Nothing, m)
  BY <1>2, <1>3, NotLinks, Zenon DEF BoxFits
<1> QED
  BY <1>4 DEF a

-----------------------------------------------------------------------------
\* The steps keep the invariant.

\* The frame keeps its rows, and what has the focus then is displayed then.
LEMMA Assembled ==
  ASSUME IInv, UNCHANGED <<sections, loaded, visible>>, open' \subseteq Rows,
         BoxFits(box', focus', mouseOver'), KeysOK',
         focus' \in Displayed' \cup {Field, Menu, Nothing}
  PROVE  IInv'
<1>1. BoxFits(box, focus, mouseOver)'
  BY DEF BoxFits
<1>2. FrameOK'
  BY DEF IInv, FrameOK, ResultsOK, Consecutive
<1> QED
  BY <1>1, <1>2 DEF IInv

LEMMA DisplayedThen ==
  ASSUME visible' = visible
  PROVE  /\ open \subseteq open' => Displayed \subseteq Displayed'
         /\ \A r \in visible : Row(r) \in Displayed'
<1>1. \A r \in visible : Row(r) \in Displayed'
  BY DEF Displayed
<1>2. ASSUME open \subseteq open', NEW p \in Displayed PROVE p \in Displayed'
  <2>1. CASE \E r \in visible : p = Row(r)
    BY <1>1, <2>1
  <2>2. CASE \E r \in visible \cap open : p \in ChildrenOf(r)
    BY <1>2, <2>2 DEF Displayed
  <2> QED
    BY <2>1, <2>2 DEF Displayed
<1> QED
  BY <1>1, <1>2

\* Steps that leave the frame alone.
LEMMA PanelStep ==
  ASSUME IInv, UNCHANGED <<sections, loaded, visible, open>>,
         BoxFits(box', focus', mouseOver'), KeysOK',
         focus' \in Displayed \cup {Field, Menu, Nothing}
  PROVE  IInv'
<1>1. Displayed \subseteq Displayed'
  BY DisplayedThen
<1>2. open' \subseteq Rows
  BY DEF IInv, FrameOK, ResultsOK
<1>3. focus' \in Displayed' \cup {Field, Menu, Nothing}
  BY <1>1
<1> QED
  BY <1>2, <1>3, Assembled

LEMMA InvFacts ==
  ASSUME IInv
  PROVE  /\ BoxFits(box, focus, mouseOver) /\ BoxFits(box, Nothing, mouseOver)
         /\ box \in Boxes /\ (focus = Field => box.active)
         /\ sections \in Nat /\ box.searchIndex \in Nat /\ box.searchIndex <= sections
         /\ focus \in Displayed \cup {Field, Menu, Nothing} /\ Displayed \subseteq Links
         /\ open \subseteq Rows /\ visible \subseteq Rows /\ ResultsOK
<1>1. BoxFits(box, focus, mouseOver)
  BY DEF IInv
<1>2. /\ box \in Boxes /\ (focus = Field => box.active) /\ box.searchIndex <= sections
  BY <1>1, Zenon DEF BoxFits
<1>3. box.searchIndex \in Nat
  BY <1>2 DEF Boxes
<1>4. /\ sections \in Nat /\ ResultsOK /\ focus \in Displayed \cup {Field, Menu, Nothing}
  BY PageAssumption DEF IInv, FrameOK
<1> QED
  BY <1>1, <1>2, <1>3, <1>4, FitsWithoutFocus, DisplayedIsLinks DEF ResultsOK

LEMMA MenuKeyStep ==
  ASSUME IInv, KeysOK', NEW key \in Keys, MenuKeyDown(key),
         UNCHANGED <<sections, mouseOver, loaded>>
  PROVE  IInv'
<1>0. /\ BoxFits(box, Menu, mouseOver) /\ (box.timer => box.strays < MaxStrays)
      /\ focus = Menu /\ visible' = visible /\ open' = open
  BY InvFacts DEF MenuKeyDown, StraysBounded, resultVars
<1>1. CASE MayGoDown(box) /\ box' = OnSelectItem(box, box.searchIndex + 1) /\ UNCHANGED focus
  <2>1. box.searchIndex + 1 \in Nat /\ box.searchIndex + 1 <= sections
    BY <1>1, InvFacts DEF MayGoDown, SelectItemCount
  <2>2. BoxFits(box', focus', mouseOver')
    BY <1>0, <1>1, <2>1, SelectFits
  <2> QED
    BY <1>0, <1>1, <2>2, PanelStep
<1>2. CASE MayGoUp(box) /\ box' = OnSelectItem(box, box.searchIndex - 1) /\ UNCHANGED focus
  <2>1. box.searchIndex - 1 \in Nat /\ box.searchIndex - 1 <= sections
    BY <1>2, InvFacts DEF MayGoUp
  <2>2. BoxFits(box', focus', mouseOver')
    BY <1>0, <1>2, <2>1, SelectFits
  <2> QED
    BY <1>0, <1>2, <2>2, PanelStep
<1>3. CASE ChooseByKey
  <2> DEFINE b == OnSelectItem(box, box.searchIndex)
             c == CloseSelectionWindow(b)
  <2>1. BoxFits(b, Menu, mouseOver)
    BY <1>0, InvFacts, SelectFits
  <2>2. CASE box' = b /\ UNCHANGED focus
    BY <1>0, <2>1, <2>2, PanelStep
  <2>3. CASE focus' = Field /\ box' = FocusMoves(c, Field)
    <3>1. BoxFits(c, Nothing, mouseOver)
      BY <2>1, TimerFits, FitsWithoutFocus
    <3>2. focus # Field
      BY <1>0, NotLinks
    <3> HIDE DEF c
    <3>3. BoxFits(box', Field, mouseOver)
      BY <2>3, <3>1, <3>2, NotLinks, FocusFits
    <3> QED
      BY <1>0, <2>3, <3>3, PanelStep
  <2> QED
    BY <1>3, <2>2, <2>3 DEF ChooseByKey
<1> QED
  BY <1>1, <1>2, <1>3 DEF MenuKeyDown

LEMMA GoToStep ==
  ASSUME IInv, KeysOK', focus \in Links, NEW p, GoTo(p),
         UNCHANGED <<sections, visible, mouseOver, loaded>>
  PROVE  IInv'
<1>1. open' = open /\ focus # Field /\ focus \in Displayed
  BY InvFacts, NotLinks DEF GoTo
<1>2. CASE p = Field
  <2>1. focus' = Field /\ box' = FocusMoves(box, Field)
    BY <1>2 DEF GoTo
  <2>2. BoxFits(box', Field, mouseOver)
    BY <1>1, <2>1, InvFacts, NotLinks, FocusFits
  <2> QED
    BY <1>1, <2>1, <2>2, PanelStep
<1>3. CASE p # Field /\ box.shown /\ p \in Displayed
  <2>1. focus' = p /\ box' = FocusMoves(box, p)
    BY <1>3 DEF GoTo
  <2>2. BoxFits(box', p, mouseOver)
    BY <1>1, <1>3, <2>1, InvFacts, FocusFits
  <2> QED
    BY <1>1, <1>3, <2>1, <2>2, PanelStep
<1>4. CASE p # Field /\ ~(box.shown /\ p \in Displayed)
  <2>1. focus' = focus /\ box' = FocusMoves(box, focus)
    BY <1>4 DEF GoTo
  <2>2. box' = box
    BY <1>1, <2>1, InvFacts, FocusMovesFacts
  <2>3. BoxFits(box', focus', mouseOver')
    BY <2>1, <2>2, InvFacts
  <2> QED
    BY <1>1, <2>1, <2>3, PanelStep
<1> QED
  BY <1>2, <1>3, <1>4

\* Opening and closing the children of the row that has the focus.
LEMMA OpenStep ==
  ASSUME IInv, KeysOK', focus \in Displayed, focus.at = "row",
         open' \in {Opened(focus.row), Closed(focus.row), Toggled(focus.row)},
         UNCHANGED <<sections, visible, mouseOver, loaded, box, focus>>
  PROVE  IInv'
<1>1. RowShown(focus)
  BY DisplayedFacts DEF ChildShown, Child
<1>2. PICK r \in visible : focus = Row(r)
  BY <1>1 DEF RowShown
<1>3. focus.row = r
  BY <1>2 DEF Row
<1>4. open' \subseteq Rows
  BY <1>3, InvFacts DEF Opened, Closed, Toggled
<1>5. focus' \in Displayed'
  BY <1>2, DisplayedThen
<1>6. BoxFits(box', focus', mouseOver')
  BY InvFacts
<1> QED
  BY <1>4, <1>5, <1>6, Assembled

LEMMA NavStep ==
  ASSUME IInv, KeysOK', focus \in Links, NEW key, Nav(key, focus),
         UNCHANGED <<sections, visible, mouseOver, loaded>>
  PROVE  IInv'
<1>0. focus \in Displayed /\ focus # Field
  BY InvFacts, NotLinks
<1>1. CASE GoTo(UpFrom(focus)) \/ GoTo(DownFrom(focus))
  BY <1>1, GoToStep
<1>2. CASE /\ focus.at = "row" /\ UNCHANGED <<box, focus>>
           /\ open' = Opened(focus.row) \/ open' = Closed(focus.row)
  BY <1>0, <1>2, OpenStep
<1>3. CASE LeaveResults
  <2> DEFINE b == CloseResultsWindow(box)
  <2>1. BoxFits(b, Nothing, mouseOver)
    BY InvFacts, CloseFits
  <2>2. focus' = Field /\ open' = open /\ box' = FocusMoves(b, Field)
    BY <1>3 DEF LeaveResults
  <2> HIDE DEF b
  <2>3. BoxFits(box', Field, mouseOver)
    BY <1>0, <2>1, <2>2, NotLinks, FocusFits
  <2> QED
    BY <2>2, <2>3, PanelStep
<1>4. CASE UNCHANGED <<box, focus, open>>
  <2>1. BoxFits(box', focus', mouseOver')
    BY <1>4, InvFacts
  <2> QED
    BY <1>0, <1>4, <2>1, PanelStep
<1> QED
  BY <1>1, <1>2, <1>3, <1>4 DEF Nav

LEMMA FrameKeyDownStep ==
  ASSUME IInv, KeysOK', NEW key \in Keys, FrameKeyDown(key),
         UNCHANGED <<sections, mouseOver, loaded>>
  PROVE  IInv'
<1>1. focus \in Links /\ visible' = visible
  BY DEF FrameKeyDown
<1>2. CASE Nav(Arrow(key), focus)
  BY <1>1, <1>2, NavStep
<1>3. CASE /\ focus.at = "row" /\ open' = Toggled(focus.row)
           /\ UNCHANGED <<box, focus>>
  BY <1>1, <1>3, InvFacts, NotLinks, OpenStep
<1> QED
  BY <1>2, <1>3 DEF FrameKeyDown

\* A step that changes neither the box nor the focus nor the frame's rows.
LEMMA IdleStep ==
  ASSUME IInv, KeysOK', UNCHANGED <<box, focus, sections, visible, open, mouseOver, loaded>>
  PROVE  IInv'
<1>1. BoxFits(box', focus', mouseOver')
  BY InvFacts
<1> QED
  BY <1>1, InvFacts, PanelStep

LEMMA KeyDownStep ==
  ASSUME IInv, NEW key \in Keys, KeyDown(key)
  PROVE  IInv'
<1>1. UNCHANGED <<sections, mouseOver, loaded>> /\ held' = key
  BY DEF KeyDown
<1>2. Arrow(key) \in Keys
  BY DEF Arrow, Keys
<1>3. KeysOK'
  <2>1. lastKey' \in Keys \cup {NoKey} /\ repeatOn' \in BOOLEAN
    BY <1>2 DEF KeyDown, MenuKeyDown, FrameKeyDown, KeyGoesDown, resultVars, IInv, KeysOK
  <2> QED
    BY <1>1, <2>1 DEF IInv, KeysOK
<1>4. CASE MenuKeyDown(key)
  BY <1>1, <1>3, <1>4, MenuKeyStep
<1>5. CASE FrameKeyDown(key)
  BY <1>1, <1>3, <1>5, FrameKeyDownStep
<1>6. CASE UNCHANGED <<box, focus, resultVars>>
  BY <1>1, <1>3, <1>6, IdleStep DEF resultVars
<1> QED
  BY <1>4, <1>5, <1>6 DEF KeyDown

LEMMA FrameKeyPressStep == ASSUME IInv, FrameKeyPress PROVE IInv'
<1>1. focus \in Links /\ UNCHANGED <<sections, visible, held, mouseOver, loaded>>
  BY DEF FrameKeyPress
<1>2. KeysOK'
  BY DEF FrameKeyPress, KeyRepeats, IInv, KeysOK
<1>3. CASE Nav(lastKey, focus)
  BY <1>1, <1>2, <1>3, NavStep
<1>4. CASE UNCHANGED <<box, focus, open>>
  BY <1>1, <1>2, <1>4, IdleStep
<1> QED
  BY <1>3, <1>4 DEF FrameKeyPress

LEMMA KeyUpStep == ASSUME IInv, FrameKeyUp \/ KeyUpElsewhere PROVE IInv'
<1>1. UNCHANGED <<box, focus, sections, visible, open, mouseOver, loaded>>
  BY DEF FrameKeyUp, KeyUpElsewhere, resultVars
<1>2. KeysOK'
  BY DEF FrameKeyUp, KeyUpElsewhere, KeyComesUp, resultVars, IInv, KeysOK
<1> QED
  BY <1>1, <1>2, IdleStep

\* The menu opens, and the timer that would close it is stopped.
LEMMA ShowFits ==
  ASSUME NEW b, NEW f, NEW m, NEW n, BoxFits(b, f, m)
  PROVE  BoxFits(OnSearchSelectShow(b), f, n)
<1> DEFINE a == OnSearchSelectShow(b)
<1>1. b \in Boxes /\ b.hides <= 1
  BY DEF BoxFits
<1>2. /\ a \in Boxes /\ (Agrees(b, loaded) => Agrees(a, loaded))
      /\ a.strays = b.strays /\ a.searchIndex = b.searchIndex
      /\ a.shown = b.shown /\ a.active = b.active /\ a.field = b.field
  BY <1>1, TimerFacts
<1>3. a.hides = 0 /\ a.hides <= 1
  BY <1>1, RunningTimers DEF Boxes
<1> HIDE DEF a
<1>4. BoxFits(a, f, n)
  BY <1>2, <1>3, Zenon DEF BoxFits
<1> QED
  BY <1>4 DEF a

LEMMA FieldKeyUpStep == ASSUME IInv, FieldKeyUp PROVE IInv'
<1> DEFINE b == KillTimer(box)
<1>0. /\ focus = Field /\ UNCHANGED <<sections, visible, open, mouseOver, loaded>>
      /\ focus \notin Links /\ box.active
  BY InvFacts, NotLinks DEF FieldKeyUp, resultVars
<1>1. KeysOK'
  BY DEF FieldKeyUp, resultVars, IInv, KeysOK
<1>2. /\ BoxFits(b, Field, mouseOver) /\ BoxFits(b, Nothing, mouseOver)
      /\ b \in Boxes /\ b.shown = box.shown /\ b.active
  BY <1>0, InvFacts, TimerFits, TimerFacts
<1>3. CASE OpenMenuByKey
  <2> DEFINE c == OnSearchSelectShow(b)
  <2>1. BoxFits(c, Field, mouseOver) /\ BoxFits(c, Nothing, mouseOver) /\ c.active
    BY <1>2, ShowFits, TimerFacts
  <2>2. \/ focus' = Menu /\ box' = FocusMoves(c, Menu)
        \/ box' = c /\ UNCHANGED focus
    BY <1>3 DEF OpenMenuByKey
  <2> HIDE DEF b, c
  <2>3. BoxFits(FocusMoves(c, Menu), Menu, mouseOver)
    BY <2>1, NotLinks, FocusFits
  <2>4. BoxFits(box', focus', mouseOver')
    BY <1>0, <2>1, <2>2, <2>3
  <2>5. focus' \in {Field, Menu}
    BY <1>0, <2>2
  <2> QED
    BY <1>0, <1>1, <2>4, <2>5, PanelStep
<1>4. CASE EnterResults
  <2>1. CASE FrameHasResults /\ box.shown
    <3> DEFINE p == NavNext(0)
               c == FocusMoves(b, p)
    <3>1. focus' = p /\ box' = FieldChanged(c)
      BY <1>4, <2>1 DEF EnterResults
    <3>2. p \in Displayed
      BY <2>1, InvFacts, NavNextDisplayed DEF FrameHasResults
    <3> HIDE DEF b, p
    <3>3. BoxFits(c, p, mouseOver) /\ c.active
      BY <1>2, <2>1, FocusFits, FocusMovesFacts
    <3> HIDE DEF c
    <3>4. BoxFits(box', focus', mouseOver')
      BY <1>0, <3>1, <3>3, StartsFits
    <3> QED
      BY <1>0, <1>1, <3>1, <3>2, <3>4, PanelStep
  <2>2. CASE ~(FrameHasResults /\ box.shown)
    <3>1. box' = FieldChanged(b) /\ UNCHANGED focus
      BY <1>4, <2>2 DEF EnterResults
    <3> HIDE DEF b
    <3>2. BoxFits(box', focus', mouseOver')
      BY <1>0, <1>2, <3>1, StartsFits
    <3> QED
      BY <1>0, <1>1, <3>1, <3>2, PanelStep
  <2> QED
    BY <2>1, <2>2
<1>5. CASE EscapeField
  <2> DEFINE left == FocusMoves(b, Nothing)
             h == HideResults(left)
             c == [h EXCEPT !.lastSearchValue = ""]
  <2>1. BoxFits(left, Nothing, mouseOver)
    BY <1>2, NotLinks, FocusFits
  <2>2. BoxFits(h, Nothing, mouseOver) /\ ~h.shown
    BY <2>1, HideFits
  <2>3. BoxFits(c, Nothing, mouseOver)
    BY <2>2, ForgetFits
  <2>4. focus' = Nothing /\ box' = Activate(c, FALSE)
    BY <1>5 DEF EscapeField
  <2> HIDE DEF c
  <2>5. BoxFits(box', focus', mouseOver')
    BY <1>0, <2>3, <2>4, ActivateFits
  <2> QED
    BY <1>0, <1>1, <2>4, <2>5, PanelStep
<1>6. CASE box' = FieldChanged(b) /\ UNCHANGED focus
  <2> HIDE DEF b
  <2>1. BoxFits(box', focus', mouseOver')
    BY <1>0, <1>2, <1>6, StartsFits
  <2> QED
    BY <1>0, <1>1, <1>6, <2>1, PanelStep
<1> QED
  BY <1>3, <1>4, <1>5, <1>6 DEF FieldKeyUp

LEMMA EditStep == ASSUME IInv, NEW text \in Texts, Edit(text) PROVE IInv'
<1> DEFINE a == [box EXCEPT !.field = text]
<1>0. /\ focus = Field /\ box' = a /\ focus \notin Links
      /\ UNCHANGED <<sections, visible, open, lastKey, repeatOn, focus, held, mouseOver, loaded>>
  BY NotLinks DEF Edit, resultVars, pageVars
<1>1. KeysOK'
  BY <1>0 DEF IInv, KeysOK
<1>2. box \in Boxes /\ box.active /\ BoxFits(box, Field, mouseOver)
  BY <1>0, InvFacts
<1>3. a \in Boxes
  BY <1>2 DEF Boxes
<1>4. /\ a.strays = box.strays /\ a.hides = box.hides /\ a.searchIndex = box.searchIndex
      /\ a.active = box.active /\ (Agrees(box, loaded) => Agrees(a, loaded))
  BY <1>2, <1>3 DEF Boxes, Agrees
<1> HIDE DEF a
<1>5. BoxFits(a, Field, mouseOver)
  BY <1>2, <1>3, <1>4, NotLinks, Zenon DEF BoxFits
<1> QED
  BY <1>0, <1>1, <1>5, PanelStep

LEMMA ClickStep ==
  ASSUME IInv, Click(Field) \/ Click(Nothing) \/ ClickClose
  PROVE  IInv'
<1>0. UNCHANGED <<sections, visible, open, lastKey, repeatOn, held, mouseOver, loaded>>
  BY DEF Click, ClickClose, resultVars
<1>1. KeysOK'
  BY <1>0 DEF IInv, KeysOK
<1>2. ASSUME NEW p \in {Field, Nothing} PROVE BoxFits(FocusMoves(box, p), p, mouseOver)
  BY <1>2, InvFacts, NotLinks, FocusFits
<1>3. CASE Click(Field) \/ Click(Nothing)
  <2>1. PICK p \in {Field, Nothing} : focus' = p /\ box' = FocusMoves(box, p)
    BY <1>3 DEF Click
  <2>2. BoxFits(box', focus', mouseOver')
    BY <1>0, <1>2, <2>1
  <2> QED
    BY <1>0, <1>1, <2>1, <2>2, PanelStep
<1>4. CASE ClickClose
  <2> DEFINE b == FocusMoves(box, Nothing)
  <2>1. focus' = Nothing /\ box' = CloseResultsWindow(b)
    BY <1>4 DEF ClickClose
  <2> HIDE DEF b
  <2>2. BoxFits(b, Nothing, mouseOver)
    BY <1>2 DEF b
  <2>3. BoxFits(box', focus', mouseOver')
    BY <1>0, <2>1, <2>2, CloseFits
  <2> QED
    BY <1>0, <1>1, <2>1, <2>3, PanelStep
<1> QED
  BY <1>3, <1>4

LEMMA ClickRowStep == ASSUME IInv, NEW r \in Rows, ClickRow(r) PROVE IInv'
<1>0. /\ r \in visible /\ box.shown /\ open' = Toggled(r)
      /\ focus' = Row(r) /\ box' = FocusMoves(box, Row(r))
      /\ UNCHANGED <<sections, visible, lastKey, repeatOn, held, mouseOver, loaded>>
  BY DEF ClickRow
<1>1. KeysOK'
  BY <1>0 DEF IInv, KeysOK
<1>2. BoxFits(box', focus', mouseOver')
  BY <1>0, InvFacts, FocusFits
<1>3. open' \subseteq Rows
  BY <1>0, InvFacts DEF Toggled
<1>4. focus' \in Displayed'
  BY <1>0, DisplayedThen
<1> QED
  BY <1>0, <1>1, <1>2, <1>3, <1>4, Assembled

LEMMA ClickMenuItemStep ==
  ASSUME IInv, NEW id \in 0 .. (sections - 1), ClickMenuItem(id)
  PROVE  IInv'
<1> DEFINE b == FocusMoves(box, Menu)
<1>0. /\ focus' = Menu /\ box' = OnSelectItem(b, id) /\ (box.timer => box.strays < MaxStrays)
      /\ UNCHANGED <<sections, visible, open, lastKey, repeatOn, held, mouseOver, loaded>>
  BY DEF ClickMenuItem, StraysBounded, resultVars
<1>1. KeysOK'
  BY <1>0 DEF IInv, KeysOK
<1>2. BoxFits(b, Menu, mouseOver)
  BY InvFacts, NotLinks, FocusFits
<1>3. b.timer => b.strays < MaxStrays
  <2>1. box \in Boxes
    BY InvFacts
  <2>2. SameTimers(b, box)
    BY <2>1, FocusMovesFacts
  <2> HIDE DEF b
  <2> QED
    BY <1>0, <2>2 DEF SameTimers
<1>4. id \in Nat /\ id <= sections
  BY InvFacts
<1> HIDE DEF b
<1>5. BoxFits(box', focus', mouseOver')
  BY <1>0, <1>2, <1>3, <1>4, SelectFits
<1> QED
  BY <1>0, <1>1, <1>5, PanelStep

LEMMA MouseStep == ASSUME IInv, MouseOver \/ MouseOut PROVE IInv'
<1>0. UNCHANGED <<sections, visible, open, lastKey, repeatOn, held, focus, loaded>>
  BY DEF MouseOver, MouseOut, resultVars
<1>1. KeysOK'
  BY <1>0 DEF IInv, KeysOK, MouseOver, MouseOut
<1>2. CASE MouseOver
  <2>1. BoxFits(box', focus', mouseOver')
    BY <1>0, <1>2, InvFacts, ShowFits DEF MouseOver
  <2> QED
    BY <1>0, <1>1, <2>1, InvFacts, PanelStep
<1>3. CASE MouseOut
  <2> DEFINE a == OnSearchSelectHide(box)
  <2>1. box' = a /\ mouseOver /\ mouseOver' = FALSE /\ BoxFits(box, focus, mouseOver)
    BY <1>3, InvFacts DEF MouseOut
  <2>2. box \in Boxes /\ box.hides = 0
    BY <2>1, Zenon DEF BoxFits
  <2>3. /\ a \in Boxes /\ (Agrees(box, loaded) => Agrees(a, loaded))
        /\ a.strays = box.strays /\ a.searchIndex = box.searchIndex
        /\ a.shown = box.shown /\ a.active = box.active /\ a.field = box.field
    BY <2>2, TimerFacts
  <2>4. a.hides <= 1
    BY <2>2, RunningTimers
  <2> HIDE DEF a
  <2>5. BoxFits(a, focus, FALSE)
    BY <2>1, <2>3, <2>4, Zenon DEF BoxFits
  <2> QED
    BY <1>0, <1>1, <2>1, <2>5, InvFacts, PanelStep
<1> QED
  BY <1>2, <1>3

LEMMA SearchTimersStep == ASSUME IInv, SearchTimer \/ StrayTimer PROVE IInv'
<1>0. UNCHANGED <<sections, visible, open, lastKey, repeatOn, held, focus, mouseOver, loaded>>
  BY DEF SearchTimer, StrayTimer, resultVars, pageVars
<1>1. KeysOK'
  BY <1>0 DEF IInv, KeysOK
<1>2. BoxFits(box, focus, mouseOver) /\ box \in Boxes
  BY InvFacts
<1>3. BoxFits(box', focus', mouseOver')
  <2>1. CASE SearchTimer
    <3> DEFINE b == KillTimer(box)
    <3>1. BoxFits(b, focus, mouseOver) /\ ~b.timer
      BY <1>2, TimerFits, RunningTimers
    <3>2. box' = Search(b)
      BY <2>1 DEF SearchTimer
    <3> HIDE DEF b
    <3> QED
      BY <1>0, <3>1, <3>2, SearchFits
  <2>2. CASE StrayTimer
    <3> DEFINE b == [box EXCEPT !.strays = @ - 1]
    <3>1. box.strays > 0 /\ box' = Search(b)
      BY <2>2 DEF StrayTimer
    <3>7. box.strays \in Nat /\ box.strays <= MaxStrays
      BY <1>2 DEF Boxes, BoxFits
    <3>2. box.strays - 1 \in Nat /\ box.strays \in Nat /\ box.strays <= MaxStrays
      BY <3>1, <3>7
    <3>3. b \in Boxes
      BY <1>2, <3>2 DEF Boxes
    <3>4. /\ b.strays = box.strays - 1 /\ b.hides = box.hides /\ b.searchIndex = box.searchIndex
          /\ b.shown = box.shown /\ b.active = box.active /\ b.field = box.field
          /\ (Agrees(box, loaded) => Agrees(b, loaded))
      BY <1>2, <3>3 DEF Boxes, Agrees
    <3>5. b.strays <= MaxStrays /\ b.strays < MaxStrays
      BY <3>2, <3>4, PageAssumption
    <3> HIDE DEF b
    <3>6. BoxFits(b, focus, mouseOver)
      BY <1>2, <3>3, <3>4, <3>5, Zenon DEF BoxFits
    <3> QED
      BY <1>0, <3>1, <3>5, <3>6, SearchFits
  <2> QED
    BY <2>1, <2>2
<1> QED
  BY <1>0, <1>1, <1>3, InvFacts, PanelStep

LEMMA HideTimerStep == ASSUME IInv, HideTimer PROVE IInv'
<1> DEFINE b == CloseSelectionWindow(box)
           a == [b EXCEPT !.hides = @ - 1]
<1>0. /\ box' = a /\ box.hides > 0
      /\ UNCHANGED <<sections, visible, open, lastKey, repeatOn, held, mouseOver, loaded>>
  BY DEF HideTimer, resultVars
<1>1. KeysOK'
  BY <1>0 DEF IInv, KeysOK
<1>2. focus' \in {Nothing, focus}
  BY DEF HideTimer
<1>3. BoxFits(b, focus, mouseOver) /\ b \in Boxes /\ b.hides = box.hides
  BY InvFacts, TimerFits, TimerFacts, RunningTimers
<1>4. ~mouseOver
  <2>1. mouseOver => box.hides = 0
    BY InvFacts, Zenon DEF BoxFits
  <2> QED
    BY <1>0, <2>1
<1>5. b.hides \in Nat /\ b.hides <= 1
  BY <1>3, Zenon DEF BoxFits, Boxes
<1> HIDE DEF b
<1>6. b.hides - 1 \in Nat /\ b.hides - 1 <= 1
  BY <1>0, <1>3, <1>5
<1>7. a \in Boxes
  BY <1>3, <1>6 DEF Boxes
<1>8. /\ a.strays = b.strays /\ a.hides <= 1 /\ a.searchIndex = b.searchIndex
      /\ a.shown = b.shown /\ a.active = b.active /\ a.field = b.field
      /\ (Agrees(b, loaded) => Agrees(a, loaded))
  BY <1>3, <1>6, <1>7 DEF Boxes, Agrees
<1> HIDE DEF a
<1>9. BoxFits(a, focus, mouseOver)
  BY <1>3, <1>4, <1>7, <1>8, Zenon DEF BoxFits
<1>10. BoxFits(box', focus', mouseOver')
  BY <1>0, <1>2, <1>9, FitsWithoutFocus
<1> QED
  BY <1>0, <1>1, <1>2, <1>10, InvFacts, PanelStep

\* The page that arrives is the one the frame was sent to last; it has the
\* rows of the term it was sent with.
LEMMA LoadStep == ASSUME IInv, Load PROVE IInv'
<1> DEFINE a == [box EXCEPT !.loading = FALSE]
<1>0. /\ box' = a /\ loaded' = box.page /\ open' = {} /\ lastKey' = NoKey /\ repeatOn' = FALSE
      /\ visible' = (IF box.page \in Content THEN Matching[box.term] ELSE {})
      /\ focus' = (IF focus \in Links THEN Nothing ELSE focus)
      /\ UNCHANGED <<sections, held, mouseOver>>
  BY DEF Load, LoadedWith
<1>1. KeysOK'
  BY <1>0 DEF IInv, KeysOK
<1>2. BoxFits(box, focus, mouseOver) /\ box \in Boxes
  BY InvFacts
<1>3. a \in Boxes
  BY <1>2 DEF Boxes
<1>4. /\ a.strays = box.strays /\ a.hides = box.hides /\ a.searchIndex = box.searchIndex
      /\ a.active = box.active
      /\ (Agrees(box, loaded) => Agrees(a, box.page))
  BY <1>2, <1>3 DEF Boxes, Agrees
<1>5. focus' \in {Field, Menu, Nothing} /\ focus' \notin Links /\ (focus' = Field => focus = Field)
  BY <1>0, InvFacts, NotLinks
<1> HIDE DEF a
<1>6. BoxFits(box, focus, mouseOver)'
  <2>1. Agrees(a, loaded') /\ (focus' = Field => a.active)
    BY <1>0, <1>2, <1>4, <1>5, Zenon DEF BoxFits
  <2>2. a.searchIndex <= sections' /\ a.strays <= MaxStrays /\ a.hides <= 1
    BY <1>0, <1>2, <1>4, Zenon DEF BoxFits
  <2>3. mouseOver' => a.hides = 0
    BY <1>0, <1>2, <1>4, Zenon DEF BoxFits
  <2> QED
    BY <1>0, <1>3, <1>5, <2>1, <2>2, <2>3, Zenon DEF BoxFits
<1>7. ResultsOK'
  <2>1. box.term \in DOMAIN Matching
    BY <1>2, PageAssumption DEF Boxes
  <2>2. visible' \subseteq Rows
    BY <1>0, <2>1, RowAssumption
  <2>3. Consecutive(visible')
    <3>1. CASE box.page \in Content
      BY <1>0, <2>1, <3>1, RowAssumption DEF Consecutive
    <3>2. CASE box.page \notin Content
      BY <1>0, <3>2 DEF Consecutive
    <3> QED
      BY <3>1, <3>2
  <2>4. Consecutive(visible)'
    BY <2>3 DEF Consecutive
  <2> QED
    BY <1>0, <2>2, <2>4 DEF ResultsOK
<1>8. FrameOK'
  <2>1. loaded' \in Pages /\ sections' \in SectionCounts
    BY <1>0, <1>2 DEF Boxes, IInv, FrameOK
  <2> QED
    BY <1>5, <1>7, <2>1 DEF FrameOK
<1> QED
  BY <1>1, <1>6, <1>8 DEF IInv

-----------------------------------------------------------------------------
LEMMA Inductive == IInv /\ [Next]_vars => IInv'
<1> SUFFICES ASSUME IInv, [Next]_vars PROVE IInv'
  OBVIOUS
<1>1. ASSUME NEW key \in Keys, KeyDown(key) PROVE IInv'
  BY <1>1, KeyDownStep
<1>2. CASE FieldKeyUp
  BY <1>2, FieldKeyUpStep
<1>3. CASE FrameKeyPress
  BY <1>3, FrameKeyPressStep
<1>4. CASE FrameKeyUp \/ KeyUpElsewhere
  BY <1>4, KeyUpStep
<1>5. ASSUME NEW text \in Texts, Edit(text) PROVE IInv'
  BY <1>5, EditStep
<1>6. CASE Click(Field) \/ Click(Nothing) \/ ClickClose
  BY <1>6, ClickStep
<1>7. ASSUME NEW r \in Rows, ClickRow(r) PROVE IInv'
  BY <1>7, ClickRowStep
<1>8. ASSUME NEW id \in 0 .. (sections - 1), ClickMenuItem(id) PROVE IInv'
  BY <1>8, ClickMenuItemStep
<1>9. CASE MouseOver \/ MouseOut
  BY <1>9, MouseStep
<1>10. CASE SearchTimer \/ StrayTimer
  BY <1>10, SearchTimersStep
<1>11. CASE HideTimer
  BY <1>11, HideTimerStep
<1>12. CASE Load
  BY <1>12, LoadStep
<1>13. CASE UNCHANGED vars
  <2>1. UNCHANGED <<box, focus, sections, visible, open, mouseOver, loaded>>
    BY <1>13 DEF vars, resultVars, pageVars
  <2>2. KeysOK'
    BY <1>13 DEF vars, resultVars, pageVars, IInv, KeysOK
  <2> QED
    BY <2>1, <2>2, IdleStep
<1> QED
  BY <1>1, <1>2, <1>3, <1>4, <1>5, <1>6, <1>7, <1>8, <1>9, <1>10, <1>11, <1>12, <1>13
     DEF Next

\* What the box, the focus, the mouse and the frame are to each other, in
\* every reachable state.
THEOREM Invariant == Spec => []IInv
<1> QED
  BY Initially, Inductive, PTL DEF Spec

\* Every variable keeps its type, with no more stray timers than the bound
\* and the section at most one past the last.
THEOREM TypeCorrect == Spec => []SearchTypeOK
<1>1. IInv => SearchTypeOK
  <2> SUFFICES ASSUME IInv PROVE SearchTypeOK
    OBVIOUS
  <2>1. /\ box \in Boxes /\ box.searchIndex \in 0 .. sections
        /\ box.strays \in 0 .. MaxStrays /\ box.hides \in 0 .. 2
    <3>1. /\ box \in Boxes /\ box.searchIndex <= sections
          /\ box.strays <= MaxStrays /\ box.hides <= 1
      BY InvFacts, Zenon DEF BoxFits
    <3>2. box.searchIndex \in Nat /\ box.strays \in Nat /\ box.hides \in Nat
      BY <3>1 DEF Boxes
    <3> QED
      BY <3>1, <3>2, InvFacts, PageAssumption
  <2>2. box \in [active : BOOLEAN, searchActive : BOOLEAN, field : Texts,
                 lastSearchValue : Texts, lastResultsPage : Pages,
                 searchIndex : 0..sections,
                 shown : BOOLEAN, close : BOOLEAN, menu : BOOLEAN,
                 timer : BOOLEAN, strays : 0..MaxStrays, hides : 0..2,
                 page : Pages, term : Texts, loading : BOOLEAN]
    BY <2>1 DEF Boxes
  <2> QED
    BY <2>2, InvFacts DEF SearchTypeOK, IInv, KeysOK, FrameOK
<1> QED
  BY <1>1, Invariant, PTL

\* The panel, its field and the frame tell the same story, with any number of
\* search timers that nobody can stop.
THEOREM PanelAgrees == Spec => []BoxAgrees
<1>1. IInv => BoxAgrees
  BY InvFacts DEF BoxFits, Agrees, BoxAgrees, Boxes
<1> QED
  BY <1>1, Invariant, PTL

\* No timer that closes the menu is running when the mouse is over it.
THEOREM MenuStays == Spec => []MenuStaysUnderMouse
<1>1. IInv => MenuStaysUnderMouse
  BY InvFacts, Zenon DEF BoxFits, MenuStaysUnderMouse
<1> QED
  BY <1>1, Invariant, PTL

\* The arrow keys follow what is displayed, for any rows and children of any
\* page, whatever the term and whichever rows are open.
THEOREM KeysFollowDisplay == Spec => []NavFollowsDisplay
<1>1. IInv => NavFollowsDisplay
  BY InvFacts, ConsecutiveRowsNavigable
<1> QED
  BY <1>1, Invariant, PTL

\* What has the focus in the frame is displayed.
THEOREM FocusStaysVisible == Spec => []FocusVisible
<1>1. IInv => FocusVisible
  <2>1. IInv => (focus \in Links => box.shown \/ (box.active /\ Squeezed[box.field] = ""))
    BY InvFacts, Zenon DEF BoxFits
  <2>2. IInv => (focus \in Links => focus \in Displayed)
    BY InvFacts, NotLinks
  <2> QED
    BY <2>1, <2>2 DEF FocusVisible
<1> QED
  BY <1>1, Invariant, PTL
=============================================================================
