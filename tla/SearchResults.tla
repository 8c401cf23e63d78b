--------------------------- MODULE SearchResults ----------------------------
(***************************************************************************)
(* The class SearchResults of project2/doc/doc/html/search/search.js, in   *)
(* the frame with the results: the rows of the page, of which a search     *)
(* displays those that begin with the term, the children of a row with     *)
(* several results, and where the arrow keys lead.                         *)
(*                                                                         *)
(* The result pages themselves are written by the generator: their rows    *)
(* are parameters.  They are sorted by name, so the rows that begin with a *)
(* term are consecutive.                                                   *)
(***************************************************************************)
EXTENDS Integers, FiniteSets, FiniteSetsExt

CONSTANTS Rows,       \* the indices of the rows, from 0
          Children,   \* the number of children of a row; 0 for a single result
          Matching    \* the rows that begin with a term

ASSUME RowAssumption ==
    /\ IsFiniteSet(Rows)
    /\ Rows = 0..(Cardinality(Rows) - 1)
    /\ Children \in [Rows -> Nat]
    /\ \A term \in DOMAIN Matching :
         /\ Matching[term] \subseteq Rows
         /\ \A r \in Rows : (\E a, b \in Matching[term] : a <= r /\ r <= b)
                                => r \in Matching[term]

VARIABLES visible,    \* the rows that are displayed
          open,       \* the rows whose children are displayed
          lastKey,    \* the key that went down last, or NoKey
          repeatOn    \* the keypress after its keydown has been seen

resultVars == <<visible, open, lastKey, repeatOn>>

NoKey == "none"

(* The elements of the page that can have the focus, as createResults      *)
(* builds it: the link of a row, and a link for each of its children.      *)
Row(r) == [at |-> "row", row |-> r]
Child(r, c) == [at |-> "child", row |-> r, child |-> c]
ChildrenOf(r) == {Child(r, c) : c \in 0..(Children[r] - 1)}
Links == {Row(r) : r \in Rows} \cup UNION {ChildrenOf(r) : r \in Rows}

FieldOfParent == [at |-> "field"]

Displayed == {Row(r) : r \in visible}
                \cup UNION {ChildrenOf(r) : r \in visible \cap open}

EmptyPage == visible = {} /\ open = {} /\ lastKey = NoKey /\ repeatOn = FALSE

(* A page that has been loaded: createResults, then Search with the term   *)
(* of its location.                                                        *)
LoadedWith(rows) == /\ visible' = rows /\ open' = {}
                    /\ lastKey' = NoKey /\ repeatOn' = FALSE

-----------------------------------------------------------------------------
(* FindChildElement, and whether what it finds is displayed.               *)
HasChildren(r) == Children[r] > 0
ChildrenShown(r) == HasChildren(r) /\ r \in open

Toggled(r) == IF ~HasChildren(r) THEN open
              ELSE IF r \in open THEN open \ {r} ELSE open \cup {r}
Opened(r) == IF HasChildren(r) THEN open \cup {r} ELSE open
Closed(r) == IF HasChildren(r) THEN open \ {r} ELSE open

(* NavNext and NavPrev: the rows they can stop at.  They return nothing    *)
(* when there is none.                                                     *)
RowsFrom(index) == {r \in visible : r >= index}
RowsUpTo(index) == {r \in visible : r <= index}
NavNext(index) == Row(Min(RowsFrom(index)))
NavPrev(index) == Row(Max(RowsUpTo(index)))

(* Up from a row: into the last child of the row above when its children   *)
(* are displayed.  The children are looked up with the index that the      *)
(* search began at, not with that of the row that was found.               *)
UpFromRow_skipping(r) ==
    IF RowsUpTo(r - 1) = {} THEN FieldOfParent ELSE NavPrev(r - 1)
UpFromRow(r) ==
    IF RowsUpTo(r - 1) = {} THEN FieldOfParent
    ELSE IF ChildrenShown(NavPrev(r - 1).row) /\ HasChildren(r - 1)
         THEN Child(r - 1, Children[r - 1] - 1)
    ELSE NavPrev(r - 1)

UpFromChild(p) == IF p.child > 0 THEN Child(p.row, p.child - 1) ELSE Row(p.row)
UpFrom(p) == IF p.at = "row" THEN UpFromRow(p.row) ELSE UpFromChild(p)

NextRow(p) == IF RowsFrom(p.row + 1) = {} THEN p ELSE NavNext(p.row + 1)

DownFromRow(p) == IF ChildrenShown(p.row) THEN Child(p.row, 0) ELSE NextRow(p)
DownFromChild(p) == IF p.child + 1 < Children[p.row]
                    THEN Child(p.row, p.child + 1) ELSE NextRow(p)
DownFrom(p) == IF p.at = "row" THEN DownFromRow(p) ELSE DownFromChild(p)

-----------------------------------------------------------------------------
(* ProcessKeys: what a keydown, a keypress and a keyup leave, and which of *)
(* them is to be acted on.  The first keypress after a keydown is not.     *)
KeyGoesDown(key) == lastKey' = key /\ repeatOn' = FALSE
KeyComesUp == lastKey' = NoKey /\ repeatOn' = FALSE
KeyRepeats == UNCHANGED lastKey /\ repeatOn' = (repeatOn \/ lastKey # NoKey)
ActsOnRepeat == repeatOn /\ lastKey # NoKey

-----------------------------------------------------------------------------
(* The order in which the page displays its links.                         *)
Rank(p) == IF p.at = "row" THEN 0 ELSE p.child + 1
Above(p, q) == p.row < q.row \/ (p.row = q.row /\ Rank(p) < Rank(q))
Adjacent(p, q) == Above(p, q) /\ ~\E r \in Displayed : Above(p, r) /\ Above(r, q)

(* The arrow keys go through what is displayed in the order of the page:   *)
(* Down to the next link, Up to the one before, from the first one back to *)
(* the search field.  The code never sees that order: it computes indices, *)
(* for rows and for children, of which some are hidden.                    *)
NavFollowsDisplay ==
    \A p \in Displayed :
        /\ \A q \in Displayed : Adjacent(p, q) => DownFrom(p) = q /\ UpFrom(q) = p
        /\ (\A q \in Displayed : ~Above(q, p)) => UpFrom(p) = FieldOfParent
        /\ (\A q \in Displayed : ~Above(p, q)) => DownFrom(p) = p
=============================================================================
