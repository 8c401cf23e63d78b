----------------------------- MODULE SearchBox ------------------------------
(***************************************************************************)
(* The class SearchBox of project2/doc/doc/html/search/search.js, the      *)
(* search panel of the generated documentation.  The object and the parts  *)
(* of the page that it reads and writes are one record, and a method is a  *)
(* function from the record before it to the record after it, since the    *)
(* handlers of the page call several of them one after the other.          *)
(*                                                                         *)
(* The tables indexSectionsWithContent and indexSectionNames (lines 8 to   *)
(* 14) are parameters: in this repository they are empty, in other output  *)
(* of the generator they have a section for each kind of symbol.           *)
(***************************************************************************)
EXTENDS Integers

CONSTANTS Texts,      \* what the search field can contain
          Label,      \* searchLabel: the text of a field that is not in use
          Squeezed,   \* the text without its spaces
          Trimmed,    \* the text without its leading spaces
          First,      \* its first character
          Content     \* the pairs of a section and a first character with a page

ASSUME TextAssumption == /\ {"", Label} \subseteq Texts
                         /\ Squeezed \in [Texts -> Texts]
                         /\ Trimmed \in [Texts -> Texts]
                         /\ \A s \in {"", Label} : Squeezed[s] = s /\ Trimmed[s] = s

VARIABLES box,        \* the SearchBox and the state of its parts of the page
          sections    \* the number of sections in the tables; never changes

NoPage == <<-1, "none">>
NoMatches == <<-1, "nomatches">>
Pages == Content \cup {NoPage, NoMatches}

ASSUME ContentAssumption == NoPage \notin Content /\ NoMatches \notin Content

(* active     the class of MSearchBox is MSearchBoxActive                  *)
(* field      the value of MSearchField                                    *)
(* shown      MSearchResultsWindow is displayed                            *)
(* close      MSearchClose is displayed                                    *)
(* menu       MSearchSelectWindow is displayed                             *)
(* timer      the timer that keyTimeout names is running                   *)
(* strays     the running search timers that keyTimeout no longer names    *)
(* hides      the running timers that will close the menu; the last one    *)
(*            that was started is the one hideTimeout names                *)
(* page, term the location that MSearchResults was sent to                 *)
(* loading    the page of that location has not arrived yet                *)
InitialBox ==
    [active |-> FALSE, searchActive |-> FALSE, field |-> Label,
     lastSearchValue |-> "", lastResultsPage |-> NoPage, searchIndex |-> 0,
     shown |-> FALSE, close |-> FALSE, menu |-> FALSE,
     timer |-> FALSE, strays |-> 0, hides |-> 0,
     page |-> NoPage, term |-> "", loading |-> FALSE]

(* The number of items in the menu, one for each section.                  *)
SelectItemCount == sections

-----------------------------------------------------------------------------
(* Activate: a panel whose results are displayed stays as it is when it is *)
(* deactivated, and loses a text that reads like the label.                *)
Activate_kept(b, isActive) ==
    IF isActive \/ b.shown
    THEN [b EXCEPT !.active = TRUE,
                   !.searchActive = @ \/ b.field = Label,
                   !.field = IF @ = Label THEN "" ELSE @]
    ELSE [b EXCEPT !.active = FALSE, !.searchActive = FALSE,
                   !.lastSearchValue = "", !.lastResultsPage = NoPage]
Activate(b, isActive) ==
    IF isActive \/ b.shown
    THEN [b EXCEPT !.active = TRUE,
                   !.searchActive = @ \/ b.field = Label,
                   !.field = IF @ = Label THEN "" ELSE @]
    ELSE [b EXCEPT !.active = FALSE, !.searchActive = FALSE, !.field = Label,
                   !.lastSearchValue = "", !.lastResultsPage = NoPage]

(* The two lines with which each way to close the results begins.          *)
HideResults(b) == [b EXCEPT !.shown = FALSE, !.close = FALSE]

CloseResultsWindow(b) == Activate(HideResults(b), FALSE)
CloseSelectionWindow(b) == [b EXCEPT !.menu = FALSE]

(* clearTimeout of keyTimeout, when it is set.                             *)
KillTimer(b) == [b EXCEPT !.timer = FALSE]
StartTimer(b) == [b EXCEPT !.timer = TRUE]

(* keyTimeout = 0 without clearTimeout: a timer that runs goes on running. *)
ForgetTimer(b) == [b EXCEPT !.timer = FALSE,
                            !.strays = IF b.timer THEN @ + 1 ELSE @]

-----------------------------------------------------------------------------
(* Search.  The text of the field decides, whatever it was when the timer  *)
(* was set.  Without an entry for the section, it fails at the table.      *)
SearchFails(b) == b.searchIndex >= sections

ResultsPage(b) ==
    LET page == <<b.searchIndex, First[Trimmed[b.field]]>>
    IN  IF page \in Content THEN page ELSE NoMatches

Search(b) ==
    IF SearchFails(b) THEN ForgetTimer(b)
    ELSE LET value == Trimmed[b.field]
             page == ResultsPage(b)
         IN  [ForgetTimer(b) EXCEPT
                !.page = page, !.loading = TRUE,
                !.term = IF page = NoMatches THEN "" ELSE value,
                !.shown = TRUE, !.close = @ \/ ~b.shown,
                !.lastSearchValue = value, !.lastResultsPage = page]

-----------------------------------------------------------------------------
(* OnSearchSelectShow and OnSearchSelectHide: the menu opens when the      *)
(* mouse comes to the icon or to the menu, and closes some time after.     *)
OnSearchSelectShow_counting(b) == [b EXCEPT !.menu = TRUE]
OnSearchSelectShow(b) == [b EXCEPT !.menu = TRUE,
                                   !.hides = IF @ > 0 THEN @ - 1 ELSE 0]

OnSearchSelectHide(b) == [b EXCEPT !.hides = @ + 1]

(* The last part of OnSearchFieldChange: what the field has is compared,   *)
(* without its spaces, with what was searched for.                         *)
FieldChanged(b) ==
    LET value == Squeezed[b.field]
    IN  IF value = b.lastSearchValue THEN b
        ELSE IF value # "" THEN StartTimer(b)
        ELSE [HideResults(b) EXCEPT !.lastSearchValue = ""]

(* OnSelectItem: the section is chosen, and searched when the panel is in  *)
(* use.                                                                    *)
SearchesAtOnce(b) == Squeezed[b.field] # "" /\ b.searchActive

OnSelectItem(b, id) ==
    LET chosen == [b EXCEPT !.searchIndex = id]
    IN  IF SearchesAtOnce(chosen) THEN Search(chosen) ELSE chosen

SelectItemFails(b, id) == SearchesAtOnce(b) /\ id >= sections

(* OnSearchSelectKey, the keys Down and Up.                                *)
MayGoDown_past(b) == b.searchIndex <= SelectItemCount
MayGoDown(b) == b.searchIndex < SelectItemCount
MayGoUp(b) == b.searchIndex > 0
=============================================================================
