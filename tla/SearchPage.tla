----------------------------- MODULE SearchPage -----------------------------
(***************************************************************************)
(* A page of the generated documentation with its search panel: the        *)
(* handlers that project2/doc/doc/html/index.html binds to the methods of  *)
(* SearchBox (lines 20, 58 to 67, 94 to 103), the handlers that            *)
(* createResults binds in the frame, the timers and the frame's loading,   *)
(* driven by the keys and the mouse of the reader.                         *)
(*                                                                         *)
(* A key goes down in the element that has the focus and comes up in the   *)
(* one that has it then; a handler that moves the focus is run in between. *)
(* Moving the focus from or to the search field runs its handlers at once. *)
(* Following a link to another page ends the session and has no action.    *)
(***************************************************************************)
EXTENDS SearchBox, SearchResults

CONSTANTS SectionCounts,   \* the numbers of sections to look at
          MaxStrays        \* bound: search timers nobody can stop

ASSUME PageAssumption == /\ SectionCounts \subseteq Nat /\ MaxStrays \in Nat
                         /\ Texts \subseteq DOMAIN Matching

VARIABLES focus,      \* the element that has the focus
          held,       \* the key that is down, or NoKey
          mouseOver,  \* the mouse is over the icon or the menu
          loaded      \* the page in the frame

pageVars == <<focus, held, mouseOver, loaded>>
vars == <<box, sections, resultVars, pageVars>>

Field == FieldOfParent
Menu == [at |-> "menu"]
Nothing == [at |-> "nothing"]
Keys == {"Down", "ShiftDown", "Up", "Left", "Right", "Enter", "Escape", "Text"}
Arrow(key) == IF key = "ShiftDown" THEN "Down" ELSE key

(* index.html line 20 runs OnSelectItem(0), when the panel is not in use.  *)
Init == /\ sections \in SectionCounts
        /\ box = OnSelectItem(InitialBox, 0)
        /\ EmptyPage
        /\ focus = Nothing /\ held = NoKey /\ mouseOver = FALSE /\ loaded = NoPage

(* The field's onblur and onfocus: OnSearchFieldFocus.                     *)
FocusMoves(b, p) ==
    IF focus = Field /\ p # Field THEN Activate(b, FALSE)
    ELSE IF focus # Field /\ p = Field THEN Activate(b, TRUE)
    ELSE b

-----------------------------------------------------------------------------
(* OnSearchFieldChange: a key has come up in the search field.             *)
OpenMenuByKey ==
    LET b == OnSearchSelectShow(KillTimer(box))
    IN  IF SelectItemCount > 0
        THEN focus' = Menu /\ box' = FocusMoves(b, Menu)
        ELSE box' = b /\ UNCHANGED focus

(* The frame has results, and they can take the focus.                     *)
FrameHasResults == loaded \in Content /\ RowsFrom(0) # {}

EnterResults ==
    LET b == KillTimer(box)
    IN  IF FrameHasResults /\ box.shown
        THEN /\ focus' = NavNext(0)
             /\ box' = FieldChanged(FocusMoves(b, NavNext(0)))
        ELSE box' = FieldChanged(b) /\ UNCHANGED focus

EscapeField ==
    LET left == FocusMoves(KillTimer(box), Nothing)
    IN  /\ box' = Activate([HideResults(left) EXCEPT !.lastSearchValue = ""], FALSE)
        /\ focus' = Nothing

FieldKeyUp ==
    /\ focus = Field /\ held # NoKey /\ held' = NoKey
    /\ \/ held = "ShiftDown" /\ OpenMenuByKey
       \/ held \in {"Down", "Enter"} /\ EnterResults
       \/ held = "Escape" /\ EscapeField
       \/ /\ held \notin {"ShiftDown", "Down", "Enter", "Escape"}
          /\ box' = FieldChanged(KillTimer(box)) /\ UNCHANGED focus
    /\ UNCHANGED <<sections, resultVars, mouseOver, loaded>>

-----------------------------------------------------------------------------
(* OnSearchSelectKey: a key goes down in the menu.  Enter and Escape do    *)
(* not come to close it when the search fails.                             *)
StraysBounded == box.timer => box.strays < MaxStrays

ChooseByKey ==
    LET b == OnSelectItem(box, box.searchIndex)
    IN  IF SelectItemFails(box, box.searchIndex)
        THEN box' = b /\ UNCHANGED focus
        ELSE /\ focus' = Field
             /\ box' = FocusMoves(CloseSelectionWindow(b), Field)

MenuKeyDown(key) ==
    /\ focus = Menu /\ StraysBounded
    /\ \/ /\ Arrow(key) = "Down" /\ MayGoDown(box)
          /\ box' = OnSelectItem(box, box.searchIndex + 1) /\ UNCHANGED focus
       \/ /\ key = "Up" /\ MayGoUp(box)
          /\ box' = OnSelectItem(box, box.searchIndex - 1) /\ UNCHANGED focus
       \/ key \in {"Enter", "Escape"} /\ ChooseByKey
    /\ UNCHANGED resultVars

-----------------------------------------------------------------------------
(* Nav and NavChild: what a key does in the frame.  Elements that are not  *)
(* displayed do not take the focus.                                        *)
GoTo(p) ==
    /\ focus' = IF p = Field \/ (box.shown /\ p \in Displayed) THEN p ELSE focus
    /\ box' = FocusMoves(box, focus')
    /\ UNCHANGED open

LeaveResults_hidden == /\ box' = CloseResultsWindow(box)
                       /\ UNCHANGED <<focus, open>>
LeaveResults == /\ box' = FocusMoves(CloseResultsWindow(box), Field)
                /\ focus' = Field
                /\ UNCHANGED open

Nav(key, p) ==
    \/ key = "Up" /\ GoTo(UpFrom(p))
    \/ key = "Down" /\ GoTo(DownFrom(p))
    \/ key = "Right" /\ p.at = "row" /\ open' = Opened(p.row) /\ UNCHANGED <<box, focus>>
    \/ key = "Left" /\ p.at = "row" /\ open' = Closed(p.row) /\ UNCHANGED <<box, focus>>
    \/ key = "Escape" /\ LeaveResults
    \/ /\ key \notin {"Up", "Down", "Escape"} /\ (key \in {"Left", "Right"} => p.at # "row")
       /\ UNCHANGED <<box, focus, open>>

(* Enter follows the link: the one of a row with children calls Toggle.    *)
FrameKeyDown(key) ==
    /\ focus \in Links
    /\ \/ /\ key # "Enter"
          /\ KeyGoesDown(Arrow(key)) /\ Nav(Arrow(key), focus)
       \/ /\ key = "Enter" /\ focus.at = "row" /\ HasChildren(focus.row)
          /\ open' = Toggled(focus.row)
          /\ UNCHANGED <<box, focus, lastKey, repeatOn>>
    /\ UNCHANGED visible

FrameKeyPress ==
    /\ focus \in Links /\ held \notin {NoKey, "Enter"}
    /\ KeyRepeats
    /\ IF ActsOnRepeat THEN Nav(lastKey, focus) ELSE UNCHANGED <<box, focus, open>>
    /\ UNCHANGED <<sections, visible, held, mouseOver, loaded>>

FrameKeyUp ==
    /\ focus \in Links /\ held # NoKey /\ held' = NoKey
    /\ IF held = "Enter" THEN UNCHANGED <<lastKey, repeatOn>> ELSE KeyComesUp
    /\ UNCHANGED <<box, sections, visible, open, focus, mouseOver, loaded>>

-----------------------------------------------------------------------------
(* The reader's keys, wherever they go; a key that is held down repeats.   *)
Ignored(key) == \/ focus \in {Field, Nothing}
                \/ focus = Menu /\ \/ key \in {"Left", "Right", "Text"}
                                   \/ Arrow(key) = "Down" /\ ~MayGoDown(box)
                                   \/ key = "Up" /\ ~MayGoUp(box)

KeyDown(key) ==
    /\ held \in {NoKey, key} /\ held' = key
    /\ \/ MenuKeyDown(key)
       \/ FrameKeyDown(key)
       \/ Ignored(key) /\ UNCHANGED <<box, focus, resultVars>>
    /\ UNCHANGED <<sections, mouseOver, loaded>>

KeyUpElsewhere ==
    /\ focus \in {Menu, Nothing} /\ held # NoKey /\ held' = NoKey
    /\ UNCHANGED <<box, sections, resultVars, focus, mouseOver, loaded>>

(* The text changes, by the keyboard or by the mouse; only a key that      *)
(* comes up afterwards is noticed.                                         *)
Edit(text) ==
    /\ focus = Field /\ text # box.field
    /\ box' = [box EXCEPT !.field = text]
    /\ UNCHANGED <<sections, resultVars, pageVars>>

-----------------------------------------------------------------------------
(* The mouse.                                                              *)
Click(p) ==
    /\ p \in {Field, Nothing} /\ focus # p
    /\ focus' = p /\ box' = FocusMoves(box, p)
    /\ UNCHANGED <<sections, resultVars, held, mouseOver, loaded>>

ClickClose ==
    /\ box.close
    /\ focus' = Nothing /\ box' = CloseResultsWindow(FocusMoves(box, Nothing))
    /\ UNCHANGED <<sections, resultVars, held, mouseOver, loaded>>

ClickRow(r) ==
    /\ box.shown /\ r \in visible /\ HasChildren(r)
    /\ focus' = Row(r) /\ box' = FocusMoves(box, Row(r))
    /\ open' = Toggled(r)
    /\ UNCHANGED <<sections, visible, lastKey, repeatOn, held, mouseOver, loaded>>

ClickMenuItem(id) ==
    /\ box.menu /\ mouseOver /\ StraysBounded
    /\ focus' = Menu /\ box' = OnSelectItem(FocusMoves(box, Menu), id)
    /\ UNCHANGED <<sections, resultVars, held, mouseOver, loaded>>

MouseOver ==
    /\ ~mouseOver /\ mouseOver' = TRUE
    /\ box' = OnSearchSelectShow(box)
    /\ UNCHANGED <<sections, resultVars, focus, held, loaded>>

MouseOut ==
    /\ mouseOver /\ mouseOver' = FALSE
    /\ box.hides < 2   \* bound; the timers never get that many
    /\ box' = OnSearchSelectHide(box)
    /\ UNCHANGED <<sections, resultVars, focus, held, loaded>>

-----------------------------------------------------------------------------
(* Timers, and the frame.                                                  *)
SearchTimer ==
    /\ box.timer
    /\ box' = Search(KillTimer(box))
    /\ UNCHANGED <<sections, resultVars, pageVars>>

StrayTimer ==
    /\ box.strays > 0
    /\ box' = Search([box EXCEPT !.strays = @ - 1])
    /\ UNCHANGED <<sections, resultVars, pageVars>>

(* The menu is gone; browsers differ in what its focus becomes.            *)
HideTimer ==
    /\ box.hides > 0
    /\ box' = [CloseSelectionWindow(box) EXCEPT !.hides = @ - 1]
    /\ focus' \in IF focus = Menu THEN {Menu, Nothing} ELSE {focus}
    /\ UNCHANGED <<sections, resultVars, held, mouseOver, loaded>>

Load ==
    /\ box.loading
    /\ box' = [box EXCEPT !.loading = FALSE]
    /\ loaded' = box.page
    /\ LoadedWith(IF box.page \in Content THEN Matching[box.term] ELSE {})
    /\ focus' = IF focus \in Links THEN Nothing ELSE focus
    /\ UNCHANGED <<sections, held, mouseOver>>

-----------------------------------------------------------------------------
Next ==
    \/ \E key \in Keys : KeyDown(key)
    \/ FieldKeyUp \/ FrameKeyPress \/ FrameKeyUp \/ KeyUpElsewhere
    \/ \E text \in Texts : Edit(text)
    \/ Click(Field) \/ Click(Nothing) \/ ClickClose
    \/ \E r \in Rows : ClickRow(r)
    \/ \E id \in 0..(sections - 1) : ClickMenuItem(id)
    \/ MouseOver \/ MouseOut
    \/ SearchTimer \/ StrayTimer \/ HideTimer
    \/ Load

Spec == Init /\ [][Next]_vars

-----------------------------------------------------------------------------
(* Every variable has its type; the section is at most one past the last.  *)
SearchTypeOK ==
    /\ sections \in SectionCounts
    /\ box \in [active : BOOLEAN, searchActive : BOOLEAN, field : Texts,
                lastSearchValue : Texts, lastResultsPage : Pages,
                searchIndex : 0..sections,
                shown : BOOLEAN, close : BOOLEAN, menu : BOOLEAN,
                timer : BOOLEAN, strays : 0..MaxStrays, hides : 0..2,
                page : Pages, term : Texts, loading : BOOLEAN]
    /\ visible \subseteq Rows /\ open \subseteq Rows
    /\ lastKey \in Keys \cup {NoKey} /\ repeatOn \in BOOLEAN
    /\ focus \in Links \cup {Field, Menu, Nothing}
    /\ held \in Keys \cup {NoKey} /\ mouseOver \in BOOLEAN /\ loaded \in Pages

(* The panel's own state, the page and the frame tell the same story:      *)
(* results can always be closed, a panel that looks inactive has no text   *)
(* of the reader's in it, and the results on display are those that the    *)
(* panel remembers, so that a text is not taken for searched when it is    *)
(* not.  A search can come from either timer or from the menu, also when   *)
(* the panel has just been left.                                           *)
BoxAgrees ==
    /\ box.shown = box.close
    /\ box.active = box.searchActive
    /\ ~box.active => box.field = Label
    /\ focus = Field => box.active
    /\ box.shown => /\ box.page = box.lastResultsPage
                    /\ box.page \in Content => box.term = box.lastSearchValue
                    /\ ~box.loading => loaded = box.page

(* The menu does not close under the mouse: no timer that was started when *)
(* the mouse left is still running when it has come back.                  *)
MenuStaysUnderMouse == mouseOver => box.hides = 0

(* The focus in the frame is on something that the reader can see, however *)
(* keys, clicks, searches and arriving pages are interleaved.  There is    *)
(* one exception: Down moves the focus to the results before it looks at   *)
(* the field, and a field that has nothing in it hides them.  A text that  *)
(* reads like the label is taken out of the field on that very occasion.   *)
FocusVisible ==
    focus \in Links => /\ focus \in Displayed
                       /\ box.shown \/ (box.active /\ Squeezed[box.field] = "")
=============================================================================
