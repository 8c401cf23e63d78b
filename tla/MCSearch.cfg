\* The search panel of a page without sections and of one with one.
SPECIFICATION Spec
CONSTANTS
    Texts <- MCTexts
    Label = "Search"
    Squeezed <- MCSqueezed
    Trimmed <- MCTrimmed
    First <- MCFirst
    Content <- MCContent
    Rows <- MCRows
    Children <- MCChildren
    Matching <- MCMatching
    SectionCounts = {0, 1}
    MaxStrays = 1
INVARIANTS
    SearchTypeOK
    BoxAgrees
    MenuStaysUnderMouse
    NavFollowsDisplay
    FocusVisible
