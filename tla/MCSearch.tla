------------------------------ MODULE MCSearch ------------------------------
(* A page without sections, as the one in the repository, and one with a   *)
(* section that has results for two texts, which differ in a space.  Of    *)
(* the three rows, two have children, and each text hides some rows.       *)
EXTENDS SearchPage, TLC

MCTexts == {"", " ", "Search", "a b", "ab"}
MCSqueezed == [t \in MCTexts |-> CASE t = " " -> "" [] t = "a b" -> "ab" [] OTHER -> t]
MCTrimmed == [t \in MCTexts |-> IF t = " " THEN "" ELSE t]
MCFirst == ("" :> "NaN") @@ (" " :> " ") @@ ("Search" :> "s") @@ ("a b" :> "a") @@ ("ab" :> "a")
MCContent == {<<0, "a">>}

MCRows == 0..2
MCChildren == (0 :> 2) @@ (1 :> 2) @@ (2 :> 0)
MCMatching == ("" :> {}) @@ (" " :> {}) @@ ("Search" :> {}) @@ ("a b" :> {0}) @@ ("ab" :> 1..2)
=============================================================================
