--------------------------- MODULE MCPriqueueList ---------------------------
(* Three data pointers, two of them to the same key.                       *)
EXTENDS PriqueueList

MCNodes == 1..4
MCPtrs == {11, 12, 21}
MCKey == [p \in MCPtrs |-> p \div 10]
MCIndices == -1..3
=============================================================================
