\* The pointer code of the queue under any caller.
SPECIFICATION Spec
CONSTANTS
    Nodes <- MCNodes
    Ptrs <- MCPtrs
    Key <- MCKey
    Indices <- MCIndices
INVARIANTS
    ListTypeOK
    UsesLiveMemory
    ListSorted
PROPERTIES
    ImplementsPriqueue
    CallsReturn
\* A program that has crashed stays where it is.
CHECK_DEADLOCK FALSE
