\* The pointer code of the queue against the comments of libpriqueue.c.
SPECIFICATION Spec
CONSTANTS
    Nodes <- MCNodes
    Ptrs <- MCPtrs
    Key <- MCKey
    Indices <- MCIndices
PROPERTIES
    KeepsComments
\* A program that has crashed stays where it is.
CHECK_DEADLOCK FALSE
