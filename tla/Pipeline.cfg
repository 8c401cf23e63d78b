\* The processes of ipc/main.c, with forks, execs and programs that fail.
SPECIFICATION Spec
CONSTANTS
    Found = {0, 3}
    Limits = {0, 1, 4}
    Capacity = 1
INVARIANTS
    PipeTypeOK
    SuccessMeansAll
PROPERTIES
    Terminates
\* The program ends.
CHECK_DEADLOCK FALSE
