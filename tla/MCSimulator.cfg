\* The simulator program, every scheme, on one to three cores.
SPECIFICATION RunSpec
CONSTANTS
    Jobs = {0, 1, 2, 3}
    Configurations <- MCConfigurations
    RunTimes = {1, 2, 3}
    Priorities = {0, 1}
    MaxTime = 20
    Workloads <- MCWorkloads
INVARIANTS
    SimTypeOK
    NoFailure
    CoresAgree
    RunTimesAgree
    RoundRobinBound
    StatisticsExact
    EndsInTime
PROPERTIES
    HonoursScheduler
    Terminates
\* The program ends.
CHECK_DEADLOCK FALSE
