\* examples/proc2.csv, preemptive shortest job first, one core.
SPECIFICATION RunSpec
CONSTANTS
    Jobs = {0, 1, 2, 3, 4}
    Configurations <- MCConfigurations
    RunTimes = {2, 3, 4, 5, 10}
    Priorities = {1, 2, 3, 4, 5}
    MaxTime = 30
    Workloads <- MCProc2
INVARIANT ResponseTimeExact
CHECK_DEADLOCK FALSE
