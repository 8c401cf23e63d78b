\* The scheduler library, every scheme, under its most general caller.
SPECIFICATION SchedSpec
CONSTANTS
    Jobs = {0, 1, 2}
    Configurations <- MCConfigurations
    RunTimes = {1, 3}
    Priorities = {1, 2}
    MaxTime = 4
INVARIANTS
    TypeOK
    QueueHoldsLiveJobs
    CoresMatch
    WorkConserving
    RunningFirst
    SortedQueue
PROPERTIES
    NonPreemptive
    ImplementsDispatcher
\* The caller stops at MaxTime.
CHECK_DEADLOCK FALSE
