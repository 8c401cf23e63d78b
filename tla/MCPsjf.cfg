\* Preemptive shortest job first on two cores.
SPECIFICATION SchedSpec
CONSTANTS
    Jobs = {0, 1, 2}
    Configurations <- MCPsjfOnTwoCores
    RunTimes = {1, 2, 3, 4}
    Priorities = {0}
    MaxTime = 4
INVARIANT ShortestJobsRun
CHECK_DEADLOCK FALSE
