--------------------------- MODULE SchedulerDispatch ---------------------------
(***************************************************************************)
(* The scheduler library implements Dispatcher.  A core runs the job whose *)
(* record names it, the time a job still needs is what StillToRun computes *)
(* from the last start and the last update, and a waiting job waits since  *)
(* its pause time.                                                         *)
(***************************************************************************)
EXTENDS Scheduler

JobOn(c) ==
    IF \E j \in DOMAIN job : job[j].core_id = c
    THEN CHOOSE j \in DOMAIN job : job[j].core_id = c
    ELSE -1

Known(j) ==
    [arrival |-> job[j].arrival_time, run |-> job[j].run_time,
     priority |-> job[j].priority, left |-> StillToRun(j),
     since |-> IF Running(j) THEN 0 ELSE job[j].pause_time]

D == INSTANCE Dispatcher WITH
        scheme <- CURRENT_SCHEME,
        running <- [c \in Cores |-> JobOn(c)],
        info <- [j \in DOMAIN job |-> Known(j)],
        clock <- time

(* Every step of the library is a step that Dispatcher allows: the queue   *)
(* that mixes running and waiting jobs, the comparers and the scans pick   *)
(* the job and the core the scheme asks for (libscheduler.c:168-381).      *)
ImplementsDispatcher == D!Spec
=============================================================================
