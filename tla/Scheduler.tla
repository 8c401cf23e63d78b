------------------------------ MODULE Scheduler ------------------------------
(***************************************************************************)
(* project2/libscheduler/libscheduler.c: the scheduler library behind the  *)
(* CPU-scheduling simulator.  One list, QUEUE, holds every live job, the   *)
(* running ones included: job[j].core_id tells the core j runs on, or -1.  *)
(*                                                                         *)
(* Each library function is an action; its last parameter is what it       *)
(* returns to its caller.  The list functions of libpriqueue.c are taken   *)
(* from PriqueueOps.  DOMAIN job is the set of job_t records that are      *)
(* allocated: malloc adds to it, free takes from it.                       *)
(*                                                                         *)
(* SchedSpec closes the library with the most general caller that respects *)
(* what the comments of the library ask of it: arrival times are unique,   *)
(* a job is reported finished when it has run for all its running time,    *)
(* and time passes only after the jobs that are done were reported.        *)
(* Simulator.tla is the actual caller.                                     *)
(*                                                                         *)
(* A definition whose name has a suffix, as in LowestIdle_unchecked, is    *)
(* the one after it with a plausible bug.  No specification uses it: it is *)
(* put in the place of the right one to see that a property notices.       *)
(*                                                                         *)
(* The statistics are floats that only ever hold integers and are divided  *)
(* by num_jobs when they are read; here they are the integers.             *)
(***************************************************************************)
EXTENDS PriqueueOps

CONSTANTS
    Jobs,            \* the job numbers the caller may use
    Configurations,  \* the <<scheme, cores>> pairs scheduler_start_up may get
    RunTimes,        \* the running times of the jobs
    Priorities,      \* their priorities: the lower, the more urgent
    MaxTime          \* bound: the caller's clock stops here

Schemes == {"FCFS", "SJF", "PSJF", "PRI", "PPRI", "RR"}

(* Job numbers are C ints of the caller and -1 means "no job".  The caller *)
(* checks that cores > 0 and that the scheme is one of the enumeration.    *)
ASSUME SchedulerAssumption ==
    /\ Jobs \subseteq Nat
    /\ Configurations \subseteq Schemes \X (Nat \ {0})
    /\ RunTimes \subseteq Nat \ {0}
    /\ Priorities \subseteq Int
    /\ MaxTime \in Nat

VARIABLES
    CURRENT_SCHEME,
    num_cores,
    active,           \* core_list[c].active: 1 when core c has a job, else -1
    QUEUE,            \* the jobs in the order of the priority queue
    job,              \* the allocated job_t records, by job number
    num_jobs,
    waiting_time, turnaround_time, response_time,
    time              \* the caller's clock, passed to every call

schedVars == <<CURRENT_SCHEME, num_cores, active, QUEUE, job, num_jobs,
               waiting_time, turnaround_time, response_time, time>>

Cores == 0..(num_cores - 1)

Preemptive_always == CURRENT_SCHEME \in {"PRI", "PPRI", "PSJF"}
Preemptive == CURRENT_SCHEME \in {"PPRI", "PSJF"}

-----------------------------------------------------------------------------
(* The comparers, on two job_t records.                                    *)

FCFS_COMPARE(a, b) == a.arrival_time - b.arrival_time

ByThenArrival(x, y, a, b) == IF x # y THEN x - y ELSE FCFS_COMPARE(a, b)

SJF_COMPARE(a, b) == ByThenArrival(a.run_time, b.run_time, a, b)

PSJF_COMPARE(a, b) == ByThenArrival(a.time_remaining, b.time_remaining, a, b)

PRI_COMPARE(a, b) == ByThenArrival(a.priority, b.priority, a, b)

(* The jobs of round robin are kept in the order they were offered.        *)
RR_COMPARE_ahead(a, b) == -1
RR_COMPARE(a, b) == 1

(* The comparer scheduler_start_up gives to the queue.                     *)
cmp(a, b) ==
    IF CURRENT_SCHEME = "FCFS" THEN FCFS_COMPARE(a, b)
    ELSE IF CURRENT_SCHEME = "SJF" THEN SJF_COMPARE(a, b)
    ELSE IF CURRENT_SCHEME = "PSJF" THEN PSJF_COMPARE(a, b)
    ELSE IF CURRENT_SCHEME \in {"PRI", "PPRI"} THEN PRI_COMPARE(a, b)
    ELSE RR_COMPARE(a, b)

(* priqueue_offer(QUEUE, j), where j points to the record new and the jobs *)
(* of q have the records known.                                            *)
OfferJob(q, known, j, new) ==
    Offer(q, j, [k \in 1..Len(q) |-> cmp(new, known[q[k]])])

-----------------------------------------------------------------------------
scheduler_start_up(cores, scheme) ==
    /\ CURRENT_SCHEME = scheme
    /\ num_cores = cores
    /\ active = [c \in Cores |-> -1]
    /\ QUEUE = <<>>
    /\ job = <<>>
    /\ num_jobs = 0
    /\ waiting_time = 0
    /\ turnaround_time = 0
    /\ response_time = 0

(* The record that scheduler_new_job allocates and fills in.               *)
NewRecord(running_time, priority) ==
    [core_id |-> -1, arrival_time |-> time, run_time |-> running_time,
     priority |-> priority, start_time |-> -1,
     time_remaining |-> running_time, pause_time |-> time, responded |-> -1]

IdleCores == {c \in Cores : active[c] = -1}

LowestIdle_unchecked == 0
LowestIdle == Min(IdleCores)

(* The time units job j still has to run.                                  *)
StillToRun(j) ==
    IF job[j].core_id = -1
    THEN job[j].time_remaining
    ELSE job[j].time_remaining - (time - job[j].start_time)

(* The first loop of the preemptive branch: the time remaining of the      *)
(* first num_cores jobs of QUEUE is brought up to date.                    *)
Refreshed ==
    LET head == {QUEUE[i] : i \in 1..num_cores}
    IN  [k \in DOMAIN job |->
            IF k \in head
            THEN [job[k] EXCEPT
                    !.time_remaining = @ - (time - job[k].start_time),
                    !.start_time = time]
            ELSE job[k]]

(* The records new_job is compared with: they are only brought up to date  *)
(* when no core is idle and the scheme is preemptive.                      *)
RecordsAtOffer_stale == job
RecordsAtOffer ==
    IF IdleCores = {} /\ Preemptive THEN Refreshed ELSE job

(* The last of the first num_cores jobs, where the loop over them leaves   *)
(* the variable temp: the one that gives way.                              *)
Victim_first == QUEUE[1]
Victim == QUEUE[num_cores]

(* The second loop: the new job is among the first num_cores ones now.     *)
AmongFirst_onemore(j, q) == \E k \in 1..(num_cores + 1) : q[k] = j
AmongFirst(j, q) == \E k \in 1..num_cores : q[k] = j

Allocate(j, record, known) ==
    job' = [k \in DOMAIN known \cup {j} |-> IF k = j THEN record ELSE known[k]]

scheduler_new_job(j, running_time, priority, core_index) ==
    LET new == NewRecord(running_time, priority)
    IN  /\ num_jobs' = num_jobs + 1
        /\ QUEUE' = OfferJob(QUEUE, RecordsAtOffer, j, new)
        /\ \/ /\ IdleCores # {}
              /\ core_index = LowestIdle
              /\ Allocate(j, [new EXCEPT !.core_id = core_index, !.responded = 1,
                                         !.start_time = time], job)
              /\ active' = [active EXCEPT ![core_index] = 1]
           \/ /\ IdleCores = {}
              /\ Preemptive /\ AmongFirst(j, QUEUE')
              /\ core_index = job[Victim].core_id
              /\ Allocate(j, [new EXCEPT !.core_id = core_index, !.responded = 1,
                                         !.start_time = time, !.pause_time = 0],
                          [Refreshed EXCEPT ![Victim].core_id = -1,
                                            ![Victim].pause_time = time])
              /\ UNCHANGED active
           \/ /\ IdleCores = {}
              /\ ~(Preemptive /\ AmongFirst(j, QUEUE'))
              /\ core_index = -1
              /\ Allocate(j, new, RecordsAtOffer)
              /\ UNCHANGED active
        /\ UNCHANGED <<CURRENT_SCHEME, num_cores, waiting_time,
                       turnaround_time, response_time, time>>

-----------------------------------------------------------------------------
(* The loop both functions below end with: the first job of q, in queue    *)
(* order, that is on no core, or -1.                                       *)
FirstWaiting_short(q, known) ==
    LET w == FirstIn(Front(q), {k \in DOMAIN known : known[k].core_id = -1})
    IN  IF w = 0 THEN -1 ELSE q[w]
FirstWaiting(q, known) ==
    LET w == FirstIn(q, {k \in DOMAIN known : known[k].core_id = -1})
    IN  IF w = 0 THEN -1 ELSE q[w]

(* What a job that is woken adds to the waiting time.                      *)
Waited_swapped(record) == record.pause_time - time
Waited(record) == time - record.pause_time

(* That job gets core c, or c becomes idle.  The pause time of a running   *)
(* job is not read; the two functions leave a different mark there.        *)
WakeOn(c, q, known, mark, wake_job_id) ==
    /\ wake_job_id = FirstWaiting(q, known)
    /\ \/ /\ wake_job_id = -1
          /\ job' = known
          /\ active' = [active EXCEPT ![c] = -1]
          /\ UNCHANGED <<waiting_time, response_time>>
       \/ /\ wake_job_id # -1
          /\ job' = [known EXCEPT ![wake_job_id].core_id = c,
                                  ![wake_job_id].start_time = time,
                                  ![wake_job_id].pause_time = mark,
                                  ![wake_job_id].responded = 1]
          /\ waiting_time' = waiting_time + Waited(known[wake_job_id])
          /\ response_time' = response_time +
                IF known[wake_job_id].responded = -1
                THEN time - known[wake_job_id].arrival_time ELSE 0
          /\ UNCHANGED active

(* The list and the records that are left when job j is removed and freed. *)
QueueWithout_polled(j) == Tail(QUEUE)
QueueWithout(j) == RemoveAt(QUEUE, FirstIn(QUEUE, {j}))

RecordsWithout(j) == [k \in DOMAIN job \ {j} |-> job[k]]

scheduler_job_finished(c, j, wake_job_id) ==
    /\ QUEUE' = QueueWithout(j)
    /\ turnaround_time' = turnaround_time + (time - job[j].arrival_time)
    /\ WakeOn(c, QUEUE', RecordsWithout(j), 0, wake_job_id)
    /\ UNCHANGED <<CURRENT_SCHEME, num_cores, num_jobs, time>>

(* The index in QUEUE of the job of core c; 0 when c has none.             *)
OnCore(c) == FirstIn(QUEUE, {k \in DOMAIN job : job[k].core_id = c})

(* The record of the job that loses its core is written back; then the job *)
(* is offered to the list that it was taken out of.                        *)
RecordsExpired_unpaused(j) ==
    [job EXCEPT ![j].core_id = -1,
                ![j].time_remaining = @ - (time - job[j].start_time)]
RecordsExpired_unspent(j) ==
    [job EXCEPT ![j].core_id = -1, ![j].pause_time = time]
RecordsExpired(j) ==
    [job EXCEPT ![j].core_id = -1,
                ![j].pause_time = time,
                ![j].time_remaining = @ - (time - job[j].start_time)]

scheduler_quantum_expired(c, wake_job_id) ==
    /\ \/ /\ OnCore(c) = 0
          /\ wake_job_id = -1
          /\ active' = [active EXCEPT ![c] = -1]
          /\ UNCHANGED <<QUEUE, job, waiting_time, response_time>>
       \/ /\ OnCore(c) # 0
          /\ LET expire == QUEUE[OnCore(c)]
                 known == RecordsExpired(expire)
             IN  /\ QUEUE' = OfferJob(QueueWithout(expire), known, expire,
                                      known[expire])
                 /\ WakeOn(c, QUEUE', known, -1, wake_job_id)
    /\ UNCHANGED <<CURRENT_SCHEME, num_cores, num_jobs, turnaround_time, time>>

(* The list is given back with whatever is in it, the records are not      *)
(* (AllFreedAtEnd in Simulator.tla says that there are none).              *)
scheduler_clean_up ==
    /\ QUEUE' = <<>>
    /\ UNCHANGED <<CURRENT_SCHEME, num_cores, active, job, num_jobs,
                   waiting_time, turnaround_time, response_time, time>>

-----------------------------------------------------------------------------
(* The caller.                                                             *)

Running(j) == job[j].core_id # -1

(* Every job whose running time is over has been reported.                 *)
NoneOver == \A j \in DOMAIN job : Running(j) => StillToRun(j) > 0

Arrive ==
    /\ NoneOver
    /\ \A k \in DOMAIN job : job[k].arrival_time # time
    /\ \E j \in Jobs \ DOMAIN job, r \in RunTimes, p \in Priorities :
            \E core_index \in Cores \cup {-1} :
                scheduler_new_job(j, r, p, core_index)

Finish ==
    \E j \in DOMAIN job :
        /\ Running(j)
        /\ StillToRun(j) = 0
        /\ \E wake_job_id \in Jobs \cup {-1} :
                scheduler_job_finished(job[j].core_id, j, wake_job_id)

Expire ==
    /\ CURRENT_SCHEME = "RR"
    /\ NoneOver
    /\ \E c \in Cores, wake_job_id \in Jobs \cup {-1} :
            scheduler_quantum_expired(c, wake_job_id)

Tick ==
    /\ NoneOver
    /\ time < MaxTime
    /\ time' = time + 1
    /\ UNCHANGED <<CURRENT_SCHEME, num_cores, active, QUEUE, job, num_jobs,
                   waiting_time, turnaround_time, response_time>>

SchedInit ==
    /\ \E config \in Configurations : scheduler_start_up(config[2], config[1])
    /\ time = 0

SchedNext == Arrive \/ Finish \/ Expire \/ Tick

SchedSpec == SchedInit /\ [][SchedNext]_schedVars

-----------------------------------------------------------------------------
(* Properties.                                                             *)

JobRecord ==
    [core_id : Cores \cup {-1}, arrival_time : 0..time, run_time : RunTimes,
     priority : Priorities, start_time : -1..time, time_remaining : Int,
     pause_time : -1..time, responded : {-1, 1}]

TypeOK ==
    /\ <<CURRENT_SCHEME, num_cores>> \in Configurations
    /\ active \in [Cores -> {-1, 1}]
    /\ QUEUE \in Seq(Jobs)
    /\ DOMAIN job \subseteq Jobs
    /\ job \in [DOMAIN job -> JobRecord]
    /\ num_jobs \in Nat
    /\ waiting_time \in Nat
    /\ turnaround_time \in Nat
    /\ response_time \in Nat
    /\ time \in Nat

(* The queue holds every job that is allocated, once, and no other: no     *)
(* function loses a job, leaves a freed one in the list or frees one twice *)
(* (libscheduler.c:171, 265, 274, 333, 345).                               *)
QueueHoldsLiveJobs ==
    /\ IsInjective(QUEUE)
    /\ ToSet(QUEUE) = DOMAIN job

(* A core is marked active exactly when one job has it: a job is never     *)
(* given a core that another one still has, and a core whose job left is   *)
(* handed on or marked idle (libscheduler.c:198-202, 218-226, 292, 302).   *)
CoresMatch ==
    /\ \A c \in Cores :
            active[c] = 1 <=> \E j \in DOMAIN job : job[j].core_id = c
    /\ \A j, k \in DOMAIN job :
            Running(j) /\ job[j].core_id = job[k].core_id => j = k

(* No core is idle while a job waits for one.                              *)
WorkConserving ==
    IdleCores # {} => \A j \in DOMAIN job : Running(j)

(* What scheduler_new_job relies on in its preemptive branch (lines 208    *)
(* to 228): when no core is idle, the first num_cores jobs of the queue    *)
(* are there and they are the running ones, so that the last of them is    *)
(* the one to give way.                                                    *)
RunningFirst ==
    Preemptive /\ IdleCores = {} =>
        /\ num_cores <= Len(QUEUE)
        /\ \A i \in 1..Len(QUEUE) : Running(QUEUE[i]) <=> i <= num_cores

(* The queue is in the order of its comparer, although the comparer is     *)
(* called with "< 0" for the first node and "> 0" for the others and the   *)
(* key of PSJF changes while a job is in the list (libpriqueue.c:48-61,    *)
(* libscheduler.c:210).  Round robin has no order, and PSJF on several     *)
(* cores is the subject of ShortestJobsRun.                                *)
SortedQueue ==
    CURRENT_SCHEME \in {"FCFS", "SJF", "PRI", "PPRI"}
        \/ (CURRENT_SCHEME = "PSJF" /\ num_cores = 1)
    => \A i, k \in 1..Len(QUEUE) :
            i < k => cmp(job[QUEUE[i]], job[QUEUE[k]]) < 0

(* A job that has a core keeps that core until it is finished, unless the  *)
(* scheme is preemptive or round robin (libscheduler.c:204, 230).          *)
NonPreemptive ==
    [][\A j \in DOMAIN job \cap DOMAIN job' :
            CURRENT_SCHEME \in {"FCFS", "SJF", "PRI"} /\ Running(j)
                => job'[j].core_id = job[j].core_id]_schedVars

(* "Preemptive Shortest Job First (PSJF)", as simulator.c:218 calls the    *)
(* scheme: once the calls of a time unit are made, no waiting job needs    *)
(* less time than a running one.                                           *)
ShortestJobsRun ==
    CURRENT_SCHEME = "PSJF" /\ NoneOver =>
        \A j, k \in DOMAIN job :
            Running(j) /\ ~Running(k) => StillToRun(j) <= StillToRun(k)
=============================================================================
