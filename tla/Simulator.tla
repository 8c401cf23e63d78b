------------------------------ MODULE Simulator ------------------------------
(***************************************************************************)
(* project2/simulator.c: the program that drives the scheduler library.    *)
(* Each time unit runs through phases:                                     *)
(*                                                                         *)
(*   finish   report every job whose run_time is used up   (lines 248-280) *)
(*   quantum  round robin: report expired quantums         (lines 291-328) *)
(*   arrive   hand over the jobs that arrive now           (lines 334-372) *)
(*   run      run the jobs that have a core for one unit   (lines 378-464) *)
(*                                                                         *)
(* and an action is one iteration of the loop of a phase that calls the    *)
(* library, or the step to the next phase.  The iterations that do nothing *)
(* are skipped: i is the first index that is still to be looked at.        *)
(*                                                                         *)
(* The program keeps its own array jobs, with the core it believes each    *)
(* job runs on; the library keeps its own records.  Nothing but the return *)
(* values of the calls keeps the two in step.                              *)
(*                                                                         *)
(* What the program was started with, and the file it read (lines 85-206), *)
(* is one workload: the scheme, the cores, the quantum and the lines of    *)
(* the file.  Printing is left out.  Suffixed definitions are as in        *)
(* Scheduler.tla: the next one with a plausible bug, used by no            *)
(* specification.                                                          *)
(***************************************************************************)
EXTENDS Scheduler

CONSTANT Workloads

(* The command line is checked (lines 92-151).  Nothing checks the file:   *)
(* that arrivals are unique is what libscheduler.c:158 tells the caller,   *)
(* and the examples have no job without running time.                      *)
ASSUME WorkloadAssumption ==
    \A w \in Workloads :
        /\ <<w.scheme, w.cores>> \in Configurations
        /\ w.scheme = "RR" => w.quantum \in Nat \ {0}
        /\ w.lines \in Seq([arrival_time : Nat, run_time : RunTimes,
                            priority : Priorities])
        /\ \A k \in DOMAIN w.lines : k - 1 \in Jobs
        /\ \A k, l \in DOMAIN w.lines :
                w.lines[k].arrival_time = w.lines[l].arrival_time => k = l

VARIABLES
    jobs,           \* jobs[0..active_jobs-1], here from index 1
    jobs_alive,
    quantum,
    quantum_clock,
    phase,
    i,
    spent           \* history: what the jobs really went through, in time units

simVars == <<jobs, jobs_alive, quantum, quantum_clock, phase, i, spent,
             schedVars>>

active_jobs == Len(jobs)

(* The ways the program gives up (lines 268-273, 311-316, 365-370, 392 and *)
(* 453-458).                                                               *)
Failures == {"invalid job", "invalid core", "core taken", "all idle"}

-----------------------------------------------------------------------------
Start(w) ==
    /\ scheduler_start_up(w.cores, w.scheme)
    /\ time = 0
    /\ jobs = [k \in 1..Len(w.lines) |->
                [job_id |-> k - 1, arrival_time |-> w.lines[k].arrival_time,
                 run_time |-> w.lines[k].run_time,
                 priority |-> w.lines[k].priority,
                 core_id |-> -1, arrived |-> 0]]
    /\ jobs_alive = 0
    /\ quantum = w.quantum
    /\ quantum_clock = [c \in 0..(w.cores - 1) |-> -1]
    /\ phase = IF Len(w.lines) > 0 THEN "finish" ELSE "done"
    /\ i = 1
    /\ spent = [turnaround |-> 0, waiting |-> 0, response |-> 0]

SimInit == \E w \in Workloads : Start(w)

(* set_active_job fails when the job is not among the arrived ones.        *)
Settable(job_id, known) ==
    {k \in 1..Len(known) : known[k].job_id = job_id /\ known[k].arrived = 1}

set_active_job(job_id, core_id, known) ==
    IF job_id = -1 \/ Settable(job_id, known) = {}
    THEN known
    ELSE [known EXCEPT ![Min(Settable(job_id, known))].core_id = core_id]

Rejected(job_id, known) == job_id # -1 /\ Settable(job_id, known) = {}

(* A finished job is overwritten with the last one.                        *)
Deleted_last(k) == SubSeq(jobs, 1, active_jobs - 1)
Deleted(k) ==
    IF k = active_jobs
    THEN SubSeq(jobs, 1, k - 1)
    ELSE [SubSeq(jobs, 1, active_jobs - 1) EXCEPT ![k] = jobs[active_jobs]]

(* Only round robin restarts the clock of a core that changes hands.       *)
RestartedClock(c) ==
    IF CURRENT_SCHEME = "RR" THEN [quantum_clock EXCEPT ![c] = quantum]
    ELSE quantum_clock

(* The numbers that a call may return, for the program to check.           *)
Returned == {-1} \cup Jobs \cup (0..num_cores)

Goto(next) == phase' = next /\ i' = 1

-----------------------------------------------------------------------------
(* Phase 1.                                                                *)

Used_late == {k \in i..active_jobs : jobs[k].run_time < 0}
Used_early == {k \in i..active_jobs : jobs[k].core_id # -1 /\ jobs[k].run_time <= 1}
Used == {k \in i..active_jobs : jobs[k].run_time = 0}

ReportFinished ==
    /\ phase = "finish"
    /\ \E k \in Used, new_job_id \in Returned :
        LET core_id == jobs[k].core_id
        IN  /\ k = Min(Used)
            /\ scheduler_job_finished(core_id, jobs[k].job_id, new_job_id)
            /\ quantum_clock' = RestartedClock(core_id)
            /\ jobs' = set_active_job(new_job_id, core_id, Deleted(k))
            /\ phase' = IF Rejected(new_job_id, Deleted(k))
                        THEN "invalid job" ELSE phase
            /\ i' = k
    /\ jobs_alive' = jobs_alive - 1
    /\ UNCHANGED <<quantum, spent>>

NoMoreFinished ==
    /\ phase = "finish"
    /\ Used = {}
    /\ Goto(IF active_jobs = 0 THEN "done"
            ELSE IF CURRENT_SCHEME = "RR" THEN "quantum" ELSE "arrive")
    /\ UNCHANGED <<jobs, jobs_alive, quantum, quantum_clock, spent, schedVars>>

-----------------------------------------------------------------------------
(* Phase 2.  i - 1 is the first core that is still to be looked at.        *)

On(c) == {k \in 1..active_jobs : jobs[k].core_id = c}

Expired == {c \in (i - 1)..(num_cores - 1) : quantum_clock[c] = 0 /\ On(c) # {}}

ReportExpired ==
    /\ phase = "quantum"
    /\ \E c \in Expired, new_job_id \in Returned :
        LET off == [jobs EXCEPT ![Min(On(c))].core_id = -1]
        IN  /\ c = Min(Expired)
            /\ scheduler_quantum_expired(c, new_job_id)
            /\ quantum_clock' = RestartedClock(c)
            /\ jobs' = set_active_job(new_job_id, c, off)
            /\ phase' = IF Rejected(new_job_id, off) THEN "invalid job" ELSE phase
            /\ i' = c + 2
    /\ UNCHANGED <<jobs_alive, quantum, spent>>

NoMoreExpired ==
    /\ phase = "quantum"
    /\ Expired = {}
    /\ Goto("arrive")
    /\ UNCHANGED <<jobs, jobs_alive, quantum, quantum_clock, spent, schedVars>>

-----------------------------------------------------------------------------
(* Phase 3.                                                                *)

Arriving == {k \in i..active_jobs : jobs[k].arrival_time = time}

(* The job at index k gets the core, and whoever used it loses it.         *)
HandedOver_unmarked(k, core) ==
    [l \in 1..active_jobs |->
        IF l = k /\ core \in Cores THEN [jobs[l] EXCEPT !.core_id = core]
        ELSE IF core \in Cores /\ jobs[l].core_id = core
             THEN [jobs[l] EXCEPT !.core_id = -1]
             ELSE jobs[l]]
HandedOver_shared(k, core) ==
    [jobs EXCEPT ![k].core_id = IF core \in Cores THEN core ELSE @,
                 ![k].arrived = 1]
HandedOver(k, core) ==
    [l \in 1..active_jobs |->
        IF l = k
        THEN [jobs[l] EXCEPT !.core_id = IF core \in Cores THEN core ELSE @,
                             !.arrived = 1]
        ELSE IF core \in Cores /\ jobs[l].core_id = core
             THEN [jobs[l] EXCEPT !.core_id = -1]
             ELSE jobs[l]]

ReportArrival ==
    /\ phase = "arrive"
    /\ \E k \in Arriving, core \in Returned :
        /\ k = Min(Arriving)
        /\ scheduler_new_job(jobs[k].job_id, jobs[k].run_time, jobs[k].priority, core)
        /\ jobs' = HandedOver(k, core)
        /\ quantum_clock' = IF core \in Cores THEN RestartedClock(core)
                            ELSE quantum_clock
        /\ phase' = IF core \in Cores \cup {-1} THEN phase ELSE "invalid core"
        /\ i' = k + 1
    /\ jobs_alive' = jobs_alive + 1
    /\ UNCHANGED <<quantum, spent>>

NoMoreArrivals ==
    /\ phase = "arrive"
    /\ Arriving = {}
    /\ Goto("run")
    /\ UNCHANGED <<jobs, jobs_alive, quantum, quantum_clock, spent, schedVars>>

-----------------------------------------------------------------------------
(* Phases 4 to 7.                                                          *)

Working == {k \in 1..active_jobs : jobs[k].core_id # -1}

(* For the history: the jobs in the system, and those of them that have    *)
(* not had a single time unit.                                             *)
Alive == {k \in 1..active_jobs : jobs[k].arrived = 1}
NeverRan == {k \in Alive : jobs[k].run_time = job[jobs[k].job_id].run_time}

RunUnit ==
    /\ phase = "run"
    /\ jobs' = [k \in 1..active_jobs |->
                    IF k \in Working THEN [jobs[k] EXCEPT !.run_time = @ - 1]
                    ELSE jobs[k]]
    /\ quantum_clock' =
            [c \in Cores |-> quantum_clock[c] - Cardinality(On(c))]
    /\ spent' = [turnaround |-> spent.turnaround + Cardinality(Alive),
                 waiting |-> spent.waiting + Cardinality(Alive \ Working),
                 response |-> spent.response + Cardinality(NeverRan \ Working)]
    /\ IF \E c \in Cores : Cardinality(On(c)) > 1
       THEN Goto("core taken") /\ time' = time
       ELSE IF jobs_alive > 0 /\ Working = {}
            THEN Goto("all idle") /\ time' = time
            ELSE Goto("finish") /\ time' = time + 1
    /\ UNCHANGED <<jobs_alive, quantum, CURRENT_SCHEME, num_cores, active,
                   QUEUE, job, num_jobs, waiting_time, turnaround_time,
                   response_time>>

(* After the loop the averages are printed and the library is closed.      *)
CleanUp ==
    /\ phase = "done"
    /\ scheduler_clean_up
    /\ phase' = "ended"
    /\ UNCHANGED <<jobs, jobs_alive, quantum, quantum_clock, i, spent>>

-----------------------------------------------------------------------------
SimNext ==
    \/ ReportFinished \/ NoMoreFinished
    \/ ReportExpired \/ NoMoreExpired
    \/ ReportArrival \/ NoMoreArrivals
    \/ RunUnit
    \/ CleanUp

(* One process that never blocks: nothing but the program's own end stops  *)
(* it.                                                                     *)
SimSpec == SimInit /\ [][SimNext]_simVars /\ WF_simVars(SimNext)

-----------------------------------------------------------------------------
(* Properties.                                                             *)

SimTypeOK ==
    /\ jobs \in Seq([job_id : Jobs, arrival_time : Nat, run_time : Nat,
                     priority : Priorities, core_id : Cores \cup {-1},
                     arrived : {0, 1}])
    /\ jobs_alive = Cardinality(Alive)
    /\ quantum_clock \in [Cores -> Int]
    /\ phase \in {"finish", "quantum", "arrive", "run", "done", "ended"} \cup Failures
    /\ i \in 1..(active_jobs + num_cores + 1)

(* None of the program's own checks fails: no call returns a job that is   *)
(* not there or a core that is not there, no two jobs run on one core, and *)
(* the cores are never all idle while a job is in the system.              *)
NoFailure == phase \notin Failures

(* The core that the program believes a job runs on is the one that the    *)
(* library has in its record, and both know of the same jobs, after every  *)
(* call: nothing is lost between the swap of the array, the loop that      *)
(* takes the core from its user, and the return values (lines 248-372).    *)
CoresAgree ==
    phase \notin Failures =>
        /\ DOMAIN job = {jobs[k].job_id : k \in Alive}
        /\ \A k \in 1..active_jobs :
                jobs[k].core_id = IF k \in Alive THEN job[jobs[k].job_id].core_id
                                  ELSE -1

(* The library computes the time a job needs from the times of its starts  *)
(* and stops; the program counts it down unit by unit (line 389).  They    *)
(* agree, through every preemption and every quantum.                      *)
RunTimesAgree ==
    \A k \in Alive : jobs[k].run_time = StillToRun(jobs[k].job_id)

(* Round robin: with n jobs on c cores no job waits longer for its next    *)
(* turn than the other jobs need for theirs (libscheduler.c:340-371).      *)
RoundRobinBound ==
    phase = "run" /\ CURRENT_SCHEME = "RR" =>
        \A j \in DOMAIN job : ~Running(j) =>
            time - job[j].pause_time
                < quantum * ((num_jobs + num_cores - 1) \div num_cores - 1)

(* At the end the sums that the averages are made of are what the jobs     *)
(* really went through.  For the response time this holds when the scheme  *)
(* is not preemptive; ResponseTimeExact is about the others.               *)
StatisticsExact ==
    phase = "done" =>
        /\ turnaround_time = spent.turnaround
        /\ waiting_time = spent.waiting
        /\ ~Preemptive => response_time = spent.response

(* "the average response time of all jobs scheduled" (libscheduler.c:415): *)
(* the time from the arrival of a job to its first time unit.              *)
ResponseTimeExact == phase = "done" => response_time = spent.response

(* When scheduler_clean_up is called every job is finished and its record  *)
(* freed, so that no record is lost with the list (lines 241, 285, 477).   *)
(* That the records are gone is CoresAgree at the end; AllFreed proves it. *)
AllFreedAtEnd == phase = "done" => QUEUE = <<>> /\ DOMAIN job = {}

(* The program always comes to its end.                                    *)
Terminates == <>(phase = "ended")

(* The program is a caller that the library is meant for: every call       *)
(* respects what libscheduler.c:97-101 and 157-158 ask of it, and no job   *)
(* is preempted, rotated or run on after its last time unit.               *)
HonoursScheduler == SchedSpec
=============================================================================
