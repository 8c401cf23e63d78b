------------------------------ MODULE Dispatcher ------------------------------
(***************************************************************************)
(* What the scheduler of project2 promises, with no queue: a set of jobs,  *)
(* the job each core runs, the exact time each job still needs, and the    *)
(* rule of the scheme for which waiting job is more urgent.                *)
(*                                                                         *)
(*   - a core is idle only when no job waits;                              *)
(*   - an arriving job takes the idle core with the lowest number;         *)
(*   - with a preemptive scheme it takes the core of the least urgent      *)
(*     running job, when it is more urgent than that one;                  *)
(*   - a core that is given up goes to a most urgent waiting job;          *)
(*   - nothing else takes a core from a job.                               *)
(*                                                                         *)
(* Scheduler.tla implements it: see SchedulerDispatch.tla.                 *)
(***************************************************************************)
EXTENDS Integers, FiniteSetsExt

CONSTANTS Jobs, Configurations, RunTimes, Priorities, MaxTime

VARIABLES
    scheme,
    running,   \* the job of each core, or -1
    info,      \* what is known of each job that arrived and is not finished
    clock

dispatchVars == <<scheme, running, info, clock>>

IdleCores == {c \in DOMAIN running : running[c] = -1}
Waiting == {j \in DOMAIN info : \A c \in DOMAIN running : running[c] # j}

(* The job with record a goes before the one with record b.  The schemes   *)
(* that compare a key break ties by arrival; round robin takes the job     *)
(* that has been waiting the longest.                                      *)
Precedes(a, b) ==
    LET ranked(x, y) == x < y \/ (x = y /\ a.arrival < b.arrival)
    IN  \/ scheme = "FCFS" /\ a.arrival < b.arrival
        \/ scheme = "SJF" /\ ranked(a.run, b.run)
        \/ scheme = "PSJF" /\ ranked(a.left, b.left)
        \/ scheme \in {"PRI", "PPRI"} /\ ranked(a.priority, b.priority)
        \/ scheme = "RR" /\ a.since < b.since

(* The jobs of S that no other job of S precedes.                          *)
MostUrgent(S, known) == {j \in S : \A k \in S : ~Precedes(known[k], known[j])}

(* Core c is given up: the jobs of S compete for it.                       *)
GiveCore(c, S, known) ==
    IF S = {}
    THEN /\ running' = [running EXCEPT ![c] = -1]
         /\ info' = known
    ELSE \E j \in MostUrgent(S, known) :
            /\ running' = [running EXCEPT ![c] = j]
            /\ info' = [known EXCEPT ![j].since = 0]

-----------------------------------------------------------------------------
Init ==
    /\ \E config \in Configurations :
            /\ scheme = config[1]
            /\ running = [c \in 0..(config[2] - 1) |-> -1]
    /\ info = <<>>
    /\ clock = 0

(* The cores a newcomer takes over: those of the least urgent running job, *)
(* when the newcomer precedes it.                                          *)
Contested(new) ==
    {c \in DOMAIN running :
        /\ scheme \in {"PPRI", "PSJF"}
        /\ Precedes(new, info[running[c]])
        /\ \A d \in DOMAIN running :
                ~Precedes(info[running[c]], info[running[d]])}

Admit(j, r, p) ==
    LET new(since) == [arrival |-> clock, run |-> r, priority |-> p, left |-> r,
                       since |-> since]
        admit(known, since) ==
            info' = [k \in DOMAIN known \cup {j} |->
                        IF k = j THEN new(since) ELSE known[k]]
    IN  /\ \/ /\ IdleCores # {}
              /\ running' = [running EXCEPT ![Min(IdleCores)] = j]
              /\ admit(info, 0)
           \/ /\ IdleCores = {}
              /\ \E c \in Contested(new(clock)) :
                    /\ running' = [running EXCEPT ![c] = j]
                    /\ admit([info EXCEPT ![running[c]].since = clock], 0)
           \/ /\ IdleCores = {}
              /\ Contested(new(clock)) = {}
              /\ admit(info, clock)
              /\ UNCHANGED running
        /\ UNCHANGED <<scheme, clock>>

(* The job of core c has run for all its running time.                     *)
Complete(c) ==
    /\ running[c] # -1
    /\ info[running[c]].left = 0
    /\ GiveCore(c, Waiting, [k \in DOMAIN info \ {running[c]} |-> info[k]])
    /\ UNCHANGED <<scheme, clock>>

(* Round robin: the job of core c has used up its share.                   *)
Rotate(c) ==
    /\ scheme = "RR"
    /\ running[c] # -1
    /\ GiveCore(c, Waiting \cup {running[c]},
                [info EXCEPT ![running[c]].since = clock])
    /\ UNCHANGED <<scheme, clock>>

Pass ==
    /\ \A c \in DOMAIN running : running[c] # -1 => info[running[c]].left > 0
    /\ clock < MaxTime
    /\ clock' = clock + 1
    /\ info' = [k \in DOMAIN info |->
                    IF k \in Waiting THEN info[k]
                    ELSE [info[k] EXCEPT !.left = @ - 1]]
    /\ UNCHANGED <<scheme, running>>

Next ==
    \/ \E j \in Jobs \ DOMAIN info, r \in RunTimes, p \in Priorities :
            Admit(j, r, p)
    \/ \E c \in DOMAIN running : Complete(c) \/ Rotate(c)
    \/ Pass

Spec == Init /\ [][Next]_dispatchVars
=============================================================================
