--------------------------- MODULE SimulatorProofs ---------------------------
(***************************************************************************)
(* The simulator and the library stay in step, for any number of jobs and  *)
(* cores, any quantum and any input file that respects WorkloadAssumption, *)
(* and at the end of the program the statistics are what the jobs went     *)
(* through.  With round robin no job waits longer than the others need for *)
(* their turns.                                                            *)
(*                                                                         *)
(* The program knows a job by its index in the array, which changes when   *)
(* another job is deleted, the library by its number.                      *)
(***************************************************************************)
EXTENDS SimulatorHorizon, SchedulerProofs

JobEntry ==
    [job_id : Jobs, arrival_time : Nat, run_time : Nat, priority : Priorities,
     core_id : Cores \cup {-1}, arrived : {0, 1}]

(* Job numbers and times of arrival tell the jobs apart.                   *)
EntriesDiffer ==
    \A k, l \in 1..active_jobs :
        \/ jobs[k].job_id = jobs[l].job_id
        \/ jobs[k].arrival_time = jobs[l].arrival_time
        => k = l

(* The library was told of the jobs that should have arrived by now.       *)
Due(k) ==
    \/ jobs[k].arrival_time < time
    \/ /\ jobs[k].arrival_time = time
       /\ phase = "run" \/ (phase = "arrive" /\ k < i)

ArrivedWhenDue == \A k \in 1..active_jobs : jobs[k].arrived = 1 <=> Due(k)

(* What an entry of the program's array says of the job is what the record *)
(* of the library says.                                                    *)
InStep(entry) ==
    IF entry.arrived = 1
    THEN /\ entry.job_id \in DOMAIN job
         /\ entry.core_id = job[entry.job_id].core_id
         /\ entry.arrival_time = job[entry.job_id].arrival_time
         /\ entry.run_time = StillToRun(entry.job_id)
    ELSE entry.core_id = -1

AllInStep ==
    /\ \A k \in 1..active_jobs : InStep(jobs[k])
    /\ \A j \in DOMAIN job :
            \E k \in 1..active_jobs : jobs[k].job_id = j /\ jobs[k].arrived = 1

(* A job whose time is over is on a core, and is reported before anything  *)
(* else happens.                                                           *)
OverIsReported ==
    \A k \in 1..active_jobs :
        jobs[k].run_time = 0 =>
            jobs[k].core_id # -1 /\ phase = "finish" /\ k >= i

(* Quantums are for round robin, which has a positive one.                 *)
QuantumOK ==
    /\ CURRENT_SCHEME = "RR" => quantum \in Nat \ {0}
    /\ phase = "quantum" => CURRENT_SCHEME = "RR"

(* A job that the library was not told of yet has its time from the file.  *)
NotStarted ==
    \A k \in 1..active_jobs : jobs[k].arrived = 0 => jobs[k].run_time \in RunTimes

NoneAtEnd == phase \in {"done", "ended"} => active_jobs = 0

SimInv ==
    /\ IInv
    /\ SimTypeOK
    /\ NoFailure
    /\ EntriesDiffer
    /\ ArrivedWhenDue
    /\ AllInStep
    /\ OverIsReported
    /\ QuantumOK
    /\ NotStarted
    /\ NoneAtEnd

-----------------------------------------------------------------------------
(* The units of time before t that the jobs of S have been in a state      *)
(* since the times of from.                                                *)
UnitsOf(S, from, t) == {u \in S \X (0..(t - 1)) : from[u[1]] <= u[2]}

UnansweredIn(known) == {j \in DOMAIN known : known[j].responded = -1}

ArrivalIn(known) == [j \in DOMAIN known |-> known[j].arrival_time]
PauseIn(known) == [j \in DOMAIN known |-> known[j].pause_time]

(* What the records still owe the statistics at time t: a sum gets its     *)
(* share when a job is finished or woken.                                  *)
OwedTurnaround(known, t) ==
    Cardinality(UnitsOf(DOMAIN known, ArrivalIn(known), t))
OwedWaiting(known, t) ==
    Cardinality(UnitsOf(WaitingIn(known), PauseIn(known), t))
OwedResponse(known, t) ==
    Cardinality(UnitsOf(UnansweredIn(known), ArrivalIn(known), t))

(* The books balance.                                                      *)
Books ==
    /\ turnaround_time + OwedTurnaround(job, time) = spent.turnaround
    /\ waiting_time + OwedWaiting(job, time) = spent.waiting
    /\ ~Preemptive => response_time + OwedResponse(job, time) = spent.response

PausedInTime == \A j \in WaitingIn(job) : job[j].pause_time >= 0

(* Without preemption, who has had a core has had it for a time unit.      *)
RanOnceAnswered(entry) ==
    LET record == job[entry.job_id]
    IN  /\ record.responded = -1 =>
                /\ record.core_id = -1
                /\ entry.run_time = record.run_time
        /\ record.responded = 1 /\ record.core_id = -1 =>
                entry.run_time # record.run_time
        /\ entry.run_time <= record.run_time
        /\ CURRENT_SCHEME = "RR" /\ record.core_id # -1
                /\ entry.run_time = record.run_time
            => quantum_clock[record.core_id] = quantum

AnswersFit == ~Preemptive => \A k \in Alive : RanOnceAnswered(jobs[k])

StatInv == SimInv /\ Books /\ PausedInTime /\ AnswersFit

-----------------------------------------------------------------------------
(* The array of the program.                                               *)

LEMMA ArrayFacts ==
    ASSUME SimInv
    PROVE  /\ jobs \in Seq(JobEntry) /\ active_jobs \in Nat
           /\ \A k \in 1..active_jobs :
                /\ jobs[k] \in JobEntry
                /\ jobs[k].job_id \in Jobs /\ jobs[k].job_id # -1
                /\ jobs[k].arrival_time \in Nat /\ jobs[k].run_time \in Nat
                /\ jobs[k].priority \in Priorities
                /\ jobs[k].core_id \in Cores \cup {-1}
                /\ jobs[k].arrived \in {0, 1}
           /\ i \in Nat /\ i >= 1
<1>1. jobs \in Seq(JobEntry) /\ active_jobs \in Nat
  BY DEF SimInv, SimTypeOK, JobEntry, active_jobs
<1>2. \A k \in 1..active_jobs : jobs[k] \in JobEntry
  BY <1>1 DEF active_jobs
<1>3. -1 \notin Jobs /\ num_cores \in Nat
  BY StateFacts DEF SimInv
<1>4. i \in Nat /\ i >= 1
  BY <1>1, <1>3 DEF SimInv, SimTypeOK
<1> QED
  BY <1>1, <1>2, <1>3, <1>4 DEF JobEntry

(* Where the l-th entry was before entry k was overwritten.                *)
Source(k, l) == IF l = k THEN active_jobs ELSE l

LEMMA DeletedEntries ==
    ASSUME jobs \in Seq(JobEntry), NEW k \in 1..active_jobs
    PROVE  /\ Deleted(k) \in Seq(JobEntry)
           /\ Len(Deleted(k)) = active_jobs - 1
           /\ \A l \in 1..(active_jobs - 1) :
                /\ Source(k, l) \in 1..active_jobs /\ Source(k, l) # k
                /\ Deleted(k)[l] = jobs[Source(k, l)]
           /\ \A l, m \in 1..(active_jobs - 1) : Source(k, l) = Source(k, m) => l = m
           /\ \A m \in (1..active_jobs) \ {k} :
                \E l \in 1..(active_jobs - 1) : Source(k, l) = m
<1> DEFINE n == active_jobs
           short == SubSeq(jobs, 1, n - 1)
<1>1. n \in Nat /\ n >= 1 /\ n = Len(jobs)
  BY DEF active_jobs
<1> HIDE DEF n
<1>2. /\ short \in Seq(JobEntry) /\ Len(short) = n - 1
      /\ \A l \in 1..(n - 1) : short[l] = jobs[l]
  BY <1>1
<1> HIDE DEF short
<1>3. k \in 1..n /\ k \in Int
  BY <1>1 DEF n
<1>4. /\ \A l \in 1..(n - 1) : Source(k, l) \in 1..n /\ Source(k, l) # k
      /\ \A l, m \in 1..(n - 1) : Source(k, l) = Source(k, m) => l = m
  BY <1>1, <1>3 DEF Source, n
<1>5. ASSUME NEW m \in (1..n) \ {k} PROVE \E l \in 1..(n - 1) : Source(k, l) = m
  <2>1. CASE m = n
    <3>1. k \in 1..(n - 1) /\ Source(k, k) = m
      BY <1>1, <1>3, <2>1 DEF Source, n
    <3> QED
      BY <3>1
  <2>2. CASE m # n
    <3>1. m \in 1..(n - 1) /\ Source(k, m) = m
      BY <1>1, <2>2 DEF Source
    <3> QED
      BY <3>1
  <2> QED
    BY <2>1, <2>2
<1>6. CASE k = n
  <2>1. Deleted(k) = short
    BY <1>6 DEF Deleted, short, n
  <2>2. \A l \in 1..(n - 1) : Source(k, l) = l
    BY <1>1, <1>6 DEF Source
  <2> QED
    BY <1>2, <1>4, <1>5, <2>1, <2>2 DEF n
<1>7. CASE k # n
  <2>1. Deleted(k) = [short EXCEPT ![k] = jobs[n]]
    BY <1>7 DEF Deleted, short, n
  <2>2. jobs[n] \in JobEntry
    BY <1>1
  <2>3. Deleted(k) \in Seq(JobEntry) /\ Len(Deleted(k)) = n - 1
    <3>1. k \in 1..Len(short)
      BY <1>1, <1>2, <1>3, <1>7
    <3>2. \A x \in JobEntry :
            /\ [short EXCEPT ![k] = x] \in Seq(JobEntry)
            /\ Len([short EXCEPT ![k] = x]) = Len(short)
      BY <1>2, <3>1
    <3> QED
      BY <1>2, <2>1, <2>2, <3>2
  <2>4. \A l \in 1..(n - 1) : Deleted(k)[l] = jobs[Source(k, l)]
    BY <1>1, <1>2, <1>3, <1>7, <2>1 DEF Source, n
  <2> QED
    BY <1>4, <1>5, <2>3, <2>4 DEF n
<1> QED
  BY <1>6, <1>7

NumbersDiffer(known) ==
    \A l, m \in 1..Len(known) : known[l].job_id = known[m].job_id => l = m

(* The job that a call returned is one that the program knows, or none.    *)
IsKnown(id, known) ==
    id # -1 => \E m \in 1..Len(known) : known[m].job_id = id /\ known[m].arrived = 1

(* The entry of that job gets the core.                                    *)
HasSet(result, id, c, known) ==
    /\ result \in Seq(JobEntry)
    /\ Len(result) = Len(known)
    /\ \A l \in 1..Len(known) :
        result[l] = IF known[l].job_id = id THEN [known[l] EXCEPT !.core_id = c]
                    ELSE known[l]

LEMMA SetActive ==
    ASSUME NEW known, known \in Seq(JobEntry), NEW c \in Cores, NEW id,
           -1 \notin Jobs, NumbersDiffer(known), IsKnown(id, known)
    PROVE  /\ ~Rejected(id, known)
           /\ HasSet(set_active_job(id, c, known), id, c, known)
<1> USE DEF NumbersDiffer, IsKnown, HasSet
<1>0. Len(known) \in Nat /\ \A l \in 1..Len(known) : known[l] \in JobEntry
  OBVIOUS
<1>1. CASE id = -1
  <2>1. \A l \in 1..Len(known) : known[l].job_id # id
    BY <1>0, <1>1 DEF JobEntry
  <2> QED
    BY <1>1, <2>1 DEF Rejected, set_active_job
<1>2. CASE id # -1
  <2>1. PICK m \in 1..Len(known) : known[m].job_id = id /\ known[m].arrived = 1
    BY <1>2
  <2>2. Settable(id, known) = {m}
    BY <2>1 DEF Settable
  <2>3. Min({m}) = m
    <3>1. {m} \in SUBSET Nat /\ {m} # {}
      BY <1>0
    <3> QED
      BY <3>1, MinProperties
  <2>4. set_active_job(id, c, known) = [known EXCEPT ![m].core_id = c]
    BY <1>2, <2>2, <2>3 DEF set_active_job
  <2>5. set_active_job(id, c, known) = [known EXCEPT ![m] = [known[m] EXCEPT !.core_id = c]]
    BY <2>4
  <2>6. [known[m] EXCEPT !.core_id = c] \in JobEntry
    BY <1>0 DEF JobEntry
  <2> QED
    BY <1>0, <1>2, <2>1, <2>2, <2>5, <2>6 DEF Rejected
<1> QED
  BY <1>1, <1>2

NumbersIn(f, S) == {f[k] : k \in S}

TellsApart(f, S) == \A k, l \in S : f[k] = f[l] => k = l

(* Counting indices or the numbers of the jobs there comes to the same.    *)
LEMMA CountByNumber ==
    ASSUME NEW n \in Nat, NEW S \in SUBSET (1..n), NEW f, TellsApart(f, S)
    PROVE  /\ IsFiniteSet(S) /\ IsFiniteSet(NumbersIn(f, S))
           /\ Cardinality(NumbersIn(f, S)) = Cardinality(S)
           /\ Cardinality(S) \in Nat
<1>1. IsFiniteSet(S) /\ Cardinality(S) \in Nat
  <2>1. IsFiniteSet(1..n)
    BY FS_Interval
  <2>2. IsFiniteSet(S)
    BY <2>1, FS_Subset
  <2> QED
    BY <2>2, FS_CardinalityType
<1> DEFINE T == NumbersIn(f, S)
           g == [k \in S |-> f[k]]
<1>2. g \in Bijection(S, T)
  <2>1. g \in [S -> T]
    BY DEF NumbersIn
  <2>2. \A a, b \in S : g[a] = g[b] => a = b
    BY DEF TellsApart
  <2>3. \A t \in T : \E s \in S : g[s] = t
    BY DEF NumbersIn
  <2> HIDE DEF g, T
  <2> QED
    BY <2>1, <2>2, <2>3 DEF Bijection, Injection, Surjection, IsInjective
<1>3. ExistsBijection(S, T)
  BY <1>2 DEF ExistsBijection
<1> QED
  BY <1>1, <1>3, FS_Bijection

-----------------------------------------------------------------------------
(* What the invariant says of the state before a step.                     *)

LEMMA EntryFacts ==
    ASSUME SimInv, NEW k \in 1..active_jobs, jobs[k].arrived = 1
    PROVE  /\ jobs[k].job_id \in DOMAIN job
           /\ job[jobs[k].job_id] \in JobRecord
           /\ jobs[k].core_id = job[jobs[k].job_id].core_id
           /\ jobs[k].arrival_time = job[jobs[k].job_id].arrival_time
           /\ jobs[k].run_time = Left(job[jobs[k].job_id])
<1>1. InStep(jobs[k])
  BY DEF SimInv, AllInStep
<1>2. job \in [DOMAIN job -> JobRecord]
  BY StateFacts DEF SimInv
<1> QED
  BY <1>1, <1>2 DEF InStep, StillToRun, Left

(* An entry with a core is that of a job the library knows.                *)
LEMMA OnACore ==
    ASSUME SimInv, NEW k \in 1..active_jobs, jobs[k].core_id # -1
    PROVE  /\ jobs[k].arrived = 1
           /\ jobs[k].core_id \in Cores
           /\ Running(jobs[k].job_id)
<1>1. jobs[k].arrived = 1
  BY ArrayFacts DEF SimInv, AllInStep, InStep
<1> QED
  BY <1>1, ArrayFacts, EntryFacts DEF Running

LEMMA ClockFacts ==
    ASSUME SimInv
    PROVE  /\ quantum_clock \in [Cores -> Int]
           /\ \A c \in Cores : RestartedClock(c) \in [Cores -> Int]
<1>1. quantum_clock \in [Cores -> Int]
  BY DEF SimInv, SimTypeOK
<1>2. CURRENT_SCHEME = "RR" => quantum \in Int
  BY DEF SimInv, QuantumOK
<1> QED
  BY <1>1, <1>2 DEF RestartedClock

(* The array after a job left it, and its core went to w.                   *)
Refilled(result, k, w) ==
    /\ Len(result) = active_jobs - 1
    /\ \A l \in 1..(active_jobs - 1) :
            result[l] = IF jobs[Source(k, l)].job_id = w
                        THEN [jobs[Source(k, l)] EXCEPT !.core_id = jobs[k].core_id]
                        ELSE jobs[Source(k, l)]

LEMMA FinishedEntries ==
    ASSUME SimInv, NEW k \in 1..active_jobs, jobs[k].run_time = 0, NEW w,
           scheduler_job_finished(jobs[k].core_id, jobs[k].job_id, w)
    PROVE  /\ ~Rejected(w, Deleted(k))
           /\ set_active_job(w, jobs[k].core_id, Deleted(k)) \in Seq(JobEntry)
           /\ Refilled(set_active_job(w, jobs[k].core_id, Deleted(k)), k, w)
<1> DEFINE c == jobs[k].core_id
           j == jobs[k].job_id
           known == Deleted(k)
<1>1. IInv /\ jobs \in Seq(JobEntry)
  BY ArrayFacts DEF SimInv
<1>2. /\ known \in Seq(JobEntry) /\ Len(known) = active_jobs - 1
      /\ \A l \in 1..(active_jobs - 1) :
            /\ Source(k, l) \in 1..active_jobs /\ Source(k, l) # k
            /\ known[l] = jobs[Source(k, l)]
      /\ \A l, m \in 1..(active_jobs - 1) : Source(k, l) = Source(k, m) => l = m
      /\ \A m \in (1..active_jobs) \ {k} :
            \E l \in 1..(active_jobs - 1) : Source(k, l) = m
  BY <1>1, DeletedEntries
<1>3. jobs[k].core_id # -1
  BY DEF SimInv, OverIsReported
<1>4. jobs[k].arrived = 1 /\ c \in Cores /\ j \in DOMAIN job
  BY <1>3, OnACore, EntryFacts
<1>5. -1 \notin Jobs
  BY <1>1, StateFacts
<1>6. /\ DOMAIN RecordsWithout(j) = DOMAIN job \ {j}
      /\ Handed(c, RecordsWithout(j), 0, w)
  BY <1>1, <1>4, FinishEffect
<1>7. w # -1 => w \in DOMAIN job \ {j}
  BY <1>6 DEF Handed
<1>8. NumbersDiffer(known)
  BY <1>2 DEF SimInv, EntriesDiffer, NumbersDiffer
<1>9. IsKnown(w, known)
  <2> SUFFICES ASSUME w # -1
               PROVE  \E m \in 1..Len(known) : known[m].job_id = w /\ known[m].arrived = 1
    BY DEF IsKnown
  <2>1. PICK m \in 1..active_jobs : jobs[m].job_id = w /\ jobs[m].arrived = 1
    BY <1>7 DEF SimInv, AllInStep
  <2>2. m # k
    BY <1>7, <2>1
  <2> QED
    BY <1>2, <2>1, <2>2
<1> HIDE DEF known, c, j
<1>10. ~Rejected(w, known) /\ HasSet(set_active_job(w, c, known), w, c, known)
  BY <1>2, <1>4, <1>5, <1>8, <1>9, SetActive
<1> QED
  BY <1>2, <1>10 DEF known, c, j, HasSet, Refilled

-----------------------------------------------------------------------------
(* Each step keeps the two in step.                                        *)

LEMMA AliveCount ==
    jobs \in Seq(JobEntry) /\ EntriesDiffer /\ AllInStep =>
        /\ IsFiniteSet(DOMAIN job)
        /\ Cardinality(Alive) = Cardinality(DOMAIN job)
<1> SUFFICES ASSUME jobs \in Seq(JobEntry), EntriesDiffer, AllInStep
             PROVE  /\ IsFiniteSet(DOMAIN job)
                    /\ Cardinality(Alive) = Cardinality(DOMAIN job)
  OBVIOUS
<1> DEFINE f == [k \in 1..active_jobs |-> jobs[k].job_id]
<1>1. active_jobs \in Nat /\ Alive \in SUBSET (1..active_jobs)
  BY DEF active_jobs, Alive
<1>2. TellsApart(f, Alive)
  BY <1>1 DEF EntriesDiffer, TellsApart
<1>3. NumbersIn(f, Alive) = DOMAIN job
  <2>1. ASSUME NEW k \in Alive PROVE f[k] \in DOMAIN job
    <3>1. k \in 1..active_jobs /\ jobs[k].arrived = 1 /\ InStep(jobs[k])
      BY DEF Alive, AllInStep
    <3> QED
      BY <3>1 DEF InStep
  <2>2. ASSUME NEW j \in DOMAIN job PROVE \E k \in Alive : f[k] = j
    BY DEF AllInStep, Alive
  <2> HIDE DEF f
  <2> QED
    BY <2>1, <2>2 DEF NumbersIn
<1> HIDE DEF f
<1> QED
  BY <1>1, <1>2, <1>3, CountByNumber

(* The same after a step, with the count the program keeps.                *)
LEMMA AliveCountAfter ==
    ASSUME SimInv, (jobs \in Seq(JobEntry))', EntriesDiffer', AllInStep',
           \/ jobs_alive' = jobs_alive /\ DOMAIN job' = DOMAIN job
           \/ \E j \in DOMAIN job :
                jobs_alive' = jobs_alive - 1 /\ DOMAIN job' = DOMAIN job \ {j}
           \/ \E j : /\ j \notin DOMAIN job
                     /\ jobs_alive' = jobs_alive + 1
                     /\ DOMAIN job' = DOMAIN job \cup {j}
    PROVE  (jobs_alive = Cardinality(Alive))'
<1>1. /\ IsFiniteSet(DOMAIN job)
      /\ Cardinality(Alive) = Cardinality(DOMAIN job)
  BY ArrayFacts, AliveCount DEF SimInv
<1>2. (Cardinality(Alive) = Cardinality(DOMAIN job))'
  BY AliveCount, PTL
<1>3. jobs_alive = Cardinality(DOMAIN job) /\ Cardinality(DOMAIN job) \in Nat
  BY <1>1, FS_CardinalityType DEF SimInv, SimTypeOK
<1>4. jobs_alive' = Cardinality(DOMAIN job')
  <2>1. CASE jobs_alive' = jobs_alive /\ DOMAIN job' = DOMAIN job
    BY <1>3, <2>1
  <2>2. ASSUME NEW j \in DOMAIN job,
               jobs_alive' = jobs_alive - 1 /\ DOMAIN job' = DOMAIN job \ {j}
        PROVE  jobs_alive' = Cardinality(DOMAIN job')
    BY <1>1, <1>3, <2>2, FS_RemoveElement
  <2>3. ASSUME NEW j, j \notin DOMAIN job,
               jobs_alive' = jobs_alive + 1 /\ DOMAIN job' = DOMAIN job \cup {j}
        PROVE  jobs_alive' = Cardinality(DOMAIN job')
    BY <1>1, <1>3, <2>3, FS_AddElement
  <2> QED
    BY <2>1, <2>2, <2>3
<1> QED
  BY <1>2, <1>4

(* What an entry keeps when a core changes hands.                          *)
SameJob(new, old) ==
    /\ new.job_id = old.job_id
    /\ new.arrival_time = old.arrival_time
    /\ new.run_time = old.run_time
    /\ new.arrived = old.arrived

LEMMA ReportFinishedStep ==
    ASSUME SimInv, ReportFinished
    PROVE  SimInv'
<1> DEFINE n == active_jobs
<1>1. PICK k \in Used, w \in Returned :
        /\ k = Min(Used)
        /\ scheduler_job_finished(jobs[k].core_id, jobs[k].job_id, w)
        /\ quantum_clock' = RestartedClock(jobs[k].core_id)
        /\ jobs' = set_active_job(w, jobs[k].core_id, Deleted(k))
        /\ phase' = IF Rejected(w, Deleted(k)) THEN "invalid job" ELSE phase
        /\ i' = k
  BY DEF ReportFinished
<1>2. /\ phase = "finish" /\ jobs_alive' = jobs_alive - 1
      /\ UNCHANGED <<quantum, spent>>
  BY DEF ReportFinished
<1>3. /\ n \in Nat /\ i \in Nat /\ i >= 1
      /\ \A l \in 1..n : jobs[l] \in JobEntry
  BY ArrayFacts
<1>4. k \in 1..n /\ k >= i /\ jobs[k].run_time = 0 /\ \A l \in Used : k <= l
  <2>1. Used \in SUBSET Nat
    BY <1>3 DEF Used
  <2>2. \A l \in Used : k <= l
    BY <1>1, <2>1, MinProperties
  <2>3. k \in i..n /\ jobs[k].run_time = 0
    BY <1>1 DEF Used
  <2> QED
    BY <1>3, <2>2, <2>3
<1> DEFINE c == jobs[k].core_id
           j == jobs[k].job_id
           S(l) == Source(k, l)
<1>5. c # -1 /\ jobs[k].arrived = 1 /\ c \in Cores /\ Running(j) /\ j \in DOMAIN job
  <2>1. c # -1
    BY <1>4 DEF SimInv, OverIsReported
  <2> QED
    BY <1>4, <2>1, OnACore, EntryFacts
<1>6. /\ ~Rejected(w, Deleted(k))
      /\ jobs' \in Seq(JobEntry) /\ Len(jobs') = n - 1
      /\ \A l \in 1..(n - 1) :
            jobs'[l] = IF jobs[S(l)].job_id = w
                       THEN [jobs[S(l)] EXCEPT !.core_id = c] ELSE jobs[S(l)]
  <2>1. k \in 1..active_jobs /\ jobs[k].run_time = 0
    BY <1>4
  <2>2. scheduler_job_finished(jobs[k].core_id, jobs[k].job_id, w)
    BY <1>1
  <2>3. jobs' = set_active_job(w, jobs[k].core_id, Deleted(k))
    BY <1>1
  <2>4. /\ ~Rejected(w, Deleted(k))
        /\ set_active_job(w, jobs[k].core_id, Deleted(k)) \in Seq(JobEntry)
        /\ Refilled(set_active_job(w, jobs[k].core_id, Deleted(k)), k, w)
    BY <2>1, <2>2, FinishedEntries
  <2> QED
    BY <2>3, <2>4 DEF Refilled
<1>7. /\ IInv
      /\ DOMAIN RecordsWithout(j) = DOMAIN job \ {j}
      /\ \A m \in DOMAIN job \ {j} : RecordsWithout(j)[m] = job[m]
      /\ Handed(c, RecordsWithout(j), 0, w)
      /\ UNCHANGED <<CURRENT_SCHEME, num_cores, time>>
  BY <1>1, <1>5, FinishEffect DEF SimInv
<1>8. IInv'
  <2>1. scheduler_job_finished(job[j].core_id, j, w)
    BY <1>1, <1>4, <1>5, EntryFacts
  <2> QED
    BY <1>5, <1>7, <2>1, FinishStep
<1>9. /\ \A l \in 1..(n - 1) : S(l) \in 1..n /\ S(l) # k
      /\ \A l, m \in 1..(n - 1) : S(l) = S(m) => l = m
      /\ \A m \in (1..n) \ {k} : \E l \in 1..(n - 1) : S(l) = m
  BY <1>4, ArrayFacts, DeletedEntries
<1>10. /\ DOMAIN job' = DOMAIN job \ {j}
       /\ w # -1 => w \in DOMAIN job \ {j} /\ job[w].core_id = -1
       /\ \A m \in DOMAIN job' :
            job'[m] = IF m = w THEN Woken(job[m], c, 0) ELSE job[m]
  BY <1>7 DEF Handed
<1>11. ASSUME NEW l \in 1..(n - 1)
       PROVE  /\ SameJob(jobs'[l], jobs[S(l)])
              /\ jobs'[l].core_id =
                    IF jobs[S(l)].job_id = w THEN c ELSE jobs[S(l)].core_id
  <2>1. jobs[S(l)] \in JobEntry
    BY <1>3, <1>9
  <2> QED
    BY <1>6, <2>1 DEF SameJob, JobEntry
<1>12. active_jobs' = n - 1
  BY <1>6 DEF active_jobs
<1>13. \A l \in 1..(n - 1) : jobs[S(l)].job_id # j
  BY <1>4, <1>9 DEF SimInv, EntriesDiffer
<1>14. ASSUME NEW l \in 1..(n - 1) PROVE InStep(jobs[l])'
  <2>1. S(l) \in 1..n /\ jobs[S(l)].job_id \in Jobs /\ -1 \notin Jobs
    BY <1>3, <1>7, <1>9, StateFacts DEF JobEntry
  <2>2. CASE jobs[S(l)].arrived = 1
    <3> DEFINE id == jobs[S(l)].job_id
    <3>1. /\ id \in DOMAIN job' /\ job[id] \in JobRecord
          /\ jobs[S(l)].core_id = job[id].core_id
          /\ jobs[S(l)].arrival_time = job[id].arrival_time
          /\ jobs[S(l)].run_time = Left(job[id])
      BY <1>10, <1>13, <2>1, <2>2, EntryFacts
    <3>2. job'[id] = IF id = w THEN Woken(job[id], c, 0) ELSE job[id]
      BY <1>10, <3>1
    <3>3. /\ job'[id].core_id = IF id = w THEN c ELSE job[id].core_id
          /\ job'[id].arrival_time = job[id].arrival_time
          /\ Left(job'[id]) = Left(job[id])
      <4>1. CASE id = w
        <5>1. job[id].core_id = -1
          BY <1>10, <2>1, <4>1
        <5>2. time \in Nat
          BY <1>7, StateFacts
        <5> QED
          BY <3>1, <3>2, <4>1, <5>1, <5>2, WokenFields
      <4>2. CASE id # w
        BY <3>2, <4>2
      <4> QED
        BY <4>1, <4>2
    <3>4. Left(job'[id]) =
            IF job'[id].core_id = -1 THEN job'[id].time_remaining
            ELSE job'[id].time_remaining - (time' - job'[id].start_time)
      BY <1>7 DEF Left
    <3> QED
      BY <1>11, <2>2, <3>1, <3>3, <3>4 DEF InStep, SameJob, StillToRun
  <2>3. CASE jobs[S(l)].arrived # 1
    <3>1. jobs[S(l)].core_id = -1
      BY <2>1, <2>3 DEF SimInv, AllInStep, InStep
    <3>2. jobs[S(l)].job_id # w
      <4> SUFFICES ASSUME jobs[S(l)].job_id = w PROVE FALSE
        OBVIOUS
      <4>1. w \in DOMAIN job
        BY <1>10, <2>1
      <4>2. PICK m \in 1..n : jobs[m].job_id = w /\ jobs[m].arrived = 1
        BY <4>1 DEF SimInv, AllInStep
      <4> QED
        BY <2>1, <2>3, <4>2 DEF SimInv, EntriesDiffer
    <3> QED
      BY <1>11, <2>3, <3>1, <3>2 DEF InStep, SameJob
  <2> QED
    BY <2>2, <2>3
<1>15. AllInStep'
  <2>1. ASSUME NEW m \in DOMAIN job'
        PROVE  \E l \in 1..(n - 1) : jobs'[l].job_id = m /\ jobs'[l].arrived = 1
    <3>1. PICK o \in 1..n : jobs[o].job_id = m /\ jobs[o].arrived = 1
      BY <1>10, <2>1 DEF SimInv, AllInStep
    <3>2. o # k
      BY <1>10, <2>1, <3>1
    <3>3. PICK l \in 1..(n - 1) : S(l) = o
      BY <1>9, <3>2
    <3> QED
      BY <1>11, <3>1, <3>3 DEF SameJob
  <2> QED
    BY <1>12, <1>14, <2>1 DEF AllInStep
<1>16. EntriesDiffer'
  <2> SUFFICES ASSUME NEW l \in 1..(n - 1), NEW m \in 1..(n - 1),
                      \/ jobs'[l].job_id = jobs'[m].job_id
                      \/ jobs'[l].arrival_time = jobs'[m].arrival_time
               PROVE  l = m
    BY <1>12 DEF EntriesDiffer
  <2>1. S(l) \in 1..n /\ S(m) \in 1..n
    BY <1>9
  <2>2. \/ jobs[S(l)].job_id = jobs[S(m)].job_id
        \/ jobs[S(l)].arrival_time = jobs[S(m)].arrival_time
    BY <1>11 DEF SameJob
  <2>3. S(l) = S(m)
    BY <2>1, <2>2 DEF SimInv, EntriesDiffer
  <2> QED
    BY <1>9, <2>3
<1>17. phase' = "finish" /\ JobEntry' = JobEntry /\ Cores' = Cores
  BY <1>1, <1>2, <1>6, <1>7 DEF JobEntry, Cores
<1>18. ArrivedWhenDue'
  <2> SUFFICES ASSUME NEW l \in 1..(n - 1)
               PROVE  jobs'[l].arrived = 1 <=> jobs'[l].arrival_time < time
    BY <1>7, <1>12, <1>17 DEF ArrivedWhenDue, Due
  <2>1. jobs[S(l)].arrived = 1 <=> jobs[S(l)].arrival_time < time
    BY <1>2, <1>9 DEF SimInv, ArrivedWhenDue, Due
  <2> QED
    BY <1>11, <2>1 DEF SameJob
<1>19. OverIsReported'
  <2> SUFFICES ASSUME NEW l \in 1..(n - 1), jobs'[l].run_time = 0
               PROVE  jobs'[l].core_id # -1 /\ l >= k
    BY <1>1, <1>12, <1>17 DEF OverIsReported
  <2>1. S(l) \in 1..n /\ jobs[S(l)].run_time = 0
    BY <1>9, <1>11 DEF SameJob
  <2>2. jobs[S(l)].core_id # -1 /\ S(l) >= i
    BY <2>1 DEF SimInv, OverIsReported
  <2>3. S(l) >= k
    BY <1>3, <1>4, <2>1, <2>2 DEF Used
  <2>4. l >= k
    BY <1>3, <1>4, <2>3 DEF Source
  <2>5. jobs'[l].core_id # -1
    BY <1>5, <1>11, <2>2
  <2> QED
    BY <2>4, <2>5
<1>20. NotStarted'
  BY <1>9, <1>11, <1>12 DEF SimInv, NotStarted, SameJob
<1>21. QuantumOK' /\ NoneAtEnd' /\ NoFailure'
  BY <1>2, <1>7, <1>17 DEF SimInv, QuantumOK, NoneAtEnd, NoFailure, Failures
<1>22. SimTypeOK'
  <2>1. (jobs_alive = Cardinality(Alive))'
    <3>1. (jobs \in Seq(JobEntry))'
      BY <1>6, <1>17
    <3>2. \E x \in DOMAIN job :
            jobs_alive' = jobs_alive - 1 /\ DOMAIN job' = DOMAIN job \ {x}
      BY <1>2, <1>5, <1>10
    <3> QED
      BY <1>15, <1>16, <3>1, <3>2, AliveCountAfter
  <2>2. quantum_clock' \in [Cores' -> Int]
    BY <1>1, <1>5, <1>17, ClockFacts
  <2>3. i' \in 1..(active_jobs' + num_cores' + 1)
    <3>1. num_cores \in Nat \ {0} /\ num_cores' = num_cores
      BY <1>7, StateFacts
    <3>2. k \in Nat /\ k >= 1 /\ k <= n
      BY <1>3, <1>4
    <3>3. i' = k
      BY <1>1
    <3> HIDE DEF n
    <3> QED
      BY <1>3, <1>12, <3>1, <3>2, <3>3
  <2> QED
    BY <1>6, <1>17, <2>1, <2>2, <2>3 DEF SimTypeOK, JobEntry
<1> QED
  BY <1>8, <1>15, <1>16, <1>18, <1>19, <1>20, <1>21, <1>22 DEF SimInv

(* The record of the job that loses its core.                              *)
LEMMA ExpiredFields ==
    ASSUME IInv, NEW j \in DOMAIN job, Running(j)
    PROVE  /\ RecordsExpired(j)[j] \in JobRecord
           /\ RecordsExpired(j)[j].core_id = -1
           /\ RecordsExpired(j)[j].pause_time = time
           /\ RecordsExpired(j)[j].arrival_time = job[j].arrival_time
           /\ RecordsExpired(j)[j].run_time = job[j].run_time
           /\ RecordsExpired(j)[j].responded = job[j].responded
           /\ Left(RecordsExpired(j)[j]) = Left(job[j])
<1>1. TypeOK /\ job[j] \in JobRecord
  BY StateFacts DEF IInv
<1>2. RecordsExpired(j)[j] \in JobRecord
  BY <1>1, ExpiredRecord
<1>3. RecordsExpired(j)[j] =
        [job[j] EXCEPT !.core_id = -1, !.pause_time = time,
                       !.time_remaining = @ - (time - job[j].start_time)]
  BY DEF RecordsExpired
<1>4. /\ RecordsExpired(j)[j].core_id = -1
      /\ RecordsExpired(j)[j].pause_time = time
      /\ RecordsExpired(j)[j].arrival_time = job[j].arrival_time
      /\ RecordsExpired(j)[j].run_time = job[j].run_time
      /\ RecordsExpired(j)[j].responded = job[j].responded
      /\ RecordsExpired(j)[j].time_remaining =
            job[j].time_remaining - (time - job[j].start_time)
  BY <1>1, <1>3 DEF JobRecord
<1> QED
  BY <1>2, <1>4 DEF Left, Running

(* The core of the entry at m changes to c.                                *)
Moved(m, c) == [jobs EXCEPT ![m].core_id = c]

LEMMA MovedEntries ==
    ASSUME SimInv, NEW m \in 1..active_jobs, NEW c \in Cores \cup {-1}
    PROVE  /\ Moved(m, c) \in Seq(JobEntry)
           /\ Len(Moved(m, c)) = active_jobs
           /\ NumbersDiffer(Moved(m, c))
           /\ \A l \in 1..active_jobs :
                /\ SameJob(Moved(m, c)[l], jobs[l])
                /\ Moved(m, c)[l].core_id = IF l = m THEN c ELSE jobs[l].core_id
<1>1. /\ jobs \in Seq(JobEntry) /\ Len(jobs) = active_jobs /\ active_jobs \in Nat
      /\ \A l \in 1..active_jobs : jobs[l] \in JobEntry
  BY ArrayFacts DEF active_jobs
<1>2. [jobs[m] EXCEPT !.core_id = c] \in JobEntry
  BY <1>1 DEF JobEntry
<1>3. Moved(m, c) = [jobs EXCEPT ![m] = [jobs[m] EXCEPT !.core_id = c]]
  BY DEF Moved
<1>4. /\ Moved(m, c) \in Seq(JobEntry)
      /\ Len(Moved(m, c)) = active_jobs
      /\ \A l \in 1..active_jobs :
            Moved(m, c)[l] = IF l = m THEN [jobs[m] EXCEPT !.core_id = c] ELSE jobs[l]
  BY <1>1, <1>2, <1>3
<1>5. ASSUME NEW l \in 1..active_jobs
      PROVE  /\ SameJob(Moved(m, c)[l], jobs[l])
             /\ Moved(m, c)[l].core_id = IF l = m THEN c ELSE jobs[l].core_id
  <2>1. CASE l = m
    BY <1>1, <1>4, <2>1 DEF JobEntry, SameJob
  <2>2. CASE l # m
    BY <1>1, <1>4, <2>2 DEF SameJob
  <2> QED
    BY <2>1, <2>2
<1>6. NumbersDiffer(Moved(m, c))
  BY <1>4, <1>5 DEF NumbersDiffer, SimInv, EntriesDiffer, SameJob
<1> QED
  BY <1>4, <1>5, <1>6

(* The array after the job of entry m gave its core to job w, if any.      *)
Rotated(result, m, w) ==
    /\ result \in Seq(JobEntry)
    /\ Len(result) = active_jobs
    /\ \A l \in 1..active_jobs :
        /\ SameJob(result[l], jobs[l])
        /\ result[l].core_id =
                IF jobs[l].job_id = w THEN jobs[m].core_id
                ELSE IF l = m THEN -1 ELSE jobs[l].core_id

LEMMA ExpiredEntries ==
    ASSUME SimInv, NEW m \in 1..active_jobs, jobs[m].core_id # -1, NEW w,
           scheduler_quantum_expired(jobs[m].core_id, w)
    PROVE  /\ ~Rejected(w, Moved(m, -1))
           /\ Rotated(set_active_job(w, jobs[m].core_id, Moved(m, -1)), m, w)
<1> DEFINE known == Moved(m, -1)
           c == jobs[m].core_id
           j == jobs[m].job_id
           result == set_active_job(w, c, known)
<1>1. /\ known \in Seq(JobEntry) /\ Len(known) = active_jobs /\ NumbersDiffer(known)
      /\ \A l \in 1..active_jobs :
            /\ SameJob(known[l], jobs[l])
            /\ known[l].core_id = IF l = m THEN -1 ELSE jobs[l].core_id
  BY MovedEntries
<1>2. jobs[m].arrived = 1 /\ c \in Cores /\ j \in DOMAIN job /\ job[j].core_id = c
  BY OnACore, EntryFacts
<1>3. IInv /\ -1 \notin Jobs
  BY StateFacts DEF SimInv
<1>4. DOMAIN RecordsExpired(j) = DOMAIN job /\ Handed(c, RecordsExpired(j), -1, w)
  BY <1>2, <1>3, ExpireEffect
<1>5. IsKnown(w, known)
  BY <1>1, <1>4 DEF IsKnown, Handed, SimInv, AllInStep, SameJob
<1> HIDE DEF known, c
<1>6. ~Rejected(w, known) /\ HasSet(result, w, c, known)
  BY <1>1, <1>2, <1>3, <1>5, SetActive
<1> HIDE DEF result
<1>7. ASSUME NEW l \in 1..active_jobs
      PROVE  /\ SameJob(result[l], jobs[l])
             /\ result[l].core_id =
                    IF jobs[l].job_id = w THEN c
                    ELSE IF l = m THEN -1 ELSE jobs[l].core_id
  <2>1. known[l] \in JobEntry
    BY <1>1
  <2>2. result[l] = IF known[l].job_id = w THEN [known[l] EXCEPT !.core_id = c]
                    ELSE known[l]
    BY <1>1, <1>6 DEF HasSet
  <2>3. SameJob(result[l], known[l])
    BY <2>1, <2>2 DEF SameJob, JobEntry
  <2>4. result[l].core_id = IF known[l].job_id = w THEN c ELSE known[l].core_id
    BY <2>1, <2>2 DEF JobEntry
  <2> QED
    BY <1>1, <2>3, <2>4 DEF SameJob
<1>8. result \in Seq(JobEntry) /\ Len(result) = active_jobs
  BY <1>1, <1>6 DEF HasSet
<1> QED
  BY <1>6, <1>7, <1>8 DEF known, c, result, Rotated

LEMMA ReportExpiredStep ==
    ASSUME SimInv, ReportExpired
    PROVE  SimInv'
<1> DEFINE n == active_jobs
<1>1. PICK c \in Expired, w \in Returned :
        LET off == [jobs EXCEPT ![Min(On(c))].core_id = -1]
        IN  /\ c = Min(Expired)
            /\ scheduler_quantum_expired(c, w)
            /\ quantum_clock' = RestartedClock(c)
            /\ jobs' = set_active_job(w, c, off)
            /\ phase' = IF Rejected(w, off) THEN "invalid job" ELSE phase
            /\ i' = c + 2
  BY DEF ReportExpired
<1>2. /\ phase = "quantum" /\ CURRENT_SCHEME = "RR"
      /\ UNCHANGED <<jobs_alive, quantum, spent>>
  BY DEF ReportExpired, SimInv, QuantumOK
<1>3. /\ n \in Nat /\ i \in Nat /\ i >= 1
      /\ \A l \in 1..n : jobs[l] \in JobEntry
  BY ArrayFacts
<1>4. IInv /\ num_cores \in Nat \ {0} /\ time \in Nat /\ -1 \notin Cores /\ -1 \notin Jobs
  BY StateFacts DEF SimInv
<1>5. c \in Cores /\ c \in Nat /\ c + 2 <= num_cores + 1 /\ On(c) # {}
  <2>1. c \in (i - 1)..(num_cores - 1) /\ On(c) # {}
    BY <1>1 DEF Expired
  <2> QED
    BY <1>3, <1>4, <2>1 DEF Cores
<1> DEFINE m == Min(On(c))
           j == jobs[m].job_id
<1>6. m \in 1..n /\ jobs[m].core_id = c
  <2>1. On(c) \in SUBSET Nat
    BY <1>3 DEF On
  <2>2. m \in On(c)
    BY <1>5, <2>1, MinProperties
  <2> QED
    BY <2>2 DEF On
<1>7. jobs[m].core_id # -1 /\ scheduler_quantum_expired(jobs[m].core_id, w)
  BY <1>1, <1>4, <1>5, <1>6
<1>8. /\ jobs' = set_active_job(w, jobs[m].core_id, Moved(m, -1))
      /\ phase' = IF Rejected(w, Moved(m, -1)) THEN "invalid job" ELSE phase
      /\ quantum_clock' = RestartedClock(c) /\ i' = c + 2
  BY <1>1, <1>6 DEF Moved
<1> HIDE DEF m
<1>9. /\ ~Rejected(w, Moved(m, -1))
      /\ jobs' \in Seq(JobEntry) /\ Len(jobs') = n
      /\ \A l \in 1..n :
            /\ SameJob(jobs'[l], jobs[l])
            /\ jobs'[l].core_id = IF jobs[l].job_id = w THEN c
                                  ELSE IF l = m THEN -1 ELSE jobs[l].core_id
  <2>1. ~Rejected(w, Moved(m, -1)) /\ Rotated(jobs', m, w)
    BY <1>6, <1>7, <1>8, ExpiredEntries
  <2> QED
    BY <1>6, <2>1 DEF Rotated
<1>10. j \in DOMAIN job /\ Running(j) /\ job[j].core_id = c
  BY <1>6, <1>7, OnACore, EntryFacts
<1> DEFINE known == RecordsExpired(j)
<1>11. /\ DOMAIN known = DOMAIN job
       /\ \A x \in DOMAIN job : x # j => known[x] = job[x]
       /\ Handed(c, known, -1, w)
       /\ UNCHANGED <<CURRENT_SCHEME, num_cores, turnaround_time, time>>
  BY <1>4, <1>5, <1>6, <1>7, <1>10, ExpireEffect, ZenonT(40)
<1>12. /\ known[j] \in JobRecord /\ known[j].core_id = -1
       /\ known[j].arrival_time = job[j].arrival_time
       /\ Left(known[j]) = Left(job[j])
  BY <1>4, <1>10, ExpiredFields
<1>13. IInv'
  BY <1>2, <1>4, <1>5, <1>6, <1>7, ExpireStep
<1> HIDE DEF known
<1>14. /\ DOMAIN job' = DOMAIN job
       /\ w # -1 => w \in DOMAIN job /\ known[w].core_id = -1
       /\ \A x \in DOMAIN job :
            job'[x] = IF x = w THEN Woken(known[x], c, -1) ELSE known[x]
  BY <1>11 DEF Handed
<1>15. active_jobs' = n
  BY <1>9 DEF active_jobs
<1>16. phase' = "quantum" /\ JobEntry' = JobEntry /\ Cores' = Cores
  BY <1>2, <1>8, <1>9, <1>11 DEF JobEntry, Cores
<1>17. ASSUME NEW l \in 1..n PROVE InStep(jobs[l])'
  <2> DEFINE id == jobs[l].job_id
  <2>1. id \in Jobs /\ SameJob(jobs'[l], jobs[l])
    BY <1>3, <1>9 DEF JobEntry
  <2>2. CASE jobs[l].arrived = 1
    <3>1. /\ id \in DOMAIN job /\ job[id] \in JobRecord
          /\ jobs[l].core_id = job[id].core_id
          /\ jobs[l].arrival_time = job[id].arrival_time
          /\ jobs[l].run_time = Left(job[id])
      BY <2>2, EntryFacts
    <3>2. id = j <=> l = m
      BY <1>6 DEF SimInv, EntriesDiffer
    <3>3. /\ known[id] \in JobRecord
          /\ known[id].core_id = IF l = m THEN -1 ELSE job[id].core_id
          /\ known[id].arrival_time = job[id].arrival_time
          /\ Left(known[id]) = Left(job[id])
      BY <1>11, <1>12, <3>1, <3>2
    <3>4. /\ job'[id].core_id = IF id = w THEN c ELSE known[id].core_id
          /\ job'[id].arrival_time = known[id].arrival_time
          /\ Left(job'[id]) = Left(known[id])
      <4>1. CASE id = w
        <5>1. known[id].core_id = -1 /\ job'[id] = Woken(known[id], c, -1)
          BY <1>4, <1>14, <2>1, <3>1, <4>1
        <5> QED
          BY <1>4, <3>3, <4>1, <5>1, WokenFields
      <4>2. CASE id # w
        BY <1>14, <3>1, <4>2
      <4> QED
        BY <4>1, <4>2
    <3>5. Left(job'[id]) =
            IF job'[id].core_id = -1 THEN job'[id].time_remaining
            ELSE job'[id].time_remaining - (time' - job'[id].start_time)
      BY <1>11 DEF Left
    <3>6. jobs'[l].core_id = job'[id].core_id
      BY <1>9, <3>1, <3>3, <3>4
    <3> QED
      BY <1>14, <2>1, <2>2, <3>1, <3>3, <3>4, <3>5, <3>6 DEF InStep, SameJob, StillToRun
  <2>3. CASE jobs[l].arrived # 1
    <3>1. jobs[l].core_id = -1
      BY <2>3 DEF SimInv, AllInStep, InStep
    <3>2. jobs[l].job_id # w
      <4> SUFFICES ASSUME jobs[l].job_id = w PROVE FALSE
        OBVIOUS
      <4>1. w \in DOMAIN job
        BY <1>4, <1>14, <2>1
      <4>2. PICK o \in 1..n : jobs[o].job_id = w /\ jobs[o].arrived = 1
        BY <4>1 DEF SimInv, AllInStep
      <4> QED
        BY <2>3, <4>2 DEF SimInv, EntriesDiffer
    <3> QED
      BY <1>9, <2>1, <2>3, <3>1, <3>2 DEF InStep, SameJob
  <2> QED
    BY <2>2, <2>3
<1>18. AllInStep'
  <2>1. \A x \in DOMAIN job' : \E l \in 1..n : jobs'[l].job_id = x /\ jobs'[l].arrived = 1
    BY <1>9, <1>14 DEF SimInv, AllInStep, SameJob
  <2> QED
    BY <1>15, <1>17, <2>1 DEF AllInStep
<1>19. EntriesDiffer'
  BY <1>9, <1>15 DEF SimInv, EntriesDiffer, SameJob
<1>20. ArrivedWhenDue'
  <2> SUFFICES ASSUME NEW l \in 1..n
               PROVE  jobs'[l].arrived = 1 <=> jobs'[l].arrival_time < time
    BY <1>11, <1>15, <1>16 DEF ArrivedWhenDue, Due
  <2>1. jobs[l].arrived = 1 <=> jobs[l].arrival_time < time
    BY <1>2 DEF SimInv, ArrivedWhenDue, Due
  <2> QED
    BY <1>9, <2>1 DEF SameJob
<1>21. OverIsReported'
  <2>1. \A l \in 1..n : jobs[l].run_time # 0
    BY <1>2 DEF SimInv, OverIsReported
  <2> QED
    BY <1>9, <1>15, <2>1 DEF OverIsReported, SameJob
<1>22. NotStarted'
  BY <1>9, <1>15 DEF SimInv, NotStarted, SameJob
<1>23. QuantumOK' /\ NoneAtEnd' /\ NoFailure'
  BY <1>2, <1>11, <1>16 DEF SimInv, QuantumOK, NoneAtEnd, NoFailure, Failures
<1>24. SimTypeOK'
  <2>1. (jobs_alive = Cardinality(Alive))'
    <3>1. (jobs \in Seq(JobEntry))'
      BY <1>9, <1>16
    <3> QED
      BY <1>2, <1>14, <1>18, <1>19, <3>1, AliveCountAfter
  <2>2. quantum_clock' \in [Cores' -> Int]
    BY <1>5, <1>8, <1>16, ClockFacts
  <2>3. i' \in 1..(active_jobs' + num_cores' + 1)
    <3>1. num_cores' = num_cores
      BY <1>11
    <3>2. i' = c + 2
      BY <1>8
    <3> HIDE DEF n
    <3> QED
      BY <1>3, <1>4, <1>5, <1>15, <3>1, <3>2
  <2> QED
    BY <1>9, <1>16, <2>1, <2>2, <2>3 DEF SimTypeOK, JobEntry
<1> QED
  BY <1>13, <1>18, <1>19, <1>20, <1>21, <1>22, <1>23, <1>24 DEF SimInv

LEMMA HandedOverEntries ==
    ASSUME SimInv, NEW k \in 1..active_jobs, jobs[k].core_id = -1,
           NEW core \in Cores \cup {-1}
    PROVE  /\ HandedOver(k, core) \in Seq(JobEntry)
           /\ Len(HandedOver(k, core)) = active_jobs
           /\ \A l \in 1..active_jobs :
                /\ HandedOver(k, core)[l].job_id = jobs[l].job_id
                /\ HandedOver(k, core)[l].arrival_time = jobs[l].arrival_time
                /\ HandedOver(k, core)[l].run_time = jobs[l].run_time
                /\ HandedOver(k, core)[l].arrived = IF l = k THEN 1 ELSE jobs[l].arrived
                /\ HandedOver(k, core)[l].core_id =
                        IF l = k THEN core
                        ELSE IF core # -1 /\ jobs[l].core_id = core THEN -1
                        ELSE jobs[l].core_id
<1> DEFINE H == HandedOver(k, core)
<1>1. /\ active_jobs \in Nat
      /\ \A l \in 1..active_jobs : jobs[l] \in JobEntry
  BY ArrayFacts
<1>2. -1 \notin Cores
  BY StateFacts DEF SimInv
<1>3. ASSUME NEW l \in 1..active_jobs
      PROVE  /\ H[l] \in JobEntry
             /\ H[l].job_id = jobs[l].job_id
             /\ H[l].arrival_time = jobs[l].arrival_time
             /\ H[l].run_time = jobs[l].run_time
             /\ H[l].arrived = IF l = k THEN 1 ELSE jobs[l].arrived
             /\ H[l].core_id = IF l = k THEN core
                        ELSE IF core # -1 /\ jobs[l].core_id = core THEN -1
                        ELSE jobs[l].core_id
  <2>1. jobs[l] \in JobEntry
    BY <1>1
  <2>2. CASE l = k
    <3>1. H[l] = [jobs[l] EXCEPT !.core_id = IF core \in Cores THEN core ELSE @,
                                 !.arrived = 1]
      BY <2>2 DEF HandedOver
    <3>2. jobs[l].core_id = -1
      BY <2>2
    <3> HIDE DEF H
    <3> QED
      BY <1>2, <2>1, <2>2, <3>1, <3>2 DEF JobEntry
  <2>3. CASE l # k /\ core \in Cores /\ jobs[l].core_id = core
    <3>1. H[l] = [jobs[l] EXCEPT !.core_id = -1]
      BY <2>3 DEF HandedOver
    <3> HIDE DEF H
    <3> QED
      BY <1>2, <2>1, <2>3, <3>1 DEF JobEntry
  <2>4. CASE l # k /\ ~(core \in Cores /\ jobs[l].core_id = core)
    <3>1. H[l] = jobs[l]
      BY <2>4 DEF HandedOver
    <3> HIDE DEF H
    <3> QED
      BY <1>2, <2>1, <2>4, <3>1
  <2> QED
    BY <2>2, <2>3, <2>4
<1>4. H = [l \in 1..active_jobs |-> H[l]]
  BY DEF HandedOver
<1> HIDE DEF H
<1>5. H \in Seq(JobEntry) /\ Len(H) = active_jobs
  BY <1>1, <1>3, <1>4
<1> QED
  BY <1>3, <1>5 DEF H

LEMMA ReportArrivalStep ==
    ASSUME SimInv, ReportArrival
    PROVE  SimInv'
<1> DEFINE n == active_jobs
<1>1. PICK k \in Arriving, core \in Returned :
        /\ k = Min(Arriving)
        /\ scheduler_new_job(jobs[k].job_id, jobs[k].run_time, jobs[k].priority, core)
        /\ jobs' = HandedOver(k, core)
        /\ quantum_clock' = IF core \in Cores THEN RestartedClock(core)
                            ELSE quantum_clock
        /\ phase' = IF core \in Cores \cup {-1} THEN phase ELSE "invalid core"
        /\ i' = k + 1
  BY DEF ReportArrival
<1>2. /\ phase = "arrive" /\ jobs_alive' = jobs_alive + 1
      /\ UNCHANGED <<quantum, spent>>
  BY DEF ReportArrival
<1>3. /\ n \in Nat /\ i \in Nat /\ i >= 1
      /\ \A l \in 1..n : jobs[l] \in JobEntry
  BY ArrayFacts
<1>4. IInv /\ num_cores \in Nat \ {0} /\ time \in Nat /\ -1 \notin Cores
  BY StateFacts DEF SimInv
<1>5. k \in 1..n /\ k \in Nat /\ k >= i /\ k <= n /\ jobs[k].arrival_time = time
  <2>1. k \in i..n /\ jobs[k].arrival_time = time
    BY <1>1 DEF Arriving
  <2> QED
    BY <1>3, <2>1
<1> DEFINE j == jobs[k].job_id
           r == jobs[k].run_time
<1>6. jobs[k].arrived = 0 /\ jobs[k].core_id = -1 /\ r \in RunTimes
  <2>1. ~Due(k)
    BY <1>2, <1>3, <1>4, <1>5 DEF Due
  <2>2. jobs[k].arrived = 0
    BY <1>3, <1>5, <2>1 DEF SimInv, ArrivedWhenDue, JobEntry
  <2> QED
    BY <1>5, <2>2 DEF SimInv, AllInStep, InStep, NotStarted
<1>7. j \in Jobs \ DOMAIN job /\ jobs[k].priority \in Priorities
  <2>1. j \notin DOMAIN job
    BY <1>5, <1>6 DEF SimInv, AllInStep, EntriesDiffer
  <2> QED
    BY <1>3, <1>5, <2>1 DEF JobEntry
<1>8. scheduler_new_job(j, r, jobs[k].priority, core)
  BY <1>1
<1>9. IInv'
  BY <1>4, <1>6, <1>7, <1>8, NewJobStep
<1>10. /\ DOMAIN job' = DOMAIN job \cup {j}
       /\ core \in Cores \cup {-1}
       /\ \A x \in DOMAIN job : Passed(job[x], job'[x], core)
       /\ job'[j].core_id = core /\ job'[j].arrival_time = time
       /\ Left(job'[j]) = r
       /\ UNCHANGED <<CURRENT_SCHEME, num_cores, time>>
  <2>1. /\ DOMAIN job' = DOMAIN job \cup {j}
        /\ core \in Cores \cup {-1}
        /\ \A x \in DOMAIN job : Passed(job[x], job'[x], core)
        /\ Entered(job'[j], r, jobs[k].priority, core) /\ Left(job'[j]) = r
        /\ UNCHANGED <<CURRENT_SCHEME, num_cores, time>>
    BY <1>4, <1>6, <1>7, <1>8, NewJobEffect
  <2> QED
    BY <2>1 DEF Entered
<1>11. /\ jobs' \in Seq(JobEntry) /\ Len(jobs') = n
       /\ \A l \in 1..n :
            /\ jobs'[l].job_id = jobs[l].job_id
            /\ jobs'[l].arrival_time = jobs[l].arrival_time
            /\ jobs'[l].run_time = jobs[l].run_time
            /\ jobs'[l].arrived = IF l = k THEN 1 ELSE jobs[l].arrived
            /\ jobs'[l].core_id = IF l = k THEN core
                        ELSE IF core # -1 /\ jobs[l].core_id = core THEN -1
                        ELSE jobs[l].core_id
  <2>1. jobs' = HandedOver(k, core)
    BY <1>1
  <2> QED
    BY <1>5, <1>6, <1>10, <2>1, HandedOverEntries
<1>12. active_jobs' = n
  BY <1>11 DEF active_jobs
<1>13. phase' = "arrive" /\ JobEntry' = JobEntry /\ Cores' = Cores
  BY <1>1, <1>2, <1>10 DEF JobEntry, Cores
<1>14. i' = k + 1
  BY <1>1
<1>15. ASSUME NEW l \in 1..n PROVE InStep(jobs[l])'
  <2> DEFINE id == jobs[l].job_id
  <2>1. Left(job'[id]) =
            IF job'[id].core_id = -1 THEN job'[id].time_remaining
            ELSE job'[id].time_remaining - (time' - job'[id].start_time)
    BY <1>10 DEF Left
  <2>2. CASE l = k
    BY <1>5, <1>10, <1>11, <2>1, <2>2 DEF InStep, StillToRun
  <2>3. CASE l # k /\ jobs[l].arrived = 1
    <3>1. /\ id \in DOMAIN job
          /\ jobs[l].core_id = job[id].core_id
          /\ jobs[l].arrival_time = job[id].arrival_time
          /\ jobs[l].run_time = Left(job[id])
      BY <2>3, EntryFacts
    <3>2. /\ job'[id].arrival_time = job[id].arrival_time
          /\ Left(job'[id]) = Left(job[id])
          /\ job'[id].core_id = IF core # -1 /\ job[id].core_id = core THEN -1
                                ELSE job[id].core_id
      BY <1>10, <3>1 DEF Passed
    <3> QED
      BY <1>10, <1>11, <2>1, <2>3, <3>1, <3>2 DEF InStep, StillToRun
  <2>4. CASE l # k /\ jobs[l].arrived # 1
    <3>1. jobs[l].core_id = -1
      BY <2>4 DEF SimInv, AllInStep, InStep
    <3> QED
      BY <1>11, <2>4, <3>1 DEF InStep
  <2> QED
    BY <2>2, <2>3, <2>4
<1>16. AllInStep'
  <2>1. ASSUME NEW x \in DOMAIN job'
        PROVE  \E l \in 1..n : jobs'[l].job_id = x /\ jobs'[l].arrived = 1
    <3>1. CASE x = j
      BY <1>5, <1>11, <3>1
    <3>2. CASE x # j
      <4>1. PICK l \in 1..n : jobs[l].job_id = x /\ jobs[l].arrived = 1
        BY <1>10, <3>2 DEF SimInv, AllInStep
      <4> QED
        BY <1>11, <4>1
    <3> QED
      BY <3>1, <3>2
  <2> QED
    BY <1>12, <1>15, <2>1 DEF AllInStep
<1>17. EntriesDiffer'
  BY <1>11, <1>12 DEF SimInv, EntriesDiffer
<1>18. ArrivedWhenDue'
  <2> SUFFICES ASSUME NEW l \in 1..n
               PROVE  jobs'[l].arrived = 1 <=>
                        \/ jobs[l].arrival_time < time
                        \/ jobs[l].arrival_time = time /\ l < k + 1
    BY <1>10, <1>11, <1>12, <1>13, <1>14 DEF ArrivedWhenDue, Due
  <2>1. CASE l = k
    BY <1>3, <1>5, <1>11, <2>1
  <2>2. CASE l # k
    <3>1. jobs[l].arrival_time # time
      BY <1>5, <2>2 DEF SimInv, EntriesDiffer
    <3>2. jobs[l].arrived = 1 <=> jobs[l].arrival_time < time
      BY <3>1 DEF SimInv, ArrivedWhenDue, Due
    <3> QED
      BY <1>11, <2>2, <3>1, <3>2
  <2> QED
    BY <2>1, <2>2
<1>19. OverIsReported'
  <2>1. \A l \in 1..n : jobs[l].run_time # 0
    BY <1>2 DEF SimInv, OverIsReported
  <2> QED
    BY <1>11, <1>12, <2>1 DEF OverIsReported
<1>20. NotStarted'
  BY <1>11, <1>12 DEF SimInv, NotStarted
<1>21. QuantumOK' /\ NoneAtEnd' /\ NoFailure'
  BY <1>2, <1>10, <1>13 DEF SimInv, QuantumOK, NoneAtEnd, NoFailure, Failures
<1>22. SimTypeOK'
  <2>1. (jobs_alive = Cardinality(Alive))'
    <3>1. (jobs \in Seq(JobEntry))'
      BY <1>11, <1>13
    <3>2. \E x : x \notin DOMAIN job /\ jobs_alive' = jobs_alive + 1
                    /\ DOMAIN job' = DOMAIN job \cup {x}
      BY <1>2, <1>7, <1>10
    <3> QED
      BY <1>16, <1>17, <3>1, <3>2, AliveCountAfter
  <2>2. quantum_clock' \in [Cores' -> Int]
    BY <1>1, <1>13, ClockFacts
  <2>3. i' \in 1..(active_jobs' + num_cores' + 1)
    <3>1. num_cores' = num_cores
      BY <1>10
    <3> HIDE DEF n
    <3> QED
      BY <1>3, <1>4, <1>5, <1>12, <1>14, <3>1
  <2> QED
    BY <1>11, <1>13, <2>1, <2>2, <2>3 DEF SimTypeOK, JobEntry
<1> QED
  BY <1>9, <1>16, <1>17, <1>18, <1>19, <1>20, <1>21, <1>22 DEF SimInv

(* From one phase to the next.                                             *)
LEMMA PhaseStep ==
    ASSUME SimInv, i' = 1,
           UNCHANGED <<jobs, jobs_alive, quantum, quantum_clock, spent, schedVars>>,
           \A k \in 1..active_jobs : jobs[k].run_time # 0,
           \A k \in 1..active_jobs : Due(k)' <=> Due(k),
           phase' \in {"quantum", "arrive", "run", "done"},
           phase' = "quantum" => CURRENT_SCHEME = "RR",
           phase' = "done" => active_jobs = 0
    PROVE  SimInv'
<1>1. IInv' /\ UNCHANGED <<CURRENT_SCHEME, num_cores, job, time>>
  BY NextInvariant DEF SimInv, schedVars
<1>2. active_jobs' = active_jobs /\ Alive' = Alive /\ Cores' = Cores
  BY <1>1 DEF active_jobs, Alive, Cores
<1>3. SimTypeOK'
  <2>1. active_jobs \in Nat /\ num_cores \in Nat
    BY ArrayFacts, StateFacts DEF SimInv
  <2>2. i' \in 1..(active_jobs' + num_cores' + 1)
    BY <1>1, <1>2, <2>1
  <2> QED
    BY <1>1, <1>2, <2>2 DEF SimInv, SimTypeOK
<1>4. EntriesDiffer' /\ NotStarted'
  BY <1>2 DEF SimInv, EntriesDiffer, NotStarted
<1>5. ArrivedWhenDue'
  BY <1>2 DEF SimInv, ArrivedWhenDue
<1>6. AllInStep'
  BY <1>1, <1>2 DEF SimInv, AllInStep, InStep, StillToRun
<1>7. OverIsReported'
  BY <1>2 DEF OverIsReported
<1>8. QuantumOK' /\ NoneAtEnd' /\ NoFailure'
  BY <1>1, <1>2 DEF SimInv, QuantumOK, NoneAtEnd, NoFailure, Failures
<1> QED
  BY <1>1, <1>3, <1>4, <1>5, <1>6, <1>7, <1>8 DEF SimInv

LEMMA NoMoreFinishedStep ==
    ASSUME SimInv, NoMoreFinished
    PROVE  SimInv'
<1>1. /\ phase = "finish" /\ Used = {} /\ i' = 1
      /\ phase' = IF active_jobs = 0 THEN "done"
                  ELSE IF CURRENT_SCHEME = "RR" THEN "quantum" ELSE "arrive"
      /\ UNCHANGED <<jobs, jobs_alive, quantum, quantum_clock, spent, schedVars>>
  BY DEF NoMoreFinished, Goto
<1>2. active_jobs \in Nat /\ i \in Nat /\ time' = time
  BY <1>1, ArrayFacts DEF schedVars
<1>3. ASSUME NEW k \in 1..active_jobs PROVE jobs[k].run_time # 0
  <2>1. jobs[k].run_time = 0 => k >= i
    BY DEF SimInv, OverIsReported
  <2> QED
    BY <1>1, <1>2, <2>1 DEF Used
<1>4. ASSUME NEW k \in 1..active_jobs PROVE Due(k)' <=> Due(k)
  BY <1>1, <1>2 DEF Due
<1> QED
  BY <1>1, <1>3, <1>4, PhaseStep

LEMMA NoMoreExpiredStep ==
    ASSUME SimInv, NoMoreExpired
    PROVE  SimInv'
<1>1. /\ phase = "quantum" /\ phase' = "arrive" /\ i' = 1
      /\ UNCHANGED <<jobs, jobs_alive, quantum, quantum_clock, spent, schedVars>>
  BY DEF NoMoreExpired, Goto
<1>2. active_jobs \in Nat /\ time' = time
  BY <1>1, ArrayFacts DEF schedVars
<1>3. ASSUME NEW k \in 1..active_jobs PROVE jobs[k].run_time # 0
  BY <1>1 DEF SimInv, OverIsReported
<1>4. ASSUME NEW k \in 1..active_jobs PROVE Due(k)' <=> Due(k)
  BY <1>1, <1>2 DEF Due
<1> QED
  BY <1>1, <1>3, <1>4, PhaseStep

LEMMA NoMoreArrivalsStep ==
    ASSUME SimInv, NoMoreArrivals
    PROVE  SimInv'
<1>1. /\ phase = "arrive" /\ Arriving = {} /\ phase' = "run" /\ i' = 1
      /\ UNCHANGED <<jobs, jobs_alive, quantum, quantum_clock, spent, schedVars>>
  BY DEF NoMoreArrivals, Goto
<1>2. active_jobs \in Nat /\ i \in Nat /\ time' = time
  BY <1>1, ArrayFacts DEF schedVars
<1>3. ASSUME NEW k \in 1..active_jobs PROVE jobs[k].run_time # 0
  BY <1>1 DEF SimInv, OverIsReported
<1>4. ASSUME NEW k \in 1..active_jobs PROVE Due(k)' <=> Due(k)
  <2>1. jobs[k].arrival_time = time => k < i
    BY <1>1, <1>2 DEF Arriving
  <2> QED
    BY <1>1, <1>2, <2>1 DEF Due
<1> QED
  BY <1>1, <1>3, <1>4, PhaseStep

(* At the end nothing is left for the library to give back.                *)
LEMMA NothingLeft ==
    ASSUME SimInv, phase \in {"done", "ended"}
    PROVE  QUEUE = <<>> /\ DOMAIN job = {}
<1>1. active_jobs = 0
  BY DEF SimInv, NoneAtEnd
<1>2. DOMAIN job = {}
  <2> SUFFICES ASSUME NEW j \in DOMAIN job PROVE FALSE
    OBVIOUS
  <2>1. \E k \in 1..active_jobs : jobs[k].job_id = j /\ jobs[k].arrived = 1
    BY DEF SimInv, AllInStep
  <2> QED
    BY <1>1, <2>1
<1>3. QUEUE \in Seq(Jobs) /\ ToSet(QUEUE) = {}
  BY <1>2, StateFacts DEF SimInv
<1>4. QUEUE = <<>>
  BY <1>3, ElementsOf DEF ToSet
<1> QED
  BY <1>2, <1>4

LEMMA CleanUpStep ==
    ASSUME SimInv, CleanUp
    PROVE  SimInv'
<1>1. /\ phase = "done" /\ phase' = "ended" /\ scheduler_clean_up
      /\ UNCHANGED <<jobs, jobs_alive, quantum, quantum_clock, i, spent>>
  BY DEF CleanUp
<1>2. UNCHANGED schedVars
  BY <1>1, NothingLeft DEF scheduler_clean_up, schedVars
<1>3. IInv' /\ UNCHANGED <<CURRENT_SCHEME, num_cores, job, time>>
  BY <1>2, NextInvariant DEF SimInv, schedVars
<1>4. active_jobs' = active_jobs /\ Alive' = Alive /\ Cores' = Cores /\ active_jobs = 0
  BY <1>1, <1>3 DEF active_jobs, Alive, Cores, SimInv, NoneAtEnd
<1>5. SimTypeOK'
  BY <1>1, <1>3, <1>4 DEF SimInv, SimTypeOK
<1>6. EntriesDiffer' /\ NotStarted' /\ ArrivedWhenDue' /\ OverIsReported'
  BY <1>4 DEF EntriesDiffer, NotStarted, ArrivedWhenDue, OverIsReported
<1>7. AllInStep'
  BY <1>1, <1>3, <1>4, NothingLeft DEF AllInStep
<1>8. QuantumOK' /\ NoneAtEnd' /\ NoFailure'
  BY <1>1, <1>3, <1>4 DEF SimInv, QuantumOK, NoneAtEnd, NoFailure, Failures
<1> QED
  BY <1>3, <1>5, <1>6, <1>7, <1>8 DEF SimInv

(* No two jobs run on one core, and some job runs while there is one.      *)
LEMMA CoresInUse ==
    ASSUME SimInv
    PROVE  /\ \A c \in Cores : Cardinality(On(c)) \in {0, 1}
           /\ jobs_alive > 0 => Working # {}
<1>1. ASSUME NEW c \in Cores PROVE Cardinality(On(c)) \in {0, 1}
  <2>1. c # -1
    BY StateFacts DEF SimInv
  <2>2. CASE On(c) = {}
    BY <2>2, FS_EmptySet
  <2>3. CASE On(c) # {}
    <3>1. PICK k \in On(c) : TRUE
      BY <2>3
    <3>2. ASSUME NEW l \in On(c) PROVE l = k
      <4>1. k \in 1..active_jobs /\ l \in 1..active_jobs
            /\ jobs[k].core_id = c /\ jobs[l].core_id = c
        BY DEF On
      <4>2. /\ jobs[k].job_id \in DOMAIN job /\ job[jobs[k].job_id].core_id = c
            /\ jobs[l].job_id \in DOMAIN job /\ job[jobs[l].job_id].core_id = c
        BY <2>1, <4>1, OnACore, EntryFacts
      <4>3. jobs[k].job_id = jobs[l].job_id
        BY <2>1, <4>2 DEF SimInv, IInv, CoresMatch, Running
      <4> QED
        BY <4>1, <4>3 DEF SimInv, EntriesDiffer
    <3>3. On(c) = {k}
      BY <3>2
    <3> QED
      BY <3>3, FS_Singleton
  <2> QED
    BY <2>2, <2>3
<1>2. ASSUME jobs_alive > 0 PROVE Working # {}
  <2>1. Alive # {}
    <3>1. jobs_alive = Cardinality(Alive)
      BY DEF SimInv, SimTypeOK
    <3> QED
      BY <1>2, <3>1, FS_EmptySet
  <2>2. PICK k \in 1..active_jobs : jobs[k].arrived = 1
    BY <2>1 DEF Alive
  <2>3. jobs[k].job_id \in DOMAIN job
    BY <2>2, EntryFacts
  <2>4. num_cores \in Nat \ {0} /\ active \in [Cores -> {-1, 1}] /\ -1 \notin Cores
    BY StateFacts DEF SimInv, IInv, TypeOK
  <2>5. \E j \in DOMAIN job : job[j].core_id # -1
    <3>1. CASE IdleCores # {}
      BY <2>3, <3>1 DEF SimInv, IInv, WorkConserving, Running
    <3>2. CASE IdleCores = {}
      <4>1. 0 \in Cores
        BY <2>4 DEF Cores
      <4>2. active[0] = 1
        BY <2>4, <3>2, <4>1 DEF IdleCores
      <4>3. \E j \in DOMAIN job : job[j].core_id = 0
        BY <4>1, <4>2 DEF SimInv, IInv, CoresMatch
      <4> QED
        BY <4>3
    <3> QED
      BY <3>1, <3>2
  <2>6. PICK j \in DOMAIN job : job[j].core_id # -1
    BY <2>5
  <2>7. PICK l \in 1..active_jobs : jobs[l].job_id = j /\ jobs[l].arrived = 1
    BY DEF SimInv, AllInStep
  <2>8. jobs[l].core_id # -1
    BY <2>6, <2>7, EntryFacts
  <2> QED
    BY <2>8 DEF Working
<1> QED
  BY <1>1, <1>2

(* Neither of the two checks that are made while the unit runs fails.      *)
LEMMA RunUnitEffect ==
    ASSUME SimInv, RunUnit
    PROVE  /\ phase = "run" /\ phase' = "finish" /\ i' = 1 /\ time' = time + 1
           /\ UNCHANGED <<CURRENT_SCHEME, num_cores, active, QUEUE, job, num_jobs,
                          waiting_time, turnaround_time, response_time>>
           /\ UNCHANGED <<jobs_alive, quantum>>
           /\ quantum_clock' = [c \in Cores |-> quantum_clock[c] - Cardinality(On(c))]
           /\ jobs' \in Seq(JobEntry) /\ Len(jobs') = active_jobs
           /\ \A k \in 1..active_jobs :
                /\ jobs[k].run_time # 0
                /\ jobs'[k].job_id = jobs[k].job_id
                /\ jobs'[k].arrival_time = jobs[k].arrival_time
                /\ jobs'[k].arrived = jobs[k].arrived
                /\ jobs'[k].core_id = jobs[k].core_id
                /\ jobs'[k].run_time = IF jobs[k].core_id # -1 THEN jobs[k].run_time - 1
                                       ELSE jobs[k].run_time
<1>1. /\ phase = "run"
      /\ jobs' = [k \in 1..active_jobs |->
                    IF k \in Working THEN [jobs[k] EXCEPT !.run_time = @ - 1]
                    ELSE jobs[k]]
      /\ quantum_clock' = [c \in Cores |-> quantum_clock[c] - Cardinality(On(c))]
      /\ UNCHANGED <<CURRENT_SCHEME, num_cores, active, QUEUE, job, num_jobs,
                     waiting_time, turnaround_time, response_time>>
      /\ UNCHANGED <<jobs_alive, quantum>>
  BY DEF RunUnit
<1>2. phase' = "finish" /\ i' = 1 /\ time' = time + 1
  <2>1. ~ \E c \in Cores : Cardinality(On(c)) > 1
    BY CoresInUse
  <2>2. ~ (jobs_alive > 0 /\ Working = {})
    BY CoresInUse
  <2> QED
    BY <2>1, <2>2 DEF RunUnit, Goto
<1>3. active_jobs \in Nat /\ \A k \in 1..active_jobs : jobs[k] \in JobEntry
  BY ArrayFacts
<1>4. ASSUME NEW k \in 1..active_jobs
      PROVE  /\ jobs'[k] \in JobEntry
             /\ jobs[k].run_time # 0
             /\ jobs'[k].job_id = jobs[k].job_id
             /\ jobs'[k].arrival_time = jobs[k].arrival_time
             /\ jobs'[k].arrived = jobs[k].arrived
             /\ jobs'[k].core_id = jobs[k].core_id
             /\ jobs'[k].run_time = IF jobs[k].core_id # -1 THEN jobs[k].run_time - 1
                                    ELSE jobs[k].run_time
  <2>1. jobs[k] \in JobEntry /\ jobs[k].run_time \in Nat /\ jobs[k].run_time # 0
    BY <1>1, <1>3 DEF SimInv, OverIsReported, JobEntry
  <2>2. jobs[k].run_time - 1 \in Nat
    BY <2>1
  <2>3. CASE k \in Working
    <3>1. jobs'[k] = [jobs[k] EXCEPT !.run_time = jobs[k].run_time - 1]
      BY <1>1, <2>3
    <3> QED
      BY <2>1, <2>2, <2>3, <3>1 DEF Working, JobEntry
  <2>4. CASE k \notin Working
    <3>1. jobs'[k] = jobs[k]
      BY <1>1, <2>4
    <3> QED
      BY <2>1, <2>4, <3>1 DEF Working
  <2> QED
    BY <2>3, <2>4
<1>5. jobs' \in Seq(JobEntry) /\ Len(jobs') = active_jobs
  <2>1. jobs' = [k \in 1..active_jobs |-> jobs'[k]]
    BY <1>1
  <2> QED
    BY <1>3, <1>4, <2>1
<1> QED
  BY <1>1, <1>2, <1>4, <1>5

LEMMA RunUnitStep ==
    ASSUME SimInv, RunUnit
    PROVE  SimInv'
<1> DEFINE n == active_jobs
<1>1. /\ phase = "run" /\ phase' = "finish" /\ i' = 1 /\ time' = time + 1
      /\ UNCHANGED <<CURRENT_SCHEME, num_cores, active, QUEUE, job, num_jobs,
                     waiting_time, turnaround_time, response_time>>
      /\ UNCHANGED <<jobs_alive, quantum>>
      /\ quantum_clock' = [c \in Cores |-> quantum_clock[c] - Cardinality(On(c))]
      /\ jobs' \in Seq(JobEntry) /\ Len(jobs') = n
  BY RunUnitEffect
<1>2. \A k \in 1..n :
        /\ jobs[k].run_time # 0
        /\ jobs'[k].job_id = jobs[k].job_id
        /\ jobs'[k].arrival_time = jobs[k].arrival_time
        /\ jobs'[k].arrived = jobs[k].arrived
        /\ jobs'[k].core_id = jobs[k].core_id
        /\ jobs'[k].run_time = IF jobs[k].core_id # -1 THEN jobs[k].run_time - 1
                               ELSE jobs[k].run_time
  BY RunUnitEffect
<1>3. IInv /\ num_cores \in Nat \ {0} /\ time \in Nat
  BY StateFacts DEF SimInv
<1>4. n \in Nat /\ \A k \in 1..n : jobs[k] \in JobEntry
  BY ArrayFacts
<1>5. IInv'
  BY <1>1, <1>3, ClockStep
<1>6. active_jobs' = n /\ Cores' = Cores /\ JobEntry' = JobEntry
  BY <1>1 DEF active_jobs, Cores, JobEntry
<1>7. EntriesDiffer'
  BY <1>2, <1>6 DEF SimInv, EntriesDiffer
<1>8. ASSUME NEW k \in 1..n PROVE InStep(jobs[k])'
  <2>1. CASE jobs[k].arrived = 1
    <3> DEFINE id == jobs[k].job_id
    <3>1. /\ id \in DOMAIN job /\ job[id] \in JobRecord
          /\ jobs[k].core_id = job[id].core_id
          /\ jobs[k].arrival_time = job[id].arrival_time
          /\ jobs[k].run_time = Left(job[id])
      BY <2>1, EntryFacts
    <3>2. job[id].time_remaining \in Int /\ job[id].start_time \in Int
      BY <1>3, <3>1, RecordFields
    <3>3. jobs'[k].run_time =
            IF job[id].core_id = -1 THEN job[id].time_remaining
            ELSE job[id].time_remaining - (time' - job[id].start_time)
      <4>1. time' = time + 1
        BY <1>1
      <4>2. CASE job[id].core_id = -1
        BY <1>2, <3>1, <4>2 DEF Left
      <4>3. CASE job[id].core_id # -1
        <5>1. jobs'[k].run_time = Left(job[id]) - 1
          BY <1>2, <3>1, <4>3
        <5>2. Left(job[id]) = job[id].time_remaining - (time - job[id].start_time)
          BY <4>3 DEF Left
        <5> HIDE DEF id
        <5> QED
          BY <1>3, <3>2, <4>1, <4>3, <5>1, <5>2
      <4> QED
        BY <4>2, <4>3
    <3>4. job' = job
      BY <1>1
    <3> QED
      BY <1>2, <2>1, <3>1, <3>3, <3>4 DEF InStep, StillToRun
  <2>2. CASE jobs[k].arrived # 1
    BY <1>2, <2>2 DEF SimInv, AllInStep, InStep
  <2> QED
    BY <2>1, <2>2
<1>9. AllInStep'
  <2>1. job' = job
    BY <1>1
  <2> QED
    BY <1>2, <1>6, <1>8, <2>1 DEF SimInv, AllInStep
<1>10. ArrivedWhenDue'
  <2> SUFFICES ASSUME NEW k \in 1..n
               PROVE  jobs'[k].arrived = 1 <=> jobs'[k].arrival_time < time'
    BY <1>1, <1>6 DEF ArrivedWhenDue, Due
  <2>1. jobs[k].arrived = 1 <=> jobs[k].arrival_time < time \/ jobs[k].arrival_time = time
    BY <1>1 DEF SimInv, ArrivedWhenDue, Due
  <2>2. jobs[k].arrival_time \in Nat
    BY <1>4 DEF JobEntry
  <2> QED
    BY <1>1, <1>2, <1>3, <2>1, <2>2
<1>11. OverIsReported'
  <2> SUFFICES ASSUME NEW k \in 1..n, jobs'[k].run_time = 0
               PROVE  jobs'[k].core_id # -1 /\ k >= 1
    BY <1>1, <1>6 DEF OverIsReported
  <2> QED
    BY <1>2, <1>4
<1>12. NotStarted'
  BY <1>2, <1>6 DEF SimInv, NotStarted, AllInStep, InStep
<1>13. QuantumOK' /\ NoneAtEnd' /\ NoFailure'
  BY <1>1 DEF SimInv, QuantumOK, NoneAtEnd, NoFailure, Failures
<1>14. SimTypeOK'
  <2>1. (jobs_alive = Cardinality(Alive))'
    <3>1. (jobs \in Seq(JobEntry))'
      BY <1>1, <1>6
    <3>2. jobs_alive' = jobs_alive /\ DOMAIN job' = DOMAIN job
      BY <1>1
    <3> QED
      BY <1>7, <1>9, <3>1, <3>2, AliveCountAfter
  <2>2. quantum_clock' \in [Cores' -> Int]
    <3>1. ASSUME NEW c \in Cores PROVE quantum_clock[c] - Cardinality(On(c)) \in Int
      <4>1. quantum_clock[c] \in Int
        BY ClockFacts
      <4>2. Cardinality(On(c)) \in Int
        BY CoresInUse
      <4> QED
        BY <4>1, <4>2
    <3> QED
      BY <1>1, <1>6, <3>1
  <2>3. i' \in 1..(active_jobs' + num_cores' + 1)
    <3>1. i' = 1 /\ num_cores' = num_cores
      BY <1>1
    <3> HIDE DEF n
    <3> QED
      BY <1>3, <1>4, <1>6, <3>1
  <2> QED
    BY <1>1, <1>6, <2>1, <2>2, <2>3 DEF SimTypeOK, JobEntry
<1> QED
  BY <1>5, <1>7, <1>9, <1>10, <1>11, <1>12, <1>13, <1>14 DEF SimInv

LEMMA SimInitInvariant == SimInit => SimInv
<1> SUFFICES ASSUME SimInit PROVE SimInv
  OBVIOUS
<1>1. PICK w \in Workloads :
        /\ scheduler_start_up(w.cores, w.scheme)
        /\ time = 0
        /\ jobs = [k \in 1..Len(w.lines) |->
                    [job_id |-> k - 1, arrival_time |-> w.lines[k].arrival_time,
                     run_time |-> w.lines[k].run_time,
                     priority |-> w.lines[k].priority,
                     core_id |-> -1, arrived |-> 0]]
        /\ jobs_alive = 0
        /\ quantum = w.quantum
        /\ quantum_clock = [c \in 0..(w.cores - 1) |-> -1]
        /\ phase = IF Len(w.lines) > 0 THEN "finish" ELSE "done"
        /\ i = 1
  BY DEF SimInit, Start
<1> DEFINE n == Len(w.lines)
<1>2. /\ <<w.scheme, w.cores>> \in Configurations
      /\ w.scheme = "RR" => w.quantum \in Nat \ {0}
      /\ w.lines \in Seq([arrival_time : Nat, run_time : RunTimes,
                          priority : Priorities])
      /\ \A k \in DOMAIN w.lines : k - 1 \in Jobs
      /\ \A k, l \in DOMAIN w.lines :
                w.lines[k].arrival_time = w.lines[l].arrival_time => k = l
  BY WorkloadAssumption
<1>3. n \in Nat /\ DOMAIN w.lines = 1..n
  BY <1>2
<1>4. SchedInit
  <2> DEFINE config == <<w.scheme, w.cores>>
  <2>1. config \in Configurations /\ scheduler_start_up(config[2], config[1]) /\ time = 0
    BY <1>1, <1>2
  <2> QED
    BY <2>1 DEF SchedInit
<1>5. IInv /\ -1 \notin Cores /\ num_cores \in Nat \ {0}
  BY <1>4, InitInvariant, StateFacts
<1>6. CURRENT_SCHEME = w.scheme /\ num_cores = w.cores /\ job = <<>> /\ DOMAIN job = {}
  BY <1>1 DEF scheduler_start_up
<1>7. ASSUME NEW k \in 1..n
      PROVE  /\ jobs[k] \in JobEntry
             /\ jobs[k].job_id = k - 1
             /\ jobs[k].arrival_time = w.lines[k].arrival_time
             /\ jobs[k].arrival_time \in Nat
             /\ jobs[k].run_time \in RunTimes
             /\ jobs[k].core_id = -1 /\ jobs[k].arrived = 0
  <2>1. w.lines[k] \in [arrival_time : Nat, run_time : RunTimes, priority : Priorities]
    <3> DEFINE lines == w.lines
               L == [arrival_time : Nat, run_time : RunTimes, priority : Priorities]
    <3>1. lines \in Seq(L) /\ k \in 1..Len(lines)
      BY <1>2
    <3> HIDE DEF lines, L
    <3>2. lines[k] \in L
      BY <3>1
    <3> QED
      BY <3>2 DEF lines, L
  <2>2. /\ w.lines[k].arrival_time \in Nat /\ w.lines[k].run_time \in RunTimes
        /\ w.lines[k].priority \in Priorities
    BY <2>1
  <2>3. k - 1 \in Jobs /\ w.lines[k].run_time \in Nat
    BY <1>2, <1>3, <2>2, SchedulerAssumption
  <2>4. jobs[k] =
            [job_id |-> k - 1, arrival_time |-> w.lines[k].arrival_time,
             run_time |-> w.lines[k].run_time,
             priority |-> w.lines[k].priority,
             core_id |-> -1, arrived |-> 0]
    BY <1>1
  <2>5. /\ jobs[k].job_id = k - 1
        /\ jobs[k].arrival_time = w.lines[k].arrival_time
        /\ jobs[k].run_time = w.lines[k].run_time
        /\ jobs[k].core_id = -1 /\ jobs[k].arrived = 0
    BY <2>4
  <2>6. jobs[k] \in JobEntry
    BY <2>2, <2>3, <2>4 DEF JobEntry
  <2> QED
    BY <2>2, <2>5, <2>6
<1>8. jobs \in Seq(JobEntry) /\ active_jobs = n
  <2>1. jobs = [k \in 1..n |-> jobs[k]]
    BY <1>1
  <2> QED
    BY <1>3, <1>7, <2>1 DEF active_jobs
<1>9. SimTypeOK
  <2>1. Alive = {}
    BY <1>7, <1>8 DEF Alive
  <2>2. jobs_alive = Cardinality(Alive)
    BY <1>1, <2>1, FS_EmptySet
  <2>3. quantum_clock \in [Cores -> Int]
    BY <1>1, <1>6 DEF Cores
  <2>4. i \in 1..(active_jobs + num_cores + 1)
    <3>1. i = 1
      BY <1>1
    <3> HIDE DEF n
    <3> QED
      BY <1>3, <1>5, <1>8, <3>1
  <2>5. phase \in {"finish", "done"}
    BY <1>1
  <2> QED
    BY <1>8, <2>2, <2>3, <2>4, <2>5 DEF SimTypeOK, JobEntry
<1>10. EntriesDiffer
  <2> SUFFICES ASSUME NEW k \in 1..n, NEW l \in 1..n,
                      \/ jobs[k].job_id = jobs[l].job_id
                      \/ jobs[k].arrival_time = jobs[l].arrival_time
               PROVE  k = l
    BY <1>8 DEF EntriesDiffer
  <2>1. CASE jobs[k].job_id = jobs[l].job_id
    <3>1. k - 1 = l - 1 /\ k \in Int /\ l \in Int
      BY <1>3, <1>7, <2>1
    <3> QED
      BY <3>1
  <2>2. CASE jobs[k].arrival_time = jobs[l].arrival_time
    BY <1>2, <1>3, <1>7, <2>2
  <2> QED
    BY <2>1, <2>2
<1>11. ArrivedWhenDue
  <2> SUFFICES ASSUME NEW k \in 1..n PROVE ~Due(k) /\ jobs[k].arrived = 0
    BY <1>8 DEF ArrivedWhenDue
  <2>1. phase \in {"finish", "done"} /\ time = 0
    BY <1>1
  <2> QED
    BY <1>7, <2>1 DEF Due
<1>12. AllInStep
  BY <1>6, <1>7, <1>8 DEF AllInStep, InStep
<1>13. OverIsReported /\ NotStarted
  BY <1>7, <1>8, SchedulerAssumption DEF OverIsReported, NotStarted
<1>14. QuantumOK /\ NoFailure
  <2>1. phase \in {"finish", "done"} /\ quantum = w.quantum
    BY <1>1
  <2> QED
    BY <1>2, <1>6, <2>1 DEF QuantumOK, NoFailure, Failures
<1>15. NoneAtEnd
  <2>1. phase = IF n > 0 THEN "finish" ELSE "done"
    BY <1>1
  <2> HIDE DEF n
  <2> QED
    BY <1>3, <1>8, <2>1 DEF NoneAtEnd
<1> QED
  BY <1>5, <1>9, <1>10, <1>11, <1>12, <1>13, <1>14, <1>15 DEF SimInv

LEMMA SimNextInvariant == SimInv /\ [SimNext]_simVars => SimInv'
<1> SUFFICES ASSUME SimInv, [SimNext]_simVars PROVE SimInv'
  OBVIOUS
<1>1. CASE ReportFinished
  BY <1>1, ReportFinishedStep
<1>2. CASE NoMoreFinished
  BY <1>2, NoMoreFinishedStep
<1>3. CASE ReportExpired
  BY <1>3, ReportExpiredStep
<1>4. CASE NoMoreExpired
  BY <1>4, NoMoreExpiredStep
<1>5. CASE ReportArrival
  BY <1>5, ReportArrivalStep
<1>6. CASE NoMoreArrivals
  BY <1>6, NoMoreArrivalsStep
<1>7. CASE RunUnit
  BY <1>7, RunUnitStep
<1>8. CASE CleanUp
  BY <1>8, CleanUpStep
<1>9. CASE UNCHANGED simVars
  <2>1. /\ UNCHANGED schedVars
        /\ UNCHANGED <<jobs, jobs_alive, quantum, quantum_clock, phase, i>>
    BY <1>9 DEF simVars
  <2>2. IInv' /\ UNCHANGED <<CURRENT_SCHEME, num_cores, job, time>>
    BY <2>1, NextInvariant DEF SimInv, schedVars
  <2>3. active_jobs' = active_jobs /\ Alive' = Alive /\ Cores' = Cores
    BY <2>1, <2>2 DEF active_jobs, Alive, Cores
  <2>4. SimTypeOK'
    BY <2>1, <2>2, <2>3 DEF SimInv, SimTypeOK
  <2>5. EntriesDiffer' /\ ArrivedWhenDue' /\ OverIsReported' /\ NotStarted'
    BY <2>1, <2>2, <2>3 DEF SimInv, EntriesDiffer, ArrivedWhenDue, Due,
                            OverIsReported, NotStarted
  <2>6. AllInStep'
    BY <2>1, <2>2, <2>3 DEF SimInv, AllInStep, InStep, StillToRun
  <2>7. QuantumOK' /\ NoneAtEnd' /\ NoFailure'
    BY <2>1, <2>2, <2>3 DEF SimInv, QuantumOK, NoneAtEnd, NoFailure, Failures
  <2> QED
    BY <2>2, <2>4, <2>5, <2>6, <2>7 DEF SimInv
<1> QED
  BY <1>1, <1>2, <1>3, <1>4, <1>5, <1>6, <1>7, <1>8, <1>9 DEF SimNext

-----------------------------------------------------------------------------
(* The inductive invariant of the program.                                 *)
THEOREM SimInvariant == SimSpec => []SimInv
<1>1. SimInit => SimInv
  BY SimInitInvariant
<1>2. SimInv /\ [SimNext]_simVars => SimInv'
  BY SimNextInvariant
<1> QED
  BY <1>1, <1>2, PTL DEF SimSpec

(* The array of the program keeps its type, and jobs_alive is the number   *)
(* of the jobs that arrived and are not finished (simulator.c:264, 340).   *)
THEOREM SimTypeCorrect == SimSpec => []SimTypeOK
<1>1. SimInv => SimTypeOK
  BY DEF SimInv
<1> QED
  BY <1>1, SimInvariant, PTL

(* None of the checks of the program fails: not the one of set_active_job  *)
(* (lines 268-273, 311-316), of the core of a new job (365-370), of two    *)
(* jobs on a core (392) or of idle cores (453-458).                        *)
THEOREM ChecksHold == SimSpec => []NoFailure
<1>1. SimInv => NoFailure
  BY DEF SimInv
<1> QED
  BY <1>1, SimInvariant, PTL

(* The program and the library agree on the jobs and on their cores        *)
(* (lines 248-372).                                                        *)
THEOREM SameCores == SimSpec => []CoresAgree
<1>1. SimInv => CoresAgree
  <2> SUFFICES ASSUME SimInv PROVE CoresAgree
    OBVIOUS
  <2>1. DOMAIN job = {jobs[k].job_id : k \in Alive}
    <3>1. \A k \in Alive : jobs[k].job_id \in DOMAIN job
      BY EntryFacts DEF Alive
    <3>2. \A j \in DOMAIN job : \E k \in Alive : jobs[k].job_id = j
      BY DEF SimInv, AllInStep, Alive
    <3> QED
      BY <3>1, <3>2
  <2>2. ASSUME NEW k \in 1..active_jobs
        PROVE  jobs[k].core_id = IF k \in Alive THEN job[jobs[k].job_id].core_id
                                 ELSE -1
    BY DEF SimInv, AllInStep, InStep, Alive
  <2> QED
    BY <2>1, <2>2 DEF CoresAgree
<1> QED
  BY <1>1, SimInvariant, PTL

(* The program and the library agree on the time a job still needs         *)
(* (line 389 and libscheduler.c:210, 343).                                 *)
THEOREM SameRunTimes == SimSpec => []RunTimesAgree
<1>1. SimInv => RunTimesAgree
  BY DEF SimInv, AllInStep, InStep, RunTimesAgree, Alive
<1> QED
  BY <1>1, SimInvariant, PTL

(* scheduler_clean_up finds an empty list and no record (lines 241, 285,   *)
(* 477).                                                                   *)
THEOREM AllFreed == SimSpec => []AllFreedAtEnd
<1>1. SimInv => AllFreedAtEnd
  BY NothingLeft DEF AllFreedAtEnd
<1> QED
  BY <1>1, SimInvariant, PTL

-----------------------------------------------------------------------------
(* The program is a caller the library is meant for.                       *)

LEMMA NothingOver ==
    ASSUME SimInv, \A k \in 1..active_jobs : jobs[k].run_time # 0
    PROVE  NoneOver
<1> SUFFICES ASSUME NEW j \in DOMAIN job, Running(j) PROVE StillToRun(j) > 0
  BY DEF NoneOver
<1>1. PICK k \in 1..active_jobs : jobs[k].job_id = j /\ jobs[k].arrived = 1
  BY DEF SimInv, AllInStep
<1>2. jobs[k].run_time = StillToRun(j)
  BY <1>1 DEF SimInv, AllInStep, InStep
<1>3. jobs[k].run_time \in Nat /\ jobs[k].run_time # 0
  BY ArrayFacts
<1> QED
  BY <1>2, <1>3

LEMMA FinishedIsFinish ==
    ASSUME SimInv, ReportFinished
    PROVE  Finish
<1>1. PICK k \in Used, w \in Returned :
        scheduler_job_finished(jobs[k].core_id, jobs[k].job_id, w)
  BY DEF ReportFinished
<1> DEFINE j == jobs[k].job_id
<1>2. k \in 1..active_jobs /\ jobs[k].run_time = 0
  <2>1. k \in i..active_jobs /\ jobs[k].run_time = 0
    BY <1>1 DEF Used
  <2> QED
    BY <2>1, ArrayFacts
<1>3. jobs[k].core_id # -1
  BY <1>2 DEF SimInv, OverIsReported
<1>4. /\ jobs[k].arrived = 1 /\ Running(j) /\ j \in DOMAIN job
      /\ jobs[k].core_id = job[j].core_id
  BY <1>2, <1>3, OnACore, EntryFacts
<1>5. StillToRun(j) = 0
  BY <1>2, <1>4 DEF SimInv, AllInStep, InStep
<1>6. w \in Jobs \cup {-1}
  <2>1. /\ DOMAIN RecordsWithout(j) = DOMAIN job \ {j}
        /\ Handed(jobs[k].core_id, RecordsWithout(j), 0, w)
    BY <1>1, <1>4, FinishEffect DEF SimInv
  <2>2. w # -1 => w \in DOMAIN job
    BY <2>1 DEF Handed
  <2> QED
    BY <2>2, StateFacts DEF SimInv
<1> QED
  BY <1>1, <1>4, <1>5, <1>6 DEF Finish

LEMMA ExpiredIsExpire ==
    ASSUME SimInv, ReportExpired
    PROVE  Expire
<1>1. PICK c \in Expired, w \in Returned : scheduler_quantum_expired(c, w)
  BY DEF ReportExpired
<1>2. phase = "quantum" /\ CURRENT_SCHEME = "RR"
  BY DEF ReportExpired, SimInv, QuantumOK
<1>3. i \in Nat /\ i >= 1 /\ num_cores \in Nat /\ IInv
  BY ArrayFacts, StateFacts DEF SimInv
<1>4. c \in Cores /\ On(c) # {}
  <2>1. c \in (i - 1)..(num_cores - 1) /\ On(c) # {}
    BY <1>1 DEF Expired
  <2> QED
    BY <1>3, <2>1 DEF Cores
<1>5. NoneOver
  BY <1>2, NothingOver DEF SimInv, OverIsReported
<1>6. w \in Jobs \cup {-1}
  <2>1. PICK m \in 1..active_jobs : jobs[m].core_id = c
    BY <1>4 DEF On
  <2>2. c # -1
    BY <1>4, StateFacts DEF SimInv
  <2> DEFINE j == jobs[m].job_id
  <2>3. j \in DOMAIN job /\ job[j].core_id = c
    BY <2>1, <2>2, OnACore, EntryFacts
  <2>4. /\ DOMAIN RecordsExpired(j) = DOMAIN job
        /\ Handed(c, RecordsExpired(j), -1, w)
    BY <1>1, <1>3, <1>4, <2>3, ExpireEffect, ZenonT(40)
  <2>5. w # -1 => w \in DOMAIN job
    BY <2>4 DEF Handed
  <2> QED
    BY <1>3, <2>5, StateFacts
<1> QED
  BY <1>1, <1>2, <1>4, <1>5, <1>6 DEF Expire

LEMMA ArrivalIsArrive ==
    ASSUME SimInv, ReportArrival
    PROVE  Arrive
<1>1. PICK k \in Arriving, core \in Returned :
        scheduler_new_job(jobs[k].job_id, jobs[k].run_time, jobs[k].priority, core)
  BY DEF ReportArrival
<1>2. phase = "arrive"
  BY DEF ReportArrival
<1>3. /\ active_jobs \in Nat /\ i \in Nat /\ i >= 1 /\ time \in Nat
      /\ \A l \in 1..active_jobs : jobs[l] \in JobEntry
  BY ArrayFacts, StateFacts DEF SimInv
<1>4. k \in 1..active_jobs /\ k \in Nat /\ k >= i /\ jobs[k].arrival_time = time
  <2>1. k \in i..active_jobs /\ jobs[k].arrival_time = time
    BY <1>1 DEF Arriving
  <2> QED
    BY <1>3, <2>1
<1> DEFINE j == jobs[k].job_id
           r == jobs[k].run_time
           p == jobs[k].priority
<1>5. jobs[k].arrived = 0 /\ r \in RunTimes
  <2>1. ~Due(k)
    BY <1>2, <1>3, <1>4 DEF Due
  <2>2. jobs[k].arrived = 0
    BY <1>3, <1>4, <2>1 DEF SimInv, ArrivedWhenDue, JobEntry
  <2> QED
    BY <1>4, <2>2 DEF SimInv, NotStarted
<1>6. j \in Jobs \ DOMAIN job /\ p \in Priorities
  <2>1. j \notin DOMAIN job
    BY <1>4, <1>5 DEF SimInv, AllInStep, EntriesDiffer
  <2> QED
    BY <1>3, <1>4, <2>1 DEF JobEntry
<1>7. core \in Cores \cup {-1}
  BY <1>1, <1>5, <1>6, NewJobEffect DEF SimInv
<1>8. NoneOver
  BY <1>2, NothingOver DEF SimInv, OverIsReported
<1>9. \A x \in DOMAIN job : job[x].arrival_time # time
  <2> SUFFICES ASSUME NEW x \in DOMAIN job, job[x].arrival_time = time PROVE FALSE
    OBVIOUS
  <2>1. PICK l \in 1..active_jobs : jobs[l].job_id = x /\ jobs[l].arrived = 1
    BY DEF SimInv, AllInStep
  <2>2. jobs[l].arrival_time = time
    BY <2>1, EntryFacts
  <2>3. l = k
    BY <1>4, <2>2 DEF SimInv, EntriesDiffer
  <2> QED
    BY <1>5, <2>1, <2>3
<1>10. scheduler_new_job(j, r, p, core)
  BY <1>1
<1> HIDE DEF j, r, p
<1> QED
  BY <1>5, <1>6, <1>7, <1>8, <1>9, <1>10 DEF Arrive

LEMMA RunUnitIsTick ==
    ASSUME SimInv, RunUnit, time' <= MaxTime
    PROVE  Tick
<1>1. /\ phase = "run" /\ time' = time + 1
      /\ UNCHANGED <<CURRENT_SCHEME, num_cores, active, QUEUE, job, num_jobs,
                     waiting_time, turnaround_time, response_time>>
  BY RunUnitEffect
<1>2. time < MaxTime
  BY <1>1, StateFacts, SchedulerAssumption DEF SimInv
<1>3. NoneOver
  BY <1>1, NothingOver DEF SimInv, OverIsReported
<1> QED
  BY <1>1, <1>2, <1>3 DEF Tick

LEMMA StepRefines ==
    SimInv /\ (time <= MaxTime)' /\ [SimNext]_simVars => [SchedNext]_schedVars
<1> SUFFICES ASSUME SimInv, time' <= MaxTime, [SimNext]_simVars
             PROVE  [SchedNext]_schedVars
  OBVIOUS
<1>1. CASE ReportFinished
  BY <1>1, FinishedIsFinish DEF SchedNext
<1>2. CASE ReportExpired
  BY <1>2, ExpiredIsExpire DEF SchedNext
<1>3. CASE ReportArrival
  BY <1>3, ArrivalIsArrive DEF SchedNext
<1>4. CASE RunUnit
  BY <1>4, RunUnitIsTick DEF SchedNext
<1>5. CASE NoMoreFinished \/ NoMoreExpired \/ NoMoreArrivals
  BY <1>5 DEF NoMoreFinished, NoMoreExpired, NoMoreArrivals
<1>6. CASE CleanUp
  BY <1>6, NothingLeft DEF CleanUp, scheduler_clean_up, schedVars
<1>7. CASE UNCHANGED simVars
  BY <1>7 DEF simVars
<1> QED
  BY <1>1, <1>2, <1>3, <1>4, <1>5, <1>6, <1>7 DEF SimNext

LEMMA StartIsSchedInit == SimInit => SchedInit
<1> SUFFICES ASSUME SimInit PROVE SchedInit
  OBVIOUS
<1>1. PICK w \in Workloads : scheduler_start_up(w.cores, w.scheme) /\ time = 0
  BY DEF SimInit, Start
<1> DEFINE config == <<w.scheme, w.cores>>
<1>2. config \in Configurations /\ scheduler_start_up(config[2], config[1])
  BY <1>1, WorkloadAssumption
<1> QED
  BY <1>1, <1>2 DEF SchedInit

(* The program respects, in every call, what the comments of the library   *)
(* ask of the caller (libscheduler.c:97-101, 157-158), so that everything  *)
(* SchedulerProofs says of the library holds in the program: MaxTime can   *)
(* be as large as one likes.                                               *)
THEOREM ProgramHonoursScheduler ==
    SimSpec /\ [](time <= MaxTime) => HonoursScheduler
<1>1. SimInit => SchedInit
  BY StartIsSchedInit
<1>2. SimInv /\ (time <= MaxTime)' /\ [SimNext]_simVars => [SchedNext]_schedVars
  BY StepRefines
<1> QED
  BY <1>1, <1>2, SimInvariant, PTL DEF SimSpec, SchedSpec, HonoursScheduler

-----------------------------------------------------------------------------
(* Counting the units of time.                                             *)

LEMMA UnitsFinite ==
    ASSUME NEW S, IsFiniteSet(S), NEW from, NEW t \in Nat
    PROVE  /\ IsFiniteSet(UnitsOf(S, from, t))
           /\ Cardinality(UnitsOf(S, from, t)) \in Nat
<1>1. IsFiniteSet(0..(t - 1))
  BY FS_Interval
<1>2. IsFiniteSet(S \X (0..(t - 1)))
  BY <1>1, FS_Product
<1>3. UnitsOf(S, from, t) \subseteq S \X (0..(t - 1))
  BY DEF UnitsOf
<1>4. IsFiniteSet(UnitsOf(S, from, t))
  BY <1>2, <1>3, FS_Subset
<1> QED
  BY <1>4, FS_CardinalityType

(* Who comes in now has no units behind him.                               *)
LEMMA UnitsExtend ==
    ASSUME NEW T, NEW S \in SUBSET T, NEW f, NEW g, NEW t \in Nat,
           \A x \in S : g[x] = f[x],
           \A x \in T \ S : g[x] = t
    PROVE  UnitsOf(T, g, t) = UnitsOf(S, f, t)
<1>1. ASSUME NEW u \in T \X (0..(t - 1)), g[u[1]] <= u[2]
      PROVE  u[1] \in S
  <2>1. u[1] \in T /\ u[2] \in 0..(t - 1)
    OBVIOUS
  <2>2. g[u[1]] # t
    BY <1>1, <2>1
  <2> QED
    BY <2>1, <2>2
<1>2. UnitsOf(T, g, t) \subseteq UnitsOf(S, f, t)
  BY <1>1 DEF UnitsOf
<1>3. UnitsOf(S, f, t) \subseteq UnitsOf(T, g, t)
  BY DEF UnitsOf
<1> QED
  BY <1>2, <1>3

(* Who leaves takes the units since his time with him.                     *)
LEMMA UnitsWithout ==
    ASSUME NEW S, IsFiniteSet(S), NEW x \in S, NEW f, NEW t \in Nat,
           f[x] \in Int, 0 <= f[x], f[x] <= t
    PROVE  Cardinality(UnitsOf(S, f, t)) =
                Cardinality(UnitsOf(S \ {x}, f, t)) + (t - f[x])
<1> DEFINE I == f[x]..(t - 1)
           A == UnitsOf(S \ {x}, f, t)
           B == {x} \X I
<1>1. IsFiniteSet(S \ {x})
  BY FS_Subset
<1>2. IsFiniteSet(A) /\ Cardinality(A) \in Nat
  BY <1>1, UnitsFinite
<1>3. IsFiniteSet(I) /\ Cardinality(I) = t - f[x]
  <2> DEFINE a == f[x]
             b == t - 1
  <2>1. a \in Int /\ b \in Int /\ a <= b + 1 /\ t = b + 1
    OBVIOUS
  <2> HIDE DEF a, b
  <2>2. /\ IsFiniteSet(a..b)
        /\ Cardinality(a..b) = IF a > b THEN 0 ELSE b - a + 1
    BY <2>1, FS_Interval
  <2>3. Cardinality(a..b) = t - a
    BY <2>1, <2>2
  <2> QED
    BY <2>2, <2>3 DEF a, b
<1>4. IsFiniteSet({x}) /\ Cardinality({x}) = 1
  BY FS_Singleton
<1>5. IsFiniteSet(B) /\ Cardinality(B) = t - f[x]
  <2>1. IsFiniteSet(B) /\ Cardinality(B) = Cardinality({x}) * Cardinality(I)
    BY <1>3, <1>4, FS_Product
  <2> HIDE DEF I, B
  <2> QED
    BY <1>3, <1>4, <2>1
<1>6. A \cap B = {}
  BY DEF UnitsOf
<1>7. UnitsOf(S, f, t) = A \cup B
  <2>1. ASSUME NEW u \in UnitsOf(S, f, t) PROVE u \in A \cup B
    <3>1. /\ u \in S \X (0..(t - 1)) /\ f[u[1]] <= u[2]
          /\ u = <<u[1], u[2]>> /\ u[1] \in S /\ u[2] \in 0..(t - 1)
      BY DEF UnitsOf
    <3>2. CASE u[1] = x
      <4>1. u[2] \in I
        BY <3>1, <3>2
      <4> QED
        BY <3>1, <3>2, <4>1
    <3>3. CASE u[1] # x
      BY <3>1, <3>3 DEF UnitsOf
    <3> QED
      BY <3>2, <3>3
  <2>2. A \subseteq UnitsOf(S, f, t)
    BY DEF UnitsOf
  <2>3. ASSUME NEW u \in B PROVE u \in UnitsOf(S, f, t)
    <3>1. u = <<x, u[2]>> /\ u[1] = x /\ u[2] \in I
      OBVIOUS
    <3>2. u[2] \in 0..(t - 1) /\ f[x] <= u[2]
      BY <3>1
    <3> QED
      BY <3>1, <3>2 DEF UnitsOf
  <2> QED
    BY <2>1, <2>2, <2>3
<1> HIDE DEF A, B, I
<1>8. Cardinality(A \cup B) = Cardinality(A) + Cardinality(B) - Cardinality(A \cap B)
  BY <1>2, <1>5, FS_Union
<1>9. Cardinality(A \cap B) = 0
  BY <1>6, FS_EmptySet
<1>10. Cardinality(A \cup B) = Cardinality(A) + (t - f[x])
  BY <1>2, <1>5, <1>8, <1>9
<1> QED
  BY <1>7, <1>10 DEF A

(* A unit of time passes for everyone.                                     *)
LEMMA UnitsPass ==
    ASSUME NEW S, IsFiniteSet(S), NEW f, NEW t \in Nat,
           \A x \in S : f[x] \in Int /\ f[x] <= t
    PROVE  Cardinality(UnitsOf(S, f, t + 1)) =
                Cardinality(UnitsOf(S, f, t)) + Cardinality(S)
<1> DEFINE A == UnitsOf(S, f, t)
           B == S \X {t}
<1>1. IsFiniteSet(A) /\ Cardinality(A) \in Nat
  BY UnitsFinite
<1>2. IsFiniteSet(B) /\ Cardinality(B) = Cardinality(S) /\ Cardinality(S) \in Nat
  <2>1. IsFiniteSet({t}) /\ Cardinality({t}) = 1
    BY FS_Singleton
  <2>2. IsFiniteSet(B) /\ Cardinality(B) = Cardinality(S) * Cardinality({t})
    BY <2>1, FS_Product
  <2>3. Cardinality(S) \in Nat
    BY FS_CardinalityType
  <2> HIDE DEF B
  <2> QED
    BY <2>1, <2>2, <2>3
<1>3. A \cap B = {}
  <2> SUFFICES ASSUME NEW u \in A, u \in B PROVE FALSE
    OBVIOUS
  <2>1. u[2] \in 0..(t - 1) /\ u[2] = t
    BY DEF UnitsOf
  <2> QED
    BY <2>1
<1>4. UnitsOf(S, f, t + 1) = A \cup B
  <2>1. ASSUME NEW u \in UnitsOf(S, f, t + 1) PROVE u \in A \cup B
    <3>1. /\ u \in S \X (0..((t + 1) - 1)) /\ f[u[1]] <= u[2]
      BY DEF UnitsOf
    <3>2. /\ u = <<u[1], u[2]>> /\ u[1] \in S /\ u[2] \in 0..t
      BY <3>1
    <3>3. CASE u[2] = t
      BY <3>2, <3>3
    <3>4. CASE u[2] # t
      <4>1. u[2] \in 0..(t - 1)
        BY <3>2, <3>4
      <4> QED
        BY <3>1, <3>2, <4>1 DEF UnitsOf
    <3> QED
      BY <3>3, <3>4
  <2>2. ASSUME NEW u \in A PROVE u \in UnitsOf(S, f, t + 1)
    <3>1. /\ u = <<u[1], u[2]>> /\ u[1] \in S /\ u[2] \in 0..(t - 1) /\ f[u[1]] <= u[2]
      BY DEF UnitsOf
    <3>2. u[2] \in 0..((t + 1) - 1)
      BY <3>1
    <3> QED
      BY <3>1, <3>2 DEF UnitsOf
  <2>3. ASSUME NEW u \in B PROVE u \in UnitsOf(S, f, t + 1)
    <3>1. u = <<u[1], u[2]>> /\ u[1] \in S /\ u[2] = t
      OBVIOUS
    <3>2. u[2] \in 0..((t + 1) - 1) /\ f[u[1]] <= u[2]
      BY <3>1
    <3> QED
      BY <3>1, <3>2 DEF UnitsOf
  <2> QED
    BY <2>1, <2>2, <2>3
<1> HIDE DEF A, B
<1>5. Cardinality(A \cup B) = Cardinality(A) + Cardinality(B) - Cardinality(A \cap B)
  BY <1>1, <1>2, FS_Union
<1>6. Cardinality(A \cap B) = 0
  BY <1>3, FS_EmptySet
<1>7. Cardinality(A \cup B) = Cardinality(A) + Cardinality(S)
  BY <1>1, <1>2, <1>5, <1>6
<1> QED
  BY <1>4, <1>7 DEF A

(* Records that may be there during a call.                                *)
Sound(known) ==
    /\ IsFiniteSet(DOMAIN known) /\ DOMAIN known \subseteq Jobs
    /\ known \in [DOMAIN known -> JobRecord]
    /\ \A x \in WaitingIn(known) : known[x].pause_time >= 0

(* What a woken job takes from what the records owe it adds to the sums.   *)
LEMMA HandedOwed ==
    ASSUME IInv, NEW known, Sound(known), NEW c, c # -1, NEW mark, NEW w,
           Handed(c, known, mark, w)
    PROVE  /\ OwedTurnaround(job', time) = OwedTurnaround(known, time)
           /\ waiting_time' + OwedWaiting(job', time) =
                waiting_time + OwedWaiting(known, time)
           /\ response_time' + OwedResponse(job', time) =
                response_time + OwedResponse(known, time)
           /\ \A x \in WaitingIn(job') : job'[x].pause_time >= 0
<1> DEFINE Ids == DOMAIN known
           W == WaitingIn(known)
           R == UnansweredIn(known)
<1>1. /\ time \in Nat /\ -1 \notin Jobs /\ waiting_time \in Nat /\ response_time \in Nat
  BY StateFacts
<1>2. IsFiniteSet(Ids) /\ Ids \subseteq Jobs /\ -1 \notin Ids
  BY <1>1 DEF Sound
<1>3. ASSUME NEW x \in Ids
      PROVE  /\ known[x] \in JobRecord
             /\ known[x].arrival_time \in 0..time /\ known[x].pause_time \in Int
             /\ known[x].pause_time <= time
  <2>1. known[x] \in JobRecord
    BY DEF Sound
  <2> QED
    BY <1>1, <2>1 DEF JobRecord
<1>4. DOMAIN job' = Ids
  BY DEF Handed
<1>5. ASSUME NEW x \in Ids
      PROVE  /\ job'[x].arrival_time = known[x].arrival_time
             /\ job'[x].core_id = IF x = w THEN c ELSE known[x].core_id
             /\ job'[x].responded = IF x = w THEN 1 ELSE known[x].responded
             /\ x # w => job'[x].pause_time = known[x].pause_time
  <2>1. job'[x] = IF x = w THEN Woken(known[x], c, mark) ELSE known[x]
    BY DEF Handed
  <2> QED
    BY <1>1, <1>3, <2>1, WokenFields
<1>6. /\ ArrivalIn(job') = ArrivalIn(known)
      /\ \A x \in Ids : ArrivalIn(known)[x] = known[x].arrival_time
  BY <1>4, <1>5 DEF ArrivalIn
<1>7. OwedTurnaround(job', time) = OwedTurnaround(known, time)
  BY <1>4, <1>6 DEF OwedTurnaround
<1>8. WaitingIn(job') = W \ {w}
  BY <1>4, <1>5 DEF WaitingIn
<1>9. /\ \A x \in W \ {w} : PauseIn(job')[x] = PauseIn(known)[x]
      /\ \A x \in W : PauseIn(known)[x] = known[x].pause_time
  BY <1>4, <1>5 DEF WaitingIn, PauseIn
<1>10. /\ IsFiniteSet(W) /\ IsFiniteSet(R) /\ W \subseteq Ids /\ R \subseteq Ids
  <2>1. W \subseteq Ids /\ R \subseteq Ids
    BY DEF WaitingIn, UnansweredIn
  <2> QED
    BY <1>2, <2>1, FS_Subset
<1>11. \A x \in WaitingIn(job') : job'[x].pause_time >= 0
  BY <1>5, <1>8, <1>10 DEF Sound
<1>12. OwedWaiting(job', time) = Cardinality(UnitsOf(W \ {w}, PauseIn(known), time))
  <2> DEFINE V == W \ {w}
  <2>1. V \in SUBSET V /\ \A x \in V : PauseIn(job')[x] = PauseIn(known)[x]
    BY <1>9
  <2>2. UnitsOf(V, PauseIn(job'), time) = UnitsOf(V, PauseIn(known), time)
    BY <1>1, <2>1, UnitsExtend
  <2> QED
    BY <1>8, <2>2 DEF OwedWaiting
<1>13. CASE w = -1
  <2>1. W \ {w} = W /\ UnansweredIn(job') = R
    BY <1>2, <1>4, <1>5, <1>10, <1>13 DEF UnansweredIn
  <2>2. waiting_time' = waiting_time /\ response_time' = response_time
    BY <1>13 DEF Handed
  <2> QED
    BY <1>6, <1>7, <1>11, <1>12, <2>1, <2>2 DEF OwedWaiting, OwedResponse
<1>14. CASE w # -1
  <2>1. /\ w \in Ids /\ w \in W
        /\ waiting_time' = waiting_time + (time - known[w].pause_time)
        /\ response_time' = response_time +
                IF known[w].responded = -1 THEN time - known[w].arrival_time ELSE 0
    BY <1>14 DEF Handed, WaitingIn
  <2>2. /\ known[w].pause_time \in Int /\ 0 <= known[w].pause_time
        /\ known[w].pause_time <= time
        /\ PauseIn(known)[w] = known[w].pause_time
    BY <1>3, <1>9, <2>1 DEF Sound
  <2>3. /\ OwedWaiting(known, time) =
                Cardinality(UnitsOf(W \ {w}, PauseIn(known), time))
                    + (time - known[w].pause_time)
    BY <1>1, <1>10, <2>1, <2>2, UnitsWithout DEF OwedWaiting
  <2>4. OwedWaiting(job', time) \in Nat
    <3>1. IsFiniteSet(W \ {w})
      BY <1>10, FS_Subset
    <3> QED
      BY <1>1, <1>12, <3>1, UnitsFinite
  <2>5. waiting_time' + OwedWaiting(job', time) = waiting_time + OwedWaiting(known, time)
    BY <1>1, <1>12, <2>1, <2>2, <2>3, <2>4
  <2>6. response_time' + OwedResponse(job', time) =
            response_time + OwedResponse(known, time)
    <3>1. CASE known[w].responded = -1
      <4>1. w \in R /\ UnansweredIn(job') = R \ {w}
        BY <1>4, <1>5, <2>1, <3>1 DEF UnansweredIn
      <4>2. /\ ArrivalIn(known)[w] = known[w].arrival_time
            /\ known[w].arrival_time \in Int /\ 0 <= known[w].arrival_time
            /\ known[w].arrival_time <= time
        BY <1>1, <1>3, <1>6, <2>1
      <4>3. OwedResponse(known, time) =
                Cardinality(UnitsOf(R \ {w}, ArrivalIn(known), time))
                    + (time - known[w].arrival_time)
        BY <1>1, <1>10, <4>1, <4>2, UnitsWithout DEF OwedResponse
      <4>4. OwedResponse(job', time) =
                Cardinality(UnitsOf(R \ {w}, ArrivalIn(known), time))
        BY <1>6, <4>1 DEF OwedResponse
      <4>5. OwedResponse(job', time) \in Nat
        <5>1. IsFiniteSet(R \ {w})
          BY <1>10, FS_Subset
        <5>2. Cardinality(UnitsOf(R \ {w}, ArrivalIn(known), time)) \in Nat
          BY <1>1, <5>1, UnitsFinite
        <5> QED
          BY <4>4, <5>2
      <4>6. response_time' = response_time + (time - known[w].arrival_time)
        BY <2>1, <3>1
      <4> QED
        BY <1>1, <4>2, <4>3, <4>4, <4>5, <4>6
    <3>2. CASE known[w].responded # -1
      <4>1. UnansweredIn(job') = R
        BY <1>4, <1>5, <3>2 DEF UnansweredIn
      <4>2. response_time' = response_time
        BY <1>1, <2>1, <3>2
      <4> QED
        BY <1>6, <4>1, <4>2 DEF OwedResponse
    <3> QED
      BY <3>1, <3>2
  <2> QED
    BY <1>7, <1>11, <2>5, <2>6
<1> QED
  BY <1>13, <1>14

-----------------------------------------------------------------------------
(* Every step balances the books.                                          *)

LEMMA SoundRecords ==
    ASSUME SimInv, PausedInTime
    PROVE  Sound(job)
<1>1. IsFiniteSet(DOMAIN job)
  BY ArrayFacts, AliveCount DEF SimInv
<1> QED
  BY <1>1, StateFacts DEF SimInv, Sound, PausedInTime

(* What a call for the job of entry k of the array finds.                  *)
LEMMA JobOnCore ==
    ASSUME SimInv, NEW k \in 1..active_jobs, jobs[k].core_id # -1
    PROVE  /\ jobs[k].job_id \in DOMAIN job
           /\ job[jobs[k].job_id] \in JobRecord
           /\ jobs[k].core_id = job[jobs[k].job_id].core_id
           /\ k \in Alive /\ Running(jobs[k].job_id) /\ jobs[k].core_id \in Cores
<1>1. jobs[k].arrived = 1 /\ Running(jobs[k].job_id) /\ jobs[k].core_id \in Cores
  BY OnACore
<1> QED
  BY <1>1, EntryFacts DEF Alive

LEMMA FinishBooks ==
    ASSUME StatInv, ReportFinished
    PROVE  Books' /\ PausedInTime'
<1>0. /\ SimInv /\ Books /\ PausedInTime /\ AnswersFit /\ IInv
      /\ UNCHANGED spent
  BY DEF StatInv, SimInv, ReportFinished
<1>1. PICK k \in Used, w \in Returned :
        scheduler_job_finished(jobs[k].core_id, jobs[k].job_id, w)
  BY DEF ReportFinished
<1> DEFINE j == jobs[k].job_id
           c == jobs[k].core_id
           known == RecordsWithout(j)
<1>2. k \in 1..active_jobs /\ c # -1
  <2>1. k \in i..active_jobs /\ jobs[k].run_time = 0
    BY <1>1 DEF Used
  <2>2. k \in 1..active_jobs
    BY <1>0, <2>1, ArrayFacts
  <2> QED
    BY <1>0, <2>1, <2>2 DEF SimInv, OverIsReported
<1>3. /\ j \in DOMAIN job /\ job[j] \in JobRecord /\ job[j].core_id = c
      /\ k \in Alive
  BY <1>0, <1>2, JobOnCore
<1>4. /\ DOMAIN known = DOMAIN job \ {j}
      /\ \A x \in DOMAIN job \ {j} : known[x] = job[x]
      /\ Handed(c, known, 0, w)
      /\ turnaround_time' = turnaround_time + (time - job[j].arrival_time)
      /\ UNCHANGED <<CURRENT_SCHEME, num_cores, time>>
  BY <1>0, <1>1, <1>3, FinishEffect
<1>5. Sound(job)
  BY <1>0, SoundRecords
<1>6. time \in Nat /\ turnaround_time \in Nat /\ waiting_time \in Nat /\ response_time \in Nat
  BY <1>0, StateFacts
<1> HIDE DEF known
<1>7. WaitingIn(known) = WaitingIn(job)
  BY <1>2, <1>3, <1>4 DEF WaitingIn
<1>8. Sound(known)
  <2>1. IsFiniteSet(DOMAIN known)
    BY <1>4, <1>5, FS_Subset DEF Sound
  <2>2. known \in [DOMAIN known -> JobRecord]
    <3>1. known = [x \in DOMAIN known |-> known[x]]
      BY DEF known, RecordsWithout
    <3>2. \A x \in DOMAIN known : known[x] \in JobRecord
      BY <1>4, <1>5 DEF Sound
    <3> QED
      BY <3>1, <3>2
  <2>3. \A x \in WaitingIn(known) : known[x].pause_time >= 0
    BY <1>4, <1>5, <1>7 DEF Sound, WaitingIn
  <2> QED
    BY <1>4, <1>5, <2>1, <2>2, <2>3 DEF Sound
<1>9. /\ OwedTurnaround(job', time) = OwedTurnaround(known, time)
      /\ waiting_time' + OwedWaiting(job', time) =
            waiting_time + OwedWaiting(known, time)
      /\ response_time' + OwedResponse(job', time) =
            response_time + OwedResponse(known, time)
      /\ \A x \in WaitingIn(job') : job'[x].pause_time >= 0
  BY <1>0, <1>2, <1>4, <1>8, HandedOwed
<1>10. /\ OwedTurnaround(job, time) =
            OwedTurnaround(known, time) + (time - job[j].arrival_time)
       /\ OwedTurnaround(known, time) \in Nat /\ job[j].arrival_time \in Int
  <2> DEFINE Ids == DOMAIN job
             f == ArrivalIn(job)
             g == ArrivalIn(known)
  <2>1. f[j] = job[j].arrival_time /\ job[j].arrival_time \in 0..time
    BY <1>3 DEF ArrivalIn, JobRecord
  <2>2. \A x \in Ids \ {j} : g[x] = f[x]
    BY <1>4 DEF ArrivalIn
  <2>3. IsFiniteSet(Ids) /\ IsFiniteSet(Ids \ {j})
    BY <1>5, FS_Subset DEF Sound
  <2> HIDE DEF f, g
  <2>4. Cardinality(UnitsOf(Ids, f, time)) =
            Cardinality(UnitsOf(Ids \ {j}, f, time)) + (time - f[j])
    BY <1>3, <1>6, <2>1, <2>3, UnitsWithout
  <2>5. UnitsOf(Ids \ {j}, g, time) = UnitsOf(Ids \ {j}, f, time)
    <3> DEFINE V == Ids \ {j}
    <3>1. V \in SUBSET V /\ \A x \in V : g[x] = f[x]
      BY <2>2
    <3> QED
      BY <1>6, <3>1, UnitsExtend
  <2>6. Cardinality(UnitsOf(Ids \ {j}, g, time)) \in Nat
    BY <1>6, <2>3, UnitsFinite
  <2> QED
    BY <1>4, <1>6, <2>1, <2>4, <2>5, <2>6 DEF OwedTurnaround, f, g
<1>11. OwedWaiting(known, time) = OwedWaiting(job, time)
  <2> DEFINE W == WaitingIn(job)
  <2>1. W \in SUBSET W /\ \A x \in W : PauseIn(known)[x] = PauseIn(job)[x]
    BY <1>2, <1>3, <1>4 DEF WaitingIn, PauseIn
  <2>2. UnitsOf(W, PauseIn(known), time) = UnitsOf(W, PauseIn(job), time)
    BY <1>6, <2>1, UnitsExtend
  <2> QED
    BY <1>7, <2>2 DEF OwedWaiting
<1>12. ASSUME ~Preemptive PROVE OwedResponse(known, time) = OwedResponse(job, time)
  <2> DEFINE R == UnansweredIn(job)
  <2>1. job[j].responded # -1
    BY <1>0, <1>2, <1>3, <1>12 DEF AnswersFit, RanOnceAnswered
  <2>2. UnansweredIn(known) = R
    BY <1>3, <1>4, <2>1 DEF UnansweredIn
  <2>3. R \in SUBSET R /\ \A x \in R : ArrivalIn(known)[x] = ArrivalIn(job)[x]
    BY <1>4, <2>1 DEF UnansweredIn, ArrivalIn
  <2>4. UnitsOf(R, ArrivalIn(known), time) = UnitsOf(R, ArrivalIn(job), time)
    BY <1>6, <2>3, UnitsExtend
  <2> QED
    BY <2>2, <2>4 DEF OwedResponse
<1>13. Books'
  <2>1. /\ turnaround_time + OwedTurnaround(job, time) = spent.turnaround
        /\ waiting_time + OwedWaiting(job, time) = spent.waiting
        /\ ~Preemptive => response_time + OwedResponse(job, time) = spent.response
    BY <1>0 DEF Books
  <2>2. turnaround_time' + OwedTurnaround(job', time) = spent.turnaround
    BY <1>4, <1>6, <1>9, <1>10, <2>1
  <2>3. waiting_time' + OwedWaiting(job', time) = spent.waiting
    BY <1>9, <1>11, <2>1
  <2>4. ~Preemptive => response_time' + OwedResponse(job', time) = spent.response
    BY <1>9, <1>12, <2>1
  <2>5. Preemptive' <=> Preemptive
    BY <1>4 DEF Preemptive
  <2>6. time' = time /\ spent' = spent
    BY <1>0, <1>4
  <2> QED
    BY <2>2, <2>3, <2>4, <2>5, <2>6 DEF Books
<1> QED
  BY <1>9, <1>13 DEF PausedInTime

LEMMA ExpireBooks ==
    ASSUME StatInv, ReportExpired
    PROVE  Books' /\ PausedInTime'
<1>0. /\ SimInv /\ Books /\ PausedInTime /\ IInv
      /\ UNCHANGED spent
  BY DEF StatInv, SimInv, ReportExpired
<1>1. PICK c \in Expired, w \in Returned : scheduler_quantum_expired(c, w)
  BY DEF ReportExpired
<1>2. c \in Cores /\ c # -1 /\ On(c) # {}
  <2>1. c \in (i - 1)..(num_cores - 1) /\ On(c) # {}
    BY <1>1 DEF Expired
  <2>2. i \in Nat /\ i >= 1 /\ num_cores \in Nat
    BY <1>0, ArrayFacts, StateFacts
  <2> QED
    BY <2>1, <2>2 DEF Cores
<1>3. PICK m \in 1..active_jobs : jobs[m].core_id = c
  BY <1>2 DEF On
<1> DEFINE j == jobs[m].job_id
           known == RecordsExpired(j)
           Ids == DOMAIN job
<1>4. j \in Ids /\ job[j] \in JobRecord /\ job[j].core_id = c /\ Running(j)
  BY <1>0, <1>2, <1>3, JobOnCore
<1>5. /\ DOMAIN known = Ids
      /\ \A x \in Ids : x # j => known[x] = job[x]
      /\ Handed(c, known, -1, w)
      /\ UNCHANGED <<CURRENT_SCHEME, num_cores, turnaround_time, time>>
  BY <1>0, <1>1, <1>2, <1>4, ExpireEffect, ZenonT(40)
<1>6. /\ known[j].core_id = -1 /\ known[j].pause_time = time
      /\ known[j].arrival_time = job[j].arrival_time
      /\ known[j].responded = job[j].responded
  BY <1>0, <1>4, ExpiredFields
<1>7. known \in [DOMAIN known -> JobRecord]
  BY <1>0, <1>4, <1>5, ExpiredRecord DEF IInv
<1>8. Sound(job)
  BY <1>0, SoundRecords
<1>9. time \in Nat /\ turnaround_time \in Nat /\ waiting_time \in Nat /\ response_time \in Nat
  BY <1>0, StateFacts
<1> HIDE DEF known
<1>10. WaitingIn(known) = WaitingIn(job) \cup {j} /\ j \notin WaitingIn(job)
  BY <1>2, <1>4, <1>5, <1>6 DEF WaitingIn
<1>11. Sound(known)
  <2>1. ASSUME NEW x \in WaitingIn(known) PROVE known[x].pause_time >= 0
    <3>1. CASE x = j
      BY <1>6, <1>9, <3>1
    <3>2. CASE x # j
      BY <1>5, <1>8, <1>10, <3>2 DEF Sound, WaitingIn
    <3> QED
      BY <3>1, <3>2
  <2> QED
    BY <1>5, <1>7, <1>8, <2>1 DEF Sound
<1>12. /\ OwedTurnaround(job', time) = OwedTurnaround(known, time)
       /\ waiting_time' + OwedWaiting(job', time) =
            waiting_time + OwedWaiting(known, time)
       /\ response_time' + OwedResponse(job', time) =
            response_time + OwedResponse(known, time)
       /\ \A x \in WaitingIn(job') : job'[x].pause_time >= 0
  BY <1>0, <1>2, <1>5, <1>11, HandedOwed
<1>13. ArrivalIn(known) = ArrivalIn(job) /\ UnansweredIn(known) = UnansweredIn(job)
  <2>1. \A x \in Ids : known[x].arrival_time = job[x].arrival_time
                        /\ known[x].responded = job[x].responded
    BY <1>5, <1>6
  <2> QED
    BY <1>5, <2>1 DEF ArrivalIn, UnansweredIn
<1>14. /\ OwedTurnaround(known, time) = OwedTurnaround(job, time)
       /\ OwedResponse(known, time) = OwedResponse(job, time)
  BY <1>5, <1>13 DEF OwedTurnaround, OwedResponse
<1>15. OwedWaiting(known, time) = OwedWaiting(job, time)
  <2> DEFINE T == WaitingIn(known)
             W == WaitingIn(job)
  <2>1. /\ W \in SUBSET T
        /\ \A x \in W : PauseIn(known)[x] = PauseIn(job)[x]
        /\ \A x \in T \ W : PauseIn(known)[x] = time
    <3>1. W \in SUBSET T
      BY <1>10
    <3>2. \A x \in W : x \in Ids /\ x # j /\ x \in DOMAIN known
      BY <1>5, <1>10 DEF WaitingIn
    <3>3. \A x \in W : PauseIn(known)[x] = PauseIn(job)[x]
      BY <1>5, <3>2 DEF PauseIn
    <3>4. \A x \in T \ W : x = j
      BY <1>10
    <3>5. PauseIn(known)[j] = time
      BY <1>4, <1>5, <1>6 DEF PauseIn
    <3> QED
      BY <3>1, <3>3, <3>4, <3>5
  <2>2. UnitsOf(T, PauseIn(known), time) = UnitsOf(W, PauseIn(job), time)
    BY <1>9, <2>1, UnitsExtend
  <2> QED
    BY <2>2 DEF OwedWaiting
<1>16. Books'
  <2>1. Preemptive' <=> Preemptive
    BY <1>5 DEF Preemptive
  <2>2. time' = time /\ spent' = spent /\ turnaround_time' = turnaround_time
    BY <1>0, <1>5
  <2> QED
    BY <1>0, <1>12, <1>14, <1>15, <2>1, <2>2 DEF Books
<1> QED
  BY <1>12, <1>16 DEF PausedInTime

LEMMA ArriveBooks ==
    ASSUME StatInv, ReportArrival
    PROVE  Books' /\ PausedInTime'
<1>0. /\ SimInv /\ Books /\ PausedInTime /\ IInv /\ phase = "arrive"
      /\ UNCHANGED spent
  BY DEF StatInv, SimInv, ReportArrival
<1>1. PICK k \in Arriving, core \in Returned :
        scheduler_new_job(jobs[k].job_id, jobs[k].run_time, jobs[k].priority, core)
  BY DEF ReportArrival
<1>2. k \in 1..active_jobs /\ jobs[k].arrived = 0
  <2>1. /\ active_jobs \in Nat /\ i \in Nat /\ i >= 1 /\ time \in Nat
        /\ \A l \in 1..active_jobs : jobs[l].arrived \in {0, 1}
    BY <1>0, ArrayFacts, StateFacts
  <2>2. k \in i..active_jobs /\ jobs[k].arrival_time = time
    BY <1>1 DEF Arriving
  <2>3. k \in 1..active_jobs /\ k \in Nat /\ k >= i
    BY <2>1, <2>2
  <2>4. ~Due(k)
    BY <1>0, <2>1, <2>2, <2>3 DEF Due
  <2> QED
    BY <1>0, <2>1, <2>3, <2>4 DEF SimInv, ArrivedWhenDue
<1> DEFINE j == jobs[k].job_id
           r == jobs[k].run_time
           p == jobs[k].priority
           Ids == DOMAIN job
<1>3. j \in Jobs \ Ids /\ r \in RunTimes /\ p \in Priorities
  <2>1. j \notin Ids
    BY <1>0, <1>2 DEF SimInv, AllInStep, EntriesDiffer
  <2>2. j \in Jobs /\ p \in Priorities
    BY <1>0, <1>2, ArrayFacts
  <2> QED
    BY <1>0, <1>2, <2>1, <2>2 DEF SimInv, NotStarted
<1>4. /\ DOMAIN job' = Ids \cup {j}
      /\ \A x \in Ids : Passed(job[x], job'[x], core)
      /\ job'[j].core_id = core /\ job'[j].arrival_time = time
      /\ core = -1 => job'[j].responded = -1 /\ job'[j].pause_time = time
      /\ core # -1 => job'[j].responded = 1
      /\ UNCHANGED <<CURRENT_SCHEME, num_cores, waiting_time, turnaround_time,
                     response_time, time>>
  <2>1. scheduler_new_job(j, r, p, core)
    BY <1>1
  <2> HIDE DEF j, r, p
  <2>2. /\ DOMAIN job' = Ids \cup {j}
        /\ \A x \in Ids : Passed(job[x], job'[x], core)
        /\ Entered(job'[j], r, p, core)
        /\ UNCHANGED <<CURRENT_SCHEME, num_cores, waiting_time, turnaround_time,
                       response_time, time>>
    BY <1>0, <1>3, <2>1, NewJobEffect
  <2> QED
    BY <2>2 DEF Entered
<1> HIDE DEF j
<1>5. time \in Nat
  BY <1>0, StateFacts
<1>6. ASSUME NEW x \in Ids
      PROVE  /\ x # j /\ x \in DOMAIN job'
             /\ job'[x].arrival_time = job[x].arrival_time
             /\ job'[x].responded = job[x].responded
             /\ job[x].core_id = -1 => /\ job'[x].core_id = -1
                                       /\ job'[x].pause_time = job[x].pause_time
             /\ job[x].core_id # -1 /\ job'[x].core_id = -1 =>
                    job'[x].pause_time = time
  <2>1. Passed(job[x], job'[x], core)
    BY <1>4
  <2> QED
    BY <1>3, <1>4, <2>1 DEF Passed
<1>7. OwedTurnaround(job', time) = OwedTurnaround(job, time)
  <2> DEFINE T == DOMAIN job'
  <2>1. /\ Ids \in SUBSET T
        /\ \A x \in Ids : ArrivalIn(job')[x] = ArrivalIn(job)[x]
        /\ \A x \in T \ Ids : ArrivalIn(job')[x] = time
    BY <1>4, <1>6 DEF ArrivalIn
  <2>2. UnitsOf(T, ArrivalIn(job'), time) = UnitsOf(Ids, ArrivalIn(job), time)
    BY <1>5, <2>1, UnitsExtend
  <2> QED
    BY <2>2 DEF OwedTurnaround
<1>8. /\ OwedWaiting(job', time) = OwedWaiting(job, time)
      /\ \A x \in WaitingIn(job') : job'[x].pause_time >= 0
  <2> DEFINE T == WaitingIn(job')
             W == WaitingIn(job)
  <2>1. W \in SUBSET T
    BY <1>6 DEF WaitingIn
  <2>2. \A x \in W : PauseIn(job')[x] = PauseIn(job)[x]
    BY <1>6 DEF WaitingIn, PauseIn
  <2>3. ASSUME NEW x \in T \ W PROVE job'[x].pause_time = time /\ x \in DOMAIN job'
    <3>1. x \in Ids \cup {j} /\ job'[x].core_id = -1 /\ (x \in Ids => job[x].core_id # -1)
      BY <1>4 DEF WaitingIn
    <3>2. CASE x = j
      BY <1>4, <3>1, <3>2
    <3>3. CASE x # j
      BY <1>4, <1>6, <3>1, <3>3
    <3> QED
      BY <3>2, <3>3
  <2>4. \A x \in T \ W : PauseIn(job')[x] = time
    BY <2>3 DEF PauseIn
  <2>5. UnitsOf(T, PauseIn(job'), time) = UnitsOf(W, PauseIn(job), time)
    BY <1>5, <2>1, <2>2, <2>4, UnitsExtend
  <2>6. ASSUME NEW x \in T PROVE job'[x].pause_time >= 0
    <3>1. CASE x \in W
      <4>1. x \in Ids /\ job[x].pause_time >= 0 /\ job[x].core_id = -1
        BY <1>0, <3>1 DEF PausedInTime, WaitingIn
      <4> QED
        BY <1>6, <4>1
    <3>2. CASE x \notin W
      <4>1. job'[x].pause_time = time
        BY <2>3, <3>2
      <4> QED
        BY <1>5, <4>1
    <3> QED
      BY <3>1, <3>2
  <2> QED
    BY <2>5, <2>6 DEF OwedWaiting
<1>9. OwedResponse(job', time) = OwedResponse(job, time)
  <2> DEFINE T == UnansweredIn(job')
             R == UnansweredIn(job)
  <2>1. /\ R \in SUBSET T
        /\ \A x \in R : ArrivalIn(job')[x] = ArrivalIn(job)[x]
    BY <1>6 DEF UnansweredIn, ArrivalIn
  <2>2. \A x \in T \ R : x = j
    BY <1>4, <1>6 DEF UnansweredIn
  <2>3. ArrivalIn(job')[j] = time
    BY <1>4 DEF ArrivalIn
  <2>4. \A x \in T \ R : ArrivalIn(job')[x] = time
    BY <2>2, <2>3
  <2>5. UnitsOf(T, ArrivalIn(job'), time) = UnitsOf(R, ArrivalIn(job), time)
    BY <1>5, <2>1, <2>4, UnitsExtend
  <2> QED
    BY <2>5 DEF OwedResponse
<1>10. Books'
  <2>1. Preemptive' <=> Preemptive
    BY <1>4 DEF Preemptive
  <2> QED
    BY <1>0, <1>4, <1>7, <1>8, <1>9, <2>1 DEF Books
<1> QED
  BY <1>4, <1>8, <1>10 DEF PausedInTime

(* The jobs of the library, counted in the array of the program.           *)
LEMMA CountEntries ==
    ASSUME SimInv
    PROVE  /\ Cardinality(DOMAIN job) = Cardinality(Alive)
           /\ Cardinality(WaitingIn(job)) = Cardinality(Alive \ Working)
           /\ AnswersFit /\ ~Preemptive =>
                Cardinality(UnansweredIn(job)) = Cardinality(NeverRan \ Working)
<1> DEFINE n == active_jobs
           f == [k \in 1..n |-> jobs[k].job_id]
<1>1. n \in Nat /\ Alive \subseteq 1..n
  BY ArrayFacts DEF Alive
<1>2. ASSUME NEW S \in SUBSET (1..n)
      PROVE  Cardinality(NumbersIn(f, S)) = Cardinality(S)
  <2>1. TellsApart(f, S)
    BY DEF TellsApart, SimInv, EntriesDiffer
  <2> HIDE DEF n, f
  <2> QED
    BY <1>1, <1>2, <2>1, CountByNumber
<1>3. ASSUME NEW k \in Alive
      PROVE  /\ k \in 1..n /\ f[k] \in DOMAIN job /\ job[f[k]] \in JobRecord
             /\ f[k] = jobs[k].job_id
             /\ (k \in Working) <=> (job[f[k]].core_id # -1)
             /\ (k \in NeverRan) <=> (jobs[k].run_time = job[f[k]].run_time)
  <2>1. k \in 1..n /\ jobs[k].arrived = 1
    BY DEF Alive
  <2> QED
    BY <2>1, EntryFacts DEF Working, NeverRan, Alive
<1>4. ASSUME NEW j \in DOMAIN job PROVE \E k \in Alive : f[k] = j
  BY DEF SimInv, AllInStep, Alive
<1> HIDE DEF n, f
<1>5. Cardinality(DOMAIN job) = Cardinality(Alive)
  BY ArrayFacts, AliveCount DEF SimInv
<1>6. Cardinality(WaitingIn(job)) = Cardinality(Alive \ Working)
  <2> DEFINE S == Alive \ Working
  <2>1. S \in SUBSET (1..n)
    BY <1>1
  <2>2. NumbersIn(f, S) = WaitingIn(job)
    BY <1>3, <1>4 DEF NumbersIn, WaitingIn
  <2> QED
    BY <1>2, <2>1, <2>2
<1>7. ASSUME AnswersFit, ~Preemptive
      PROVE  Cardinality(UnansweredIn(job)) = Cardinality(NeverRan \ Working)
  <2> DEFINE S == NeverRan \ Working
  <2>1. S \in SUBSET Alive /\ S \in SUBSET (1..n)
    BY <1>1 DEF NeverRan
  <2>2. ASSUME NEW k \in Alive
        PROVE  k \in S <=> job[f[k]].responded = -1
    <3>1. RanOnceAnswered(jobs[k])
      BY <1>7 DEF AnswersFit
    <3>2. job[f[k]].responded \in {-1, 1}
      BY <1>3 DEF JobRecord
    <3> QED
      BY <1>3, <3>1, <3>2 DEF RanOnceAnswered
  <2> HIDE DEF S
  <2>3. NumbersIn(f, S) = UnansweredIn(job)
    BY <1>3, <1>4, <2>1, <2>2 DEF NumbersIn, UnansweredIn
  <2> QED
    BY <1>2, <2>1, <2>3 DEF S
<1> QED
  BY <1>5, <1>6, <1>7

LEMMA RunUnitBooks ==
    ASSUME StatInv, RunUnit
    PROVE  Books' /\ PausedInTime'
<1>0. SimInv /\ Books /\ PausedInTime /\ AnswersFit
  BY DEF StatInv
<1>1. /\ time' = time + 1
      /\ UNCHANGED <<CURRENT_SCHEME, num_cores, active, QUEUE, job, num_jobs,
                     waiting_time, turnaround_time, response_time>>
  BY <1>0, RunUnitEffect
<1>2. /\ spent'.turnaround = spent.turnaround + Cardinality(Alive)
      /\ spent'.waiting = spent.waiting + Cardinality(Alive \ Working)
      /\ spent'.response = spent.response + Cardinality(NeverRan \ Working)
  BY DEF RunUnit
<1>3. Sound(job) /\ time \in Nat
      /\ turnaround_time \in Nat /\ waiting_time \in Nat /\ response_time \in Nat
  BY <1>0, SoundRecords, StateFacts DEF SimInv
<1>4. \A x \in DOMAIN job :
        /\ ArrivalIn(job)[x] \in Int /\ ArrivalIn(job)[x] <= time
        /\ PauseIn(job)[x] \in Int /\ PauseIn(job)[x] <= time
  <2>1. ASSUME NEW x \in DOMAIN job
        PROVE  /\ job[x].arrival_time \in 0..time /\ job[x].pause_time \in -1..time
    <3>1. job[x] \in JobRecord
      BY <1>3 DEF Sound
    <3> QED
      BY <3>1 DEF JobRecord
  <2> QED
    BY <1>3, <2>1 DEF ArrivalIn, PauseIn
<1>5. ASSUME NEW S \in SUBSET DOMAIN job, NEW f,
             \A x \in DOMAIN job : f[x] \in Int /\ f[x] <= time
      PROVE  /\ Cardinality(UnitsOf(S, f, time + 1)) =
                    Cardinality(UnitsOf(S, f, time)) + Cardinality(S)
             /\ Cardinality(UnitsOf(S, f, time)) \in Nat
             /\ Cardinality(S) \in Nat
  <2>1. IsFiniteSet(S)
    BY <1>3, FS_Subset DEF Sound
  <2> QED
    BY <1>3, <1>5, <2>1, UnitsPass, UnitsFinite, FS_CardinalityType
<1>6. /\ OwedTurnaround(job, time + 1) = OwedTurnaround(job, time) + Cardinality(Alive)
      /\ OwedTurnaround(job, time) \in Nat /\ Cardinality(Alive) \in Nat
  BY <1>0, <1>4, <1>5, CountEntries DEF OwedTurnaround
<1>7. /\ OwedWaiting(job, time + 1) =
            OwedWaiting(job, time) + Cardinality(Alive \ Working)
      /\ OwedWaiting(job, time) \in Nat /\ Cardinality(Alive \ Working) \in Nat
  <2>1. WaitingIn(job) \in SUBSET DOMAIN job
    BY DEF WaitingIn
  <2> QED
    BY <1>0, <1>4, <1>5, <2>1, CountEntries DEF OwedWaiting
<1>8. ASSUME ~Preemptive
      PROVE  /\ OwedResponse(job, time + 1) =
                    OwedResponse(job, time) + Cardinality(NeverRan \ Working)
             /\ OwedResponse(job, time) \in Nat
             /\ Cardinality(NeverRan \ Working) \in Nat
  <2>1. UnansweredIn(job) \in SUBSET DOMAIN job
    BY DEF UnansweredIn
  <2> QED
    BY <1>0, <1>4, <1>5, <1>8, <2>1, CountEntries DEF OwedResponse
<1>9. Books'
  <2>1. turnaround_time + OwedTurnaround(job, time + 1) = spent'.turnaround
    BY <1>0, <1>2, <1>3, <1>6 DEF Books
  <2>2. waiting_time + OwedWaiting(job, time + 1) = spent'.waiting
    BY <1>0, <1>2, <1>3, <1>7 DEF Books
  <2>3. ~Preemptive => response_time + OwedResponse(job, time + 1) = spent'.response
    BY <1>0, <1>2, <1>3, <1>8 DEF Books
  <2>4. Preemptive' <=> Preemptive
    BY <1>1 DEF Preemptive
  <2> QED
    BY <1>1, <2>1, <2>2, <2>3, <2>4 DEF Books
<1>10. PausedInTime'
  <2>1. job' = job
    BY <1>1
  <2> QED
    BY <1>0, <2>1 DEF PausedInTime
<1> QED
  BY <1>9, <1>10

-----------------------------------------------------------------------------
(* Without preemption, a job that was answered has run.                    *)

(* The clock of the other cores goes on.                                   *)
LEMMA RestartedAt ==
    ASSUME SimInv, NEW c \in Cores
    PROVE  /\ CURRENT_SCHEME = "RR" => RestartedClock(c)[c] = quantum
           /\ \A d \in Cores : d # c => RestartedClock(c)[d] = quantum_clock[d]
BY ClockFacts DEF RestartedClock

(* What AnswersFit says of one entry and its record.                       *)
LEMMA AnswerOf ==
    ASSUME AnswersFit, ~Preemptive, NEW k \in 1..active_jobs, jobs[k].arrived = 1
    PROVE  /\ job[jobs[k].job_id].responded = -1 =>
                /\ job[jobs[k].job_id].core_id = -1
                /\ jobs[k].run_time = job[jobs[k].job_id].run_time
           /\ job[jobs[k].job_id].responded = 1 /\ job[jobs[k].job_id].core_id = -1 =>
                jobs[k].run_time # job[jobs[k].job_id].run_time
           /\ jobs[k].run_time <= job[jobs[k].job_id].run_time
           /\ CURRENT_SCHEME = "RR" /\ job[jobs[k].job_id].core_id # -1
                    /\ jobs[k].run_time = job[jobs[k].job_id].run_time
                => quantum_clock[job[jobs[k].job_id].core_id] = quantum
BY DEF AnswersFit, RanOnceAnswered, Alive

LEMMA FinishAnswers ==
    ASSUME StatInv, ReportFinished
    PROVE  AnswersFit'
<1>0. SimInv /\ AnswersFit /\ IInv /\ UNCHANGED quantum
  BY DEF StatInv, SimInv, ReportFinished
<1>1. PICK k \in Used, w \in Returned :
        /\ scheduler_job_finished(jobs[k].core_id, jobs[k].job_id, w)
        /\ quantum_clock' = RestartedClock(jobs[k].core_id)
        /\ jobs' = set_active_job(w, jobs[k].core_id, Deleted(k))
  BY DEF ReportFinished
<1> DEFINE j == jobs[k].job_id
           c == jobs[k].core_id
           n == active_jobs
           S(l) == Source(k, l)
<1>2. k \in 1..n /\ c # -1 /\ jobs[k].run_time = 0
  <2>1. k \in i..n /\ jobs[k].run_time = 0
    BY <1>1 DEF Used
  <2>2. k \in 1..n
    BY <1>0, <2>1, ArrayFacts
  <2> QED
    BY <1>0, <2>1, <2>2 DEF SimInv, OverIsReported
<1>3. /\ j \in DOMAIN job /\ job[j].core_id = c /\ c \in Cores
  BY <1>0, <1>2, JobOnCore
<1>4. /\ DOMAIN RecordsWithout(j) = DOMAIN job \ {j}
      /\ \A x \in DOMAIN job \ {j} : RecordsWithout(j)[x] = job[x]
      /\ Handed(c, RecordsWithout(j), 0, w)
      /\ UNCHANGED <<CURRENT_SCHEME, num_cores, time>>
  BY <1>0, <1>1, <1>3, FinishEffect
<1>5. /\ \A x \in DOMAIN job \ {j} :
            job'[x] = IF x = w THEN Woken(job[x], c, 0) ELSE job[x]
  BY <1>4 DEF Handed
<1>6. /\ Len(jobs') = n - 1
      /\ \A l \in 1..(n - 1) :
            jobs'[l] = IF jobs[S(l)].job_id = w
                       THEN [jobs[S(l)] EXCEPT !.core_id = c] ELSE jobs[S(l)]
  <2>1. scheduler_job_finished(jobs[k].core_id, jobs[k].job_id, w)
    BY <1>1
  <2>2. jobs' = set_active_job(w, jobs[k].core_id, Deleted(k))
    BY <1>1
  <2>3. SimInv
    BY <1>0
  <2>4. k \in 1..active_jobs
    BY <1>2
  <2>5. jobs[k].run_time = 0
    BY <1>2
  <2>6. Refilled(set_active_job(w, jobs[k].core_id, Deleted(k)), k, w)
    BY <2>1, <2>3, <2>4, <2>5, FinishedEntries
  <2> QED
    BY <2>2, <2>6 DEF Refilled
<1>7. \A l \in 1..(n - 1) : S(l) \in 1..n /\ S(l) # k
  BY <1>0, <1>2, ArrayFacts, DeletedEntries
<1>8. /\ CURRENT_SCHEME = "RR" => quantum_clock'[c] = quantum
      /\ \A d \in Cores : d # c => quantum_clock'[d] = quantum_clock[d]
  BY <1>0, <1>1, <1>3, RestartedAt
<1>9. active_jobs' = n - 1 /\ time \in Nat
  BY <1>0, <1>6, StateFacts DEF active_jobs
<1> SUFFICES ASSUME ~Preemptive, NEW l \in 1..(n - 1), jobs'[l].arrived = 1
             PROVE  RanOnceAnswered(jobs[l])'
  BY <1>4, <1>9 DEF AnswersFit, Preemptive, Alive
<1> DEFINE id == jobs[S(l)].job_id
<1>10. S(l) \in 1..n /\ jobs[S(l)] \in JobEntry /\ S(l) # k
  BY <1>0, <1>7, ArrayFacts
<1>11. SameJob(jobs'[l], jobs[S(l)])
  BY <1>6, <1>10 DEF SameJob, JobEntry
<1>12. jobs[S(l)].arrived = 1
  BY <1>11 DEF SameJob
<1>13. id \in DOMAIN job /\ job[id] \in JobRecord /\ id # j
  <2>1. id # j
    BY <1>0, <1>2, <1>10 DEF SimInv, EntriesDiffer
  <2> QED
    BY <1>0, <1>10, <1>12, <2>1, EntryFacts
<1>14. job'[id] = IF id = w THEN Woken(job[id], c, 0) ELSE job[id]
  BY <1>5, <1>13
<1>15. job[id].core_id # c /\ job[id].core_id \in Cores \cup {-1}
  <2>1. job[id].core_id # c
    BY <1>0, <1>2, <1>3, <1>13 DEF IInv, CoresMatch, Running
  <2> QED
    BY <1>13, <2>1 DEF JobRecord
<1>16. /\ jobs'[l].job_id = id
       /\ jobs'[l].run_time = jobs[S(l)].run_time
       /\ quantum' = quantum /\ CURRENT_SCHEME' = CURRENT_SCHEME
  BY <1>0, <1>4, <1>11 DEF SameJob
<1>17. /\ job[id].responded = -1 =>
            job[id].core_id = -1 /\ jobs[S(l)].run_time = job[id].run_time
       /\ job[id].responded = 1 /\ job[id].core_id = -1 =>
            jobs[S(l)].run_time # job[id].run_time
       /\ jobs[S(l)].run_time <= job[id].run_time
       /\ CURRENT_SCHEME = "RR" /\ job[id].core_id # -1
                /\ jobs[S(l)].run_time = job[id].run_time
            => quantum_clock[job[id].core_id] = quantum
  BY <1>0, <1>10, <1>12, AnswerOf
<1> HIDE DEF id, S, c
<1>18. CASE id = w
  <2>1. /\ job'[id].core_id = c /\ job'[id].responded = 1
        /\ job'[id].run_time = job[id].run_time
    BY <1>9, <1>13, <1>14, <1>18, WokenFields
  <2> QED
    BY <1>2, <1>8, <1>16, <1>17, <2>1 DEF RanOnceAnswered, c
<1>19. CASE id # w
  <2>1. job'[id] = job[id]
    BY <1>14, <1>19
  <2> QED
    BY <1>8, <1>15, <1>16, <1>17, <2>1 DEF RanOnceAnswered
<1> QED
  BY <1>18, <1>19

LEMMA ExpireAnswers ==
    ASSUME StatInv, ReportExpired
    PROVE  AnswersFit'
<1>0. /\ SimInv /\ AnswersFit /\ IInv /\ UNCHANGED quantum
      /\ CURRENT_SCHEME = "RR" /\ quantum \in Nat \ {0}
  BY DEF StatInv, SimInv, ReportExpired, QuantumOK
<1>1. PICK c \in Expired, w \in Returned :
        /\ scheduler_quantum_expired(c, w)
        /\ quantum_clock' = RestartedClock(c)
        /\ jobs' = set_active_job(w, c, [jobs EXCEPT ![Min(On(c))].core_id = -1])
  BY DEF ReportExpired
<1> DEFINE n == active_jobs
<1>2. c \in Cores /\ c # -1 /\ On(c) # {} /\ quantum_clock[c] = 0
  <2>1. c \in (i - 1)..(num_cores - 1) /\ On(c) # {} /\ quantum_clock[c] = 0
    BY <1>1 DEF Expired
  <2>2. i \in Nat /\ i >= 1 /\ num_cores \in Nat
    BY <1>0, ArrayFacts, StateFacts
  <2> QED
    BY <2>1, <2>2 DEF Cores
<1> DEFINE m == Min(On(c))
           j == jobs[m].job_id
           known == RecordsExpired(j)
<1>3. m \in 1..n /\ jobs[m].core_id = c
  <2>1. On(c) \in SUBSET Nat
    BY <1>0, ArrayFacts DEF On
  <2>2. m \in On(c)
    BY <1>2, <2>1, MinProperties
  <2> QED
    BY <2>2 DEF On
<1>4. j \in DOMAIN job /\ job[j].core_id = c /\ Running(j) /\ m \in Alive
  BY <1>0, <1>2, <1>3, JobOnCore
<1> HIDE DEF m
<1>5. /\ DOMAIN known = DOMAIN job
      /\ \A x \in DOMAIN job : x # j => known[x] = job[x]
      /\ Handed(c, known, -1, w)
      /\ UNCHANGED <<CURRENT_SCHEME, num_cores, turnaround_time, time>>
  <2>1. scheduler_quantum_expired(c, w)
    BY <1>1
  <2>2. IInv
    BY <1>0
  <2>3. c \in Cores
    BY <1>2
  <2>4. j \in DOMAIN job
    BY <1>4
  <2>5. job[j].core_id = c
    BY <1>4
  <2> HIDE DEF j
  <2> QED
    BY <2>1, <2>2, <2>3, <2>4, <2>5, ExpireEffect
<1>6. /\ known[j].core_id = -1 /\ known[j] \in JobRecord
      /\ known[j].run_time = job[j].run_time
      /\ known[j].responded = job[j].responded
  BY <1>0, <1>4, ExpiredFields
<1>7. \A x \in DOMAIN job :
            job'[x] = IF x = w THEN Woken(known[x], c, -1) ELSE known[x]
  BY <1>5 DEF Handed
<1>8. Rotated(jobs', m, w)
  <2>1. jobs' = set_active_job(w, jobs[m].core_id, Moved(m, -1))
    BY <1>1, <1>3 DEF Moved, m
  <2>2. jobs[m].core_id # -1 /\ scheduler_quantum_expired(jobs[m].core_id, w)
    BY <1>1, <1>2, <1>3
  <2> QED
    BY <1>0, <1>3, <2>1, <2>2, ExpiredEntries
<1>9. /\ quantum_clock'[c] = quantum
      /\ \A d \in Cores : d # c => quantum_clock'[d] = quantum_clock[d]
  BY <1>0, <1>1, <1>2, RestartedAt
<1>10. active_jobs' = n /\ time \in Nat
  BY <1>0, <1>8, StateFacts DEF active_jobs, Rotated
<1> SUFFICES ASSUME ~Preemptive, NEW l \in 1..n, jobs'[l].arrived = 1
             PROVE  RanOnceAnswered(jobs[l])'
  BY <1>5, <1>10 DEF AnswersFit, Preemptive, Alive
<1> DEFINE id == jobs[l].job_id
<1>11. SameJob(jobs'[l], jobs[l])
  BY <1>8 DEF Rotated
<1>12. jobs[l].arrived = 1
  BY <1>11 DEF SameJob
<1>13. id \in DOMAIN job /\ job[id] \in JobRecord
  BY <1>0, <1>12, EntryFacts
<1>14. job'[id] = IF id = w THEN Woken(known[id], c, -1) ELSE known[id]
  BY <1>7, <1>13
<1>15. /\ jobs'[l].job_id = id
       /\ jobs'[l].run_time = jobs[l].run_time
       /\ quantum' = quantum /\ CURRENT_SCHEME' = CURRENT_SCHEME
  BY <1>0, <1>5, <1>11 DEF SameJob
<1>16. /\ job[id].responded = -1 =>
            job[id].core_id = -1 /\ jobs[l].run_time = job[id].run_time
       /\ job[id].responded = 1 /\ job[id].core_id = -1 =>
            jobs[l].run_time # job[id].run_time
       /\ jobs[l].run_time <= job[id].run_time
       /\ CURRENT_SCHEME = "RR" /\ job[id].core_id # -1
                /\ jobs[l].run_time = job[id].run_time
            => quantum_clock[job[id].core_id] = quantum
  BY <1>0, <1>12, AnswerOf
<1>17. /\ known[id] \in JobRecord
       /\ known[id].run_time = job[id].run_time
       /\ known[id].responded = job[id].responded
       /\ known[id].core_id = IF id = j THEN -1 ELSE job[id].core_id
  BY <1>5, <1>6, <1>13
<1>18. id # j => job[id].core_id # c /\ job[id].core_id \in Cores \cup {-1}
  BY <1>0, <1>2, <1>4, <1>13 DEF IInv, CoresMatch, Running, JobRecord
<1>19. id = j => job[id].responded # -1 /\ jobs[l].run_time # job[id].run_time
  BY <1>0, <1>2, <1>4, <1>16
<1> HIDE DEF id, known, j
<1>20. CASE id = w
  <2>1. /\ job'[id].core_id = c /\ job'[id].responded = 1
        /\ job'[id].run_time = job[id].run_time
    BY <1>10, <1>14, <1>17, <1>20, WokenFields
  <2> QED
    BY <1>2, <1>9, <1>15, <1>16, <2>1 DEF RanOnceAnswered
<1>21. CASE id # w
  <2>1. job'[id] = known[id]
    BY <1>14, <1>21
  <2>2. CASE id = j
    BY <1>15, <1>16, <1>17, <1>19, <2>1, <2>2 DEF RanOnceAnswered
  <2>3. CASE id # j
    BY <1>9, <1>15, <1>16, <1>17, <1>18, <2>1, <2>3 DEF RanOnceAnswered
  <2> QED
    BY <2>2, <2>3
<1> QED
  BY <1>20, <1>21

LEMMA ArriveAnswers ==
    ASSUME StatInv, ReportArrival
    PROVE  AnswersFit'
<1>0. /\ SimInv /\ AnswersFit /\ IInv /\ phase = "arrive"
      /\ UNCHANGED quantum
  BY DEF StatInv, SimInv, ReportArrival
<1>1. PICK k \in Arriving, core \in Returned :
        /\ scheduler_new_job(jobs[k].job_id, jobs[k].run_time, jobs[k].priority, core)
        /\ jobs' = HandedOver(k, core)
        /\ quantum_clock' = IF core \in Cores THEN RestartedClock(core)
                            ELSE quantum_clock
  BY DEF ReportArrival
<1> DEFINE n == active_jobs
<1>2. k \in 1..n /\ jobs[k].arrived = 0
  <2>1. /\ n \in Nat /\ i \in Nat /\ i >= 1 /\ time \in Nat
        /\ \A l \in 1..n : jobs[l].arrived \in {0, 1}
    BY <1>0, ArrayFacts, StateFacts
  <2>2. k \in i..n /\ jobs[k].arrival_time = time
    BY <1>1 DEF Arriving
  <2>3. k \in 1..n /\ k \in Nat /\ k >= i
    BY <2>1, <2>2
  <2>4. ~Due(k)
    BY <1>0, <2>1, <2>2, <2>3 DEF Due
  <2> QED
    BY <1>0, <2>1, <2>3, <2>4 DEF SimInv, ArrivedWhenDue
<1> DEFINE j == jobs[k].job_id
           r == jobs[k].run_time
           p == jobs[k].priority
           Ids == DOMAIN job
<1>3. j \in Jobs \ Ids /\ r \in RunTimes /\ p \in Priorities
  <2>1. j \notin Ids
    BY <1>0, <1>2 DEF SimInv, AllInStep, EntriesDiffer
  <2>2. j \in Jobs /\ p \in Priorities
    BY <1>0, <1>2, ArrayFacts
  <2> QED
    BY <1>0, <1>2, <2>1, <2>2 DEF SimInv, NotStarted
<1>4. /\ core \in Cores \cup {-1}
      /\ \A x \in Ids : Passed(job[x], job'[x], core)
      /\ ~Preemptive => \A x \in Ids : job'[x].core_id = job[x].core_id
      /\ Entered(job'[j], r, p, core)
      /\ UNCHANGED <<CURRENT_SCHEME, time>>
  <2>1. scheduler_new_job(j, r, p, core)
    BY <1>1
  <2>2. IInv
    BY <1>0
  <2> HIDE DEF j, r, p
  <2>3. core \in Cores \cup {-1} /\ UNCHANGED <<CURRENT_SCHEME, time>>
    BY <1>3, <2>1, <2>2, NewJobEffect
  <2>4. \A x \in Ids : Passed(job[x], job'[x], core)
    BY <1>3, <2>1, <2>2, NewJobEffect
  <2>5. ~Preemptive => \A x \in Ids : job'[x].core_id = job[x].core_id
    BY <1>3, <2>1, <2>2, NewJobEffect
  <2>6. Entered(job'[j], r, p, core)
    BY <1>3, <2>1, <2>2, NewJobEffect
  <2> QED
    BY <2>3, <2>4, <2>5, <2>6
<1>5. /\ Len(jobs') = n
      /\ \A l \in 1..n :
            /\ jobs'[l].job_id = jobs[l].job_id
            /\ jobs'[l].run_time = jobs[l].run_time
            /\ jobs'[l].arrived = IF l = k THEN 1 ELSE jobs[l].arrived
  <2>1. jobs[k].core_id = -1
    BY <1>0, <1>2 DEF SimInv, AllInStep, InStep
  <2>2. jobs' = HandedOver(k, core)
    BY <1>1
  <2>3. SimInv /\ k \in 1..active_jobs /\ core \in Cores \cup {-1}
    BY <1>0, <1>2, <1>4
  <2> QED
    BY <2>1, <2>2, <2>3, HandedOverEntries
<1>6. \A d \in Cores :
        \/ quantum_clock'[d] = quantum_clock[d] /\ d # core
        \/ CURRENT_SCHEME = "RR" => quantum_clock'[d] = quantum
  <2>1. CASE core \in Cores
    <3>1. quantum_clock' = RestartedClock(core)
      BY <1>1, <2>1
    <3> QED
      BY <1>0, <2>1, <3>1, RestartedAt
  <2>2. CASE core \notin Cores
    <3>1. quantum_clock' = quantum_clock
      BY <1>1, <2>2
    <3> QED
      BY <2>2, <3>1
  <2> QED
    BY <2>1, <2>2
<1>7. active_jobs' = n /\ -1 \notin Cores
  BY <1>0, <1>5, StateFacts DEF active_jobs
<1> SUFFICES ASSUME ~Preemptive, NEW l \in 1..n, jobs'[l].arrived = 1
             PROVE  RanOnceAnswered(jobs[l])'
  BY <1>4, <1>7 DEF AnswersFit, Preemptive, Alive
<1> DEFINE id == jobs[l].job_id
<1>8. /\ jobs'[l].job_id = id
      /\ jobs'[l].run_time = jobs[l].run_time
      /\ quantum' = quantum /\ CURRENT_SCHEME' = CURRENT_SCHEME
  BY <1>0, <1>4, <1>5
<1>9. CASE l = k
  <2>1. job'[id].core_id = core /\ job'[id].run_time = jobs[l].run_time
    BY <1>4, <1>9 DEF Entered
  <2>2. core # -1 => job'[id].responded = 1 /\ core \in Cores
    BY <1>4, <1>9 DEF Entered
  <2>3. jobs[l].run_time <= jobs[l].run_time
    <3>1. jobs[l] \in JobEntry
      BY <1>0, ArrayFacts
    <3> QED
      BY <3>1 DEF JobEntry
  <2>4. core = -1 => job'[id].responded = -1
    BY <1>4, <1>9 DEF Entered
  <2>5. CURRENT_SCHEME = "RR" /\ core # -1 => quantum_clock'[core] = quantum
    BY <1>6, <2>2
  <2> HIDE DEF id
  <2> QED
    BY <1>8, <2>1, <2>2, <2>3, <2>4, <2>5 DEF RanOnceAnswered
<1>10. CASE l # k
  <2>1. jobs[l].arrived = 1
    BY <1>5, <1>10
  <2>2. id \in Ids /\ job[id] \in JobRecord
    BY <1>0, <2>1, EntryFacts
  <2>3. /\ job'[id].core_id = job[id].core_id
        /\ job'[id].run_time = job[id].run_time
        /\ job'[id].responded = job[id].responded
    BY <1>4, <2>2 DEF Passed
  <2>4. /\ job[id].responded = -1 =>
              job[id].core_id = -1 /\ jobs[l].run_time = job[id].run_time
        /\ job[id].responded = 1 /\ job[id].core_id = -1 =>
              jobs[l].run_time # job[id].run_time
        /\ jobs[l].run_time <= job[id].run_time
        /\ CURRENT_SCHEME = "RR" /\ job[id].core_id # -1
                  /\ jobs[l].run_time = job[id].run_time
              => quantum_clock[job[id].core_id] = quantum
    BY <1>0, <2>1, AnswerOf
  <2>5. job[id].core_id \in Cores \cup {-1}
    BY <2>2 DEF JobRecord
  <2> HIDE DEF id
  <2> QED
    BY <1>6, <1>8, <2>3, <2>4, <2>5 DEF RanOnceAnswered
<1> QED
  BY <1>9, <1>10

LEMMA RunUnitAnswers ==
    ASSUME StatInv, RunUnit
    PROVE  AnswersFit'
<1>0. SimInv /\ AnswersFit /\ IInv
  BY DEF StatInv, SimInv
<1> DEFINE n == active_jobs
<1>1. /\ UNCHANGED <<CURRENT_SCHEME, job, quantum>> /\ Len(jobs') = n
      /\ \A k \in 1..n :
            /\ jobs'[k].job_id = jobs[k].job_id
            /\ jobs'[k].arrived = jobs[k].arrived
            /\ jobs'[k].run_time = IF jobs[k].core_id # -1 THEN jobs[k].run_time - 1
                                   ELSE jobs[k].run_time
  BY <1>0, RunUnitEffect
<1>2. active_jobs' = n
  BY <1>1 DEF active_jobs
<1> SUFFICES ASSUME ~Preemptive, NEW l \in 1..n, jobs'[l].arrived = 1
             PROVE  RanOnceAnswered(jobs[l])'
  BY <1>1, <1>2 DEF AnswersFit, Preemptive, Alive
<1> DEFINE id == jobs[l].job_id
<1>3. jobs[l].arrived = 1 /\ jobs'[l].job_id = id
  BY <1>1
<1>4. id \in DOMAIN job /\ job[id] \in JobRecord /\ jobs[l].core_id = job[id].core_id
  BY <1>0, <1>3, EntryFacts
<1>5. jobs[l].run_time \in Nat /\ job[id].run_time \in Int
  <2>1. jobs[l] \in JobEntry
    BY <1>0, ArrayFacts
  <2> QED
    BY <1>0, <1>4, <2>1, StateFacts, RecordFields DEF JobEntry
<1>6. /\ job[id].responded = -1 =>
            job[id].core_id = -1 /\ jobs[l].run_time = job[id].run_time
      /\ job[id].responded = 1 /\ job[id].core_id = -1 =>
            jobs[l].run_time # job[id].run_time
      /\ jobs[l].run_time <= job[id].run_time
  BY <1>0, <1>3, AnswerOf
<1>7. jobs'[l].run_time = IF job[id].core_id # -1 THEN jobs[l].run_time - 1
                          ELSE jobs[l].run_time
  BY <1>1, <1>4
<1>8. job' = job
  BY <1>1
<1> HIDE DEF id
<1>9. CASE job[id].core_id # -1
  <2>1. jobs'[l].run_time < job[id].run_time
    BY <1>5, <1>6, <1>7, <1>9
  <2>2. jobs'[l].run_time <= job[id].run_time /\ jobs'[l].run_time # job[id].run_time
    BY <1>5, <1>7, <1>9, <2>1
  <2> QED
    BY <1>3, <1>6, <1>8, <1>9, <2>2 DEF RanOnceAnswered
<1>10. CASE job[id].core_id = -1
  BY <1>3, <1>6, <1>7, <1>8, <1>10 DEF RanOnceAnswered
<1> QED
  BY <1>9, <1>10

-----------------------------------------------------------------------------
(* The books at the beginning, at the end, and in the steps between the    *)
(* calls.                                                                  *)

(* No record, no debt.                                                     *)
LEMMA NothingOwed ==
    ASSUME NEW known, DOMAIN known = {}, NEW t
    PROVE  /\ OwedTurnaround(known, t) = 0
           /\ OwedWaiting(known, t) = 0
           /\ OwedResponse(known, t) = 0
<1>1. ASSUME NEW from PROVE Cardinality(UnitsOf({}, from, t)) = 0
  <2>1. UnitsOf({}, from, t) = {}
    BY DEF UnitsOf
  <2> QED
    BY <2>1, FS_EmptySet
<1>2. WaitingIn(known) = {} /\ UnansweredIn(known) = {}
  BY DEF WaitingIn, UnansweredIn
<1> QED
  BY <1>1, <1>2 DEF OwedTurnaround, OwedWaiting, OwedResponse

LEMMA StatInitInvariant == SimInit => StatInv
<1> SUFFICES ASSUME SimInit PROVE StatInv
  OBVIOUS
<1>1. SimInv
  BY SimInitInvariant
<1>2. /\ job = <<>>
      /\ turnaround_time = 0 /\ waiting_time = 0 /\ response_time = 0
      /\ spent = [turnaround |-> 0, waiting |-> 0, response |-> 0]
  BY DEF SimInit, Start, scheduler_start_up
<1>3. DOMAIN job = {}
  BY <1>2
<1>4. Books
  <2>1. /\ OwedTurnaround(job, time) = 0
        /\ OwedWaiting(job, time) = 0
        /\ OwedResponse(job, time) = 0
    BY <1>3, NothingOwed
  <2>2. /\ turnaround_time + 0 = spent.turnaround
        /\ waiting_time + 0 = spent.waiting
        /\ response_time + 0 = spent.response
    BY <1>2
  <2> QED
    BY <2>1, <2>2 DEF Books
<1>5. PausedInTime
  BY <1>3 DEF PausedInTime, WaitingIn
<1>6. AnswersFit
  <2>1. \A k \in 1..active_jobs : jobs[k].arrived # 1
    BY <1>1, <1>3, EntryFacts
  <2> QED
    BY <2>1 DEF AnswersFit, Alive
<1> QED
  BY <1>1, <1>4, <1>5, <1>6 DEF StatInv

(* The steps that change no record and no sum.                             *)
LEMMA QuietStatistics ==
    ASSUME StatInv,
           UNCHANGED <<jobs, quantum, quantum_clock, spent, CURRENT_SCHEME, job,
                       waiting_time, turnaround_time, response_time, time>>
    PROVE  Books' /\ PausedInTime' /\ AnswersFit'
<1>1. Books /\ PausedInTime /\ AnswersFit
  BY DEF StatInv
<1>2. (Preemptive' <=> Preemptive) /\ Alive' = Alive
  BY DEF Preemptive, Alive, active_jobs
<1>3. Books'
  BY <1>1, <1>2 DEF Books, OwedTurnaround, OwedWaiting, OwedResponse
<1>4. PausedInTime'
  BY <1>1 DEF PausedInTime
<1>5. AnswersFit'
  BY <1>1, <1>2 DEF AnswersFit, RanOnceAnswered
<1> QED
  BY <1>3, <1>4, <1>5

LEMMA StatNextInvariant == StatInv /\ [SimNext]_simVars => StatInv'
<1> SUFFICES ASSUME StatInv, [SimNext]_simVars PROVE StatInv'
  OBVIOUS
<1>1. SimInv'
  BY SimNextInvariant DEF StatInv
<1>2. CASE ReportFinished
  BY <1>1, <1>2, FinishBooks, FinishAnswers DEF StatInv
<1>3. CASE ReportExpired
  BY <1>1, <1>3, ExpireBooks, ExpireAnswers DEF StatInv
<1>4. CASE ReportArrival
  BY <1>1, <1>4, ArriveBooks, ArriveAnswers DEF StatInv
<1>5. CASE RunUnit
  BY <1>1, <1>5, RunUnitBooks, RunUnitAnswers DEF StatInv
<1>6. CASE \/ NoMoreFinished \/ NoMoreExpired \/ NoMoreArrivals \/ CleanUp
           \/ UNCHANGED simVars
  <2>1. UNCHANGED <<jobs, quantum, quantum_clock, spent, CURRENT_SCHEME, job,
                    waiting_time, turnaround_time, response_time, time>>
    BY <1>6 DEF NoMoreFinished, NoMoreExpired, NoMoreArrivals, CleanUp,
                scheduler_clean_up, simVars, schedVars
  <2> QED
    BY <1>1, <2>1, QuietStatistics DEF StatInv
<1> QED
  BY <1>2, <1>3, <1>4, <1>5, <1>6 DEF SimNext

(* At every moment each sum, with what the records of the unfinished jobs  *)
(* still owe it, is what the jobs went through so far: an update of        *)
(* libscheduler.c that was made twice, forgotten, or made with a time that *)
(* a later call changed would leave a difference.                          *)
THEOREM StatInvariant == SimSpec => []StatInv
<1> QED
  BY StatInitInvariant, StatNextInvariant, PTL DEF SimSpec

(* The sums that the averages are made of (libscheduler.c:393, 406 and     *)
(* 419) are the turnaround and the waiting time of the jobs, counted unit  *)
(* by unit, and without preemption their response time, for every input    *)
(* file and every scheme.                                                  *)
THEOREM ExactStatistics == SimSpec => []StatisticsExact
<1>1. StatInv => StatisticsExact
  <2> SUFFICES ASSUME StatInv, phase = "done"
               PROVE  /\ turnaround_time = spent.turnaround
                      /\ waiting_time = spent.waiting
                      /\ ~Preemptive => response_time = spent.response
    BY DEF StatisticsExact
  <2>1. /\ OwedTurnaround(job, time) = 0
        /\ OwedWaiting(job, time) = 0
        /\ OwedResponse(job, time) = 0
    BY NothingLeft, NothingOwed DEF StatInv
  <2>2. turnaround_time \in Nat /\ waiting_time \in Nat /\ response_time \in Nat
    BY StateFacts DEF StatInv, SimInv
  <2> QED
    BY <2>1, <2>2 DEF StatInv, Books
<1> QED
  BY <1>1, StatInvariant, PTL

-----------------------------------------------------------------------------
(* Round robin: nobody waits longer than the others need for their turns.  *)
(*                                                                         *)
(* An active core c hands its job on when its clock has run down, and from *)
(* then on every quantum (or sooner, when its job is finished): with left  *)
(* units to go it does so for the m-th time, counted from 0, at            *)
(* clock[c] + m * quantum at the latest.  A waiting job is not late as     *)
(* long as the cores have at least as many such turns before its time is   *)
(* up as there are waiting jobs that come first, itself included: each     *)
(* turn takes one of them off the queue, and no job gets ahead of another. *)

(* What the bound counts the jobs as: that many quantums per job.          *)
Rounds == (num_jobs + num_cores - 1) \div num_cores

(* The turns the cores have in the time left, n + 1 for a core at most.    *)
Turns(cores, clock, q, left, n) ==
    {t \in cores \X (0..n) : clock[t[1]] + t[2] * q <= left}

(* Job k is in the list q, before job j or is j.                           *)
NotBehind(q, k, j) == \E a, b \in 1..Len(q) : a <= b /\ q[a] = k /\ q[b] = j

AheadOf(q, known, j) == {k \in WaitingIn(known) : NotBehind(q, k, j)}

(* The time until job j would have waited too long.                        *)
LeftFor(j) == job[j].pause_time + quantum * (Rounds - 1) - time

(* The clock of an active core runs down to 0, which is noticed when its   *)
(* turn comes in the second phase.                                         *)
ClocksRun ==
    \A c \in Cores : active[c] = 1 =>
        /\ quantum_clock[c] \in 0..quantum
        /\ phase \in {"arrive", "run"} \/ (phase = "quantum" /\ c < i - 1) =>
                quantum_clock[c] # 0

(* num_jobs counts the jobs that have arrived, the finished ones included. *)
AllCounted == Cardinality(DOMAIN job) <= num_jobs

TurnComes ==
    \A j \in WaitingIn(job) :
        Cardinality(AheadOf(QUEUE, job, j))
            <= Cardinality(Turns(Cores, quantum_clock, quantum, LeftFor(j), Rounds))

TurnInv ==
    /\ SimInv
    /\ AllCounted
    /\ CURRENT_SCHEME = "RR" => ClocksRun /\ TurnComes

-----------------------------------------------------------------------------
(* The number of rounds.                                                   *)
LEMMA RoundsFacts ==
    ASSUME NEW n \in Nat, NEW c \in Nat \ {0}
    PROVE  /\ (n + c - 1) \div c \in Nat
           /\ n <= c * ((n + c - 1) \div c)
           /\ (n + c - 1) \div c <= (n + 1 + c - 1) \div c
<1> DEFINE r == (n + c - 1) \div c
           s == (n + 1 + c - 1) \div c
<1>1. r \in Nat
  OBVIOUS
<1>2. n <= c * r
  OBVIOUS
<1>3. r <= s
  OBVIOUS
<1> QED
  BY <1>1, <1>2, <1>3

LEMMA TurnsFinite ==
    ASSUME NEW C, IsFiniteSet(C), NEW clock, NEW q, NEW left, NEW n \in Nat
    PROVE  /\ IsFiniteSet(Turns(C, clock, q, left, n))
           /\ Cardinality(Turns(C, clock, q, left, n)) \in Nat
<1>1. IsFiniteSet(0..n)
  BY FS_Interval
<1>2. IsFiniteSet(C \X (0..n))
  BY <1>1, FS_Product
<1>3. Turns(C, clock, q, left, n) \in SUBSET (C \X (0..n))
  BY DEF Turns
<1>4. IsFiniteSet(Turns(C, clock, q, left, n))
  BY <1>2, <1>3, FS_Subset
<1> QED
  BY <1>4, FS_CardinalityType

(* With more time and as many rounds or more there are no fewer turns.     *)
LEMMA TurnsKept ==
    ASSUME NEW C, IsFiniteSet(C), NEW clock \in [C -> Int], NEW q \in Nat,
           NEW left \in Int, NEW more \in Int, left <= more,
           NEW n \in Nat, NEW m \in Nat, n <= m
    PROVE  Cardinality(Turns(C, clock, q, left, n)) <= Cardinality(Turns(C, clock, q, more, m))
<1> DEFINE T == Turns(C, clock, q, left, n)
           U == Turns(C, clock, q, more, m)
<1>1. IsFiniteSet(U)
  BY TurnsFinite
<1>2. ASSUME NEW t \in T PROVE t \in U
  <2>1. t \in C \X (0..n) /\ clock[t[1]] + t[2] * q <= left
    BY DEF Turns
  <2>2. t \in C \X (0..m) /\ clock[t[1]] \in Int /\ t[2] \in Nat
    BY <2>1
  <2>3. t[2] * q \in Int
    BY <2>2
  <2>4. clock[t[1]] + t[2] * q <= more
    BY <2>1, <2>2, <2>3
  <2> QED
    BY <2>2, <2>4 DEF Turns
<1>3. T \in SUBSET U
  BY <1>2
<1> HIDE DEF T, U
<1> QED
  BY <1>1, <1>3, FS_Subset DEF T, U

(* While all clocks run, time passes and the turns stay the same.          *)
LEMMA TurnsPass ==
    ASSUME NEW C, NEW clock \in [C -> Int], NEW new, \A c \in C : new[c] = clock[c] - 1,
           NEW q \in Nat, NEW left \in Int, NEW n \in Nat
    PROVE  Turns(C, new, q, left - 1, n) = Turns(C, clock, q, left, n)
<1>1. ASSUME NEW t \in C \X (0..n)
      PROVE  new[t[1]] + t[2] * q <= left - 1 <=> clock[t[1]] + t[2] * q <= left
  <2>1. t[1] \in C /\ t[2] \in Nat
    OBVIOUS
  <2>2. clock[t[1]] \in Int /\ new[t[1]] = clock[t[1]] - 1 /\ t[2] * q \in Int
    BY <2>1
  <2> QED
    BY <2>2
<1> QED
  BY <1>1 DEF Turns

(* A core that hands its job on has used one of its turns.                 *)
LEMMA TurnsUsed ==
    ASSUME NEW C, IsFiniteSet(C), NEW clock \in [C -> Int], NEW c \in C, clock[c] >= 0,
           NEW q \in Nat, NEW new,
           new[c] = q, \A d \in C : d # c => new[d] = clock[d],
           NEW left \in Int, NEW n \in Nat
    PROVE  Cardinality(Turns(C, clock, q, left, n)) - 1 <= Cardinality(Turns(C, new, q, left, n))
<1> DEFINE T == Turns(C, clock, q, left, n)
           U == Turns(C, new, q, left, n)
           S == T \ {<<c, 0>>}
           f == [t \in S |-> IF t[1] = c THEN <<c, t[2] - 1>> ELSE t]
<1>1. IsFiniteSet(T) /\ IsFiniteSet(U) /\ Cardinality(T) \in Nat /\ Cardinality(U) \in Nat
  BY TurnsFinite
<1>2. IsFiniteSet(S) /\ Cardinality(S) >= Cardinality(T) - 1
  <2> DEFINE x == <<c, 0>>
  <2>1. S = T \ {x}
    OBVIOUS
  <2> HIDE DEF S, T, x
  <2>2. /\ IsFiniteSet(T \ {x})
        /\ Cardinality(T \ {x}) = IF x \in T THEN Cardinality(T) - 1 ELSE Cardinality(T)
    BY <1>1, FS_RemoveElement
  <2> QED
    BY <1>1, <2>1, <2>2
<1>3. ASSUME NEW t \in S
      PROVE  /\ t[1] \in C /\ t[2] \in 0..n /\ t = <<t[1], t[2]>>
             /\ clock[t[1]] \in Int /\ clock[t[1]] + t[2] * q <= left
             /\ t[1] = c => t[2] >= 1
  <2>1. t \in C \X (0..n) /\ clock[t[1]] + t[2] * q <= left /\ t # <<c, 0>>
    BY DEF Turns
  <2>2. t[1] \in C /\ t[2] \in 0..n /\ t = <<t[1], t[2]>>
    BY <2>1
  <2> QED
    BY <2>1, <2>2
<1>4. ASSUME NEW t \in S PROVE f[t] \in U
  <2>1. CASE t[1] = c
    <3> DEFINE m == t[2]
    <3>1. m \in 1..n /\ clock[c] \in Nat /\ clock[c] + m * q <= left
      BY <1>3, <2>1
    <3>2. m - 1 \in 0..n /\ (m - 1) * q \in Int /\ m * q \in Int
      BY <3>1
    <3>3. q + (m - 1) * q = m * q
      BY <3>1
    <3>4. new[c] + (m - 1) * q <= left
      BY <3>1, <3>2, <3>3
    <3>5. f[t] = <<c, m - 1>>
      BY <2>1
    <3> QED
      BY <3>2, <3>4, <3>5 DEF Turns
  <2>2. CASE t[1] # c
    <3>1. f[t] = t /\ t \in C \X (0..n) /\ new[t[1]] = clock[t[1]]
      BY <1>3, <2>2
    <3> QED
      BY <1>3, <3>1 DEF Turns
  <2> QED
    BY <2>1, <2>2
<1>5. ASSUME NEW s \in S, NEW t \in S, f[s] = f[t] PROVE s = t
  <2>1. /\ s = <<s[1], s[2]>> /\ t = <<t[1], t[2]>>
        /\ s[2] \in Nat /\ t[2] \in Nat
    BY <1>3
  <2>2. /\ f[s] = IF s[1] = c THEN <<c, s[2] - 1>> ELSE s
        /\ f[t] = IF t[1] = c THEN <<c, t[2] - 1>> ELSE t
    OBVIOUS
  <2>3. s[1] = t[1]
    <3>1. f[s][1] = s[1] /\ f[t][1] = t[1]
      BY <2>2
    <3> QED
      BY <1>5, <3>1
  <2>4. s[2] = t[2]
    <3>1. /\ f[s][2] = IF s[1] = c THEN s[2] - 1 ELSE s[2]
          /\ f[t][2] = IF t[1] = c THEN t[2] - 1 ELSE t[2]
      BY <2>2
    <3> HIDE DEF f
    <3> QED
      BY <1>5, <2>1, <2>3, <3>1
  <2> QED
    BY <2>1, <2>3, <2>4
<1>6. f \in Injection(S, U)
  <2>1. f \in [S -> U]
    BY <1>4
  <2> HIDE DEF f, S, U
  <2> QED
    BY <1>5, <2>1 DEF Injection, IsInjective
<1>7. Cardinality(S) <= Cardinality(U)
  <2> HIDE DEF f, S, U
  <2> QED
    BY <1>1, <1>6, FS_Injection
<1>8. Cardinality(S) \in Nat
  BY <1>2, FS_CardinalityType
<1> HIDE DEF S, T, U
<1> QED
  BY <1>1, <1>2, <1>7, <1>8 DEF T, U

-----------------------------------------------------------------------------
(* The jobs that wait.                                                     *)

LEMMA JobsFinite ==
    ASSUME SimInv
    PROVE  /\ IsFiniteSet(DOMAIN job) /\ Cardinality(DOMAIN job) \in Nat
           /\ IsFiniteSet(WaitingIn(job))
           /\ num_jobs \in Nat /\ Rounds \in Nat
           /\ IsFiniteSet(Cores) /\ Cardinality(Cores) = num_cores
<1>1. IsFiniteSet(DOMAIN job)
  BY ArrayFacts, AliveCount DEF SimInv
<1>2. WaitingIn(job) \in SUBSET DOMAIN job
  BY DEF WaitingIn
<1>3. TypeOK /\ num_jobs \in Nat
  BY DEF SimInv, IInv, TypeOK
<1>4. /\ num_cores \in Nat \ {0}
      /\ IsFiniteSet(Cores) /\ Cardinality(Cores) = num_cores
  BY <1>3, CoresFacts
<1>5. Rounds \in Nat
  BY <1>3, <1>4, RoundsFacts DEF Rounds
<1> QED
  BY <1>1, <1>2, <1>3, <1>4, <1>5, FS_Subset, FS_CardinalityType

(* While a job waits every core has one, and it is not among the waiting.  *)
LEMMA AllCoresBusy ==
    ASSUME SimInv, WaitingIn(job) # {}
    PROVE  /\ IdleCores = {}
           /\ \A c \in Cores : active[c] = 1 /\ \E j \in DOMAIN job : job[j].core_id = c
<1>1. IdleCores = {}
  BY DEF SimInv, IInv, WorkConserving, WaitingIn, Running
<1>2. active \in [Cores -> {-1, 1}]
  BY DEF SimInv, IInv, TypeOK
<1>3. \A c \in Cores : active[c] = 1
  BY <1>1, <1>2 DEF IdleCores
<1> QED
  BY <1>1, <1>3 DEF SimInv, IInv, CoresMatch

LEMMA WaitersCounted ==
    ASSUME SimInv, AllCounted, WaitingIn(job) # {}
    PROVE  Cardinality(WaitingIn(job)) + num_cores <= num_jobs
<1> DEFINE W == WaitingIn(job)
           Ids == DOMAIN job
           R == Ids \ W
           f == [c \in Cores |-> CHOOSE j \in Ids : job[j].core_id = c]
<1>1. /\ IsFiniteSet(Ids) /\ Cardinality(Ids) \in Nat /\ IsFiniteSet(W)
      /\ num_jobs \in Nat
      /\ IsFiniteSet(Cores) /\ Cardinality(Cores) = num_cores
  BY JobsFinite
<1>2. num_cores \in Nat /\ -1 \notin Cores
  BY StateFacts DEF SimInv
<1>3. ASSUME NEW c \in Cores PROVE f[c] \in R /\ job[f[c]].core_id = c
  <2>1. \E j \in Ids : job[j].core_id = c
    BY AllCoresBusy
  <2>2. f[c] = CHOOSE j \in Ids : job[j].core_id = c
    OBVIOUS
  <2> HIDE DEF f
  <2>3. f[c] \in Ids /\ job[f[c]].core_id = c
    BY <2>1, <2>2
  <2> QED
    BY <1>2, <2>3 DEF WaitingIn
<1>4. f \in Injection(Cores, R)
  <2>1. f \in [Cores -> R]
    BY <1>3
  <2> HIDE DEF f, R
  <2> QED
    BY <1>3, <2>1 DEF Injection, IsInjective
<1>5. IsFiniteSet(R) /\ Cardinality(R) = Cardinality(Ids) - Cardinality(Ids \cap W)
  <2> HIDE DEF Ids, W
  <2> QED
    BY <1>1, FS_Difference
<1>6. Ids \cap W = W
  BY DEF WaitingIn
<1>7. num_cores <= Cardinality(R)
  <2> HIDE DEF f, R
  <2> QED
    BY <1>1, <1>4, <1>5, FS_Injection
<1>8. Cardinality(W) \in Nat
  BY <1>1, FS_CardinalityType
<1>9. Cardinality(Ids) <= num_jobs
  BY DEF AllCounted
<1>10. Cardinality(R) = Cardinality(Ids) - Cardinality(W)
  <2> HIDE DEF Ids, W, R
  <2> QED
    BY <1>5, <1>6
<1> HIDE DEF Ids, R
<1> QED
  BY <1>1, <1>2, <1>7, <1>8, <1>9, <1>10

LEMMA AheadFinite ==
    ASSUME SimInv, NEW j
    PROVE  /\ IsFiniteSet(AheadOf(QUEUE, job, j))
           /\ Cardinality(AheadOf(QUEUE, job, j)) \in Nat
           /\ Cardinality(AheadOf(QUEUE, job, j)) <= Cardinality(WaitingIn(job))
<1>1. AheadOf(QUEUE, job, j) \in SUBSET WaitingIn(job)
  BY DEF AheadOf
<1>2. /\ IsFiniteSet(AheadOf(QUEUE, job, j))
      /\ Cardinality(AheadOf(QUEUE, job, j)) <= Cardinality(WaitingIn(job))
  BY <1>1, JobsFinite, FS_Subset
<1> QED
  BY <1>2, FS_CardinalityType

LEMMA LeftForType ==
    ASSUME SimInv, CURRENT_SCHEME = "RR", NEW j \in WaitingIn(job)
    PROVE  /\ quantum \in Nat \ {0} /\ LeftFor(j) \in Int
           /\ job[j].pause_time \in Int /\ time \in Nat
<1>1. quantum \in Nat \ {0}
  BY DEF SimInv, QuantumOK
<1>2. j \in DOMAIN job /\ time \in Nat /\ job[j].pause_time \in Int
  BY StateFacts, RecordFields DEF SimInv, WaitingIn
<1>3. quantum * (Rounds - 1) \in Int
  BY <1>1, JobsFinite
<1> QED
  BY <1>1, <1>2, <1>3 DEF LeftFor

(* A job that starts to wait now has all rounds but one before it, and     *)
(* that is enough for everybody who waits.                                 *)
FreshTurn ==
    SimInv /\ AllCounted /\ CURRENT_SCHEME = "RR" /\ ClocksRun =>
        \A j \in WaitingIn(job) : job[j].pause_time = time =>
            Cardinality(AheadOf(QUEUE, job, j))
                <= Cardinality(Turns(Cores, quantum_clock, quantum, LeftFor(j), Rounds))

LEMMA FreshTurns == FreshTurn
<1> SUFFICES ASSUME SimInv, AllCounted, CURRENT_SCHEME = "RR", ClocksRun,
                    NEW j \in WaitingIn(job), job[j].pause_time = time
             PROVE  Cardinality(AheadOf(QUEUE, job, j))
                <= Cardinality(Turns(Cores, quantum_clock, quantum, LeftFor(j), Rounds))
  BY DEF FreshTurn
<1> DEFINE T == Turns(Cores, quantum_clock, quantum, LeftFor(j), Rounds)
           B == Cores \X (0..(Rounds - 2))
<1>1. /\ num_jobs \in Nat /\ Rounds \in Nat
      /\ IsFiniteSet(Cores) /\ Cardinality(Cores) = num_cores
      /\ num_cores \in Nat \ {0} /\ quantum \in Nat \ {0} /\ time \in Nat
  BY JobsFinite, LeftForType, StateFacts DEF SimInv
<1>2. Cardinality(WaitingIn(job)) + num_cores <= num_jobs /\ Cardinality(WaitingIn(job)) \in Nat
  BY WaitersCounted, JobsFinite, FS_CardinalityType
<1>3. num_jobs <= num_cores * Rounds
  BY <1>1, RoundsFacts DEF Rounds
<1>4. LeftFor(j) = quantum * (Rounds - 1)
  <2>1. quantum * (Rounds - 1) \in Int
    BY <1>1
  <2> QED
    BY <1>1, <2>1 DEF LeftFor
<1>5. num_cores * (Rounds - 1) = num_cores * Rounds - num_cores
  BY <1>1
<1>6. Cardinality(WaitingIn(job)) <= num_cores * (Rounds - 1)
  <2>1. num_cores * Rounds \in Int
    BY <1>1
  <2> QED
    BY <1>1, <1>2, <1>3, <1>5, <2>1
<1>7. Rounds >= 1
  BY <1>1, <1>2, <1>3
<1>8. IsFiniteSet(B) /\ Cardinality(B) = num_cores * (Rounds - 1)
  <2>1. IsFiniteSet(0..(Rounds - 2)) /\ Cardinality(0..(Rounds - 2)) = Rounds - 1
    BY <1>1, <1>7, FS_Interval
  <2> QED
    BY <1>1, <2>1, FS_Product
<1>9. ASSUME NEW t \in B PROVE t \in T
  <2> DEFINE m == t[2]
             c == t[1]
  <2>1. c \in Cores /\ m \in 0..(Rounds - 2) /\ t \in Cores \X (0..Rounds)
    BY <1>1
  <2>2. quantum_clock[c] \in Int /\ quantum_clock[c] <= quantum
    BY <1>1, <2>1, AllCoresBusy DEF ClocksRun
  <2>3. m * quantum + quantum <= quantum * (Rounds - 1)
    <3>1. m + 1 <= Rounds - 1 /\ m \in Nat
      BY <1>1, <2>1
    <3>2. (Rounds - 1 - (m + 1)) * quantum >= 0
      BY <1>1, <3>1
    <3> QED
      BY <1>1, <3>1, <3>2
  <2>4. m * quantum \in Int /\ quantum * (Rounds - 1) \in Int
    BY <1>1, <2>1
  <2>5. quantum_clock[c] + m * quantum <= LeftFor(j)
    BY <1>1, <1>4, <2>2, <2>3, <2>4
  <2> QED
    BY <2>1, <2>5 DEF Turns
<1>10. IsFiniteSet(T) /\ Cardinality(T) \in Nat
  BY <1>1, TurnsFinite
<1>11. Cardinality(B) <= Cardinality(T)
  <2>1. B \in SUBSET T
    BY <1>9
  <2> HIDE DEF B, T
  <2> QED
    BY <1>10, <2>1, FS_Subset
<1>12. /\ Cardinality(AheadOf(QUEUE, job, j)) \in Nat
       /\ Cardinality(AheadOf(QUEUE, job, j)) <= Cardinality(WaitingIn(job))
  BY AheadFinite
<1>13. num_cores * (Rounds - 1) \in Int
  BY <1>1
<1> HIDE DEF B, T
<1> QED
  BY <1>2, <1>6, <1>8, <1>10, <1>11, <1>12, <1>13 DEF T

(* A waiting job comes first of itself, so it has a turn left.             *)
LEMMA TurnLeft ==
    ASSUME SimInv, ClocksRun, TurnComes, CURRENT_SCHEME = "RR", phase = "run",
           NEW j \in WaitingIn(job)
    PROVE  LeftFor(j) >= 1
<1> DEFINE T == Turns(Cores, quantum_clock, quantum, LeftFor(j), Rounds)
<1>1. j \in AheadOf(QUEUE, job, j)
  <2>1. QUEUE \in Seq(Jobs) /\ ToSet(QUEUE) = DOMAIN job /\ j \in DOMAIN job
    BY StateFacts DEF SimInv, WaitingIn
  <2>2. PICK a \in 1..Len(QUEUE) : QUEUE[a] = j
    BY <2>1, ElementsOf DEF Occurs
  <2>3. a <= a
    BY <2>1
  <2> QED
    BY <2>2, <2>3 DEF AheadOf, NotBehind
<1>2. Cardinality(AheadOf(QUEUE, job, j)) # 0
  BY <1>1, AheadFinite, FS_EmptySet
<1>3. Cardinality(AheadOf(QUEUE, job, j)) <= Cardinality(T)
  BY DEF TurnComes
<1>4. T # {}
  <2>1. Cardinality({}) = 0
    BY FS_EmptySet
  <2>2. Cardinality(T) # 0
    <3> HIDE DEF T
    <3> QED
      BY <1>2, <1>3, AheadFinite
  <2> QED
    BY <2>1, <2>2
<1>5. PICK t \in T : TRUE
  BY <1>4
<1>6. /\ t[1] \in Cores /\ t[2] \in Nat
      /\ quantum_clock[t[1]] + t[2] * quantum <= LeftFor(j)
  BY <1>5, JobsFinite DEF Turns
<1>7. quantum_clock[t[1]] \in Int /\ quantum_clock[t[1]] >= 1
  BY <1>6, LeftForType, AllCoresBusy DEF ClocksRun
<1>8. t[2] * quantum \in Nat
  BY <1>6, LeftForType
<1> QED
  BY <1>6, <1>7, <1>8, LeftForType

-----------------------------------------------------------------------------
(* What each call is, with the clock the program restarts.                 *)

LEMMA FinishCall ==
    ASSUME SimInv, SimInv', ReportFinished
    PROVE  /\ phase = "finish" /\ phase' = "finish" /\ UNCHANGED quantum
           /\ \E j \in DOMAIN job, w \in Returned :
                /\ Running(j) /\ job[j].core_id \in Cores
                /\ scheduler_job_finished(job[j].core_id, j, w)
                /\ quantum_clock' = RestartedClock(job[j].core_id)
<1>1. PICK k \in Used, w \in Returned :
        /\ scheduler_job_finished(jobs[k].core_id, jobs[k].job_id, w)
        /\ quantum_clock' = RestartedClock(jobs[k].core_id)
        /\ phase' \in {"invalid job", phase}
  BY DEF ReportFinished
<1>2. phase = "finish" /\ phase' = "finish" /\ UNCHANGED quantum
  BY <1>1 DEF ReportFinished, SimInv, NoFailure, Failures
<1>3. k \in 1..active_jobs /\ jobs[k].core_id # -1
  <2>1. k \in i..active_jobs /\ jobs[k].run_time = 0
    BY <1>1 DEF Used
  <2>2. k \in 1..active_jobs
    BY <2>1, ArrayFacts
  <2> QED
    BY <2>1, <2>2 DEF SimInv, OverIsReported
<1>4. /\ jobs[k].job_id \in DOMAIN job /\ Running(jobs[k].job_id)
      /\ jobs[k].core_id = job[jobs[k].job_id].core_id /\ jobs[k].core_id \in Cores
  BY <1>3, JobOnCore
<1> QED
  BY <1>1, <1>2, <1>4

LEMMA ActiveHasEntry ==
    ASSUME SimInv, NEW c \in Cores, active[c] = 1
    PROVE  On(c) # {}
<1>1. PICK j \in DOMAIN job : job[j].core_id = c
  BY DEF SimInv, IInv, CoresMatch
<1>2. PICK k \in 1..active_jobs : jobs[k].job_id = j /\ jobs[k].arrived = 1
  BY DEF SimInv, AllInStep
<1>3. jobs[k].core_id = c
  BY <1>1, <1>2, EntryFacts
<1> QED
  BY <1>3 DEF On

LEMMA ExpireCall ==
    ASSUME SimInv, SimInv', ReportExpired
    PROVE  /\ phase = "quantum" /\ phase' = "quantum" /\ UNCHANGED quantum
           /\ CURRENT_SCHEME = "RR"
           /\ \E c \in Cores, e \in DOMAIN job, w \in Returned :
                /\ job[e].core_id = c /\ Running(e)
                /\ scheduler_quantum_expired(c, w)
                /\ quantum_clock' = RestartedClock(c)
                /\ i' = c + 2
                /\ \A d \in Cores :
                        d >= i - 1 /\ d < c /\ active[d] = 1 => quantum_clock[d] # 0
<1>1. PICK c \in Expired, w \in Returned :
        /\ c = Min(Expired)
        /\ scheduler_quantum_expired(c, w)
        /\ quantum_clock' = RestartedClock(c)
        /\ phase' \in {"invalid job", phase}
        /\ i' = c + 2
  BY DEF ReportExpired
<1>2. /\ phase = "quantum" /\ phase' = "quantum" /\ UNCHANGED quantum
      /\ CURRENT_SCHEME = "RR"
  BY <1>1 DEF ReportExpired, SimInv, NoFailure, Failures, QuantumOK
<1>3. i \in Nat /\ i >= 1 /\ num_cores \in Nat /\ IInv
  BY ArrayFacts, StateFacts DEF SimInv
<1>4. c \in Cores /\ c # -1 /\ On(c) # {}
  <2>1. c \in (i - 1)..(num_cores - 1) /\ On(c) # {}
    BY <1>1 DEF Expired
  <2> QED
    BY <1>3, <2>1 DEF Cores
<1>5. PICK m \in 1..active_jobs : jobs[m].core_id = c
  BY <1>4 DEF On
<1> DEFINE e == jobs[m].job_id
<1>6. e \in DOMAIN job /\ job[e].core_id = c /\ Running(e)
  BY <1>4, <1>5, JobOnCore
<1>7. ASSUME NEW d \in Cores, d >= i - 1, d < c, active[d] = 1
      PROVE  quantum_clock[d] # 0
  <2>1. \A x \in Expired : c <= x
    <3>1. Expired \in SUBSET Nat
      BY <1>3 DEF Expired
    <3> QED
      BY <1>1, <3>1, MinProperties
  <2>2. d \in Nat /\ c \in Nat /\ d \in (i - 1)..(num_cores - 1)
    BY <1>3, <1>4, <1>7 DEF Cores
  <2>3. d \notin Expired
    BY <1>7, <2>1, <2>2
  <2>4. On(d) # {}
    BY <1>7, ActiveHasEntry
  <2> QED
    BY <2>2, <2>3, <2>4 DEF Expired
<1> HIDE DEF e
<1> QED
  BY <1>1, <1>2, <1>4, <1>6, <1>7

LEMMA ArriveCall ==
    ASSUME SimInv, SimInv', ReportArrival
    PROVE  /\ phase = "arrive" /\ phase' = "arrive" /\ UNCHANGED quantum
           /\ \E j \in Jobs \ DOMAIN job, r \in RunTimes, p \in Priorities :
                \E core \in Cores \cup {-1} :
                    /\ scheduler_new_job(j, r, p, core)
                    /\ quantum_clock' = IF core \in Cores THEN RestartedClock(core)
                                        ELSE quantum_clock
<1>1. PICK k \in Arriving, core \in Returned :
        /\ scheduler_new_job(jobs[k].job_id, jobs[k].run_time, jobs[k].priority, core)
        /\ quantum_clock' = IF core \in Cores THEN RestartedClock(core)
                            ELSE quantum_clock
        /\ phase' \in {"invalid core", phase}
  BY DEF ReportArrival
<1>2. phase = "arrive" /\ phase' = "arrive" /\ UNCHANGED quantum
  BY <1>1 DEF ReportArrival, SimInv, NoFailure, Failures
<1>3. /\ active_jobs \in Nat /\ i \in Nat /\ i >= 1 /\ time \in Nat
      /\ \A l \in 1..active_jobs : jobs[l] \in JobEntry
  BY ArrayFacts, StateFacts DEF SimInv
<1>4. k \in 1..active_jobs /\ k \in Nat /\ k >= i /\ jobs[k].arrival_time = time
  <2>1. k \in i..active_jobs /\ jobs[k].arrival_time = time
    BY <1>1 DEF Arriving
  <2> QED
    BY <1>3, <2>1
<1> DEFINE j == jobs[k].job_id
           r == jobs[k].run_time
           p == jobs[k].priority
<1>5. jobs[k].arrived = 0 /\ r \in RunTimes
  <2>1. ~Due(k)
    BY <1>2, <1>3, <1>4 DEF Due
  <2>2. jobs[k].arrived = 0
    BY <1>3, <1>4, <2>1 DEF SimInv, ArrivedWhenDue, JobEntry
  <2> QED
    BY <1>4, <2>2 DEF SimInv, NotStarted
<1>6. j \in Jobs \ DOMAIN job /\ p \in Priorities
  <2>1. j \notin DOMAIN job
    BY <1>4, <1>5 DEF SimInv, AllInStep, EntriesDiffer
  <2> QED
    BY <1>3, <1>4, <2>1 DEF JobEntry
<1>7. scheduler_new_job(j, r, p, core)
  BY <1>1
<1> HIDE DEF j, r, p
<1>8. core \in Cores \cup {-1}
  BY <1>5, <1>6, <1>7, NewJobEffect DEF SimInv
<1> QED
  BY <1>1, <1>2, <1>5, <1>6, <1>7, <1>8

-----------------------------------------------------------------------------
(* The order of the list: a job that is taken out changes nothing for the  *)
(* others, and one that is offered comes last.                             *)

LEMMA BehindTakenOut ==
    ASSUME IInv, NEW x \in DOMAIN job, NEW k, NEW j, NotBehind(QueueWithout(x), k, j)
    PROVE  NotBehind(QUEUE, k, j)
<1> DEFINE n == Len(QUEUE)
           q == QueueWithout(x)
<1>1. /\ QUEUE \in Seq(Jobs) /\ IsInjective(QUEUE) /\ ToSet(QUEUE) = DOMAIN job
      /\ n \in Nat
  BY StateFacts
<1>2. PICK p \in 1..n : Len(q) = n - 1 /\ IsTakenOut(q, QUEUE, n, p)
  BY <1>1, TakeOutProperties DEF QueueWithout
<1>3. PICK a \in 1..(n - 1), b \in 1..(n - 1) : a <= b /\ q[a] = k /\ q[b] = j
  BY <1>2 DEF NotBehind
<1> HIDE DEF q
<1>4. PICK c \in 1..n : QUEUE[c] = k /\ c = IF a < p THEN a ELSE a + 1
  <2>1. a \in 1..n /\ a + 1 \in 1..n
    BY <1>1
  <2> QED
    BY <1>2, <1>3, <2>1 DEF IsTakenOut
<1>5. PICK d \in 1..n : QUEUE[d] = j /\ d = IF b < p THEN b ELSE b + 1
  <2>1. b \in 1..n /\ b + 1 \in 1..n
    BY <1>1
  <2> QED
    BY <1>2, <1>3, <2>1 DEF IsTakenOut
<1>6. c <= d
  BY <1>3, <1>4, <1>5
<1> QED
  BY <1>4, <1>5, <1>6 DEF NotBehind

LEMMA BehindAppended ==
    ASSUME NEW q \in Seq(Jobs), NEW r, Len(r) = Len(q) + 1,
           \A m \in 1..Len(q) : r[m] = q[m],
           NEW k, NEW j, r[Len(q) + 1] # j, NotBehind(r, k, j)
    PROVE  NotBehind(q, k, j)
<1> DEFINE n == Len(q)
<1>1. n \in Nat
  OBVIOUS
<1>2. PICK a \in 1..(n + 1), b \in 1..(n + 1) : a <= b /\ r[a] = k /\ r[b] = j
  BY DEF NotBehind
<1>3. b \in 1..n /\ a \in 1..n
  BY <1>1, <1>2
<1> QED
  BY <1>2, <1>3 DEF NotBehind

-----------------------------------------------------------------------------
LEMMA FinishCounted ==
    ASSUME TurnInv, SimInv', ReportFinished
    PROVE  AllCounted'
<1>0. SimInv /\ IInv /\ AllCounted
  BY DEF TurnInv, SimInv
<1>1. PICK j \in DOMAIN job, w \in Returned : scheduler_job_finished(job[j].core_id, j, w)
  BY <1>0, FinishCall
<1>2. num_jobs' = num_jobs
  BY <1>1 DEF scheduler_job_finished
<1>3. DOMAIN job' = DOMAIN job \ {j}
  BY <1>0, <1>1, FinishEffect DEF Handed
<1>4. Cardinality(DOMAIN job \ {j}) = Cardinality(DOMAIN job) - 1
  BY <1>0, JobsFinite, FS_RemoveElement
<1> QED
  BY <1>0, <1>2, <1>3, <1>4, JobsFinite DEF AllCounted

LEMMA ExpireCounted ==
    ASSUME TurnInv, SimInv', ReportExpired
    PROVE  AllCounted'
<1>0. SimInv /\ IInv /\ AllCounted
  BY DEF TurnInv, SimInv
<1>1. PICK c \in Cores, e \in DOMAIN job, w \in Returned :
        job[e].core_id = c /\ scheduler_quantum_expired(c, w)
  BY <1>0, ExpireCall
<1>2. num_jobs' = num_jobs
  BY <1>1 DEF scheduler_quantum_expired
<1>3. DOMAIN job' = DOMAIN job
  BY <1>0, <1>1, ExpireEffect, ZenonT(40) DEF Handed
<1> QED
  BY <1>0, <1>2, <1>3 DEF AllCounted

LEMMA ArriveCounted ==
    ASSUME TurnInv, SimInv', ReportArrival
    PROVE  AllCounted'
<1>0. SimInv /\ IInv /\ AllCounted
  BY DEF TurnInv, SimInv
<1>1. PICK j \in Jobs \ DOMAIN job, r \in RunTimes, p \in Priorities,
           core \in Cores \cup {-1} : scheduler_new_job(j, r, p, core)
  BY <1>0, ArriveCall
<1>2. num_jobs' = num_jobs + 1
  BY <1>1 DEF scheduler_new_job
<1>3. DOMAIN job' = DOMAIN job \cup {j}
  BY <1>0, <1>1, NewJobEffect
<1>4. Cardinality(DOMAIN job \cup {j}) = Cardinality(DOMAIN job) + 1
  BY <1>0, JobsFinite, FS_AddElement
<1> QED
  BY <1>0, <1>2, <1>3, <1>4, JobsFinite DEF AllCounted

(* The scan changes nothing for the other cores.                           *)
LEMMA OtherCores ==
    ASSUME NEW c \in Cores, TypeOK,
           \/ \E j, w : scheduler_job_finished(c, j, w)
           \/ \E w : scheduler_quantum_expired(c, w)
    PROVE  \A d \in Cores : d # c => active'[d] = active[d]
<1>1. active \in [Cores -> {-1, 1}]
  BY DEF TypeOK
<1>2. active' = active \/ active' = [active EXCEPT ![c] = -1]
  BY DEF scheduler_job_finished, scheduler_quantum_expired, WakeOn
<1> QED
  BY <1>1, <1>2

LEMMA FinishClocks ==
    ASSUME TurnInv, SimInv', CURRENT_SCHEME = "RR", ReportFinished
    PROVE  ClocksRun'
<1>0. SimInv /\ TypeOK /\ ClocksRun
  BY DEF TurnInv, SimInv, IInv
<1>1. phase' = "finish" /\ UNCHANGED quantum
  BY <1>0, FinishCall
<1>2. PICK j \in DOMAIN job, w \in Returned :
        /\ job[j].core_id \in Cores
        /\ scheduler_job_finished(job[j].core_id, j, w)
        /\ quantum_clock' = RestartedClock(job[j].core_id)
  BY <1>0, FinishCall
<1>3. Cores' = Cores
  BY <1>2 DEF scheduler_job_finished, Cores
<1> DEFINE c == job[j].core_id
<1>4. quantum_clock'[c] = quantum /\ \A d \in Cores : d # c => quantum_clock'[d] = quantum_clock[d]
  BY <1>0, <1>2, RestartedAt
<1>5. \A d \in Cores : d # c => active'[d] = active[d]
  BY <1>0, <1>2, OtherCores
<1>6. quantum \in Nat \ {0}
  BY <1>0 DEF SimInv, QuantumOK
<1> HIDE DEF c
<1> QED
  BY <1>0, <1>1, <1>3, <1>4, <1>5, <1>6 DEF ClocksRun

LEMMA ExpireClocks ==
    ASSUME TurnInv, SimInv', ReportExpired
    PROVE  ClocksRun'
<1>0. SimInv /\ TypeOK
  BY DEF TurnInv, SimInv, IInv
<1>1. /\ phase = "quantum" /\ phase' = "quantum" /\ UNCHANGED quantum
      /\ CURRENT_SCHEME = "RR"
  BY <1>0, ExpireCall
<1>2. PICK c \in Cores, w \in Returned :
        /\ scheduler_quantum_expired(c, w)
        /\ quantum_clock' = RestartedClock(c)
        /\ i' = c + 2
        /\ \A d \in Cores :
                d >= i - 1 /\ d < c /\ active[d] = 1 => quantum_clock[d] # 0
  BY <1>0, ExpireCall
<1>3. Cores' = Cores
  BY <1>2 DEF scheduler_quantum_expired, Cores
<1>4. quantum_clock'[c] = quantum /\ \A d \in Cores : d # c => quantum_clock'[d] = quantum_clock[d]
  BY <1>0, <1>1, <1>2, RestartedAt
<1>5. \A d \in Cores : d # c => active'[d] = active[d]
  BY <1>0, <1>2, OtherCores
<1>6. quantum \in Nat \ {0} /\ i \in Nat /\ Cores \subseteq Nat /\ ClocksRun
  BY <1>0, <1>1, ArrayFacts, CoresFacts DEF SimInv, QuantumOK, TurnInv
<1> SUFFICES ASSUME NEW d \in Cores, active'[d] = 1
             PROVE  /\ quantum_clock'[d] \in 0..quantum
                    /\ d < c + 1 => quantum_clock'[d] # 0
  BY <1>1, <1>2, <1>3, <1>6 DEF ClocksRun
<1>7. CASE d = c
  BY <1>4, <1>6, <1>7
<1>8. CASE d # c
  <2>1. active[d] = 1 /\ quantum_clock'[d] = quantum_clock[d]
    BY <1>4, <1>5, <1>8
  <2>2. /\ quantum_clock[d] \in 0..quantum
        /\ d < i - 1 => quantum_clock[d] # 0
    BY <1>1, <1>6, <2>1 DEF ClocksRun
  <2>3. d < c + 1 => d < i - 1 \/ (d >= i - 1 /\ d < c)
    BY <1>6, <1>8
  <2> QED
    BY <1>2, <2>1, <2>2, <2>3
<1> QED
  BY <1>7, <1>8

LEMMA ArriveClocks ==
    ASSUME TurnInv, SimInv', CURRENT_SCHEME = "RR", ReportArrival
    PROVE  ClocksRun'
<1>0. SimInv /\ TypeOK /\ ClocksRun
  BY DEF TurnInv, SimInv, IInv
<1>1. phase = "arrive" /\ phase' = "arrive" /\ UNCHANGED quantum
  BY <1>0, ArriveCall
<1>2. PICK j \in Jobs \ DOMAIN job, r \in RunTimes, p \in Priorities,
           core \in Cores \cup {-1} :
        /\ scheduler_new_job(j, r, p, core)
        /\ quantum_clock' = IF core \in Cores THEN RestartedClock(core)
                            ELSE quantum_clock
  BY <1>0, ArriveCall
<1>3. Cores' = Cores
  BY <1>2 DEF scheduler_new_job, Cores
<1>4. active' = active \/ (core \in Cores /\ active' = [active EXCEPT ![core] = 1])
  <2>1. \/ core = LowestIdle /\ IdleCores # {} /\ active' = [active EXCEPT ![core] = 1]
        \/ active' = active
    BY <1>2 DEF scheduler_new_job
  <2>2. IdleCores # {} => LowestIdle \in Cores
    <3>1. IdleCores \in SUBSET Nat /\ IdleCores \subseteq Cores
      BY <1>0, CoresFacts DEF IdleCores
    <3> QED
      BY <3>1, MinProperties DEF LowestIdle
  <2> QED
    BY <2>1, <2>2
<1>5. active \in [Cores -> {-1, 1}] /\ quantum \in Nat \ {0}
  BY <1>0 DEF TypeOK, SimInv, QuantumOK
<1>6. ASSUME NEW d \in Cores
      PROVE  \/ quantum_clock'[d] = quantum_clock[d] /\ d # core
             \/ quantum_clock'[d] = quantum
  BY <1>0, <1>2, RestartedAt, CoresFacts
<1>7. ASSUME NEW d \in Cores, active'[d] = 1
      PROVE  quantum_clock'[d] \in 0..quantum /\ quantum_clock'[d] # 0
  <2>1. CASE quantum_clock'[d] = quantum_clock[d] /\ d # core
    <3>1. active[d] = 1
      BY <1>4, <1>5, <1>7, <2>1
    <3> QED
      BY <1>0, <1>1, <2>1, <3>1 DEF ClocksRun
  <2>2. CASE quantum_clock'[d] = quantum
    BY <1>5, <2>2
  <2> QED
    BY <1>6, <2>1, <2>2
<1> QED
  BY <1>1, <1>3, <1>7 DEF ClocksRun

(* The clock of an active core goes down by one.                           *)
LEMMA ClockOfUnit ==
    ASSUME SimInv, RunUnit, NEW c \in Cores, active[c] = 1
    PROVE  quantum_clock'[c] = quantum_clock[c] - 1
<1>1. Cardinality(On(c)) \in {0, 1}
  BY CoresInUse
<1>2. On(c) # {}
  BY ActiveHasEntry
<1>3. IsFiniteSet(On(c))
  <2>1. IsFiniteSet(1..active_jobs)
    BY ArrayFacts, FS_Interval
  <2>2. On(c) \in SUBSET (1..active_jobs)
    BY DEF On
  <2> QED
    BY <2>1, <2>2, FS_Subset
<1>4. Cardinality(On(c)) = 1
  BY <1>1, <1>2, <1>3, FS_EmptySet
<1>5. quantum_clock' = [d \in Cores |-> quantum_clock[d] - Cardinality(On(d))]
  BY RunUnitEffect
<1> QED
  BY <1>4, <1>5

LEMMA RunUnitClocks ==
    ASSUME TurnInv, CURRENT_SCHEME = "RR", RunUnit
    PROVE  ClocksRun'
<1>0. SimInv /\ ClocksRun
  BY DEF TurnInv
<1>1. /\ phase = "run" /\ phase' = "finish"
      /\ UNCHANGED <<quantum, num_cores, active>>
  BY <1>0, RunUnitEffect
<1>2. Cores' = Cores /\ quantum \in Nat
  BY <1>0, <1>1 DEF Cores, SimInv, QuantumOK
<1>3. ASSUME NEW c \in Cores, active[c] = 1 PROVE quantum_clock'[c] \in 0..quantum
  <2>1. quantum_clock'[c] = quantum_clock[c] - 1
    BY <1>0, <1>3, ClockOfUnit
  <2>2. quantum_clock[c] \in 0..quantum /\ quantum_clock[c] # 0
    BY <1>0, <1>1, <1>3 DEF ClocksRun
  <2> QED
    BY <1>2, <2>1, <2>2
<1> QED
  BY <1>1, <1>2, <1>3 DEF ClocksRun

(* No call: from a phase to the next, or the end.                          *)
LEMMA QuietClocks ==
    ASSUME TurnInv, CURRENT_SCHEME = "RR",
           \/ NoMoreFinished \/ NoMoreExpired \/ NoMoreArrivals \/ CleanUp
           \/ UNCHANGED simVars
    PROVE  ClocksRun'
<1>0. SimInv /\ ClocksRun /\ TypeOK
  BY DEF TurnInv, SimInv, IInv
<1>1. UNCHANGED <<quantum, quantum_clock, num_cores, active>> /\ Cores' = Cores
  BY DEF NoMoreFinished, NoMoreExpired, NoMoreArrivals, CleanUp,
         scheduler_clean_up, simVars, schedVars, Cores
<1>2. \A c \in Cores : active[c] = 1 => quantum_clock[c] \in 0..quantum
  BY <1>0 DEF ClocksRun
<1>3. Cores \subseteq Nat /\ i \in Nat /\ i >= 1 /\ num_cores \in Nat
  BY <1>0, CoresFacts, ArrayFacts
<1>4. CASE NoMoreFinished
  <2>1. phase' \in {"done", "quantum"} /\ i' = 1
    BY <1>4 DEF NoMoreFinished, Goto
  <2>2. \A c \in Cores : ~(c < i' - 1)
    BY <1>3, <2>1
  <2> QED
    BY <1>1, <1>2, <2>1, <2>2 DEF ClocksRun
<1>5. CASE NoMoreExpired
  <2>1. phase = "quantum" /\ Expired = {}
    BY <1>5 DEF NoMoreExpired
  <2>2. ASSUME NEW c \in Cores, active[c] = 1 PROVE quantum_clock[c] # 0
    <3>1. On(c) # {}
      BY <1>0, <2>2, ActiveHasEntry
    <3>2. c < i - 1 \/ c \in (i - 1)..(num_cores - 1)
      BY <1>3 DEF Cores
    <3>3. CASE c < i - 1
      BY <1>0, <2>1, <2>2, <3>3 DEF ClocksRun
    <3>4. CASE c \in (i - 1)..(num_cores - 1)
      BY <2>1, <3>1, <3>4 DEF Expired
    <3> QED
      BY <3>2, <3>3, <3>4
  <2> QED
    BY <1>1, <1>2, <2>2 DEF ClocksRun
<1>6. CASE NoMoreArrivals
  <2>1. phase = "arrive"
    BY <1>6 DEF NoMoreArrivals
  <2>2. \A c \in Cores : active[c] = 1 => quantum_clock[c] # 0
    BY <1>0, <2>1 DEF ClocksRun
  <2> QED
    BY <1>1, <1>2, <2>2 DEF ClocksRun
<1>7. CASE CleanUp
  <2>1. phase' = "ended"
    BY <1>7 DEF CleanUp
  <2> QED
    BY <1>1, <1>2, <2>1 DEF ClocksRun
<1>8. CASE UNCHANGED simVars
  BY <1>0, <1>1, <1>8 DEF ClocksRun, simVars
<1> QED
  BY <1>4, <1>5, <1>6, <1>7, <1>8

-----------------------------------------------------------------------------
(* What TurnComes says of one job.                                         *)
OnTime(j) ==
    Cardinality(AheadOf(QUEUE, job, j))
        <= Cardinality(Turns(Cores, quantum_clock, quantum, LeftFor(j), Rounds))

(* A core is handed on, and the first of the jobs ahead has it.            *)
LEMMA TurnTaken ==
    ASSUME SimInv, CURRENT_SCHEME = "RR", NEW j \in WaitingIn(job), OnTime(j),
           NEW c \in Cores, quantum_clock[c] >= 0, quantum_clock' = RestartedClock(c),
           UNCHANGED <<num_cores, num_jobs, quantum, time>>,
           job'[j].pause_time = job[j].pause_time,
           NEW w \in AheadOf(QUEUE, job, j),
           AheadOf(QUEUE', job', j) \subseteq AheadOf(QUEUE, job, j) \ {w}
    PROVE  OnTime(j)'
<1> DEFINE A == AheadOf(QUEUE, job, j)
           B == AheadOf(QUEUE', job', j)
           T == Turns(Cores, quantum_clock, quantum, LeftFor(j), Rounds)
           U == Turns(Cores, quantum_clock', quantum, LeftFor(j), Rounds)
<1>1. /\ IsFiniteSet(Cores) /\ Rounds \in Nat
      /\ quantum \in Nat /\ LeftFor(j) \in Int
      /\ quantum_clock \in [Cores -> Int]
  BY JobsFinite, LeftForType, ClockFacts
<1>2. /\ quantum_clock'[c] = quantum
      /\ \A d \in Cores : d # c => quantum_clock'[d] = quantum_clock[d]
  BY RestartedAt
<1>3. IsFiniteSet(A) /\ Cardinality(A) \in Nat
  BY AheadFinite
<1>4. /\ Cardinality(A) <= Cardinality(T)
      /\ Cardinality(T) \in Nat /\ Cardinality(U) \in Nat
  BY <1>1, TurnsFinite DEF OnTime
<1>5. Cardinality(T) - 1 <= Cardinality(U)
  <2> DEFINE new == quantum_clock'
             left == LeftFor(j)
             n == Rounds
  <2>1. new[c] = quantum /\ \A d \in Cores : d # c => new[d] = quantum_clock[d]
    BY <1>2
  <2>2. left \in Int /\ n \in Nat
    BY <1>1
  <2> HIDE DEF new, left, n
  <2>3. Cardinality(Turns(Cores, quantum_clock, quantum, left, n)) - 1
            <= Cardinality(Turns(Cores, new, quantum, left, n))
    BY <1>1, <2>1, <2>2, TurnsUsed
  <2> QED
    BY <2>3 DEF new, left, n
<1>6. Cardinality(B) <= Cardinality(A) - 1 /\ Cardinality(B) \in Nat
  <2>1. w \in A /\ B \in SUBSET (A \ {w})
    OBVIOUS
  <2> HIDE DEF A, B
  <2>2. IsFiniteSet(A \ {w}) /\ Cardinality(A \ {w}) = Cardinality(A) - 1
    BY <1>3, <2>1, FS_RemoveElement
  <2>3. IsFiniteSet(B) /\ Cardinality(B) <= Cardinality(A \ {w})
    BY <2>1, <2>2, FS_Subset
  <2>4. Cardinality(B) \in Nat
    BY <2>3, FS_CardinalityType
  <2> QED
    BY <2>2, <2>3, <2>4
<1>7. Cardinality(B) <= Cardinality(U)
  <2> HIDE DEF A, B, T, U
  <2> QED
    BY <1>3, <1>4, <1>5, <1>6
<1>8. Turns(Cores, quantum_clock, quantum, LeftFor(j), Rounds)' = U
  BY DEF Cores, LeftFor, Rounds
<1> QED
  BY <1>7, <1>8 DEF OnTime

(* The scan finds the first waiting job of the list.                       *)
LEMMA FirstIsAhead ==
    ASSUME NEW q \in Seq(Jobs), NEW known, ToSet(q) = DOMAIN known, -1 \notin Jobs,
           NEW j \in WaitingIn(known)
    PROVE  /\ FirstWaiting(q, known) \in WaitingIn(known)
           /\ NotBehind(q, FirstWaiting(q, known), j)
<1> DEFINE w == FirstWaiting(q, known)
<1>1. j \in DOMAIN known /\ known[j].core_id = -1
  BY DEF WaitingIn
<1>2. PICK p \in 1..Len(q) : /\ w = q[p]
                             /\ q[p] \in DOMAIN known
                             /\ known[q[p]].core_id = -1
                             /\ \A l \in 1..(p - 1) : known[q[l]].core_id # -1
  BY <1>1, FirstWaitingProperties
<1>3. PICK b \in 1..Len(q) : q[b] = j
  BY <1>1, ElementsOf DEF Occurs
<1>4. p <= b
  <2>1. b \notin 1..(p - 1)
    BY <1>1, <1>2, <1>3
  <2> QED
    BY <2>1
<1> HIDE DEF w
<1>5. w \in WaitingIn(known)
  BY <1>2 DEF WaitingIn
<1>6. NotBehind(q, w, j)
  BY <1>2, <1>3, <1>4 DEF NotBehind
<1> QED
  BY <1>5, <1>6 DEF w

LEMMA FinishTurns ==
    ASSUME TurnInv, SimInv', CURRENT_SCHEME = "RR", ReportFinished
    PROVE  TurnComes'
<1>0. SimInv /\ IInv /\ ClocksRun /\ TurnComes
  BY DEF TurnInv, SimInv
<1>1. PICK x \in DOMAIN job, w \in Returned :
        /\ Running(x) /\ job[x].core_id \in Cores
        /\ scheduler_job_finished(job[x].core_id, x, w)
        /\ quantum_clock' = RestartedClock(job[x].core_id)
  BY <1>0, FinishCall
<1>2. UNCHANGED quantum
  BY <1>0, FinishCall
<1> DEFINE c == job[x].core_id
           known == RecordsWithout(x)
           q == QueueWithout(x)
<1>3. /\ DOMAIN known = DOMAIN job \ {x}
      /\ \A k \in DOMAIN job \ {x} : known[k] = job[k]
      /\ Handed(c, known, 0, w)
  BY <1>0, <1>1, FinishEffect
<1>4. /\ QUEUE' = q /\ w = FirstWaiting(q, known)
      /\ UNCHANGED <<CURRENT_SCHEME, num_cores, num_jobs, time>>
  BY <1>1 DEF scheduler_job_finished, WakeOn
<1>5. /\ QUEUE \in Seq(Jobs) /\ IsInjective(QUEUE) /\ ToSet(QUEUE) = DOMAIN job
      /\ -1 \notin Jobs /\ -1 \notin Cores
  BY <1>0, StateFacts
<1>6. q \in Seq(Jobs) /\ ToSet(q) = DOMAIN known
  BY <1>3, <1>5, TakeOutProperties DEF QueueWithout
<1>7. quantum_clock[c] >= 0
  BY <1>0, <1>1 DEF ClocksRun, SimInv, IInv, CoresMatch
<1>8. ASSUME NEW k \in WaitingIn(job')
      PROVE  /\ k \in WaitingIn(job) /\ k \in WaitingIn(known) /\ k # w
             /\ job'[k] = job[k]
  <2>1. k \in DOMAIN known /\ job'[k].core_id = -1
    BY <1>3 DEF Handed, WaitingIn
  <2>2. job'[k] = IF k = w THEN Woken(known[k], c, 0) ELSE known[k]
    BY <1>3, <2>1 DEF Handed
  <2>3. known[k] = job[k] /\ job[k] \in JobRecord /\ time \in Nat
    BY <1>0, <1>3, <2>1, StateFacts
  <2>4. k = w => job'[k].core_id = c
    BY <2>2, <2>3, WokenFields
  <2>5. k # w
    BY <1>1, <1>5, <2>1, <2>4
  <2> QED
    BY <1>3, <2>1, <2>2, <2>3, <2>5 DEF WaitingIn
<1> SUFFICES ASSUME NEW j \in WaitingIn(job') PROVE OnTime(j)'
  BY DEF TurnComes, OnTime
<1>9. /\ j \in WaitingIn(job) /\ j \in WaitingIn(known)
      /\ job'[j].pause_time = job[j].pause_time
  BY <1>8
<1>10. w \in WaitingIn(known) /\ NotBehind(q, w, j)
  BY <1>4, <1>5, <1>6, <1>9, FirstIsAhead
<1>11. w \in AheadOf(QUEUE, job, j)
  <2>1. NotBehind(QUEUE, w, j)
    BY <1>0, <1>10, BehindTakenOut
  <2>2. w \in WaitingIn(job)
    BY <1>3, <1>10 DEF WaitingIn
  <2> QED
    BY <2>1, <2>2 DEF AheadOf
<1>12. AheadOf(QUEUE', job', j) \subseteq AheadOf(QUEUE, job, j) \ {w}
  <2> SUFFICES ASSUME NEW k \in WaitingIn(job'), NotBehind(QUEUE', k, j)
               PROVE  k \in AheadOf(QUEUE, job, j) /\ k # w
    BY DEF AheadOf
  <2>1. NotBehind(QUEUE, k, j)
    BY <1>0, <1>4, BehindTakenOut
  <2> QED
    BY <1>8, <2>1 DEF AheadOf
<1>13. OnTime(j)
  BY <1>0, <1>9 DEF TurnComes, OnTime
<1> HIDE DEF c, known, q
<1> QED
  BY <1>0, <1>1, <1>2, <1>4, <1>7, <1>9, <1>11, <1>12, <1>13, TurnTaken DEF c

LEMMA ExpireTurns ==
    ASSUME TurnInv, SimInv', AllCounted', ClocksRun', ReportExpired
    PROVE  TurnComes'
<1>0. SimInv /\ IInv
  BY DEF TurnInv, SimInv
<1>1. CURRENT_SCHEME = "RR" /\ UNCHANGED quantum
  BY <1>0, ExpireCall
<1>2. PICK c \in Cores, e \in DOMAIN job, w \in Returned :
        /\ job[e].core_id = c /\ Running(e)
        /\ scheduler_quantum_expired(c, w)
        /\ quantum_clock' = RestartedClock(c)
  BY <1>0, ExpireCall
<1> DEFINE known == RecordsExpired(e)
           r == QueueWithout(e)
           q == OfferJob(r, known, e, known[e])
<1>3. /\ DOMAIN known = DOMAIN job
      /\ \A k \in DOMAIN job : k # e => known[k] = job[k]
      /\ Handed(c, known, -1, w)
  BY <1>0, <1>2, ExpireEffect
<1>4. /\ known[e].core_id = -1 /\ known[e] \in JobRecord
      /\ known[e].pause_time = time
  BY <1>0, <1>2, ExpiredFields
<1>5. /\ QUEUE' = q /\ w = FirstWaiting(q, known)
      /\ UNCHANGED <<CURRENT_SCHEME, num_cores, num_jobs, time>>
  BY <1>0, <1>2, ExpiredOffered DEF WakeOn
<1>6. /\ QUEUE \in Seq(Jobs) /\ IsInjective(QUEUE) /\ ToSet(QUEUE) = DOMAIN job
      /\ -1 \notin Jobs /\ -1 \notin Cores /\ DOMAIN job \subseteq Jobs
      /\ job \in [DOMAIN job -> JobRecord] /\ time \in Nat
  BY <1>0, StateFacts
<1>7. r \in Seq(Jobs) /\ IsInjective(r) /\ ToSet(r) = DOMAIN job \ {e}
  BY <1>6, TakeOutProperties DEF QueueWithout
<1>8. /\ Len(q) = Len(r) + 1
      /\ \A k \in 1..Len(r) : q[k] = r[k]
      /\ q[Len(r) + 1] = e
  <2> HIDE DEF r, known
  <2>1. e \in Jobs /\ e \notin ToSet(r)
    BY <1>6, <1>7
  <2> QED
    BY <1>1, <1>7, <2>1, OfferedLast
<1>9. q \in Seq(Jobs) /\ ToSet(q) = DOMAIN known
  <2>1. known \in [DOMAIN known -> JobRecord]
    BY <1>0, <1>2, <1>3, ExpiredRecord DEF IInv
  <2>2. ToSet(r) \subseteq DOMAIN known /\ e \in Jobs /\ e \notin ToSet(r)
    BY <1>3, <1>6, <1>7
  <2> HIDE DEF r, known
  <2>3. q \in Seq(Jobs) /\ ToSet(q) = ToSet(r) \cup {e}
    BY <1>4, <1>6, <1>7, <2>1, <2>2, OfferJobProperties
  <2> QED
    BY <1>3, <1>7, <2>3
<1> HIDE DEF r, q, known
<1>10. quantum_clock[c] >= 0
  BY <1>0, <1>1, <1>2 DEF TurnInv, ClocksRun, IInv, CoresMatch
<1>11. ASSUME NEW k \in WaitingIn(job')
       PROVE  /\ k \in WaitingIn(known) /\ k # w
              /\ job'[k] = known[k]
              /\ k # e => k \in WaitingIn(job) /\ job'[k] = job[k]
  <2>1. k \in DOMAIN known /\ job'[k].core_id = -1
    BY <1>3 DEF Handed, WaitingIn
  <2>2. job'[k] = IF k = w THEN Woken(known[k], c, -1) ELSE known[k]
    BY <1>3, <2>1 DEF Handed
  <2>3. known[k] \in JobRecord
    BY <1>3, <1>4, <1>6, <2>1
  <2>4. k = w => job'[k].core_id = c
    BY <1>6, <2>2, <2>3, WokenFields
  <2>5. k # w
    BY <1>2, <1>6, <2>1, <2>4
  <2> QED
    BY <1>3, <2>1, <2>2, <2>5 DEF WaitingIn
<1> SUFFICES ASSUME NEW j \in WaitingIn(job') PROVE OnTime(j)'
  BY DEF TurnComes, OnTime
<1>12. CASE j = e
  <2>1. FreshTurn'
    BY FreshTurns, PTL
  <2>2. job'[j].pause_time = time'
    BY <1>4, <1>5, <1>11, <1>12
  <2> QED
    BY <1>1, <1>5, <2>1, <2>2 DEF FreshTurn, OnTime
<1>13. CASE j # e
  <2>1. /\ j \in WaitingIn(job) /\ j \in WaitingIn(known)
        /\ job'[j].pause_time = job[j].pause_time
    BY <1>11, <1>13
  <2>2. w \in WaitingIn(known) /\ NotBehind(q, w, j)
    BY <1>5, <1>6, <1>9, <2>1, FirstIsAhead
  <2>3. ASSUME NEW k, NotBehind(q, k, j) PROVE k # e /\ NotBehind(QUEUE, k, j)
    <3>1. NotBehind(r, k, j)
      BY <1>7, <1>8, <1>13, <2>3, BehindAppended
    <3>2. k # e
      BY <1>7, <3>1, ElementsOf DEF NotBehind, Occurs
    <3> QED
      BY <1>0, <3>1, <3>2, BehindTakenOut DEF r
  <2>4. w \in AheadOf(QUEUE, job, j)
    <3>1. NotBehind(QUEUE, w, j) /\ w # e
      BY <2>2, <2>3
    <3>2. w \in WaitingIn(job)
      BY <1>3, <2>2, <3>1 DEF WaitingIn
    <3> QED
      BY <3>1, <3>2 DEF AheadOf
  <2>5. AheadOf(QUEUE', job', j) \subseteq AheadOf(QUEUE, job, j) \ {w}
    <3> SUFFICES ASSUME NEW k \in WaitingIn(job'), NotBehind(QUEUE', k, j)
                 PROVE  k \in AheadOf(QUEUE, job, j) /\ k # w
      BY DEF AheadOf
    <3>1. k # e /\ NotBehind(QUEUE, k, j)
      BY <1>5, <2>3
    <3> QED
      BY <1>11, <3>1 DEF AheadOf
  <2>6. OnTime(j)
    BY <1>1, <2>1 DEF TurnInv, TurnComes, OnTime
  <2> QED
    BY <1>0, <1>1, <1>2, <1>5, <1>10, <2>1, <2>4, <2>5, <2>6, TurnTaken
<1> QED
  BY <1>12, <1>13

LEMMA ArriveTurns ==
    ASSUME TurnInv, SimInv', AllCounted', ClocksRun', CURRENT_SCHEME = "RR", ReportArrival
    PROVE  TurnComes'
<1>0. SimInv /\ IInv /\ IInv' /\ TypeOK
  BY DEF TurnInv, SimInv, IInv
<1>1. UNCHANGED quantum
  BY <1>0, ArriveCall
<1>2. PICK x \in Jobs \ DOMAIN job, r \in RunTimes, p \in Priorities,
           core \in Cores \cup {-1} :
        /\ scheduler_new_job(x, r, p, core)
        /\ quantum_clock' = IF core \in Cores THEN RestartedClock(core)
                            ELSE quantum_clock
  BY <1>0, ArriveCall
<1>3. ~Preemptive
  BY DEF Preemptive
<1>4. /\ DOMAIN job' = DOMAIN job \cup {x}
      /\ \A k \in DOMAIN job : Passed(job[k], job'[k], core)
      /\ \A k \in DOMAIN job : job'[k].core_id = job[k].core_id
      /\ Entered(job'[x], r, p, core)
      /\ UNCHANGED <<CURRENT_SCHEME, num_cores, time>>
  BY <1>0, <1>2, <1>3, NewJobEffect
<1>5. /\ \/ IdleCores # {} /\ core \in Cores
         \/ IdleCores = {} /\ core = -1
      /\ num_jobs' = num_jobs + 1
      /\ QUEUE' = OfferJob(QUEUE, RecordsAtOffer, x, NewRecord(r, p))
  <2>1. IdleCores # {} => LowestIdle \in Cores
    <3>1. IdleCores \in SUBSET Nat /\ IdleCores \subseteq Cores
      BY <1>0, CoresFacts DEF IdleCores
    <3> QED
      BY <3>1, MinProperties DEF LowestIdle
  <2> QED
    BY <1>2, <1>3, <2>1 DEF scheduler_new_job
<1>6. /\ QUEUE \in Seq(Jobs) /\ IsInjective(QUEUE) /\ ToSet(QUEUE) = DOMAIN job
      /\ -1 \notin Cores /\ time \in Nat
  BY <1>0, StateFacts
<1> SUFFICES ASSUME NEW j \in WaitingIn(job') PROVE OnTime(j)'
  BY DEF TurnComes, OnTime
<1>7. j \in DOMAIN job \cup {x} /\ job'[j].core_id = -1
  BY <1>4 DEF WaitingIn
<1>8. IdleCores = {} /\ core = -1
  <2> SUFFICES ASSUME IdleCores # {}, core \in Cores PROVE FALSE
    BY <1>5
  <2>1. j # x
    BY <1>4, <1>6, <1>7 DEF Entered
  <2>2. Running(j)
    BY <1>0, <1>7, <2>1 DEF IInv, WorkConserving
  <2> QED
    BY <1>4, <1>7, <2>1, <2>2 DEF Running
<1>9. quantum_clock' = quantum_clock
  BY <1>2, <1>6, <1>8
<1>10. CASE j = x
  <2>1. FreshTurn'
    BY FreshTurns, PTL
  <2>2. job'[j].pause_time = time'
    BY <1>4, <1>8, <1>10 DEF Entered
  <2> QED
    BY <1>4, <2>1, <2>2 DEF FreshTurn, OnTime
<1>11. CASE j # x
  <2>1. /\ j \in DOMAIN job /\ j \in WaitingIn(job)
        /\ job'[j].pause_time = job[j].pause_time
    BY <1>4, <1>7, <1>8, <1>11 DEF WaitingIn, Passed
  <2>2. AheadOf(QUEUE', job', j) \in SUBSET AheadOf(QUEUE, job, j)
    <3> SUFFICES ASSUME NEW k \in WaitingIn(job'), NotBehind(QUEUE', k, j)
                 PROVE  k \in AheadOf(QUEUE, job, j)
      BY DEF AheadOf
    <3>1. /\ Len(QUEUE') = Len(QUEUE) + 1
          /\ \A m \in 1..Len(QUEUE) : QUEUE'[m] = QUEUE[m]
          /\ QUEUE'[Len(QUEUE) + 1] = x
      BY <1>5, <1>6, OfferedLast
    <3>2. NotBehind(QUEUE, k, j)
      BY <1>6, <1>11, <3>1, BehindAppended
    <3>3. k \in DOMAIN job
      BY <1>6, <3>2, ElementsOf DEF NotBehind, Occurs
    <3>4. k \in WaitingIn(job)
      BY <1>4, <3>3 DEF WaitingIn
    <3> QED
      BY <3>2, <3>4 DEF AheadOf
  <2>3. Cardinality(AheadOf(QUEUE', job', j)) <= Cardinality(AheadOf(QUEUE, job, j))
        /\ Cardinality(AheadOf(QUEUE', job', j)) \in Nat
    BY <1>0, <2>2, AheadFinite, FS_Subset, FS_CardinalityType
  <2>4. OnTime(j)
    BY <2>1 DEF TurnInv, TurnComes, OnTime
  <2> DEFINE L == LeftFor(j)
             M == LeftFor(j)'
             m == Rounds'
             n == Rounds
  <2>5. /\ num_jobs \in Nat /\ num_cores \in Nat \ {0}
        /\ IsFiniteSet(Cores) /\ quantum_clock \in [Cores -> Int]
        /\ quantum \in Nat /\ n \in Nat /\ L \in Int /\ job[j].pause_time \in Int
    BY <1>0, <2>1, JobsFinite, LeftForType, ClockFacts, StateFacts
  <2>6. m \in Nat /\ n <= m
    <3>1. /\ m = (num_jobs + 1 + num_cores - 1) \div num_cores
          /\ n = (num_jobs + num_cores - 1) \div num_cores
      BY <1>4, <1>5 DEF Rounds
    <3>2. num_jobs + 1 \in Nat
      BY <2>5
    <3> QED
      BY <2>5, <3>1, <3>2, RoundsFacts
  <2>7. M \in Int /\ L <= M
    <3>1. /\ M = job[j].pause_time + quantum * (m - 1) - time
          /\ L = job[j].pause_time + quantum * (n - 1) - time
      BY <1>1, <1>4, <2>1 DEF LeftFor
    <3>2. /\ quantum * (m - 1) \in Int /\ quantum * (n - 1) \in Int
          /\ quantum * (m - 1) >= quantum * (n - 1)
      <4> HIDE DEF m, n
      <4>1. quantum * (m - n) >= 0
        BY <2>5, <2>6
      <4> QED
        BY <2>5, <2>6, <4>1
    <3> HIDE DEF L, M, m, n
    <3> QED
      <4> DEFINE a == quantum * (m - 1)
                 b == quantum * (n - 1)
      <4>1. /\ M = job[j].pause_time + a - time
            /\ L = job[j].pause_time + b - time
        BY <3>1
      <4>2. a \in Int /\ b \in Int /\ a >= b
        BY <3>2
      <4>3. time \in Int /\ job[j].pause_time \in Int
        BY <1>6, <2>5
      <4> HIDE DEF a, b
      <4> QED
        BY <4>1, <4>2, <4>3
  <2>8. Turns(Cores, quantum_clock, quantum, LeftFor(j), Rounds)'
            = Turns(Cores, quantum_clock, quantum, M, m)
    BY <1>1, <1>4, <1>9 DEF Cores
  <2> HIDE DEF L, M, m, n
  <2>9. Cardinality(Turns(Cores, quantum_clock, quantum, L, n))
            <= Cardinality(Turns(Cores, quantum_clock, quantum, M, m))
    BY <2>5, <2>6, <2>7, TurnsKept
  <2>10. /\ Cardinality(Turns(Cores, quantum_clock, quantum, L, n)) \in Nat
         /\ Cardinality(Turns(Cores, quantum_clock, quantum, M, m)) \in Nat
    BY <2>5, <2>6, TurnsFinite
  <2>11. Cardinality(AheadOf(QUEUE, job, j)) <= Cardinality(Turns(Cores, quantum_clock, quantum, L, n))
    BY <2>4 DEF OnTime, L, n
  <2>12. Cardinality(AheadOf(QUEUE', job', j)) <= Cardinality(Turns(Cores, quantum_clock, quantum, M, m))
    BY <1>0, <2>3, <2>9, <2>10, <2>11, AheadFinite
  <2> QED
    BY <2>8, <2>12 DEF OnTime
<1> QED
  BY <1>10, <1>11

LEMMA RunUnitTurns ==
    ASSUME TurnInv, CURRENT_SCHEME = "RR", RunUnit
    PROVE  TurnComes'
<1>0. SimInv
  BY DEF TurnInv
<1>1. /\ time' = time + 1
      /\ UNCHANGED <<num_cores, active, QUEUE, job, num_jobs, quantum>>
  BY <1>0, RunUnitEffect
<1> SUFFICES ASSUME NEW j \in WaitingIn(job) PROVE OnTime(j)'
  BY <1>1 DEF TurnComes, OnTime
<1>2. OnTime(j)
  BY DEF TurnInv, TurnComes, OnTime
<1>3. \A c \in Cores : quantum_clock'[c] = quantum_clock[c] - 1
  BY <1>0, AllCoresBusy, ClockOfUnit
<1>4. /\ quantum_clock \in [Cores -> Int] /\ quantum \in Nat /\ Rounds \in Nat
      /\ LeftFor(j) \in Int /\ job[j].pause_time \in Int /\ time \in Nat
  BY <1>0, ClockFacts, JobsFinite, LeftForType
<1>5. LeftFor(j)' = LeftFor(j) - 1
  <2>1. LeftFor(j)' = job[j].pause_time + quantum * (Rounds - 1) - (time + 1)
    BY <1>1 DEF LeftFor, Rounds
  <2>2. quantum * (Rounds - 1) \in Int
    BY <1>4
  <2> QED
    BY <1>4, <2>1, <2>2 DEF LeftFor
<1> DEFINE new == quantum_clock'
           L == LeftFor(j)
           n == Rounds
<1>6. Turns(Cores, quantum_clock, quantum, LeftFor(j), Rounds)'
            = Turns(Cores, new, quantum, L - 1, n)
  BY <1>1, <1>5 DEF Cores, Rounds
<1>7. Turns(Cores, new, quantum, L - 1, n) = Turns(Cores, quantum_clock, quantum, L, n)
  <2> HIDE DEF new, L, n
  <2>1. \A c \in Cores : new[c] = quantum_clock[c] - 1
    BY <1>3 DEF new
  <2>2. L \in Int /\ n \in Nat
    BY <1>4 DEF L, n
  <2> QED
    BY <1>4, <2>1, <2>2, TurnsPass
<1> QED
  BY <1>1, <1>2, <1>6, <1>7 DEF OnTime

-----------------------------------------------------------------------------
LEMMA TurnInitInvariant == SimInit => TurnInv
<1> SUFFICES ASSUME SimInit PROVE TurnInv
  OBVIOUS
<1>1. SimInv
  BY SimInitInvariant
<1>2. DOMAIN job = {} /\ num_jobs = 0 /\ active = [c \in Cores |-> -1]
  BY DEF SimInit, Start, scheduler_start_up
<1>3. AllCounted
  BY <1>2, FS_EmptySet DEF AllCounted
<1>4. ClocksRun
  BY <1>2 DEF ClocksRun
<1>5. TurnComes
  BY <1>2 DEF TurnComes, WaitingIn
<1> QED
  BY <1>1, <1>3, <1>4, <1>5 DEF TurnInv

LEMMA TurnNextInvariant == TurnInv /\ [SimNext]_simVars => TurnInv'
<1> SUFFICES ASSUME TurnInv, [SimNext]_simVars PROVE TurnInv'
  OBVIOUS
<1>0. SimInv /\ SimInv'
  BY SimNextInvariant DEF TurnInv
<1>1. CASE ReportFinished
  <2>1. CURRENT_SCHEME' = CURRENT_SCHEME
    BY <1>0, <1>1, FinishCall DEF scheduler_job_finished
  <2> QED
    BY <1>0, <1>1, <2>1, FinishCounted, FinishClocks, FinishTurns DEF TurnInv
<1>2. CASE ReportExpired
  BY <1>0, <1>2, ExpireCounted, ExpireClocks, ExpireTurns DEF TurnInv
<1>3. CASE ReportArrival
  <2>1. CURRENT_SCHEME' = CURRENT_SCHEME
    <3>1. PICK j \in Jobs \ DOMAIN job, r \in RunTimes, p \in Priorities,
               core \in Cores \cup {-1} : scheduler_new_job(j, r, p, core)
      BY <1>0, <1>3, ArriveCall
    <3> QED
      BY <3>1 DEF scheduler_new_job
  <2> QED
    BY <1>0, <1>3, <2>1, ArriveCounted, ArriveClocks, ArriveTurns DEF TurnInv
<1>4. CASE RunUnit
  <2>1. UNCHANGED <<CURRENT_SCHEME, job, num_jobs>>
    BY <1>0, <1>4, RunUnitEffect
  <2>2. AllCounted'
    BY <2>1 DEF TurnInv, AllCounted
  <2> QED
    BY <1>0, <1>4, <2>1, <2>2, RunUnitClocks, RunUnitTurns DEF TurnInv
<1>5. CASE \/ NoMoreFinished \/ NoMoreExpired \/ NoMoreArrivals \/ CleanUp
           \/ UNCHANGED simVars
  <2>1. /\ UNCHANGED <<CURRENT_SCHEME, num_cores, job, num_jobs, time, quantum, quantum_clock>>
        /\ QUEUE' = QUEUE
    <3>1. UNCHANGED <<CURRENT_SCHEME, num_cores, job, num_jobs, time, quantum, quantum_clock>>
      BY <1>5 DEF NoMoreFinished, NoMoreExpired, NoMoreArrivals, CleanUp,
                  scheduler_clean_up, simVars, schedVars
    <3>2. CASE CleanUp
      BY <1>0, <3>2, NothingLeft DEF CleanUp, scheduler_clean_up
    <3>3. CASE NoMoreFinished \/ NoMoreExpired \/ NoMoreArrivals \/ UNCHANGED simVars
      BY <3>3 DEF NoMoreFinished, NoMoreExpired, NoMoreArrivals, simVars, schedVars
    <3> QED
      BY <1>5, <3>1, <3>2, <3>3
  <2>2. AllCounted'
    BY <2>1 DEF TurnInv, AllCounted
  <2>3. CURRENT_SCHEME = "RR" => ClocksRun'
    BY <1>5, QuietClocks
  <2>4. CURRENT_SCHEME = "RR" => TurnComes'
    <3>1. Cores' = Cores /\ Rounds' = Rounds
      BY <2>1 DEF Cores, Rounds
    <3>2. \A j \in WaitingIn(job) : LeftFor(j)' = LeftFor(j)
      BY <2>1, <3>1 DEF LeftFor
    <3> QED
      BY <2>1, <3>1, <3>2 DEF TurnInv, TurnComes
  <2> QED
    BY <1>0, <2>1, <2>2, <2>3, <2>4 DEF TurnInv
<1> QED
  BY <1>1, <1>2, <1>3, <1>4, <1>5 DEF SimNext

(* Every waiting job has its turn before its time is up: a core that keeps *)
(* its job longer than a quantum, a clock that is not restarted when a     *)
(* core changes hands, or a job that is put ahead of one that waits would  *)
(* leave somebody with too few turns.                                      *)
THEOREM TurnInvariant == SimSpec => []TurnInv
<1> QED
  BY TurnInitInvariant, TurnNextInvariant, PTL DEF SimSpec

(* With round robin no job waits longer for its next turn than the other   *)
(* jobs need for theirs (libscheduler.c:340-371), whatever the number of   *)
(* jobs and cores, the quantum and the times of arrival.                   *)
THEOREM RoundRobinFair == SimSpec => []RoundRobinBound
<1>1. TurnInv => RoundRobinBound
  <2> SUFFICES ASSUME TurnInv, phase = "run", CURRENT_SCHEME = "RR",
                      NEW j \in DOMAIN job, ~Running(j)
               PROVE  time - job[j].pause_time
                    < quantum * ((num_jobs + num_cores - 1) \div num_cores - 1)
    BY DEF RoundRobinBound
  <2>1. SimInv /\ ClocksRun /\ TurnComes /\ j \in WaitingIn(job)
    BY DEF TurnInv, WaitingIn, Running
  <2>2. LeftFor(j) >= 1
    BY <2>1, TurnLeft
  <2>3. job[j].pause_time \in Int /\ time \in Nat /\ quantum * (Rounds - 1) \in Int
    BY <2>1, JobsFinite, LeftForType
  <2>4. LeftFor(j) = job[j].pause_time + quantum * (Rounds - 1) - time
    BY DEF LeftFor
  <2>5. time - job[j].pause_time < quantum * (Rounds - 1)
    BY <2>2, <2>3, <2>4
  <2> QED
    BY <2>5 DEF Rounds
<1> QED
  BY <1>1, TurnInvariant, PTL
-----------------------------------------------------------------------------
(* The run of a file.                                                      *)

(* The entries of the array are still those of the file.                   *)
FromFile ==
    \A k \in 1..active_jobs :
        /\ jobs[k].job_id + 1 \in DOMAIN workload.lines
        /\ jobs[k].arrival_time = workload.lines[jobs[k].job_id + 1].arrival_time
        /\ jobs[k].run_time <= workload.lines[jobs[k].job_id + 1].run_time

(* After the first phase the program knows that there is a job.            *)
JobsLeft == phase \in {"quantum", "arrive", "run"} => active_jobs > 0

(* The program would be within its time if a job ran in every unit from    *)
(* now on.                                                                 *)
OnTrack ==
    IF workload.lines = <<>>
    THEN time = 0
    ELSE \E k \in DOMAIN workload.lines :
            time + Cardinality(StillNeeded)
                <= workload.lines[k].arrival_time + Cardinality(Asked(workload.lines))

HorizonInv ==
    /\ SimInv
    /\ workload \in Workloads
    /\ FromFile
    /\ JobsLeft
    /\ OnTrack

(* What a step may do to the array: entries go and move, and the time that *)
(* a job still needs does not grow.                                        *)
Carried ==
    \A l \in 1..active_jobs' : \E k \in 1..active_jobs :
        /\ jobs'[l].job_id = jobs[k].job_id
        /\ jobs'[l].arrival_time = jobs[k].arrival_time
        /\ jobs'[l].run_time <= jobs[k].run_time

LEMMA FinishCarries ==
    ASSUME SimInv, ReportFinished
    PROVE  /\ Carried /\ time' = time /\ active_jobs' = active_jobs - 1
           /\ phase' \notin {"quantum", "arrive", "run"}
<1>1. PICK k \in Used, w \in Returned :
        /\ scheduler_job_finished(jobs[k].core_id, jobs[k].job_id, w)
        /\ jobs' = set_active_job(w, jobs[k].core_id, Deleted(k))
        /\ phase' = IF Rejected(w, Deleted(k)) THEN "invalid job" ELSE phase
  BY DEF ReportFinished
<1>2. /\ phase = "finish" /\ active_jobs \in Nat /\ i \in Nat /\ i >= 1
      /\ jobs \in Seq(JobEntry)
  BY ArrayFacts DEF ReportFinished
<1>3. k \in 1..active_jobs /\ jobs[k].run_time = 0
  <2>1. k \in i..active_jobs /\ jobs[k].run_time = 0
    BY <1>1 DEF Used
  <2> QED
    BY <1>2, <2>1
<1>4. Refilled(jobs', k, w)
  BY <1>1, <1>3, FinishedEntries
<1>5. active_jobs' = active_jobs - 1
  BY <1>4 DEF Refilled, active_jobs
<1>6. ASSUME NEW l \in 1..(active_jobs - 1)
      PROVE  /\ Source(k, l) \in 1..active_jobs
             /\ jobs'[l].job_id = jobs[Source(k, l)].job_id
             /\ jobs'[l].arrival_time = jobs[Source(k, l)].arrival_time
             /\ jobs'[l].run_time <= jobs[Source(k, l)].run_time
  <2>1. Source(k, l) \in 1..active_jobs
    BY <1>2, <1>3, DeletedEntries
  <2>2. jobs[Source(k, l)] \in JobEntry /\ jobs[Source(k, l)].run_time \in Nat
    BY <2>1, ArrayFacts
  <2>3. SameJob(jobs'[l], jobs[Source(k, l)])
    BY <1>4, <2>2 DEF Refilled, SameJob, JobEntry
  <2> QED
    BY <2>1, <2>2, <2>3 DEF SameJob
<1>7. Carried
  BY <1>5, <1>6 DEF Carried
<1>8. time' = time
  BY <1>1 DEF scheduler_job_finished
<1> QED
  BY <1>1, <1>2, <1>5, <1>7, <1>8

LEMMA ExpireCarries ==
    ASSUME SimInv, ReportExpired
    PROVE  Carried /\ time' = time /\ active_jobs' = active_jobs
<1>1. PICK c \in Expired, w \in Returned :
        /\ scheduler_quantum_expired(c, w)
        /\ jobs' = set_active_job(w, c, [jobs EXCEPT ![Min(On(c))].core_id = -1])
  BY DEF ReportExpired
<1> DEFINE m == Min(On(c))
<1>2. m \in 1..active_jobs /\ jobs[m].core_id = c
  <2>1. On(c) \in SUBSET Nat /\ On(c) # {}
    BY <1>1 DEF Expired, On
  <2>2. m \in On(c)
    BY <2>1, MinProperties
  <2> QED
    BY <2>2 DEF On
<1>3. i \in Nat /\ i >= 1 /\ -1 \notin Cores /\ num_cores \in Nat
  BY ArrayFacts, StateFacts DEF SimInv
<1>4. c # -1
  <2>1. c \in (i - 1)..(num_cores - 1)
    BY <1>1 DEF Expired
  <2> QED
    BY <1>3, <2>1
<1>5. Rotated(jobs', m, w)
  BY <1>1, <1>2, <1>4, ExpiredEntries DEF Moved
<1>6. active_jobs' = active_jobs
  BY <1>5 DEF Rotated, active_jobs
<1>7. Carried
  <2>1. \A l \in 1..active_jobs : jobs[l].run_time \in Nat
    BY ArrayFacts
  <2> QED
    BY <1>5, <1>6, <2>1 DEF Carried, Rotated, SameJob
<1>8. time' = time
  BY <1>1 DEF scheduler_quantum_expired
<1> QED
  BY <1>6, <1>7, <1>8

LEMMA ArriveCarries ==
    ASSUME SimInv, ReportArrival
    PROVE  Carried /\ time' = time /\ active_jobs' = active_jobs
<1>1. PICK k \in Arriving, core \in Returned :
        /\ scheduler_new_job(jobs[k].job_id, jobs[k].run_time, jobs[k].priority, core)
        /\ jobs' = HandedOver(k, core)
  BY DEF ReportArrival
<1>2. active_jobs \in Nat /\ \A l \in 1..active_jobs : jobs[l] \in JobEntry
  BY ArrayFacts
<1>3. active_jobs' = active_jobs
  <2>1. jobs' = [l \in 1..active_jobs |-> HandedOver(k, core)[l]]
    BY <1>1 DEF HandedOver
  <2> QED
    BY <1>2, <2>1 DEF active_jobs
<1>4. ASSUME NEW l \in 1..active_jobs
      PROVE  /\ jobs'[l].job_id = jobs[l].job_id
             /\ jobs'[l].arrival_time = jobs[l].arrival_time
             /\ jobs'[l].run_time <= jobs[l].run_time
  <2>1. jobs[l] \in JobEntry /\ jobs[l].run_time \in Nat
    BY <1>2, ArrayFacts
  <2>2. CASE l = k
    <3>1. jobs'[l] =
            [jobs[l] EXCEPT !.core_id = IF core \in Cores THEN core ELSE @,
                            !.arrived = 1]
      BY <1>1, <2>2 DEF HandedOver
    <3> QED
      BY <2>1, <3>1 DEF JobEntry
  <2>3. CASE l # k
    <3>1. jobs'[l] \in {jobs[l], [jobs[l] EXCEPT !.core_id = -1]}
      BY <1>1, <2>3 DEF HandedOver
    <3> QED
      BY <2>1, <3>1 DEF JobEntry
  <2> QED
    BY <2>2, <2>3
<1>5. Carried
  BY <1>3, <1>4 DEF Carried
<1>6. time' = time
  BY <1>1 DEF scheduler_new_job
<1> QED
  BY <1>3, <1>5, <1>6

LEMMA UnitCarries ==
    ASSUME SimInv, RunUnit
    PROVE  /\ Carried /\ time' = time + 1 /\ phase' = "finish" /\ phase = "run"
           /\ active_jobs' = active_jobs
<1>1. active_jobs' = active_jobs
  BY RunUnitEffect DEF active_jobs
<1>2. \A k \in 1..active_jobs : jobs[k].run_time \in Nat
  BY ArrayFacts
<1>3. Carried
  BY <1>1, <1>2, RunUnitEffect DEF Carried
<1> QED
  BY <1>1, <1>3, RunUnitEffect

(* The steps that pass no time.                                            *)
LEMMA QuietCarries ==
    ASSUME SimInv, [SimNext]_simVars, ~RunUnit
    PROVE  Carried /\ time' = time
<1>1. CASE jobs' = jobs /\ time' = time
  <2>1. \A k \in 1..active_jobs : jobs[k].run_time \in Nat
    BY ArrayFacts
  <2> QED
    BY <1>1, <2>1 DEF Carried, active_jobs
<1>2. CASE NoMoreFinished \/ NoMoreExpired \/ NoMoreArrivals \/ UNCHANGED simVars
  BY <1>1, <1>2 DEF NoMoreFinished, NoMoreExpired, NoMoreArrivals, simVars, schedVars
<1>3. CASE CleanUp
  BY <1>1, <1>3 DEF CleanUp, scheduler_clean_up
<1> QED
  BY <1>2, <1>3, FinishCarries, ExpireCarries, ArriveCarries DEF SimNext

LEMMA JobsStillLeft ==
    ASSUME SimInv, JobsLeft, [SimNext]_simVars
    PROVE  JobsLeft'
<1>1. CASE ReportFinished
  BY <1>1, FinishCarries DEF JobsLeft
<1>2. CASE NoMoreFinished
  <2>1. active_jobs \in Nat /\ active_jobs' = active_jobs
    BY <1>2, ArrayFacts DEF NoMoreFinished, active_jobs
  <2> QED
    BY <1>2, <2>1 DEF NoMoreFinished, Goto, JobsLeft
<1>3. CASE ReportExpired
  BY <1>3, ExpireCarries DEF ReportExpired, JobsLeft
<1>4. CASE NoMoreExpired \/ NoMoreArrivals
  BY <1>4 DEF NoMoreExpired, NoMoreArrivals, JobsLeft, active_jobs
<1>5. CASE ReportArrival
  BY <1>5, ArriveCarries DEF ReportArrival, JobsLeft
<1>6. CASE RunUnit
  BY <1>6, UnitCarries DEF JobsLeft
<1>7. CASE CleanUp
  BY <1>7 DEF CleanUp, JobsLeft
<1>8. CASE UNCHANGED simVars
  BY <1>8 DEF simVars, JobsLeft, active_jobs
<1> QED
  BY <1>1, <1>2, <1>3, <1>4, <1>5, <1>6, <1>7, <1>8 DEF SimNext

-----------------------------------------------------------------------------
(* Counting the units that are asked for.                                  *)

LEMMA FileFacts ==
    ASSUME NEW w \in Workloads
    PROVE  /\ DOMAIN w.lines = 1..Len(w.lines) /\ Len(w.lines) \in Nat
           /\ w.lines # <<>> => 1 \in DOMAIN w.lines
           /\ \A k \in DOMAIN w.lines :
                /\ w.lines[k].arrival_time \in Nat
                /\ w.lines[k].run_time \in Nat
<1>1. w.lines \in Seq([arrival_time : Nat, run_time : RunTimes, priority : Priorities])
  BY WorkloadAssumption
<1> DEFINE lines == w.lines
           L == [arrival_time : Nat, run_time : RunTimes, priority : Priorities]
<1>2. \A line \in L : line.arrival_time \in Nat /\ line.run_time \in Nat
  BY SchedulerAssumption
<1>3. lines \in Seq(L)
  BY <1>1
<1> HIDE DEF lines, L
<1>4. DOMAIN lines = 1..Len(lines) /\ Len(lines) \in Nat
  BY <1>3
<1>5. lines # <<>> => 1 \in DOMAIN lines
  BY <1>3, <1>4
<1>6. ASSUME NEW k \in DOMAIN lines
      PROVE  lines[k].arrival_time \in Nat /\ lines[k].run_time \in Nat
  <2>1. lines[k] \in L
    BY <1>3, <1>4
  <2> QED
    BY <1>2, <2>1
<1> QED
  BY <1>4, <1>5, <1>6 DEF lines

LEMMA AskedFinite ==
    ASSUME NEW w \in Workloads
    PROVE  IsFiniteSet(Asked(w.lines)) /\ Cardinality(Asked(w.lines)) \in Nat
<1> DEFINE lines == w.lines
           units == [k \in DOMAIN lines |-> {k - 1} \X (1..lines[k].run_time)]
           U == {units[k] : k \in DOMAIN lines}
<1>1. /\ DOMAIN lines = 1..Len(lines) /\ Len(lines) \in Nat
      /\ \A k \in DOMAIN lines : lines[k].run_time \in Nat
  BY FileFacts
<1>2. IsFiniteSet(DOMAIN lines)
  BY <1>1, FS_Interval
<1>3. units \in Surjection(DOMAIN lines, U)
  <2>1. units = [k \in DOMAIN lines |-> units[k]]
    OBVIOUS
  <2> HIDE DEF units
  <2> QED
    BY <2>1 DEF Surjection
<1>4. \A u \in U : IsFiniteSet(u)
  <2> SUFFICES ASSUME NEW k \in DOMAIN lines PROVE IsFiniteSet(units[k])
    OBVIOUS
  <2>1. IsFiniteSet({k - 1})
    BY FS_Singleton
  <2>2. IsFiniteSet(1..lines[k].run_time)
    <3>1. lines[k].run_time \in Int /\ 1 \in Int
      BY <1>1
    <3> HIDE DEF lines
    <3> QED
      BY <3>1, FS_Interval
  <2> QED
    BY <2>1, <2>2, FS_Product
<1>5. Asked(lines) = UNION U
  BY DEF Asked
<1> HIDE DEF units, U
<1>6. IsFiniteSet(U)
  BY <1>2, <1>3, FS_Surjection
<1>7. IsFiniteSet(UNION U)
  BY <1>4, <1>6, FS_UNION
<1> QED
  BY <1>5, <1>7, FS_CardinalityType

LEMMA InStillNeeded ==
    ASSUME NEW u
    PROVE  u \in StillNeeded <=>
             \E k \in 1..active_jobs :
                \E r \in 1..jobs[k].run_time : u = <<jobs[k].job_id, r>>
BY DEF StillNeeded

(* The jobs need no more than the file asked for.                          *)
LEMMA NeededAsked ==
    ASSUME SimInv, workload \in Workloads, FromFile
    PROVE  /\ StillNeeded \subseteq Asked(workload.lines)
           /\ IsFiniteSet(StillNeeded) /\ Cardinality(StillNeeded) \in Nat
           /\ Cardinality(StillNeeded) <= Cardinality(Asked(workload.lines))
<1> DEFINE lines == workload.lines
<1>1. ASSUME NEW k \in 1..active_jobs, NEW r \in 1..jobs[k].run_time
      PROVE  <<jobs[k].job_id, r>> \in Asked(lines)
  <2> DEFINE l == jobs[k].job_id + 1
  <2>1. jobs[k].job_id \in Nat /\ jobs[k].run_time \in Nat
    BY ArrayFacts, SchedulerAssumption
  <2>2. l \in DOMAIN lines /\ jobs[k].run_time <= lines[l].run_time
    BY DEF FromFile
  <2>3. lines[l].run_time \in Nat
    BY <2>2, FileFacts
  <2>4. r \in 1..lines[l].run_time
    BY <2>1, <2>2, <2>3
  <2>5. l - 1 = jobs[k].job_id
    BY <2>1
  <2>6. <<jobs[k].job_id, r>> \in {l - 1} \X (1..lines[l].run_time)
    BY <2>4, <2>5
  <2> HIDE DEF l
  <2> QED
    BY <2>2, <2>6 DEF Asked
<1>2. StillNeeded \subseteq Asked(lines)
  BY <1>1, InStillNeeded
<1>3. IsFiniteSet(Asked(lines)) /\ Cardinality(Asked(lines)) \in Nat
  BY AskedFinite
<1>4. IsFiniteSet(StillNeeded) /\ Cardinality(StillNeeded) <= Cardinality(Asked(lines))
  BY <1>2, <1>3, FS_Subset
<1> QED
  BY <1>2, <1>4, FS_CardinalityType

(* What a step carries over is from the file, and needs no more.           *)
LEMMA FileCarried ==
    ASSUME SimInv, SimInv', FromFile, Carried, workload \in Workloads, UNCHANGED workload
    PROVE  FromFile' /\ StillNeeded' \subseteq StillNeeded
<1>1. ASSUME NEW l \in 1..active_jobs'
      PROVE  \E k \in 1..active_jobs :
                /\ jobs'[l].job_id = jobs[k].job_id
                /\ jobs'[l].arrival_time = jobs[k].arrival_time
                /\ jobs'[l].run_time <= jobs[k].run_time
                /\ jobs'[l].run_time \in Nat /\ jobs[k].run_time \in Nat
  <2>1. PICK k \in 1..active_jobs :
                /\ jobs'[l].job_id = jobs[k].job_id
                /\ jobs'[l].arrival_time = jobs[k].arrival_time
                /\ jobs'[l].run_time <= jobs[k].run_time
    BY DEF Carried
  <2>2. jobs[k].run_time \in Nat
    BY ArrayFacts
  <2>3. jobs'[l].run_time \in Nat
    <3>1. (jobs \in Seq(JobEntry))'
      BY DEF SimInv, SimTypeOK, JobEntry
    <3>2. jobs'[l] \in JobEntry'
      BY <3>1 DEF active_jobs
    <3> QED
      BY <3>2 DEF JobEntry
  <2> QED
    BY <2>1, <2>2, <2>3
<1>2. FromFile'
  <2> SUFFICES ASSUME NEW l \in 1..active_jobs'
               PROVE  /\ jobs'[l].job_id + 1 \in DOMAIN workload.lines
                      /\ jobs'[l].arrival_time =
                            workload.lines[jobs'[l].job_id + 1].arrival_time
                      /\ jobs'[l].run_time <=
                            workload.lines[jobs'[l].job_id + 1].run_time
    BY DEF FromFile
  <2>1. PICK k \in 1..active_jobs :
                /\ jobs'[l].job_id = jobs[k].job_id
                /\ jobs'[l].arrival_time = jobs[k].arrival_time
                /\ jobs'[l].run_time <= jobs[k].run_time
                /\ jobs'[l].run_time \in Nat /\ jobs[k].run_time \in Nat
    BY <1>1
  <2> DEFINE line == jobs[k].job_id + 1
  <2>2. /\ line \in DOMAIN workload.lines
        /\ jobs[k].arrival_time = workload.lines[line].arrival_time
        /\ jobs[k].run_time <= workload.lines[line].run_time
    BY DEF FromFile
  <2>3. workload.lines[line].run_time \in Nat
    BY <2>2, FileFacts
  <2>4. jobs'[l].job_id + 1 = line
    BY <2>1
  <2> HIDE DEF line
  <2> QED
    BY <2>1, <2>2, <2>3, <2>4
<1>3. ASSUME NEW l \in 1..active_jobs', NEW r \in 1..jobs'[l].run_time
      PROVE  <<jobs'[l].job_id, r>> \in StillNeeded
  <2>1. PICK k \in 1..active_jobs :
                /\ jobs'[l].job_id = jobs[k].job_id
                /\ jobs'[l].run_time <= jobs[k].run_time
                /\ jobs'[l].run_time \in Nat /\ jobs[k].run_time \in Nat
    BY <1>1
  <2>2. r \in 1..jobs[k].run_time
    BY <2>1
  <2> QED
    BY <2>1, <2>2, InStillNeeded
<1>4. StillNeeded' \subseteq StillNeeded
  BY <1>3 DEF StillNeeded
<1> QED
  BY <1>2, <1>4

-----------------------------------------------------------------------------
(* One unit of time.                                                       *)

(* Who runs needs a unit less.                                             *)
LEMMA UnitUsed ==
    ASSUME SimInv, SimInv', RunUnit, NEW k \in Working,
           workload \in Workloads, FromFile, UNCHANGED workload
    PROVE  Cardinality(StillNeeded') <= Cardinality(StillNeeded) - 1
<1>1. k \in 1..active_jobs /\ jobs[k].core_id # -1
  BY DEF Working
<1>2. \A l \in 1..active_jobs :
        /\ jobs'[l].job_id = jobs[l].job_id
        /\ jobs'[l].run_time = IF jobs[l].core_id # -1 THEN jobs[l].run_time - 1
                               ELSE jobs[l].run_time
        /\ jobs[l].run_time # 0
  BY RunUnitEffect
<1>3. active_jobs' = active_jobs /\ Carried
  BY UnitCarries
<1>4. \A l \in 1..active_jobs : jobs[l].run_time \in Nat
  BY ArrayFacts
<1> DEFINE u == <<jobs[k].job_id, jobs[k].run_time>>
<1>5. u \in StillNeeded
  <2>1. jobs[k].run_time \in 1..jobs[k].run_time
    BY <1>1, <1>2, <1>4
  <2> QED
    BY <1>1, <2>1, InStillNeeded
<1>6. u \notin StillNeeded'
  <2> SUFFICES ASSUME NEW l \in 1..active_jobs', NEW r \in 1..jobs'[l].run_time,
                      u = <<jobs'[l].job_id, r>>
               PROVE  FALSE
    BY DEF StillNeeded
  <2>1. l \in 1..active_jobs /\ jobs[l].job_id = jobs[k].job_id /\ r = jobs[k].run_time
    BY <1>2, <1>3
  <2>2. l = k
    BY <1>1, <2>1 DEF SimInv, EntriesDiffer
  <2>3. jobs'[l].run_time = jobs[k].run_time - 1
    BY <1>1, <1>2, <2>2
  <2> QED
    BY <1>1, <1>4, <2>1, <2>3
<1>7. StillNeeded' \subseteq StillNeeded
  BY <1>3, FileCarried
<1> HIDE DEF u
<1>8. IsFiniteSet(StillNeeded) /\ Cardinality(StillNeeded) \in Nat
  BY NeededAsked
<1>9. /\ IsFiniteSet(StillNeeded \ {u})
      /\ Cardinality(StillNeeded \ {u}) = Cardinality(StillNeeded) - 1
  BY <1>5, <1>8, FS_RemoveElement
<1>10. StillNeeded' \in SUBSET (StillNeeded \ {u})
  BY <1>6, <1>7
<1>11. Cardinality(StillNeeded') <= Cardinality(StillNeeded \ {u})
  BY <1>9, <1>10, FS_Subset
<1> QED
  BY <1>9, <1>11

(* When nobody runs some job is still to come.                             *)
LEMMA SomeoneToCome ==
    ASSUME SimInv, JobsLeft, phase = "run", Working = {}
    PROVE  \E k \in 1..active_jobs : jobs[k].arrival_time > time
<1>1. active_jobs \in Nat /\ active_jobs > 0 /\ 1 \in 1..active_jobs
  BY ArrayFacts DEF JobsLeft
<1>2. Alive = {}
  <2>1. IsFiniteSet(Alive)
    <3>1. IsFiniteSet(1..active_jobs)
      BY <1>1, FS_Interval
    <3>2. Alive \in SUBSET (1..active_jobs)
      BY DEF Alive
    <3> QED
      BY <3>1, <3>2, FS_Subset
  <2>2. Cardinality(Alive) \in Nat /\ jobs_alive = Cardinality(Alive)
    BY <2>1, FS_CardinalityType DEF SimInv, SimTypeOK
  <2>3. ~(jobs_alive > 0)
    BY CoresInUse
  <2>4. Cardinality(Alive) = 0
    BY <2>2, <2>3
  <2> QED
    BY <2>1, <2>4, FS_EmptySet
<1>3. jobs[1].arrived # 1
  BY <1>1, <1>2 DEF Alive
<1>4. ~Due(1)
  BY <1>1, <1>3 DEF SimInv, ArrivedWhenDue
<1>5. jobs[1].arrival_time \in Nat /\ time \in Nat
  BY <1>1, ArrayFacts, StateFacts DEF SimInv
<1>6. jobs[1].arrival_time > time
  BY <1>4, <1>5 DEF Due
<1> QED
  BY <1>1, <1>6

LEMMA OnTrackAfterUnit ==
    ASSUME HorizonInv, SimInv', RunUnit, UNCHANGED workload
    PROVE  OnTrack'
<1> DEFINE lines == workload.lines
           asked == Cardinality(Asked(lines))
<1>1. /\ SimInv /\ JobsLeft /\ FromFile /\ workload \in Workloads /\ OnTrack
      /\ lines' = lines /\ asked' = asked
  BY DEF HorizonInv
<1>2. phase = "run" /\ time' = time + 1 /\ Carried
  BY <1>1, UnitCarries
<1>3. FromFile'
  BY <1>1, <1>2, FileCarried
<1>4. /\ Cardinality(StillNeeded) \in Nat /\ asked \in Nat /\ time \in Nat
      /\ \A k \in DOMAIN lines : lines[k].arrival_time \in Nat
  BY <1>1, NeededAsked, AskedFinite, FileFacts, StateFacts DEF SimInv
<1>5. Cardinality(StillNeeded') \in Nat /\ Cardinality(StillNeeded') <= asked
  <2>1. /\ IsFiniteSet(StillNeeded') /\ StillNeeded' \subseteq StillNeeded
    <3>1. StillNeeded' \subseteq StillNeeded /\ IsFiniteSet(StillNeeded)
      BY <1>1, <1>2, FileCarried, NeededAsked
    <3> QED
      BY <3>1, FS_Subset
  <2>2. StillNeeded' \subseteq Asked(lines) /\ IsFiniteSet(Asked(lines))
    BY <1>1, <2>1, NeededAsked, AskedFinite
  <2> QED
    BY <2>1, <2>2, FS_Subset, FS_CardinalityType
<1>6. \E k \in DOMAIN lines :
        time' + Cardinality(StillNeeded') <= lines[k].arrival_time + asked
  <2>1. CASE Working # {}
    <3>1. Cardinality(StillNeeded') <= Cardinality(StillNeeded) - 1
      BY <1>1, <2>1, UnitUsed
    <3>2. lines # <<>>
      <4>1. PICK k \in 1..active_jobs : TRUE
        BY <2>1 DEF Working
      <4>2. jobs[k].job_id + 1 \in DOMAIN lines
        BY <1>1, <4>1 DEF FromFile
      <4> QED
        BY <4>2
    <3>3. PICK k \in DOMAIN lines :
            time + Cardinality(StillNeeded) <= lines[k].arrival_time + asked
      BY <1>1, <3>2 DEF OnTrack
    <3> HIDE DEF lines, asked
    <3> QED
      BY <1>2, <1>4, <1>5, <3>1, <3>3
  <2>2. CASE Working = {}
    <3>1. PICK k \in 1..active_jobs : jobs[k].arrival_time > time
      BY <1>1, <1>2, <2>2, SomeoneToCome
    <3> DEFINE line == jobs[k].job_id + 1
    <3>2. line \in DOMAIN lines /\ jobs[k].arrival_time = lines[line].arrival_time
      BY <1>1, <3>1 DEF FromFile
    <3> HIDE DEF line, lines, asked
    <3>3. lines[line].arrival_time \in Nat /\ lines[line].arrival_time > time
      BY <1>4, <3>1, <3>2
    <3>4. time' + Cardinality(StillNeeded') <= lines[line].arrival_time + asked
      BY <1>2, <1>4, <1>5, <3>3
    <3> QED
      BY <3>2, <3>4
  <2> QED
    BY <2>1, <2>2
<1>7. lines # <<>>
  BY <1>6
<1> QED
  BY <1>1, <1>6, <1>7 DEF OnTrack

-----------------------------------------------------------------------------
(* The whole run.                                                          *)

LEMMA StartIsInit == RunInit => SimInit
BY DEF RunInit, SimInit

LEMMA HorizonInit == RunInit => HorizonInv
<1> SUFFICES ASSUME RunInit PROVE HorizonInv
  OBVIOUS
<1> DEFINE lines == workload.lines
<1>1. SimInv
  BY StartIsInit, SimInitInvariant
<1>2. /\ workload \in Workloads /\ time = 0
      /\ jobs = [k \in 1..Len(lines) |->
                    [job_id |-> k - 1, arrival_time |-> lines[k].arrival_time,
                     run_time |-> lines[k].run_time,
                     priority |-> lines[k].priority,
                     core_id |-> -1, arrived |-> 0]]
      /\ phase \in {"finish", "done"}
  BY DEF RunInit, Start
<1>3. /\ DOMAIN lines = 1..Len(lines) /\ Len(lines) \in Nat
      /\ lines # <<>> => 1 \in DOMAIN lines
      /\ \A k \in DOMAIN lines :
            lines[k].arrival_time \in Nat /\ lines[k].run_time \in Nat
  BY <1>2, FileFacts
<1> HIDE DEF lines
<1>4. FromFile
  <2> SUFFICES ASSUME NEW k \in 1..active_jobs
               PROVE  /\ jobs[k].job_id + 1 \in DOMAIN lines
                      /\ jobs[k].arrival_time = lines[jobs[k].job_id + 1].arrival_time
                      /\ jobs[k].run_time <= lines[jobs[k].job_id + 1].run_time
    BY DEF FromFile, lines
  <2>1. k \in 1..Len(lines)
    BY <1>2, <1>3 DEF active_jobs
  <2>2. /\ jobs[k].job_id = k - 1 /\ jobs[k].arrival_time = lines[k].arrival_time
        /\ jobs[k].run_time = lines[k].run_time
    BY <1>2, <2>1
  <2>3. jobs[k].job_id + 1 = k
    BY <2>1, <2>2
  <2>4. lines[k].run_time \in Nat /\ k \in DOMAIN lines
    BY <1>3, <2>1
  <2> QED
    BY <2>2, <2>3, <2>4
<1>5. JobsLeft
  BY <1>2 DEF JobsLeft
<1>6. OnTrack
  <2>1. CASE lines = <<>>
    BY <1>2, <2>1 DEF OnTrack, lines
  <2>2. CASE lines # <<>>
    <3>1. 1 \in DOMAIN lines /\ lines[1].arrival_time \in Nat
      BY <1>3, <2>2
    <3> DEFINE needed == Cardinality(StillNeeded)
               asked == Cardinality(Asked(lines))
    <3>2. needed \in Nat /\ asked \in Nat /\ needed <= asked
      BY <1>1, <1>2, <1>4, NeededAsked, AskedFinite DEF lines
    <3> HIDE DEF needed, asked
    <3>3. time + needed <= lines[1].arrival_time + asked
      BY <1>2, <3>1, <3>2
    <3> QED
      BY <2>2, <3>1, <3>3 DEF OnTrack, lines, needed, asked
  <2> QED
    BY <2>1, <2>2
<1> QED
  BY <1>1, <1>2, <1>4, <1>5, <1>6 DEF HorizonInv

(* The steps that pass no time leave no more to be done.                   *)
LEMMA OnTrackMeanwhile ==
    ASSUME HorizonInv, SimInv', Carried, UNCHANGED <<time, workload>>
    PROVE  OnTrack'
<1> DEFINE lines == workload.lines
           asked == Cardinality(Asked(lines))
           needed == Cardinality(StillNeeded)
<1>1. SimInv /\ FromFile /\ workload \in Workloads /\ OnTrack
  BY DEF HorizonInv
<1>2. IsFiniteSet(StillNeeded) /\ needed \in Nat /\ asked \in Nat
  BY <1>1, NeededAsked, AskedFinite
<1>3. StillNeeded' \in SUBSET StillNeeded
  BY <1>1, FileCarried
<1>4. IsFiniteSet(StillNeeded') /\ needed' <= needed
  BY <1>2, <1>3, FS_Subset
<1>5. needed' \in Nat
  BY <1>4, FS_CardinalityType
<1>6. lines' = lines /\ asked' = asked /\ time' = time /\ time \in Nat
  BY <1>1, StateFacts DEF SimInv
<1>7. CASE lines = <<>>
  BY <1>1, <1>6, <1>7 DEF OnTrack
<1>8. CASE lines # <<>>
  <2>1. PICK k \in DOMAIN lines : time + needed <= lines[k].arrival_time + asked
    BY <1>1, <1>8 DEF OnTrack
  <2>2. lines[k].arrival_time \in Nat
    BY <1>1, FileFacts
  <2> HIDE DEF lines, asked, needed
  <2>3. time' + needed' <= lines[k].arrival_time + asked
    BY <1>2, <1>4, <1>5, <1>6, <2>1, <2>2
  <2> QED
    BY <1>6, <1>8, <2>3 DEF OnTrack, lines, asked, needed
<1> QED
  BY <1>7, <1>8

LEMMA HorizonNext == HorizonInv /\ [RunNext]_runVars => HorizonInv'
<1> SUFFICES ASSUME HorizonInv, [RunNext]_runVars PROVE HorizonInv'
  OBVIOUS
<1>1. [SimNext]_simVars /\ UNCHANGED workload
  BY DEF RunNext, runVars
<1>2. SimInv /\ JobsLeft /\ FromFile /\ workload \in Workloads
  BY DEF HorizonInv
<1>3. SimInv'
  BY <1>1, <1>2, SimNextInvariant
<1>4. JobsLeft'
  BY <1>1, <1>2, JobsStillLeft
<1>5. Carried
  BY <1>1, <1>2, QuietCarries, UnitCarries
<1>6. FromFile'
  BY <1>1, <1>2, <1>3, <1>5, FileCarried
<1>7. OnTrack'
  <2>1. CASE RunUnit
    BY <1>1, <1>3, <2>1, OnTrackAfterUnit
  <2>2. CASE ~RunUnit
    BY <1>1, <1>2, <1>3, <2>2, QuietCarries, OnTrackMeanwhile
  <2> QED
    BY <2>1, <2>2
<1> QED
  BY <1>1, <1>2, <1>3, <1>4, <1>6, <1>7 DEF HorizonInv

(* A run is a behaviour of the simulator, so that whatever is proved of    *)
(* SimSpec holds of the runs that have the workload beside them.           *)
THEOREM RunIsSimulator == RunSpec => SimSpec
<1>1. RunInit => SimInit
  BY DEF RunInit, SimInit
<1>2. [RunNext]_runVars => [SimNext]_simVars
  BY DEF RunNext, runVars
<1> QED
  BY <1>1, <1>2, PTL DEF RunSpec, SimSpec

(* In every state of a run the entries of the array are those of the file, *)
(* and the time that is left is enough for what the jobs still need: in    *)
(* each unit somebody runs, or somebody is still to come (simulator.c:     *)
(* 378-464).                                                               *)
THEOREM HorizonInvariant == RunSpec => []HorizonInv
<1> QED
  BY HorizonInit, HorizonNext, PTL DEF RunSpec

(* The program needs no more time than the last arrival and all the units  *)
(* that the file asks for, with any file, scheme, quantum and number of    *)
(* cores (simulator.c:248-464).                                            *)
THEOREM InTime == RunSpec => []EndsInTime
<1>1. HorizonInv => EndsInTime
  <2> SUFFICES ASSUME HorizonInv PROVE EndsInTime
    OBVIOUS
  <2> DEFINE lines == workload.lines
             asked == Cardinality(Asked(lines))
             needed == Cardinality(StillNeeded)
  <2>1. SimInv /\ FromFile /\ workload \in Workloads /\ OnTrack
    BY DEF HorizonInv
  <2>2. needed \in Nat /\ asked \in Nat /\ time \in Nat
    BY <2>1, NeededAsked, AskedFinite, StateFacts DEF SimInv
  <2>3. CASE lines = <<>>
    BY <2>1, <2>3 DEF OnTrack, EndsInTime
  <2>4. CASE lines # <<>>
    <3>1. PICK k \in DOMAIN lines : time + needed <= lines[k].arrival_time + asked
      BY <2>1, <2>4 DEF OnTrack
    <3>2. lines[k].arrival_time \in Nat
      BY <2>1, FileFacts
    <3> HIDE DEF lines, asked, needed
    <3>3. time <= lines[k].arrival_time + asked
      BY <2>2, <3>1, <3>2
    <3> QED
      BY <2>4, <3>3 DEF EndsInTime, lines, asked
  <2> QED
    BY <2>3, <2>4
<1> QED
  BY <1>1, HorizonInvariant, PTL

LEMMA NeverTooLate ==
    ASSUME MaxTimeSuffices, HorizonInv, EndsInTime
    PROVE  time <= MaxTime
<1> DEFINE lines == workload.lines
           asked == Cardinality(Asked(lines))
<1>1. workload \in Workloads /\ time \in Nat /\ MaxTime \in Nat
  BY StateFacts, SchedulerAssumption DEF HorizonInv, SimInv
<1>2. CASE lines = <<>>
  BY <1>1, <1>2 DEF EndsInTime
<1>3. CASE lines # <<>>
  <2>1. PICK k \in DOMAIN lines : time <= lines[k].arrival_time + asked
    BY <1>3 DEF EndsInTime
  <2>2. lines[k].arrival_time \in Nat /\ asked \in Nat
    BY <1>1, FileFacts, AskedFinite
  <2>3. lines[k].arrival_time + asked <= MaxTime
    BY <1>1 DEF MaxTimeSuffices
  <2> HIDE DEF lines, asked
  <2> QED
    BY <1>1, <2>1, <2>2, <2>3
<1> QED
  BY <1>2, <1>3

(* So the program is a caller that the library is meant for, from its      *)
(* start to its end (libscheduler.c:97-101, 157-158): MaxTime bounds the   *)
(* library's own clock, and a run stays below it.                          *)
THEOREM RunHonoursScheduler ==
    ASSUME MaxTimeSuffices
    PROVE  RunSpec => HonoursScheduler
<1>1. RunInit => SchedInit
  BY StartIsInit, StartIsSchedInit
<1>2. HorizonInv /\ EndsInTime => time <= MaxTime
  BY NeverTooLate
<1>3. HorizonInv /\ (time <= MaxTime)' /\ [RunNext]_runVars => [SchedNext]_schedVars
  <2> SUFFICES ASSUME HorizonInv, (time <= MaxTime)', [RunNext]_runVars
               PROVE  [SchedNext]_schedVars
    OBVIOUS
  <2>1. [SimNext]_simVars /\ SimInv
    BY DEF RunNext, runVars, HorizonInv
  <2> QED
    BY <2>1, StepRefines
<1> QED
  BY <1>1, <1>2, <1>3, HorizonInvariant, InTime, PTL
  DEF RunSpec, SchedSpec, HonoursScheduler

(* The jobs of the file are dispatched as Dispatcher says: the program,    *)
(* the library and the list together keep the promise of the scheme        *)
(* (simulator.c:248-464, libscheduler.c:168-381), PSJF on one core.        *)
THEOREM ProgramDispatches ==
    ASSUME MaxTimeSuffices,
           \A config \in Configurations : config[1] = "PSJF" => config[2] = 1
    PROVE  RunSpec => ImplementsDispatcher
<1>1. RunSpec => HonoursScheduler
  BY RunHonoursScheduler
<1>2. SchedSpec => ImplementsDispatcher
  BY DispatcherImplemented
<1> QED
  BY <1>1, <1>2 DEF HonoursScheduler

-----------------------------------------------------------------------------
(* Every step goes forward.                                                *)

LEMMA OrderOfPhases ==
    /\ Later("finish", "quantum") /\ Later("finish", "arrive") /\ Later("finish", "done")
    /\ Later("quantum", "arrive") /\ Later("arrive", "run") /\ Later("done", "ended")
<1>1. /\ PhaseOrder[1] = "finish" /\ PhaseOrder[2] = "quantum" /\ PhaseOrder[3] = "arrive"
      /\ PhaseOrder[4] = "run" /\ PhaseOrder[5] = "done" /\ PhaseOrder[6] = "ended"
  BY DEF PhaseOrder
<1> QED
  BY <1>1 DEF Later

(* A finished job leaves the array.                                        *)
LEMMA FinishForward ==
    ASSUME SimInv, SimInv', ReportFinished
    PROVE  Forward
<1>1. phase = "finish" /\ phase' = "finish"
  BY FinishCall
<1>2. time' = time /\ active_jobs' = active_jobs - 1
  BY FinishCarries
<1>3. active_jobs \in Nat /\ active_jobs' \in Nat
  <2>1. (jobs \in Seq(JobEntry))'
    BY DEF SimInv, SimTypeOK, JobEntry
  <2> QED
    BY <2>1, ArrayFacts DEF active_jobs
<1>4. LeftToReport = active_jobs /\ LeftToReport' = active_jobs'
  BY <1>1 DEF LeftToReport
<1> QED
  BY <1>1, <1>2, <1>3, <1>4 DEF Forward

(* The index goes past the core or the job that was reported.              *)
LEMMA ExpireForward ==
    ASSUME SimInv, SimInv', ReportExpired
    PROVE  Forward
<1>1. phase = "quantum" /\ phase' = "quantum"
  BY ExpireCall
<1>2. PICK c \in Expired : i' = c + 2
  BY DEF ReportExpired
<1>3. i \in Nat /\ i >= 1 /\ num_cores \in Nat
  BY ArrayFacts, StateFacts DEF SimInv
<1>4. c \in Int /\ c >= i - 1 /\ c <= num_cores - 1
  <2>1. c \in (i - 1)..(num_cores - 1)
    BY <1>2 DEF Expired
  <2> QED
    BY <1>3, <2>1
<1>5. num_cores' = num_cores
  BY DEF ReportExpired, scheduler_quantum_expired
<1>6. /\ LeftToReport = num_cores + 1 - i
      /\ LeftToReport' = num_cores + 1 - (c + 2)
  BY <1>1, <1>2, <1>5 DEF LeftToReport
<1> QED
  BY <1>1, <1>3, <1>4, <1>6, ExpireCarries DEF Forward

LEMMA ArriveForward ==
    ASSUME SimInv, SimInv', ReportArrival
    PROVE  Forward
<1>1. phase = "arrive" /\ phase' = "arrive"
  BY ArriveCall
<1>2. PICK k \in Arriving : i' = k + 1
  BY DEF ReportArrival
<1>3. i \in Nat /\ i >= 1 /\ active_jobs \in Nat
  BY ArrayFacts
<1>4. k \in Int /\ k >= i /\ k <= active_jobs
  <2>1. k \in i..active_jobs
    BY <1>2 DEF Arriving
  <2> QED
    BY <1>3, <2>1
<1>5. active_jobs' = active_jobs /\ time' = time
  BY ArriveCarries
<1>6. /\ LeftToReport = active_jobs + 1 - i
      /\ LeftToReport' = active_jobs + 1 - (k + 1)
  BY <1>1, <1>2, <1>5 DEF LeftToReport
<1> QED
  BY <1>1, <1>3, <1>4, <1>5, <1>6 DEF Forward

LEMMA EachForward ==
    ASSUME SimInv, SimInv', SimNext
    PROVE  Forward
<1>1. CASE ReportFinished
  BY <1>1, FinishForward
<1>2. CASE NoMoreFinished
  <2>1. /\ phase = "finish" /\ phase' \in {"quantum", "arrive", "done"}
        /\ time' = time
    BY <1>2 DEF NoMoreFinished, Goto, schedVars
  <2> QED
    BY <2>1, OrderOfPhases DEF Forward
<1>3. CASE ReportExpired
  BY <1>3, ExpireForward
<1>4. CASE NoMoreExpired
  BY <1>4, OrderOfPhases DEF NoMoreExpired, Goto, schedVars, Forward
<1>5. CASE ReportArrival
  BY <1>5, ArriveForward
<1>6. CASE NoMoreArrivals
  BY <1>6, OrderOfPhases DEF NoMoreArrivals, Goto, schedVars, Forward
<1>7. CASE RunUnit
  BY <1>7, UnitCarries DEF Forward
<1>8. CASE CleanUp
  BY <1>8, OrderOfPhases DEF CleanUp, scheduler_clean_up, Forward
<1> QED
  BY <1>1, <1>2, <1>3, <1>4, <1>5, <1>6, <1>7, <1>8 DEF SimNext

(* No phase goes round in circles (simulator.c:248-464).  With InTime this *)
(* bounds the steps of a run: time has a bound, a unit has six phases, and *)
(* a phase no more calls than there are jobs or cores.                     *)
THEOREM AlwaysForward == RunSpec => StepsForward
<1>1. HorizonInv /\ HorizonInv' /\ [RunNext]_runVars => [Forward]_runVars
  BY EachForward DEF HorizonInv, RunNext
<1> QED
  BY <1>1, HorizonInvariant, PTL DEF RunSpec, StepsForward
=============================================================================
