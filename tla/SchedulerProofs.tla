--------------------------- MODULE SchedulerProofs ---------------------------
(***************************************************************************)
(* The invariants of the scheduler library hold in every state, for any    *)
(* set of jobs, any number of cores, every scheme, and any caller that     *)
(* respects the contract of the library (SchedSpec).  Then, what each call *)
(* does to the records, for the proofs about the caller; the order of the  *)
(* list; and that the library implements Dispatcher, with any number of    *)
(* cores (one for PSJF).                                                   *)
(***************************************************************************)
EXTENDS SchedulerDispatch, PriqueueTheorems

(* Records whose owners have the cores that act marks active, and no core  *)
(* two owners: CoresMatch, of given records.                               *)
OwnersMatch(known, act, cores) ==
    /\ \A c \in cores :
            act[c] = 1 <=> \E j \in DOMAIN known : known[j].core_id = c
    /\ \A j, k \in DOMAIN known :
            known[j].core_id # -1 /\ known[j].core_id = known[k].core_id => j = k

ActiveCores == {c \in Cores : active[c] = 1}

(* With a preemptive scheme the queue has as many jobs as there are active *)
(* cores, as long as one is idle.  This is what makes RunningFirst hold at *)
(* the moment the last core gets a job.                                    *)
QueueCountsActive ==
    Preemptive /\ IdleCores # {} => Len(QUEUE) = Cardinality(ActiveCores)

IInv ==
    /\ TypeOK
    /\ QueueHoldsLiveJobs
    /\ CoresMatch
    /\ WorkConserving
    /\ RunningFirst
    /\ QueueCountsActive

NoOwner(c, known) == \A k \in DOMAIN known : known[k].core_id # c

(* What the scan for a waiting job in q does for core c: the core becomes  *)
(* idle, or the first waiting job has it, and no other job changes cores.  *)
HandedTo(c, q, known, records, act, newact) ==
    \/ /\ NoOwner(-1, known)
       /\ records = known
       /\ newact = [act EXCEPT ![c] = -1]
    \/ /\ newact = act
       /\ \E p \in 1..Len(q) :
            /\ q[p] \in DOMAIN known
            /\ known[q[p]].core_id = -1
            /\ \A l \in 1..(p - 1) : known[q[l]].core_id # -1
            /\ \A k \in DOMAIN known :
                records[k].core_id = IF k = q[p] THEN c ELSE known[k].core_id

-----------------------------------------------------------------------------
(* Facts about single operators.                                           *)

LEMMA CoresFacts ==
    ASSUME TypeOK
    PROVE  /\ num_cores \in Nat \ {0}
           /\ CURRENT_SCHEME \in Schemes
           /\ Cores \subseteq Nat
           /\ -1 \notin Cores
           /\ IsFiniteSet(Cores)
           /\ Cardinality(Cores) = num_cores
<1>1. num_cores \in Nat \ {0} /\ CURRENT_SCHEME \in Schemes
  BY SchedulerAssumption DEF TypeOK
<1>2. Cores \subseteq Nat /\ -1 \notin Cores
  BY <1>1 DEF Cores
<1>3. IsFiniteSet(Cores) /\ Cardinality(Cores) = num_cores
  BY <1>1, FS_Interval DEF Cores
<1> QED
  BY <1>1, <1>2, <1>3

LEMMA ActiveCoresFacts ==
    ASSUME TypeOK
    PROVE  /\ IsFiniteSet(ActiveCores)
           /\ Cardinality(ActiveCores) \in Nat
           /\ \A c \in Cores : c \in IdleCores <=> c \notin ActiveCores
           /\ IdleCores = {} => Cardinality(ActiveCores) = num_cores
<1>1. IsFiniteSet(Cores) /\ Cardinality(Cores) = num_cores
  BY CoresFacts
<1>2. ActiveCores \subseteq Cores
  BY DEF ActiveCores
<1>3. IsFiniteSet(ActiveCores) /\ Cardinality(ActiveCores) \in Nat
  BY <1>1, <1>2, FS_Subset, FS_CardinalityType
<1>4. \A c \in Cores : c \in IdleCores <=> c \notin ActiveCores
  BY DEF TypeOK, ActiveCores, IdleCores
<1>5. IdleCores = {} => ActiveCores = Cores
  BY <1>2, <1>4
<1> QED
  BY <1>1, <1>3, <1>4, <1>5

(* The types depend on the number of cores and on the time alone.          *)
LEMMA SameTypes ==
    ASSUME num_cores' = num_cores, time' = time
    PROVE  Cores' = Cores /\ JobRecord' = JobRecord
<1>1. Cores' = Cores
  BY DEF Cores
<1> QED
  BY <1>1 DEF JobRecord

LEMMA RecordFields ==
    ASSUME NEW a \in JobRecord, time \in Nat
    PROVE  /\ a.core_id \in Cores \cup {-1}
           /\ a.arrival_time \in Nat /\ a.arrival_time <= time
           /\ a.run_time \in Int
           /\ a.priority \in Int
           /\ a.time_remaining \in Int
           /\ a.start_time \in Int
           /\ a.pause_time \in Int /\ a.pause_time <= time
<1>1. a.core_id \in Cores \cup {-1} /\ a.time_remaining \in Int
  BY DEF JobRecord
<1>2. a.arrival_time \in 0..time
  BY DEF JobRecord
<1>3. a.start_time \in -1..time /\ a.pause_time \in -1..time
  BY DEF JobRecord
<1>4. a.run_time \in Int /\ a.priority \in Int
  <2>1. a.run_time \in RunTimes /\ a.priority \in Priorities
    BY DEF JobRecord
  <2>2. RunTimes \subseteq Int /\ Priorities \subseteq Int
    BY SchedulerAssumption
  <2> QED
    BY <2>1, <2>2
<1>5. a.arrival_time \in Nat /\ a.arrival_time <= time
  BY <1>2
<1>6. a.start_time \in Int /\ a.pause_time \in Int /\ a.pause_time <= time
  BY <1>3
<1> QED
  BY <1>1, <1>4, <1>5, <1>6

LEMMA CmpType ==
    ASSUME NEW a \in JobRecord, NEW b \in JobRecord, time \in Nat
    PROVE  cmp(a, b) \in Int
<1>1. /\ a.arrival_time \in Int /\ b.arrival_time \in Int
      /\ a.run_time \in Int /\ b.run_time \in Int
      /\ a.priority \in Int /\ b.priority \in Int
      /\ a.time_remaining \in Int /\ b.time_remaining \in Int
  BY RecordFields
<1> QED
  BY <1>1 DEF cmp, FCFS_COMPARE, SJF_COMPARE, PSJF_COMPARE, PRI_COMPARE,
              RR_COMPARE, ByThenArrival

(* Offering job j puts it in at some position.                             *)
LEMMA OfferJobProperties ==
    ASSUME NEW q \in Seq(Jobs), IsInjective(q),
           NEW known, known \in [DOMAIN known -> JobRecord],
           ToSet(q) \subseteq DOMAIN known,
           NEW j \in Jobs, j \notin ToSet(q), NEW new \in JobRecord,
           time \in Nat
    PROVE  /\ OfferJob(q, known, j, new) \in Seq(Jobs)
           /\ Len(OfferJob(q, known, j, new)) = Len(q) + 1
           /\ \E p \in 1..(Len(q) + 1) :
                IsPutIn(OfferJob(q, known, j, new), q, Len(q), p, j)
           /\ IsInjective(OfferJob(q, known, j, new))
           /\ ToSet(OfferJob(q, known, j, new)) = ToSet(q) \cup {j}
<1> DEFINE c == [k \in 1..Len(q) |-> cmp(new, known[q[k]])]
<1>1. ASSUME NEW k \in 1..Len(q) PROVE cmp(new, known[q[k]]) \in Int
  <2>1. q[k] \in DOMAIN known
    BY ElementsOf DEF Occurs
  <2>2. known[q[k]] \in JobRecord
    BY <2>1
  <2> QED
    BY <2>2, CmpType
<1>2. c \in Seq(Int) /\ Len(c) = Len(q)
  BY <1>1
<1>3. OfferJob(q, known, j, new) = Offer(q, j, c)
  BY DEF OfferJob
<1> HIDE DEF c
<1>4. /\ OfferIndex(c) \in 1..(Len(q) + 1)
      /\ Offer(q, j, c) \in Seq(Jobs)
      /\ Len(Offer(q, j, c)) = Len(q) + 1
      /\ IsPutIn(Offer(q, j, c), q, Len(q), OfferIndex(c), j)
      /\ IsInjective(Offer(q, j, c))
      /\ ToSet(Offer(q, j, c)) = ToSet(q) \cup {j}
  BY <1>2, OfferProperties
<1> QED
  BY <1>3, <1>4

(* The scan for a waiting job.                                             *)
LEMMA FirstWaitingProperties ==
    ASSUME NEW q \in Seq(Jobs), NEW known, ToSet(q) = DOMAIN known
    PROVE  \/ /\ FirstWaiting(q, known) = -1
              /\ \A k \in DOMAIN known : known[k].core_id # -1
           \/ /\ FirstWaiting(q, known) # -1
              /\ \E p \in 1..Len(q) :
                    /\ FirstWaiting(q, known) = q[p]
                    /\ q[p] \in DOMAIN known
                    /\ known[q[p]].core_id = -1
                    /\ \A l \in 1..(p - 1) : known[q[l]].core_id # -1
<1> DEFINE W == {k \in DOMAIN known : known[k].core_id = -1}
           w == FirstIn(q, W)
<1>1. \A x : x \in DOMAIN known <=> \E k \in 1..Len(q) : q[k] = x
  BY ElementsOf DEF Occurs
<1>2. /\ w \in 0..Len(q)
      /\ w = 0 => \A k \in 1..Len(q) : q[k] \notin W
      /\ w # 0 => q[w] \in W /\ \A l \in 1..(w - 1) : q[l] \notin W
  BY FirstInProperties
<1>3. FirstWaiting(q, known) = IF w = 0 THEN -1 ELSE q[w]
  BY DEF FirstWaiting
<1> HIDE DEF w
<1>4. CASE w = 0
  BY <1>1, <1>2, <1>3, <1>4
<1>5. CASE w # 0
  <2>1. w \in 1..Len(q) /\ q[w] \in Jobs /\ q[w] # -1
    BY <1>2, <1>5, SchedulerAssumption
  <2>2. FirstWaiting(q, known) = q[w]
    BY <1>3, <1>5
  <2>3. \A l \in 1..(w - 1) : q[l] \in DOMAIN known
    BY <1>1, <2>1
  <2> QED
    BY <1>2, <1>5, <2>1, <2>2, <2>3
<1> QED
  BY <1>4, <1>5

-----------------------------------------------------------------------------
(* The loop that scheduler_job_finished and scheduler_quantum_expired end  *)
(* with: core c, which no record of known names, gets the first waiting    *)
(* job of q or becomes idle, and the owners match the cores again.         *)
LEMMA WakeOnProperties ==
    ASSUME TypeOK,
           NEW c \in Cores, active[c] = 1,
           NEW q \in Seq(Jobs),
           NEW known, known \in [DOMAIN known -> JobRecord],
           ToSet(q) = DOMAIN known,
           NoOwner(c, known),
           OwnersMatch(known, active, Cores \ {c}),
           NEW mark, mark \in {-1, 0},
           NEW w, WakeOn(c, q, known, mark, w)
    PROVE  /\ active' \in [Cores -> {-1, 1}]
           /\ DOMAIN job' = DOMAIN known
           /\ job' \in [DOMAIN known -> JobRecord]
           /\ waiting_time' \in Nat
           /\ response_time' \in Nat
           /\ OwnersMatch(job', active', Cores)
           /\ HandedTo(c, q, known, job', active, active')
<1>0. /\ time \in Nat /\ waiting_time \in Nat /\ response_time \in Nat
      /\ active \in [Cores -> {-1, 1}]
  BY SchedulerAssumption DEF TypeOK
<1>1. w = FirstWaiting(q, known)
  BY DEF WakeOn
<1>2. CASE w = -1
  <2>1. /\ job' = known
        /\ active' = [active EXCEPT ![c] = -1]
        /\ waiting_time' = waiting_time
        /\ response_time' = response_time
    BY <1>2 DEF WakeOn
  <2>2. NoOwner(-1, known)
    BY <1>1, <1>2, FirstWaitingProperties DEF NoOwner
  <2>3. OwnersMatch(job', active', Cores)
    BY <2>1, <1>0 DEF OwnersMatch, NoOwner
  <2>4. HandedTo(c, q, known, job', active, active')
    BY <2>1, <2>2 DEF HandedTo
  <2> QED
    BY <1>0, <2>1, <2>3, <2>4
<1>3. CASE w # -1
  <2>1. /\ job' = [known EXCEPT ![w].core_id = c, ![w].start_time = time,
                                ![w].pause_time = mark, ![w].responded = 1]
        /\ waiting_time' = waiting_time + (time - known[w].pause_time)
        /\ response_time' = response_time +
                IF known[w].responded = -1 THEN time - known[w].arrival_time ELSE 0
        /\ active' = active
    BY <1>3 DEF WakeOn, Waited
  <2>2. PICK p \in 1..Len(q) :
            /\ w = q[p]
            /\ w \in DOMAIN known
            /\ known[w].core_id = -1
            /\ \A l \in 1..(p - 1) : known[q[l]].core_id # -1
    BY <1>1, <1>3, FirstWaitingProperties
  <2>3. known[w] \in JobRecord
    BY <2>2
  <2>4. waiting_time' \in Nat /\ response_time' \in Nat
    <3>1. /\ known[w].pause_time \in Int /\ known[w].pause_time <= time
          /\ known[w].arrival_time \in Nat /\ known[w].arrival_time <= time
      BY <1>0, <2>3, RecordFields
    <3>2. /\ time - known[w].pause_time \in Nat
          /\ time - known[w].arrival_time \in Nat
      BY <1>0, <3>1
    <3>3. waiting_time' = waiting_time + (time - known[w].pause_time)
      BY <2>1
    <3>4. \/ response_time' = response_time + (time - known[w].arrival_time)
          \/ response_time' = response_time + 0
      BY <2>1
    <3>5. waiting_time \in Nat /\ response_time \in Nat
      BY <1>0
    <3> QED
      <4>1. waiting_time' \in Nat
        BY <3>2, <3>3, <3>5
      <4>2. response_time' \in Nat
        BY <3>2, <3>4, <3>5
      <4> QED
        BY <4>1, <4>2
  <2>5. /\ DOMAIN job' = DOMAIN known
        /\ \A j \in DOMAIN known : j # w => job'[j] = known[j]
        /\ job'[w] = [known[w] EXCEPT !.core_id = c, !.start_time = time,
                                      !.pause_time = mark, !.responded = 1]
    BY <2>1, <2>2
  <2>6. job'[w] \in JobRecord /\ job'[w].core_id = c
    <3>1. time \in Nat
      BY <1>0
    <3> DEFINE woken == [known[w] EXCEPT !.core_id = c, !.start_time = time,
                                         !.pause_time = mark, !.responded = 1]
    <3>2. woken \in JobRecord /\ woken.core_id = c
      <4>1. mark \in -1..time /\ time \in -1..time
        BY <3>1
      <4>2. c \in Cores \cup {-1} /\ 1 \in {-1, 1}
        OBVIOUS
      <4> QED
        BY <4>1, <4>2, <2>3, Zenon DEF JobRecord
    <3>3. job'[w] = woken
      BY <2>5, Zenon
    <3> QED
      BY <3>2, <3>3, Zenon
  <2>7. job' \in [DOMAIN known -> JobRecord]
    <3>1. \A j \in DOMAIN known : job'[j] \in JobRecord
      BY <2>5, <2>6
    <3>2. job' = [j \in DOMAIN known |-> job'[j]]
      BY <2>1
    <3> QED
      BY <3>1, <3>2
  <2>8. \A j \in DOMAIN known :
            job'[j].core_id = IF j = w THEN c ELSE known[j].core_id
    BY <2>5, <2>6
  <2>9. OwnersMatch(job', active', Cores)
    <3>1. ASSUME NEW d \in Cores
          PROVE  active'[d] = 1 <=> \E j \in DOMAIN job' : job'[j].core_id = d
      <4>1. CASE d = c
        BY <4>1, <2>1, <2>2, <2>5, <2>8 DEF NoOwner
      <4>2. CASE d # c
        <5>1. active[d] = 1 <=> \E j \in DOMAIN known : known[j].core_id = d
          BY <4>2 DEF OwnersMatch
        <5>2. d # -1
          BY CoresFacts
        <5> QED
          BY <4>2, <5>1, <5>2, <2>1, <2>2, <2>5, <2>8
      <4> QED
        BY <4>1, <4>2
    <3>2. ASSUME NEW j \in DOMAIN job', NEW k \in DOMAIN job',
                 job'[j].core_id # -1, job'[j].core_id = job'[k].core_id
          PROVE  j = k
      <4>1. j \in DOMAIN known /\ k \in DOMAIN known
        BY <2>5
      <4>2. known[j].core_id # -1 /\ known[j].core_id = known[k].core_id => j = k
        BY <4>1 DEF OwnersMatch
      <4> QED
        BY <4>1, <4>2, <3>2, <2>8 DEF NoOwner
    <3> QED
      BY <3>1, <3>2 DEF OwnersMatch
  <2>10. HandedTo(c, q, known, job', active, active')
    BY <2>1, <2>2, <2>8 DEF HandedTo
  <2> QED
    BY <1>0, <2>1, <2>4, <2>5, <2>7, <2>9, <2>10
<1> QED
  BY <1>2, <1>3

-----------------------------------------------------------------------------
(* scheduler_job_finished.                                                 *)

(* The positions of the queue when one of its first m jobs, the running    *)
(* ones, is taken out: the first waiting job is the m-th of the rest.      *)
RunFirst(q, n, m, R) == \A k \in 1..n : q[k] \in R <=> k <= m

FirstNotIn(q, k, R) == q[k] \notin R /\ \A l \in 1..(k - 1) : q[l] \in R

LEMMA HandedOn ==
    ASSUME NEW n \in Nat, NEW m \in Nat \ {0}, m <= n,
           NEW q, NEW r, NEW p \in 1..n, IsTakenOut(r, q, n, p),
           NEW R, RunFirst(q, n, m, R), q[p] \in R
    PROVE  /\ RunFirst(r, n - 1, m - 1, R)
           /\ \A k \in 1..(n - 1) : FirstNotIn(r, k, R) => k = m
<1> USE DEF RunFirst, FirstNotIn
<1>1. p <= m
  OBVIOUS
<1>2. ASSUME NEW k \in 1..(n - 1) PROVE r[k] \in R <=> k <= m - 1
  <2>1. CASE k < p
    <3>1. r[k] = q[k] /\ k \in 1..n
      BY <2>1 DEF IsTakenOut
    <3> QED
      BY <1>1, <2>1, <3>1
  <2>2. CASE k >= p
    <3>1. r[k] = q[k + 1] /\ k + 1 \in 1..n
      BY <2>2 DEF IsTakenOut
    <3> QED
      BY <3>1
  <2> QED
    BY <2>1, <2>2
<1>3. ASSUME NEW k \in 1..(n - 1), r[k] \notin R,
             \A l \in 1..(k - 1) : r[l] \in R
      PROVE  k = m
  <2>1. k > m - 1
    BY <1>2, <1>3
  <2>2. k > m => m \in 1..(k - 1) /\ m \in 1..(n - 1)
    OBVIOUS
  <2> QED
    BY <1>2, <1>3, <2>1, <2>2
<1> QED
  BY <1>2, <1>3

LEMMA FinishStep ==
    ASSUME IInv, NEW j \in DOMAIN job, Running(j), NEW w,
           scheduler_job_finished(job[j].core_id, j, w)
    PROVE  IInv'
<1> DEFINE c == job[j].core_id
           known == RecordsWithout(j)
           n == Len(QUEUE)
<1>1. TypeOK /\ QueueHoldsLiveJobs /\ CoresMatch
  BY DEF IInv
<1>2. /\ QUEUE \in Seq(Jobs) /\ IsInjective(QUEUE) /\ ToSet(QUEUE) = DOMAIN job
      /\ job \in [DOMAIN job -> JobRecord] /\ DOMAIN job \subseteq Jobs
      /\ time \in Nat /\ n \in Nat
  BY <1>1, SchedulerAssumption DEF TypeOK, QueueHoldsLiveJobs
<1>3. c \in Cores /\ c # -1 /\ active[c] = 1
  <2>1. job[j] \in JobRecord
    BY <1>2
  <2>2. c \in Cores \cup {-1}
    BY <2>1, <1>2, RecordFields
  <2> QED
    BY <2>2, <1>1 DEF CoresMatch, Running
<1>4. /\ DOMAIN known = DOMAIN job \ {j}
      /\ \A k \in DOMAIN known : known[k] = job[k]
      /\ known \in [DOMAIN known -> JobRecord]
  BY <1>2 DEF RecordsWithout
<1>5. /\ QUEUE' = QueueWithout(j)
      /\ turnaround_time' = turnaround_time + (time - job[j].arrival_time)
      /\ WakeOn(c, QUEUE', known, 0, w)
      /\ CURRENT_SCHEME' = CURRENT_SCHEME /\ num_cores' = num_cores
      /\ num_jobs' = num_jobs /\ time' = time
  BY DEF scheduler_job_finished
<1>6. PICK p \in 1..n :
        /\ QUEUE[p] = j
        /\ QUEUE' \in Seq(Jobs)
        /\ Len(QUEUE') = n - 1
        /\ IsTakenOut(QUEUE', QUEUE, n, p)
        /\ IsInjective(QUEUE')
        /\ ToSet(QUEUE') = DOMAIN known
  BY <1>2, <1>4, <1>5, TakeOutProperties DEF QueueWithout
<1> HIDE DEF c, known, n
<1>7. NoOwner(c, known)
  BY <1>1, <1>3, <1>4 DEF CoresMatch, Running, c, NoOwner
<1>8. OwnersMatch(known, active, Cores \ {c})
  <2>1. ASSUME NEW d \in Cores \ {c}
        PROVE  active[d] = 1 <=> \E k \in DOMAIN known : known[k].core_id = d
    BY <1>1, <1>4, <2>1 DEF CoresMatch, c
  <2>2. ASSUME NEW k \in DOMAIN known, NEW l \in DOMAIN known,
               known[k].core_id # -1, known[k].core_id = known[l].core_id
        PROVE  k = l
    BY <1>1, <1>4, <2>2 DEF CoresMatch, Running
  <2> QED
    BY <2>1, <2>2 DEF OwnersMatch
<1>9. /\ active' \in [Cores -> {-1, 1}]
      /\ DOMAIN job' = DOMAIN known
      /\ job' \in [DOMAIN known -> JobRecord]
      /\ waiting_time' \in Nat
      /\ response_time' \in Nat
      /\ OwnersMatch(job', active', Cores)
      /\ HandedTo(c, QUEUE', known, job', active, active')
  <2>1. 0 \in {-1, 0}
    OBVIOUS
  <2> QED
    BY <1>1, <1>3, <1>4, <1>5, <1>6, <1>7, <1>8, <2>1, WakeOnProperties, Zenon
<1>10. TypeOK'
  <2>1. Cores' = Cores /\ JobRecord' = JobRecord
    BY <1>5, SameTypes
  <2>2. job[j].arrival_time \in Nat /\ job[j].arrival_time <= time
    BY <1>2, RecordFields
  <2>3. turnaround_time' \in Nat
    BY <1>1, <1>2, <1>5, <2>2 DEF TypeOK
  <2> QED
    BY <1>1, <1>2, <1>4, <1>5, <1>6, <1>9, <2>1, <2>3 DEF TypeOK
<1>11. QueueHoldsLiveJobs'
  BY <1>6, <1>9 DEF QueueHoldsLiveJobs
<1>12. CoresMatch'
  <2>1. Cores' = Cores
    BY <1>5, SameTypes
  <2> QED
    BY <1>9, <2>1 DEF CoresMatch, OwnersMatch, Running
<1>13. WorkConserving'
  <2>1. SUFFICES ASSUME IdleCores' # {}
                 PROVE  \A k \in DOMAIN job' : job'[k].core_id # -1
    BY DEF WorkConserving, Running
  <2>2. CASE NoOwner(-1, known) /\ job' = known
    BY <2>2 DEF NoOwner
  <2>3. CASE active' = active /\ \E k \in DOMAIN known : known[k].core_id = -1
    <3>1. IdleCores' = IdleCores
      BY <1>5, <2>3, SameTypes DEF IdleCores
    <3>2. IdleCores = {}
      BY <1>4, <2>3 DEF IInv, WorkConserving, Running
    <3> QED
      BY <2>1, <3>1, <3>2
  <2> QED
    BY <1>9, <2>2, <2>3 DEF HandedTo
<1>14. ASSUME Preemptive' PROVE Preemptive
  BY <1>5, <1>14 DEF Preemptive
<1>15. ASSUME Preemptive, IdleCores = {}
       PROVE  num_cores <= n /\ \A i \in 1..n : Running(QUEUE[i]) <=> i <= num_cores
  BY <1>15 DEF IInv, RunningFirst, n
<1>16. /\ \A k \in 1..n : QUEUE[k] \in DOMAIN job
       /\ \A x \in DOMAIN job : \E k \in 1..n : QUEUE[k] = x
       /\ \A k, l \in 1..n : QUEUE[k] = QUEUE[l] => k = l
       /\ \A k \in 1..(n - 1) : QUEUE'[k] \in DOMAIN known
       /\ \A k, l \in 1..(n - 1) : QUEUE'[k] = QUEUE'[l] => k = l
  BY <1>2, <1>6, ElementsOf DEF Occurs, Distinct, n
<1>17. num_cores \in Nat \ {0}
  BY <1>1, CoresFacts
<1>18. RunningFirst'
  <2>1. SUFFICES ASSUME Preemptive, IdleCores' = {}
                 PROVE  /\ num_cores <= n - 1
                        /\ \A k \in 1..(n - 1) :
                            job'[QUEUE'[k]].core_id # -1 <=> k <= num_cores
    BY <1>5, <1>6, <1>14 DEF RunningFirst, Running
  <2>2. active' = active
    <3>1. ASSUME active' = [active EXCEPT ![c] = -1] PROVE FALSE
      <4>1. active'[c] = -1 /\ c \in Cores'
        BY <3>1, <1>1, <1>3, <1>5, SameTypes DEF TypeOK
      <4> QED
        BY <4>1, <2>1 DEF IdleCores
    <3> QED
      BY <3>1, <1>9 DEF HandedTo
  <2>3. IdleCores = {}
    BY <2>1, <2>2, <1>5, SameTypes DEF IdleCores
  <2>4. PICK i \in 1..(n - 1) :
            /\ known[QUEUE'[i]].core_id = -1
            /\ \A l \in 1..(i - 1) : known[QUEUE'[l]].core_id # -1
            /\ \A k \in DOMAIN known :
                job'[k].core_id = IF k = QUEUE'[i] THEN c ELSE known[k].core_id
    <3>1. active' # [active EXCEPT ![c] = -1]
      BY <2>2, <1>1, <1>3 DEF TypeOK
    <3> QED
      BY <3>1, <1>6, <1>9 DEF HandedTo
  <2> DEFINE R == {x \in DOMAIN job : job[x].core_id # -1}
  <2>5. /\ num_cores <= n
        /\ \A k \in 1..n : QUEUE[k] \in R <=> k <= num_cores
        /\ QUEUE[p] \in R
    BY <2>1, <2>3, <1>3, <1>6, <1>15, <1>16 DEF Running, c
  <2>6. /\ \A k \in 1..(n - 1) : QUEUE'[k] \in R <=> known[QUEUE'[k]].core_id # -1
        /\ QUEUE'[i] \notin R
        /\ \A l \in 1..(i - 1) : QUEUE'[l] \in R
    <3>1. \A k \in 1..(n - 1) : QUEUE'[k] \in R <=> known[QUEUE'[k]].core_id # -1
      BY <1>4, <1>16
    <3>2. \A l \in 1..(i - 1) : l \in 1..(n - 1)
      BY <1>2
    <3> HIDE DEF R
    <3> QED
      BY <2>4, <3>1, <3>2
  <2> HIDE DEF R
  <2>7. /\ \A k \in 1..(n - 1) : QUEUE'[k] \in R <=> k <= num_cores - 1
        /\ i = num_cores
    <3>1. RunFirst(QUEUE, n, num_cores, R) /\ FirstNotIn(QUEUE', i, R)
      BY <2>5, <2>6 DEF RunFirst, FirstNotIn
    <3>2. /\ RunFirst(QUEUE', n - 1, num_cores - 1, R)
          /\ \A k \in 1..(n - 1) : FirstNotIn(QUEUE', k, R) => k = num_cores
      BY <3>1, <2>5, <1>2, <1>6, <1>17, HandedOn
    <3> QED
      BY <3>1, <3>2 DEF RunFirst
  <2>8. ASSUME NEW k \in 1..(n - 1)
        PROVE  job'[QUEUE'[k]].core_id # -1 <=> k <= num_cores
    <3>1. CASE k = i
      BY <3>1, <2>4, <2>7, <1>3, <1>16
    <3>2. CASE k # i
      BY <3>2, <2>4, <2>6, <2>7, <1>16, <1>17
    <3> QED
      BY <3>1, <3>2
  <2> QED
    BY <2>7, <2>8
<1>19. QueueCountsActive'
  <2>1. SUFFICES ASSUME Preemptive, IdleCores' # {}
                 PROVE  n - 1 = Cardinality(ActiveCores')
    BY <1>6, <1>14 DEF QueueCountsActive
  <2>2. IdleCores = {} => active' # active
    BY <2>1, <1>5, SameTypes DEF IdleCores
  <2>3. IdleCores # {} => NoOwner(-1, known)
    BY <1>4 DEF IInv, WorkConserving, NoOwner, Running
  <2>4. active' = [active EXCEPT ![c] = -1] /\ NoOwner(-1, known)
    BY <2>2, <2>3, <1>9 DEF HandedTo, NoOwner
  <2>5. ActiveCores' = ActiveCores \ {c} /\ c \in ActiveCores
    BY <2>4, <1>1, <1>3, <1>5, SameTypes DEF ActiveCores, TypeOK
  <2>6. /\ Cardinality(ActiveCores) \in Nat
        /\ Cardinality(ActiveCores') = Cardinality(ActiveCores) - 1
    BY <2>5, <1>1, ActiveCoresFacts, FS_RemoveElement
  <2>7. n = Cardinality(ActiveCores)
    <3>1. CASE IdleCores # {}
      BY <2>1, <3>1 DEF IInv, QueueCountsActive, n
    <3>2. CASE IdleCores = {}
      <4>1. Cardinality(ActiveCores) = num_cores
        BY <3>2, <1>1, ActiveCoresFacts
      <4>2. num_cores <= n /\ \A i \in 1..n : Running(QUEUE[i]) <=> i <= num_cores
        BY <2>1, <3>2, <1>15
      <4>3. \A i \in 1..n : Running(QUEUE[i])
        BY <2>4, <1>4, <1>16 DEF NoOwner, Running
      <4> QED
        BY <4>1, <4>2, <4>3, <1>2, <1>17
    <3> QED
      BY <3>1, <3>2
  <2> QED
    BY <2>6, <2>7, <1>2
<1> QED
  BY <1>10, <1>11, <1>12, <1>13, <1>18, <1>19 DEF IInv

-----------------------------------------------------------------------------
(* scheduler_new_job.                                                      *)

(* The positions of the queue when a job x is put in, the running ones     *)
(* being the first m: x goes behind them and waits, or it goes among them  *)
(* and the m-th of them gives way.                                         *)
LEMMA PutAmong ==
    ASSUME NEW n \in Nat, NEW m \in Nat \ {0}, m <= n,
           NEW q, NEW r, NEW x, NEW p \in 1..(n + 1), IsPutIn(r, q, n, p, x),
           ~Occurs(x, q, n), Distinct(q, n),
           NEW R, RunFirst(q, n, m, R), x \notin R
    PROVE  /\ p > m => RunFirst(r, n + 1, m, R)
           /\ p <= m => RunFirst(r, n + 1, m, (R \cup {x}) \ {q[m]})
<1>1. ASSUME NEW k \in 1..(n + 1)
      PROVE  /\ p > m => (r[k] \in R <=> k <= m)
             /\ p <= m => (r[k] \in (R \cup {x}) \ {q[m]} <=> k <= m)
  <2>1. m \in 1..n
    OBVIOUS
  <2>2. x # q[m]
    BY <2>1 DEF Occurs
  <2>3. CASE k < p
    <3>1. r[k] = q[k] /\ k \in 1..n
      BY <2>3 DEF IsPutIn
    <3>2. q[k] \in R <=> k <= m
      BY <3>1 DEF RunFirst
    <3>3. q[k] # x
      BY <3>1 DEF Occurs
    <3>4. q[k] = q[m] => k = m
      BY <3>1, <2>1 DEF Distinct
    <3> QED
      BY <2>3, <3>1, <3>2, <3>3, <3>4
  <2>4. CASE k = p
    <3>1. r[k] = x
      BY <2>4 DEF IsPutIn
    <3> QED
      BY <2>2, <2>4, <3>1
  <2>5. CASE k > p
    <3>1. r[k] = q[k - 1] /\ k - 1 \in 1..n
      BY <2>5 DEF IsPutIn
    <3>2. q[k - 1] \in R <=> k - 1 <= m
      BY <3>1 DEF RunFirst
    <3>3. q[k - 1] # x
      BY <3>1 DEF Occurs
    <3>4. q[k - 1] = q[m] <=> k - 1 = m
      BY <3>1, <2>1 DEF Distinct
    <3> QED
      BY <2>5, <3>1, <3>2, <3>3, <3>4
  <2> QED
    BY <2>3, <2>4, <2>5
<1> QED
  BY <1>1 DEF RunFirst

(* The records that the preemptive branch brings up to date are records    *)
(* still, and every job keeps its core.                                    *)
LEMMA RecordsAtOfferProperties ==
    ASSUME TypeOK
    PROVE  /\ DOMAIN Refreshed = DOMAIN job /\ DOMAIN RecordsAtOffer = DOMAIN job
           /\ Refreshed \in [DOMAIN job -> JobRecord]
           /\ RecordsAtOffer \in [DOMAIN job -> JobRecord]
           /\ \A k \in DOMAIN job : Refreshed[k].core_id = job[k].core_id
           /\ \A k \in DOMAIN job : RecordsAtOffer[k].core_id = job[k].core_id
<1>1. job \in [DOMAIN job -> JobRecord] /\ time \in Nat
  BY SchedulerAssumption DEF TypeOK
<1>2. ASSUME NEW k \in DOMAIN job
      PROVE  /\ [job[k] EXCEPT !.time_remaining = @ - (time - job[k].start_time),
                               !.start_time = time] \in JobRecord
             /\ [job[k] EXCEPT !.time_remaining = @ - (time - job[k].start_time),
                               !.start_time = time].core_id = job[k].core_id
  <2>1. job[k] \in JobRecord
    BY <1>1
  <2>2. job[k].time_remaining - (time - job[k].start_time) \in Int
    BY <1>1, <2>1, RecordFields
  <2>3. time \in -1..time
    BY <1>1
  <2> QED
    BY <2>1, <2>2, <2>3, Zenon DEF JobRecord
<1>3. DOMAIN Refreshed = DOMAIN job
  BY DEF Refreshed
<1>4. ASSUME NEW k \in DOMAIN job
      PROVE  Refreshed[k] \in JobRecord /\ Refreshed[k].core_id = job[k].core_id
  <2>1. job[k] \in JobRecord
    BY <1>1
  <2> QED
    BY <1>2, <2>1, Zenon DEF Refreshed
<1>5. Refreshed = [k \in DOMAIN job |-> Refreshed[k]]
  BY DEF Refreshed
<1>6. Refreshed \in [DOMAIN job -> JobRecord]
  BY <1>4, <1>5
<1> QED
  BY <1>1, <1>3, <1>4, <1>6 DEF RecordsAtOffer

LEMMA NewRecordProperties ==
    ASSUME TypeOK, NEW r \in RunTimes, NEW p \in Priorities
    PROVE  NewRecord(r, p) \in JobRecord /\ NewRecord(r, p).core_id = -1
<1>1. time \in 0..time /\ time \in -1..time /\ -1 \in -1..time /\ r \in Int
  BY SchedulerAssumption DEF TypeOK
<1>2. -1 \in {-1, 1} /\ -1 \in Cores \cup {-1}
  OBVIOUS
<1> QED
  BY <1>1, <1>2, Zenon DEF NewRecord, JobRecord

(* The job that gives way in the preemptive branch.                        *)
LEMMA VictimRecord ==
    ASSUME TypeOK, NEW v \in DOMAIN job
    PROVE  /\ [Refreshed EXCEPT ![v].core_id = -1, ![v].pause_time = time]
                \in [DOMAIN job -> JobRecord]
           /\ \A k \in DOMAIN job :
                [Refreshed EXCEPT ![v].core_id = -1, ![v].pause_time = time][k].core_id
                    = IF k = v THEN -1 ELSE job[k].core_id
<1> DEFINE given == [Refreshed EXCEPT ![v].core_id = -1, ![v].pause_time = time]
<1>1. /\ Refreshed \in [DOMAIN job -> JobRecord]
      /\ \A k \in DOMAIN job : Refreshed[k].core_id = job[k].core_id
  BY RecordsAtOfferProperties
<1>2. time \in -1..time /\ -1 \in Cores \cup {-1}
  BY SchedulerAssumption DEF TypeOK
<1>3. Refreshed[v] \in JobRecord
  BY <1>1
<1>4. /\ [Refreshed[v] EXCEPT !.core_id = -1, !.pause_time = time] \in JobRecord
      /\ [Refreshed[v] EXCEPT !.core_id = -1, !.pause_time = time].core_id = -1
  BY <1>2, <1>3, Zenon DEF JobRecord
<1>5. given[v] = [Refreshed[v] EXCEPT !.core_id = -1, !.pause_time = time]
  BY <1>1, Zenon
<1>6. given[v] \in JobRecord /\ given[v].core_id = -1
  BY <1>4, <1>5, Zenon
<1>7. DOMAIN given = DOMAIN job /\ \A k \in DOMAIN job : k # v => given[k] = Refreshed[k]
  BY <1>1
<1>8. given = [k \in DOMAIN job |-> given[k]]
  BY <1>1
<1> HIDE DEF given
<1>9. \A k \in DOMAIN job : given[k] \in JobRecord
  BY <1>1, <1>6, <1>7
<1>10. given \in [DOMAIN job -> JobRecord]
  BY <1>8, <1>9
<1>11. \A k \in DOMAIN job : given[k].core_id = IF k = v THEN -1 ELSE job[k].core_id
  BY <1>1, <1>6, <1>7
<1> QED
  BY <1>10, <1>11 DEF given

LEMMA AllocateProperties ==
    ASSUME NEW j, NEW record \in JobRecord,
           NEW known, known \in [DOMAIN job -> JobRecord], j \notin DOMAIN job,
           Allocate(j, record, known)
    PROVE  /\ DOMAIN job' = DOMAIN job \cup {j}
           /\ job' \in [DOMAIN job \cup {j} -> JobRecord]
           /\ job'[j] = record
           /\ \A k \in DOMAIN job : job'[k] = known[k]
BY DEF Allocate

LEMMA NewJobStep ==
    ASSUME IInv, NEW j \in Jobs \ DOMAIN job, NEW r \in RunTimes, NEW p \in Priorities,
           NEW core_index, scheduler_new_job(j, r, p, core_index)
    PROVE  IInv'
<1> DEFINE new == NewRecord(r, p)
           n == Len(QUEUE)
<1>1. TypeOK /\ QueueHoldsLiveJobs /\ CoresMatch
  BY DEF IInv
<1>2. /\ QUEUE \in Seq(Jobs) /\ IsInjective(QUEUE) /\ ToSet(QUEUE) = DOMAIN job
      /\ job \in [DOMAIN job -> JobRecord] /\ DOMAIN job \subseteq Jobs
      /\ time \in Nat /\ n \in Nat
      /\ j \in Jobs /\ j \notin DOMAIN job
  BY <1>1, SchedulerAssumption DEF TypeOK, QueueHoldsLiveJobs
<1>3. new \in JobRecord /\ new.core_id = -1
  BY <1>1, NewRecordProperties
<1>4. /\ QUEUE' = OfferJob(QUEUE, RecordsAtOffer, j, new)
      /\ num_jobs' = num_jobs + 1
      /\ CURRENT_SCHEME' = CURRENT_SCHEME /\ num_cores' = num_cores
      /\ waiting_time' = waiting_time /\ turnaround_time' = turnaround_time
      /\ response_time' = response_time /\ time' = time
  BY DEF scheduler_new_job
<1> HIDE DEF new, n
<1>5. /\ DOMAIN RecordsAtOffer = DOMAIN job
      /\ RecordsAtOffer \in [DOMAIN job -> JobRecord]
      /\ \A k \in DOMAIN job : RecordsAtOffer[k].core_id = job[k].core_id
  BY <1>1, RecordsAtOfferProperties
<1>6. /\ QUEUE' \in Seq(Jobs)
      /\ Len(QUEUE') = n + 1
      /\ \E i \in 1..(n + 1) : IsPutIn(QUEUE', QUEUE, n, i, j)
      /\ IsInjective(QUEUE')
      /\ ToSet(QUEUE') = DOMAIN job \cup {j}
  BY <1>2, <1>3, <1>4, <1>5, OfferJobProperties DEF n
<1>7. PICK i \in 1..(n + 1) : IsPutIn(QUEUE', QUEUE, n, i, j)
  BY <1>6
<1>8. Cores' = Cores /\ JobRecord' = JobRecord
  BY <1>4, SameTypes
<1>9. /\ \A k \in 1..n : QUEUE[k] \in DOMAIN job
      /\ ~Occurs(j, QUEUE, n)
      /\ Distinct(QUEUE, n)
      /\ \A k \in 1..(n + 1) : QUEUE'[k] \in DOMAIN job \cup {j}
      /\ QUEUE'[i] = j
      /\ \A k, l \in 1..(n + 1) : QUEUE'[k] = QUEUE'[l] => k = l
  <2>1. /\ \A k \in 1..n : QUEUE[k] \in DOMAIN job
        /\ ~Occurs(j, QUEUE, n)
        /\ Distinct(QUEUE, n)
    BY <1>2, ElementsOf DEF Occurs, n
  <2>2. /\ \A k \in 1..(n + 1) : QUEUE'[k] \in DOMAIN job \cup {j}
        /\ \A k, l \in 1..(n + 1) : QUEUE'[k] = QUEUE'[l] => k = l
    BY <1>6, ElementsOf DEF Occurs, Distinct
  <2>3. QUEUE'[i] = j
    BY <1>7 DEF IsPutIn
  <2> QED
    BY <2>1, <2>2, <2>3
<1>10. num_cores \in Nat \ {0} /\ -1 \notin Cores /\ IsFiniteSet(Cores)
       /\ Cardinality(Cores) = num_cores
  BY <1>1, CoresFacts

(* What is left to show, whichever branch is taken.                        *)
<1>11. ASSUME DOMAIN job' = DOMAIN job \cup {j},
              job' \in [DOMAIN job \cup {j} -> JobRecord],
              active' \in [Cores -> {-1, 1}]
       PROVE  TypeOK' /\ QueueHoldsLiveJobs'
  <2>1. TypeOK'
    BY <1>1, <1>2, <1>4, <1>6, <1>8, <1>11 DEF TypeOK
  <2>2. QueueHoldsLiveJobs'
    BY <1>6, <1>11 DEF QueueHoldsLiveJobs
  <2> QED
    BY <2>1, <2>2
<1>12. ASSUME NEW k \in 1..(n + 1), k # i
       PROVE  QUEUE'[k] \in DOMAIN job
  BY <1>9, <1>12
<1>13. CASE IdleCores # {}
  <2>1. core_index = LowestIdle /\ active' = [active EXCEPT ![core_index] = 1]
    BY <1>13 DEF scheduler_new_job
  <2>2. core_index \in Cores /\ active[core_index] = -1
    <3>1. IdleCores \in SUBSET Nat
      BY <1>1, CoresFacts DEF IdleCores
    <3>2. LowestIdle \in IdleCores
      BY <1>13, <3>1, MinProperties DEF LowestIdle
    <3> QED
      BY <2>1, <3>2 DEF IdleCores
  <2> DEFINE record == [new EXCEPT !.core_id = core_index, !.responded = 1,
                                   !.start_time = time]
  <2>3. record \in JobRecord /\ record.core_id = core_index
    <3>1. core_index \in Cores \cup {-1} /\ time \in -1..time /\ 1 \in {-1, 1}
      BY <1>2, <2>2
    <3> QED
      BY <1>3, <3>1, Zenon DEF JobRecord
  <2>4. Allocate(j, record, job)
    BY <1>13 DEF scheduler_new_job, new
  <2> HIDE DEF record
  <2>5. /\ DOMAIN job' = DOMAIN job \cup {j}
        /\ job' \in [DOMAIN job \cup {j} -> JobRecord]
        /\ job'[j].core_id = core_index
        /\ \A k \in DOMAIN job : job'[k].core_id = job[k].core_id
    <3>1. /\ DOMAIN job' = DOMAIN job \cup {j}
          /\ job' \in [DOMAIN job \cup {j} -> JobRecord]
          /\ job'[j] = record
          /\ \A k \in DOMAIN job : job'[k] = job[k]
      BY <1>2, <2>3, <2>4, AllocateProperties
    <3> QED
      BY <2>3, <3>1
  <2>6. /\ active' \in [Cores -> {-1, 1}]
        /\ ActiveCores' = ActiveCores \cup {core_index}
        /\ core_index \notin ActiveCores
    BY <1>1, <1>8, <2>1, <2>2 DEF TypeOK, ActiveCores
  <2>7. TypeOK' /\ QueueHoldsLiveJobs'
    BY <1>11, <2>5, <2>6
  <2>8. CoresMatch'
    <3>1. \A k \in DOMAIN job : job[k].core_id # core_index
      BY <1>1, <2>2 DEF CoresMatch
    <3>2. ASSUME NEW d \in Cores
          PROVE  active'[d] = 1 <=> \E k \in DOMAIN job' : job'[k].core_id = d
      <4>1. CASE d = core_index
        <5>1. active'[d] = 1
          BY <1>1, <2>1, <2>2, <4>1 DEF TypeOK
        <5>2. j \in DOMAIN job' /\ job'[j].core_id = d
          BY <2>5, <4>1
        <5> QED
          BY <5>1, <5>2
      <4>2. CASE d # core_index
        <5>1. active'[d] = active[d]
          BY <1>1, <2>1, <4>2 DEF TypeOK
        <5>2. active[d] = 1 <=> \E k \in DOMAIN job : job[k].core_id = d
          BY <1>1 DEF CoresMatch
        <5>3. (\E k \in DOMAIN job' : job'[k].core_id = d)
                  <=> \E k \in DOMAIN job : job[k].core_id = d
          BY <2>5, <4>2
        <5> QED
          BY <5>1, <5>2, <5>3
      <4> QED
        BY <4>1, <4>2
    <3>3. ASSUME NEW k \in DOMAIN job', NEW l \in DOMAIN job',
                 job'[k].core_id # -1, job'[k].core_id = job'[l].core_id
          PROVE  k = l
      BY <1>1, <2>5, <3>1, <3>3 DEF CoresMatch, Running
    <3> QED
      BY <1>8, <3>2, <3>3 DEF CoresMatch, Running
  <2>9. \A k \in DOMAIN job' : job'[k].core_id # -1
    BY <1>10, <1>13, <2>2, <2>5 DEF IInv, WorkConserving, Running
  <2>10. WorkConserving'
    BY <2>9 DEF WorkConserving, Running
  <2>11. Preemptive' => Len(QUEUE') = Cardinality(ActiveCores')
    <3>1. SUFFICES ASSUME Preemptive PROVE Len(QUEUE') = Cardinality(ActiveCores')
      BY <1>4 DEF Preemptive
    <3>2. n = Cardinality(ActiveCores)
      BY <1>13, <3>1 DEF IInv, QueueCountsActive, n
    <3>3. Cardinality(ActiveCores') = Cardinality(ActiveCores) + 1
      BY <1>1, <2>6, ActiveCoresFacts, FS_AddElement
    <3> QED
      BY <1>6, <3>2, <3>3
  <2>12. QueueCountsActive'
    BY <2>11 DEF QueueCountsActive
  <2>13. RunningFirst'
    <3>1. SUFFICES ASSUME Preemptive', IdleCores' = {}
                   PROVE  /\ num_cores <= n + 1
                          /\ \A k \in 1..(n + 1) :
                                job'[QUEUE'[k]].core_id # -1 <=> k <= num_cores
      BY <1>4, <1>6 DEF RunningFirst, Running
    <3>2. ActiveCores' = Cores
      BY <1>8, <2>6, <3>1 DEF ActiveCores, IdleCores
    <3>3. n + 1 = num_cores
      BY <1>6, <1>10, <2>11, <3>1, <3>2
    <3>4. \A k \in 1..(n + 1) : job'[QUEUE'[k]].core_id # -1
      BY <1>9, <2>5, <2>9
    <3> QED
      BY <3>3, <3>4, <1>10
  <2> QED
    BY <2>7, <2>8, <2>10, <2>12, <2>13 DEF IInv
<1>14. ASSUME IdleCores = {}, Preemptive
       PROVE  num_cores <= n /\ \A k \in 1..n : Running(QUEUE[k]) <=> k <= num_cores
  BY <1>14 DEF IInv, RunningFirst, n
(* When no core is idle none becomes idle, and the job that waits is the   *)
(* new one or the one that gives way.                                      *)
<1>15. ASSUME IdleCores = {}, active' = active
       PROVE  WorkConserving' /\ QueueCountsActive'
  <2>1. IdleCores' = {}
    BY <1>8, <1>15 DEF IdleCores
  <2> QED
    BY <2>1 DEF WorkConserving, QueueCountsActive
<1> DEFINE R == {x \in DOMAIN job : job[x].core_id # -1}
<1>16. ASSUME IdleCores = {}, Preemptive
       PROVE  /\ RunFirst(QUEUE, n, num_cores, R)
              /\ i > num_cores => RunFirst(QUEUE', n + 1, num_cores, R)
              /\ i <= num_cores =>
                    RunFirst(QUEUE', n + 1, num_cores, (R \cup {j}) \ {QUEUE[num_cores]})
  <2>1. RunFirst(QUEUE, n, num_cores, R)
    BY <1>9, <1>14, <1>16 DEF RunFirst, Running
  <2>2. j \notin R /\ num_cores <= n
    BY <1>2, <1>14, <1>16
  <2> HIDE DEF R
  <2> QED
    BY <1>2, <1>7, <1>9, <1>10, <2>1, <2>2, PutAmong
<1>17. CASE IdleCores = {} /\ Preemptive /\ AmongFirst(j, QUEUE')
  <2> DEFINE v == QUEUE[num_cores]
             record == [new EXCEPT !.core_id = core_index, !.responded = 1,
                                   !.start_time = time, !.pause_time = 0]
             given == [Refreshed EXCEPT ![v].core_id = -1, ![v].pause_time = time]
  <2>1. core_index = job[v].core_id /\ active' = active
    BY <1>17 DEF scheduler_new_job, Victim
  <2>2. Allocate(j, record, given)
    BY <1>17 DEF scheduler_new_job, new, Victim
  <2>3. v \in DOMAIN job /\ job[v].core_id # -1
    BY <1>9, <1>10, <1>14, <1>17, <1>2 DEF Running
  <2> HIDE DEF v
  <2>4. core_index \in Cores
    <3>1. job[v] \in JobRecord
      BY <1>2, <2>3
    <3>2. job[v].core_id \in Cores \cup {-1}
      BY <1>2, <3>1, RecordFields
    <3> QED
      BY <2>1, <2>3, <3>2
  <2>5. record \in JobRecord /\ record.core_id = core_index
    <3>1. /\ core_index \in Cores \cup {-1} /\ time \in -1..time /\ 0 \in -1..time
          /\ 1 \in {-1, 1}
      BY <1>2, <2>4
    <3> QED
      BY <1>3, <3>1, Zenon DEF JobRecord
  <2>6. /\ given \in [DOMAIN job -> JobRecord]
        /\ \A k \in DOMAIN job : given[k].core_id = IF k = v THEN -1 ELSE job[k].core_id
    BY <1>1, <2>3, VictimRecord
  <2> HIDE DEF record, given
  <2>7. /\ DOMAIN job' = DOMAIN job \cup {j}
        /\ job' \in [DOMAIN job \cup {j} -> JobRecord]
        /\ job'[j].core_id = core_index
        /\ \A k \in DOMAIN job :
                job'[k].core_id = IF k = v THEN -1 ELSE job[k].core_id
    <3>1. /\ DOMAIN job' = DOMAIN job \cup {j}
          /\ job' \in [DOMAIN job \cup {j} -> JobRecord]
          /\ job'[j] = record
          /\ \A k \in DOMAIN job : job'[k] = given[k]
      BY <1>2, <2>2, <2>5, <2>6, AllocateProperties, ZenonT(40)
    <3> QED
      BY <2>5, <2>6, <3>1
  <2>8. TypeOK' /\ QueueHoldsLiveJobs'
    BY <1>1, <1>11, <2>1, <2>7 DEF TypeOK
  <2>9. CoresMatch'
    <3>1. ASSUME NEW d \in Cores
          PROVE  active'[d] = 1 <=> \E k \in DOMAIN job' : job'[k].core_id = d
      <4>1. active[d] = 1 <=> \E k \in DOMAIN job : job[k].core_id = d
        BY <1>1 DEF CoresMatch
      <4>2. CASE d = core_index
        BY <4>1, <4>2, <2>1, <2>3, <2>7
      <4>3. CASE d # core_index
        BY <4>1, <4>3, <1>2, <1>10, <2>1, <2>7
      <4> QED
        BY <4>2, <4>3
    <3>2. ASSUME NEW k \in DOMAIN job', NEW l \in DOMAIN job',
                 job'[k].core_id # -1, job'[k].core_id = job'[l].core_id
          PROVE  k = l
      BY <1>1, <1>2, <2>1, <2>3, <2>7, <3>2 DEF CoresMatch, Running
    <3> QED
      BY <1>8, <3>1, <3>2 DEF CoresMatch, Running
  <2>10. RunningFirst'
    <3>1. i <= num_cores
      BY <1>2, <1>6, <1>9, <1>10, <1>14, <1>17 DEF AmongFirst
    <3> DEFINE R2 == (R \cup {j}) \ {v}
    <3>2. RunFirst(QUEUE', n + 1, num_cores, R2)
      BY <1>16, <1>17, <3>1 DEF v
    <3>3. \A k \in 1..(n + 1) : job'[QUEUE'[k]].core_id # -1 <=> QUEUE'[k] \in R2
      BY <1>2, <1>9, <1>10, <2>3, <2>4, <2>7
    <3> HIDE DEF R2
    <3>4. /\ num_cores <= n + 1
          /\ \A k \in 1..(n + 1) : job'[QUEUE'[k]].core_id # -1 <=> k <= num_cores
      BY <1>2, <1>10, <1>14, <1>17, <3>2, <3>3 DEF RunFirst
    <3> QED
      BY <1>4, <1>6, <3>4 DEF RunningFirst, Running
  <2> QED
    BY <1>15, <1>17, <2>1, <2>8, <2>9, <2>10 DEF IInv
<1>18. CASE IdleCores = {} /\ ~(Preemptive /\ AmongFirst(j, QUEUE'))
  <2>1. Allocate(j, new, RecordsAtOffer) /\ active' = active
    BY <1>18 DEF scheduler_new_job, new
  <2>2. /\ DOMAIN job' = DOMAIN job \cup {j}
        /\ job' \in [DOMAIN job \cup {j} -> JobRecord]
        /\ job'[j].core_id = -1
        /\ \A k \in DOMAIN job : job'[k].core_id = job[k].core_id
    <3>1. /\ DOMAIN job' = DOMAIN job \cup {j}
          /\ job' \in [DOMAIN job \cup {j} -> JobRecord]
          /\ job'[j] = new
          /\ \A k \in DOMAIN job : job'[k] = RecordsAtOffer[k]
      BY <1>2, <1>3, <1>5, <2>1, AllocateProperties, ZenonT(40)
    <3> QED
      BY <1>3, <1>5, <3>1
  <2>3. TypeOK' /\ QueueHoldsLiveJobs'
    BY <1>1, <1>11, <2>1, <2>2 DEF TypeOK
  <2>4. CoresMatch'
    BY <1>1, <1>8, <1>10, <2>1, <2>2 DEF CoresMatch, Running
  <2>5. RunningFirst'
    <3>1. SUFFICES ASSUME Preemptive
                   PROVE  /\ num_cores <= n + 1
                          /\ \A k \in 1..(n + 1) :
                                job'[QUEUE'[k]].core_id # -1 <=> k <= num_cores
      BY <1>4, <1>6 DEF RunningFirst, Running, Preemptive
    <3>2. i > num_cores
      BY <1>9, <1>10, <1>18, <3>1 DEF AmongFirst
    <3>3. RunFirst(QUEUE', n + 1, num_cores, R)
      BY <1>16, <1>18, <3>1, <3>2
    <3>4. \A k \in 1..(n + 1) : job'[QUEUE'[k]].core_id # -1 <=> QUEUE'[k] \in R
      BY <1>2, <1>9, <2>2
    <3> HIDE DEF R
    <3> QED
      BY <1>2, <1>10, <1>14, <1>18, <3>1, <3>3, <3>4 DEF RunFirst
  <2> QED
    BY <1>15, <1>18, <2>1, <2>3, <2>4, <2>5 DEF IInv
<1> QED
  BY <1>13, <1>17, <1>18

-----------------------------------------------------------------------------
(* scheduler_quantum_expired, which the caller calls for round robin only. *)

LEMMA ExpiredRecord ==
    ASSUME TypeOK, NEW e \in DOMAIN job
    PROVE  /\ RecordsExpired(e) \in [DOMAIN job -> JobRecord]
           /\ DOMAIN RecordsExpired(e) = DOMAIN job
           /\ \A k \in DOMAIN job :
                RecordsExpired(e)[k].core_id = IF k = e THEN -1 ELSE job[k].core_id
<1> DEFINE known == RecordsExpired(e)
           record == [job[e] EXCEPT !.core_id = -1, !.pause_time = time,
                            !.time_remaining = @ - (time - job[e].start_time)]
<1>1. job \in [DOMAIN job -> JobRecord] /\ time \in Nat /\ job[e] \in JobRecord
  BY SchedulerAssumption DEF TypeOK
<1>2. record \in JobRecord /\ record.core_id = -1
  <2>1. job[e].time_remaining - (time - job[e].start_time) \in Int
    BY <1>1, RecordFields
  <2>2. time \in -1..time /\ -1 \in Cores \cup {-1}
    BY <1>1
  <2> QED
    BY <1>1, <2>1, <2>2, Zenon DEF JobRecord
<1>3. known[e] = record
  BY <1>1, Zenon DEF RecordsExpired
<1>4. known[e] \in JobRecord /\ known[e].core_id = -1
  BY <1>2, <1>3, Zenon
<1>5. /\ DOMAIN known = DOMAIN job
      /\ \A k \in DOMAIN job : k # e => known[k] = job[k]
      /\ known = [k \in DOMAIN job |-> known[k]]
  BY <1>1 DEF RecordsExpired
<1> HIDE DEF known
<1>6. \A k \in DOMAIN job : known[k] \in JobRecord
  BY <1>1, <1>4, <1>5
<1>7. known \in [DOMAIN job -> JobRecord]
  BY <1>5, <1>6
<1>8. \A k \in DOMAIN job : known[k].core_id = IF k = e THEN -1 ELSE job[k].core_id
  BY <1>4, <1>5
<1> QED
  BY <1>5, <1>7, <1>8 DEF known

LEMMA ExpireStep ==
    ASSUME IInv, CURRENT_SCHEME = "RR", NEW c \in Cores, NEW w,
           scheduler_quantum_expired(c, w)
    PROVE  IInv'
<1>1. TypeOK /\ QueueHoldsLiveJobs /\ CoresMatch
  BY DEF IInv
<1>2. /\ QUEUE \in Seq(Jobs) /\ IsInjective(QUEUE) /\ ToSet(QUEUE) = DOMAIN job
      /\ job \in [DOMAIN job -> JobRecord] /\ DOMAIN job \subseteq Jobs
      /\ time \in Nat /\ active \in [Cores -> {-1, 1}]
      /\ -1 \notin Cores
  BY <1>1, SchedulerAssumption, CoresFacts DEF TypeOK, QueueHoldsLiveJobs
<1>3. /\ CURRENT_SCHEME' = CURRENT_SCHEME /\ num_cores' = num_cores
      /\ num_jobs' = num_jobs /\ turnaround_time' = turnaround_time
      /\ time' = time
  BY DEF scheduler_quantum_expired
<1>4. Cores' = Cores /\ JobRecord' = JobRecord
  BY <1>3, SameTypes
<1>5. RunningFirst' /\ QueueCountsActive'
  BY <1>3 DEF RunningFirst, QueueCountsActive, Preemptive
<1> DEFINE Owner == {k \in DOMAIN job : job[k].core_id = c}
<1>6. /\ OnCore(c) \in 0..Len(QUEUE)
      /\ OnCore(c) = 0 => \A k \in 1..Len(QUEUE) : QUEUE[k] \notin Owner
      /\ OnCore(c) # 0 => QUEUE[OnCore(c)] \in Owner
  BY <1>2, FirstInProperties DEF OnCore
<1>7. CASE OnCore(c) = 0
  <2>1. /\ active' = [active EXCEPT ![c] = -1]
        /\ QUEUE' = QUEUE /\ job' = job
        /\ waiting_time' = waiting_time /\ response_time' = response_time
    BY <1>7 DEF scheduler_quantum_expired
  <2>2. \A k \in DOMAIN job : job[k].core_id # c
    <3>1. \A k \in DOMAIN job : \E l \in 1..Len(QUEUE) : QUEUE[l] = k
      BY <1>2, ElementsOf DEF Occurs
    <3> QED
      BY <1>6, <1>7, <3>1
  <2>3. active' = active
    BY <1>1, <1>2, <2>1, <2>2 DEF CoresMatch
  <2>4. TypeOK' /\ QueueHoldsLiveJobs'
    BY <1>1, <1>3, <1>4, <2>1, <2>3 DEF TypeOK, QueueHoldsLiveJobs
  <2>5. CoresMatch'
    BY <1>1, <1>4, <2>1, <2>3 DEF CoresMatch, Running
  <2>6. WorkConserving'
    BY <1>4, <2>1, <2>3 DEF IInv, WorkConserving, IdleCores, Running
  <2> QED
    BY <1>5, <2>4, <2>5, <2>6 DEF IInv
<1>8. CASE OnCore(c) # 0
  <2> DEFINE e == QUEUE[OnCore(c)]
             known == RecordsExpired(e)
  <2>1. /\ QUEUE' = OfferJob(QueueWithout(e), known, e, known[e])
        /\ WakeOn(c, QUEUE', known, -1, w)
    BY <1>8 DEF scheduler_quantum_expired
  <2>2. e \in DOMAIN job /\ job[e].core_id = c
    BY <1>6, <1>8
  <2> HIDE DEF e
  <2>3. /\ known \in [DOMAIN job -> JobRecord]
        /\ DOMAIN known = DOMAIN job
        /\ \A k \in DOMAIN job : known[k].core_id = IF k = e THEN -1 ELSE job[k].core_id
    BY <1>1, <2>2, ExpiredRecord
  <2> HIDE DEF known
  <2>4. active[c] = 1 /\ \A k \in DOMAIN job : job[k].core_id = c => k = e
    BY <1>1, <1>2, <2>2 DEF CoresMatch, Running
  <2>5. /\ QueueWithout(e) \in Seq(Jobs)
        /\ IsInjective(QueueWithout(e))
        /\ ToSet(QueueWithout(e)) = DOMAIN job \ {e}
    BY <1>2, <2>2, TakeOutProperties DEF QueueWithout
  <2>6. /\ QUEUE' \in Seq(Jobs)
        /\ IsInjective(QUEUE')
        /\ ToSet(QUEUE') = DOMAIN known
    <3>1. /\ e \in Jobs /\ e \notin ToSet(QueueWithout(e))
          /\ known[e] \in JobRecord
          /\ known \in [DOMAIN known -> JobRecord]
          /\ ToSet(QueueWithout(e)) \subseteq DOMAIN known
          /\ time \in Nat
      BY <1>2, <2>2, <2>3, <2>5
    <3>2. /\ QUEUE' \in Seq(Jobs)
          /\ IsInjective(QUEUE')
          /\ ToSet(QUEUE') = ToSet(QueueWithout(e)) \cup {e}
      BY <2>1, <2>5, <3>1, OfferJobProperties, SMTT(30)
    <3> QED
      BY <2>2, <2>3, <2>5, <3>2
  <2>7. NoOwner(c, known)
    BY <1>2, <2>3, <2>4 DEF NoOwner
  <2>8. OwnersMatch(known, active, Cores \ {c})
    <3>1. ASSUME NEW d \in Cores \ {c}
          PROVE  active[d] = 1 <=> \E k \in DOMAIN known : known[k].core_id = d
      BY <1>1, <1>2, <2>2, <2>3, <3>1 DEF CoresMatch
    <3>2. ASSUME NEW k \in DOMAIN known, NEW l \in DOMAIN known,
                 known[k].core_id # -1, known[k].core_id = known[l].core_id
          PROVE  k = l
      BY <1>1, <2>3, <3>2 DEF CoresMatch, Running
    <3> QED
      BY <3>1, <3>2 DEF OwnersMatch
  <2>9. /\ active' \in [Cores -> {-1, 1}]
        /\ DOMAIN job' = DOMAIN known
        /\ job' \in [DOMAIN known -> JobRecord]
        /\ waiting_time' \in Nat
        /\ response_time' \in Nat
        /\ OwnersMatch(job', active', Cores)
        /\ HandedTo(c, QUEUE', known, job', active, active')
    <3>1. -1 \in {-1, 0} /\ known \in [DOMAIN known -> JobRecord]
      BY <2>3
    <3> QED
      BY <1>1, <2>1, <2>4, <2>6, <2>7, <2>8, <3>1, WakeOnProperties, Zenon
  <2>10. TypeOK'
    BY <1>1, <1>2, <1>3, <1>4, <2>3, <2>6, <2>9 DEF TypeOK
  <2>11. QueueHoldsLiveJobs'
    BY <2>6, <2>9 DEF QueueHoldsLiveJobs
  <2>12. CoresMatch'
    BY <1>4, <2>9 DEF CoresMatch, OwnersMatch, Running
  <2>13. WorkConserving'
    <3>1. SUFFICES ASSUME IdleCores' # {}
                   PROVE  \A k \in DOMAIN job' : job'[k].core_id # -1
      BY DEF WorkConserving, Running
    <3>2. ~NoOwner(-1, known)
      BY <2>2, <2>3 DEF NoOwner
    <3>3. /\ active' = active
          /\ \E k \in DOMAIN known :
                /\ known[k].core_id = -1
                /\ \A l \in DOMAIN known :
                        job'[l].core_id = IF l = k THEN c ELSE known[l].core_id
      BY <2>9, <3>2 DEF HandedTo
    <3>4. \A k \in DOMAIN job : job[k].core_id # -1
      BY <1>4, <3>1, <3>3 DEF IInv, WorkConserving, IdleCores, Running
    <3> QED
      BY <1>2, <2>3, <2>9, <3>3, <3>4
  <2> QED
    BY <1>5, <2>10, <2>11, <2>12, <2>13 DEF IInv
<1> QED
  BY <1>7, <1>8

-----------------------------------------------------------------------------
(* The caller's clock, and the specification.                              *)

(* Time passes, and nothing else changes.                                  *)
LEMMA ClockStep ==
    ASSUME IInv, time' = time + 1,
           UNCHANGED <<CURRENT_SCHEME, num_cores, active, QUEUE, job, num_jobs,
                       waiting_time, turnaround_time, response_time>>
    PROVE  IInv'
<1>1. Cores' = Cores /\ IdleCores' = IdleCores
  BY DEF Cores, IdleCores
<1>2. TypeOK'
  <2>1. TypeOK /\ time \in Nat /\ time' \in Nat
    BY DEF IInv, TypeOK
  <2>2. 0..time \subseteq 0..time' /\ -1..time \subseteq -1..time'
    BY <2>1
  <2>3. ASSUME NEW a \in JobRecord PROVE a \in JobRecord'
    BY <1>1, <2>2, Zenon DEF JobRecord
  <2>4. job' \in [DOMAIN job' -> JobRecord']
    BY <2>1, <2>3 DEF TypeOK
  <2> QED
    BY <1>1, <2>1, <2>4 DEF TypeOK
<1>3. QueueHoldsLiveJobs' /\ CoresMatch' /\ WorkConserving'
  BY <1>1 DEF IInv, QueueHoldsLiveJobs, CoresMatch, WorkConserving, Running
<1>4. RunningFirst'
  BY <1>1 DEF IInv, RunningFirst, Preemptive, Running
<1>5. QueueCountsActive'
  BY <1>1 DEF IInv, QueueCountsActive, Preemptive, ActiveCores
<1> QED
  BY <1>2, <1>3, <1>4, <1>5 DEF IInv

LEMMA InitInvariant == SchedInit => IInv
<1> SUFFICES ASSUME SchedInit PROVE IInv
  OBVIOUS
<1>1. /\ <<CURRENT_SCHEME, num_cores>> \in Configurations
      /\ active = [c \in Cores |-> -1]
      /\ QUEUE = <<>> /\ job = <<>>
      /\ num_jobs = 0 /\ waiting_time = 0 /\ turnaround_time = 0
      /\ response_time = 0 /\ time = 0
  BY SchedulerAssumption DEF SchedInit, scheduler_start_up
<1>2. DOMAIN job = {} /\ ToSet(QUEUE) = {} /\ IsInjective(QUEUE) /\ Len(QUEUE) = 0
  BY <1>1 DEF ToSet, IsInjective
<1>3. num_cores \in Nat \ {0} /\ IdleCores = Cores /\ 0 \in Cores
  BY <1>1, SchedulerAssumption DEF IdleCores, Cores
<1>4. TypeOK
  <2>1. job \in [DOMAIN job -> JobRecord]
    BY <1>1, <1>2
  <2> QED
    BY <1>1, <1>2, <2>1, SchedulerAssumption DEF TypeOK
<1>5. QueueHoldsLiveJobs /\ CoresMatch /\ WorkConserving
  BY <1>1, <1>2 DEF QueueHoldsLiveJobs, CoresMatch, WorkConserving
<1>6. RunningFirst
  BY <1>3 DEF RunningFirst
<1>7. QueueCountsActive
  <2>1. ActiveCores = {}
    BY <1>1 DEF ActiveCores
  <2> QED
    BY <1>2, <2>1, FS_EmptySet DEF QueueCountsActive
<1> QED
  BY <1>4, <1>5, <1>6, <1>7 DEF IInv

LEMMA NextInvariant == IInv /\ [SchedNext]_schedVars => IInv'
<1> SUFFICES ASSUME IInv, [SchedNext]_schedVars PROVE IInv'
  OBVIOUS
<1>1. CASE Arrive
  <2>1. PICK j \in Jobs \ DOMAIN job, r \in RunTimes, p \in Priorities,
             core_index \in Cores \cup {-1} :
                scheduler_new_job(j, r, p, core_index)
    BY <1>1 DEF Arrive
  <2> QED
    BY <2>1, NewJobStep
<1>2. CASE Finish
  <2>1. PICK j \in DOMAIN job, w \in Jobs \cup {-1} :
            Running(j) /\ scheduler_job_finished(job[j].core_id, j, w)
    BY <1>2 DEF Finish
  <2> QED
    BY <2>1, FinishStep
<1>3. CASE Expire
  <2>1. CURRENT_SCHEME = "RR"
    BY <1>3 DEF Expire
  <2>2. PICK c \in Cores, w \in Jobs \cup {-1} : scheduler_quantum_expired(c, w)
    BY <1>3 DEF Expire
  <2> QED
    BY <2>1, <2>2, ExpireStep
<1>4. CASE Tick
  <2>1. /\ time' = time + 1
        /\ UNCHANGED <<CURRENT_SCHEME, num_cores, active, QUEUE, job, num_jobs,
                       waiting_time, turnaround_time, response_time>>
    BY <1>4 DEF Tick
  <2> QED
    BY <2>1, ClockStep
<1>5. CASE UNCHANGED schedVars
  BY <1>5 DEF schedVars, IInv, TypeOK, JobRecord, QueueHoldsLiveJobs, CoresMatch,
              WorkConserving, RunningFirst, QueueCountsActive, ActiveCores,
              Cores, IdleCores, Running, Preemptive
<1> QED
  BY <1>1, <1>2, <1>3, <1>4, <1>5 DEF SchedNext

(* The inductive invariant.                                                *)
THEOREM Invariant == SchedSpec => []IInv
BY InitInvariant, NextInvariant, PTL DEF SchedSpec

(* Every variable of the library keeps its type: no statistic becomes      *)
(* negative, and no record is filled with a time that has not come         *)
(* (libscheduler.c:171-190, 272, 294-299).                                 *)
THEOREM TypeCorrect == SchedSpec => []TypeOK
<1>1. IInv => TypeOK
  BY DEF IInv
<1> QED
  BY <1>1, Invariant, PTL

(* The queue holds every allocated job once and no freed one, whatever the *)
(* comparer: the library neither loses a job nor frees one twice.          *)
THEOREM NoJobLost == SchedSpec => []QueueHoldsLiveJobs
<1>1. IInv => QueueHoldsLiveJobs
  BY DEF IInv
<1> QED
  BY <1>1, Invariant, PTL

(* No two jobs have the same core, and a core is marked active exactly     *)
(* when a job has it.                                                      *)
THEOREM OneJobPerCore == SchedSpec => []CoresMatch
<1>1. IInv => CoresMatch
  BY DEF IInv
<1> QED
  BY <1>1, Invariant, PTL

(* A core is idle only when every job of the queue is running.             *)
THEOREM NoCoreWasted == SchedSpec => []WorkConserving
<1>1. IInv => WorkConserving
  BY DEF IInv
<1> QED
  BY <1>1, Invariant, PTL

(* The preemptive branch of scheduler_new_job may take the first num_cores *)
(* jobs of the queue for the running ones: they are.                       *)
THEOREM PreemptionPicksRunning == SchedSpec => []RunningFirst
<1>1. IInv => RunningFirst
  BY DEF IInv
<1> QED
  BY <1>1, Invariant, PTL

-----------------------------------------------------------------------------
(* What a step may not do.                                                 *)

KeepsCores ==
    \A j \in DOMAIN job \cap DOMAIN job' :
        CURRENT_SCHEME \in {"FCFS", "SJF", "PRI"} /\ Running(j)
            => job'[j].core_id = job[j].core_id

LEMMA StepKeepsCores == IInv /\ [SchedNext]_schedVars => KeepsCores
<1> SUFFICES ASSUME IInv, [SchedNext]_schedVars,
                    NEW j \in DOMAIN job \cap DOMAIN job',
                    CURRENT_SCHEME \in {"FCFS", "SJF", "PRI"}, job[j].core_id # -1
             PROVE  job'[j].core_id = job[j].core_id
  BY DEF KeepsCores, Running
<1>1. CASE Arrive
  <2>1. PICK k \in Jobs \ DOMAIN job, r \in RunTimes, p \in Priorities,
             core_index \in Cores \cup {-1} :
                scheduler_new_job(k, r, p, core_index)
    BY <1>1 DEF Arrive
  <2>2. ~Preemptive /\ RecordsAtOffer = job
    BY DEF Preemptive, RecordsAtOffer
  <2>3. \E record : Allocate(k, record, job)
    BY <2>1, <2>2 DEF scheduler_new_job
  <2> QED
    BY <2>3 DEF Allocate
<1>2. CASE Finish
  <2>1. PICK k \in DOMAIN job, w \in Jobs \cup {-1} :
            Running(k) /\ scheduler_job_finished(job[k].core_id, k, w)
    BY <1>2 DEF Finish
  <2> DEFINE known == RecordsWithout(k)
  <2>2. DOMAIN known = DOMAIN job \ {k} /\ \A l \in DOMAIN known : known[l] = job[l]
    BY DEF RecordsWithout
  <2>3. QUEUE' = QueueWithout(k) /\ WakeOn(job[k].core_id, QUEUE', known, 0, w)
    BY <2>1 DEF scheduler_job_finished
  <2>4. QUEUE' \in Seq(Jobs) /\ ToSet(QUEUE') = DOMAIN known
    <3>1. QUEUE \in Seq(Jobs) /\ IsInjective(QUEUE) /\ ToSet(QUEUE) = DOMAIN job
      BY DEF IInv, TypeOK, QueueHoldsLiveJobs
    <3>2. /\ QueueWithout(k) \in Seq(Jobs)
          /\ ToSet(QueueWithout(k)) = ToSet(QUEUE) \ {k}
      BY <3>1, TakeOutProperties DEF QueueWithout
    <3> QED
      BY <2>2, <2>3, <3>1, <3>2
  <2> HIDE DEF known
  <2>5. w = FirstWaiting(QUEUE', known)
    BY <2>3 DEF WakeOn
  <2>6. w = -1 \/ (w \in DOMAIN known /\ known[w].core_id = -1)
    BY <2>4, <2>5, FirstWaitingProperties
  <2>7. DOMAIN job' = DOMAIN known /\ \A l \in DOMAIN known : l # w => job'[l] = known[l]
    BY <2>3 DEF WakeOn
  <2>8. j # -1
    BY SchedulerAssumption DEF IInv, TypeOK
  <2> QED
    BY <2>2, <2>6, <2>7, <2>8
<1>3. CASE Expire
  BY <1>3 DEF Expire
<1>4. CASE Tick
  BY <1>4 DEF Tick
<1>5. CASE UNCHANGED schedVars
  BY <1>5 DEF schedVars
<1> QED
  BY <1>1, <1>2, <1>3, <1>4, <1>5 DEF SchedNext

(* Without preemption and without quantums a job keeps its core until it   *)
(* is finished.                                                            *)
THEOREM NoPreemption == SchedSpec => NonPreemptive
<1>1. NonPreemptive <=> [][KeepsCores]_schedVars
  BY DEF NonPreemptive, KeepsCores
<1> QED
  BY <1>1, Invariant, StepKeepsCores, PTL DEF SchedSpec

-----------------------------------------------------------------------------
(* What the calls do to the records of the library.                        *)

(* The record of a job that gets a core.                                   *)
Woken(record, core, mark) ==
    [record EXCEPT !.core_id = core, !.start_time = time,
                   !.pause_time = mark, !.responded = 1]

(* Job w, or none when w = -1, gets core c; the records were known before. *)
Handed(c, known, mark, w) ==
    /\ DOMAIN job' = DOMAIN known
    /\ w # -1 => w \in DOMAIN known /\ known[w].core_id = -1
    /\ \A k \in DOMAIN known :
            job'[k] = IF k = w THEN Woken(known[k], c, mark) ELSE known[k]
    /\ w = -1 => waiting_time' = waiting_time /\ response_time' = response_time
    /\ w # -1 =>
        /\ waiting_time' = waiting_time + (time - known[w].pause_time)
        /\ response_time' = response_time +
                IF known[w].responded = -1 THEN time - known[w].arrival_time ELSE 0

LEMMA StateFacts ==
    ASSUME IInv
    PROVE  /\ QUEUE \in Seq(Jobs) /\ IsInjective(QUEUE) /\ ToSet(QUEUE) = DOMAIN job
           /\ job \in [DOMAIN job -> JobRecord] /\ DOMAIN job \subseteq Jobs
           /\ time \in Nat /\ num_cores \in Nat \ {0} /\ -1 \notin Cores
           /\ Jobs \subseteq Nat /\ -1 \notin Jobs
           /\ waiting_time \in Nat /\ turnaround_time \in Nat /\ response_time \in Nat
<1>1. TypeOK /\ QueueHoldsLiveJobs
  BY DEF IInv
<1>2. Jobs \subseteq Nat /\ -1 \notin Jobs
  BY SchedulerAssumption
<1> QED
  BY <1>1, <1>2, CoresFacts DEF TypeOK, QueueHoldsLiveJobs

(* The scan gives the core to a waiting job, whose record is all that      *)
(* changes, or finds none.                                                 *)
LEMMA WakeEffect ==
    ASSUME NEW c, NEW q \in Seq(Jobs), NEW known, ToSet(q) = DOMAIN known,
           NEW mark, NEW w, WakeOn(c, q, known, mark, w), -1 \notin Jobs
    PROVE  Handed(c, known, mark, w)
<1>1. w = FirstWaiting(q, known)
  BY DEF WakeOn
<1>2. CASE w = -1
  <2>1. /\ job' = known
        /\ waiting_time' = waiting_time /\ response_time' = response_time
    BY <1>2 DEF WakeOn
  <2>2. -1 \notin DOMAIN known
    BY ElementsOf DEF Occurs
  <2> QED
    BY <1>2, <2>1, <2>2 DEF Handed
<1>3. CASE w # -1
  <2>1. w \in DOMAIN known /\ known[w].core_id = -1
    BY <1>1, <1>3, FirstWaitingProperties
  <2>2. job' = [known EXCEPT ![w].core_id = c, ![w].start_time = time,
                             ![w].pause_time = mark, ![w].responded = 1]
    BY <1>3 DEF WakeOn
  <2>3. job' = [known EXCEPT ![w] = Woken(known[w], c, mark)]
    BY <2>1, <2>2 DEF Woken
  <2>4. DOMAIN job' = DOMAIN known
    BY <2>3
  <2>5. \A k \in DOMAIN known :
            job'[k] = IF k = w THEN Woken(known[k], c, mark) ELSE known[k]
    BY <2>3
  <2>6. /\ waiting_time' = waiting_time + (time - known[w].pause_time)
        /\ response_time' = response_time +
            IF known[w].responded = -1 THEN time - known[w].arrival_time ELSE 0
    BY <1>3 DEF WakeOn, Waited
  <2> QED
    BY <1>3, <2>1, <2>4, <2>5, <2>6 DEF Handed
<1> QED
  BY <1>2, <1>3

LEMMA FinishEffect ==
    ASSUME IInv, NEW j \in DOMAIN job, NEW c, NEW w, scheduler_job_finished(c, j, w)
    PROVE  /\ DOMAIN RecordsWithout(j) = DOMAIN job \ {j}
           /\ \A k \in DOMAIN job \ {j} : RecordsWithout(j)[k] = job[k]
           /\ Handed(c, RecordsWithout(j), 0, w)
           /\ turnaround_time' = turnaround_time + (time - job[j].arrival_time)
           /\ UNCHANGED <<CURRENT_SCHEME, num_cores, time>>
<1> DEFINE q == QueueWithout(j)
           known == RecordsWithout(j)
<1>1. /\ QUEUE \in Seq(Jobs) /\ IsInjective(QUEUE) /\ ToSet(QUEUE) = DOMAIN job
      /\ -1 \notin Jobs
  BY StateFacts
<1>2. DOMAIN known = DOMAIN job \ {j} /\ \A k \in DOMAIN known : known[k] = job[k]
  BY DEF RecordsWithout
<1>3. q \in Seq(Jobs) /\ ToSet(q) = DOMAIN known
  BY <1>1, <1>2, TakeOutProperties DEF QueueWithout
<1>4. /\ WakeOn(c, q, known, 0, w)
      /\ turnaround_time' = turnaround_time + (time - job[j].arrival_time)
      /\ UNCHANGED <<CURRENT_SCHEME, num_cores, time>>
  BY DEF scheduler_job_finished
<1>5. Handed(c, known, 0, w)
  BY <1>1, <1>3, <1>4, WakeEffect
<1> QED
  BY <1>2, <1>4, <1>5

(* The job that had the core is offered again, to the list it left.        *)
LEMMA ExpiredOffered ==
    ASSUME IInv, NEW c \in Cores, NEW w, scheduler_quantum_expired(c, w),
           NEW e \in DOMAIN job, job[e].core_id = c
    PROVE  /\ QUEUE' = OfferJob(QueueWithout(e), RecordsExpired(e), e, RecordsExpired(e)[e])
           /\ WakeOn(c, QUEUE', RecordsExpired(e), -1, w)
           /\ UNCHANGED <<CURRENT_SCHEME, num_cores, num_jobs, turnaround_time, time>>
<1> DEFINE Owner == {k \in DOMAIN job : job[k].core_id = c}
<1>1. /\ QUEUE \in Seq(Jobs) /\ ToSet(QUEUE) = DOMAIN job /\ -1 \notin Cores
  BY StateFacts
<1>2. /\ OnCore(c) = 0 => \A k \in 1..Len(QUEUE) : QUEUE[k] \notin Owner
      /\ OnCore(c) # 0 => QUEUE[OnCore(c)] \in Owner
  BY <1>1, FirstInProperties DEF OnCore
<1>3. \E k \in 1..Len(QUEUE) : QUEUE[k] = e
  BY <1>1, ElementsOf DEF Occurs
<1>4. \A k \in Owner : k = e
  BY <1>1 DEF IInv, CoresMatch, Running
<1>5. OnCore(c) # 0 /\ QUEUE[OnCore(c)] = e
  BY <1>2, <1>3, <1>4
<1> QED
  BY <1>5 DEF scheduler_quantum_expired

LEMMA ExpireEffect ==
    ASSUME IInv, NEW c \in Cores, NEW w, scheduler_quantum_expired(c, w),
           NEW e \in DOMAIN job, job[e].core_id = c
    PROVE  /\ DOMAIN RecordsExpired(e) = DOMAIN job
           /\ \A k \in DOMAIN job :
                RecordsExpired(e)[k] =
                    IF k = e
                    THEN [job[e] EXCEPT !.core_id = -1, !.pause_time = time,
                                        !.time_remaining = @ - (time - job[e].start_time)]
                    ELSE job[k]
           /\ Handed(c, RecordsExpired(e), -1, w)
           /\ UNCHANGED <<CURRENT_SCHEME, num_cores, turnaround_time, time>>
<1> DEFINE q == QueueWithout(e)
           known == RecordsExpired(e)
<1>1. /\ QUEUE \in Seq(Jobs) /\ IsInjective(QUEUE) /\ ToSet(QUEUE) = DOMAIN job
      /\ job \in [DOMAIN job -> JobRecord] /\ DOMAIN job \subseteq Jobs
      /\ -1 \notin Jobs /\ -1 \notin Cores /\ time \in Nat
  BY StateFacts
<1>2. TypeOK
  BY DEF IInv
<1>3. /\ QUEUE' = OfferJob(q, known, e, known[e])
      /\ WakeOn(c, QUEUE', known, -1, w)
      /\ UNCHANGED <<CURRENT_SCHEME, num_cores, turnaround_time, time>>
  BY ExpiredOffered
<1>4. /\ known \in [DOMAIN job -> JobRecord] /\ DOMAIN known = DOMAIN job
  BY <1>2, ExpiredRecord
<1>5. /\ q \in Seq(Jobs) /\ IsInjective(q) /\ ToSet(q) = DOMAIN job \ {e}
  BY <1>1, TakeOutProperties DEF QueueWithout
<1>6. \A k \in DOMAIN job :
        known[k] = IF k = e
                   THEN [job[e] EXCEPT !.core_id = -1, !.pause_time = time,
                                       !.time_remaining = @ - (time - job[e].start_time)]
                   ELSE job[k]
  BY <1>1 DEF RecordsExpired
<1> HIDE DEF q, known
<1>7. QUEUE' \in Seq(Jobs) /\ ToSet(QUEUE') = DOMAIN known
  <2>1. /\ known \in [DOMAIN known -> JobRecord] /\ known[e] \in JobRecord
        /\ ToSet(q) \subseteq DOMAIN known /\ e \in Jobs /\ e \notin ToSet(q)
    BY <1>1, <1>4, <1>5
  <2>2. /\ OfferJob(q, known, e, known[e]) \in Seq(Jobs)
        /\ ToSet(OfferJob(q, known, e, known[e])) = ToSet(q) \cup {e}
    BY <1>1, <1>5, <2>1, OfferJobProperties
  <2> QED
    BY <1>3, <1>4, <1>5, <2>2
<1>8. Handed(c, known, -1, w)
  BY <1>1, <1>3, <1>7, WakeEffect
<1> QED
  BY <1>3, <1>4, <1>6, <1>8 DEF known

(* The time a job still needs, from its record.                            *)
Left(record) ==
    IF record.core_id = -1 THEN record.time_remaining
    ELSE record.time_remaining - (time - record.start_time)

LEMMA WokenFields ==
    ASSUME NEW a \in JobRecord, NEW c, NEW mark, time \in Nat
    PROVE  /\ Woken(a, c, mark).core_id = c
           /\ Woken(a, c, mark).start_time = time
           /\ Woken(a, c, mark).pause_time = mark
           /\ Woken(a, c, mark).responded = 1
           /\ Woken(a, c, mark).arrival_time = a.arrival_time
           /\ Woken(a, c, mark).run_time = a.run_time
           /\ Woken(a, c, mark).priority = a.priority
           /\ Woken(a, c, mark).time_remaining = a.time_remaining
           /\ a.core_id = -1 => Left(Woken(a, c, mark)) = Left(a)
<1>1. a.time_remaining \in Int
  BY RecordFields
<1>2. /\ Woken(a, c, mark).core_id = c
      /\ Woken(a, c, mark).start_time = time
      /\ Woken(a, c, mark).pause_time = mark
      /\ Woken(a, c, mark).responded = 1
      /\ Woken(a, c, mark).arrival_time = a.arrival_time
      /\ Woken(a, c, mark).run_time = a.run_time
      /\ Woken(a, c, mark).priority = a.priority
      /\ Woken(a, c, mark).time_remaining = a.time_remaining
  BY DEF Woken, JobRecord
<1>3. a.core_id = -1 => Left(Woken(a, c, mark)) = Left(a)
  BY <1>1, <1>2 DEF Left
<1> QED
  BY <1>2, <1>3

(* What a record of another job keeps when a job arrives.                  *)
Passed(old, new, core) ==
    /\ new.arrival_time = old.arrival_time
    /\ new.run_time = old.run_time
    /\ new.priority = old.priority
    /\ new.responded = old.responded
    /\ Left(new) = Left(old)
    /\ IF core # -1 /\ old.core_id = core
       THEN new.core_id = -1 /\ new.pause_time = time
       ELSE new.core_id = old.core_id /\ new.pause_time = old.pause_time

LEMMA RefreshedFields ==
    ASSUME IInv, IdleCores = {}, Preemptive, NEW k \in DOMAIN job
    PROVE  /\ Passed(job[k], Refreshed[k], -1)
           /\ job[k].core_id # -1 => Refreshed[k].time_remaining = Left(job[k])
<1>1. job[k] \in JobRecord /\ time \in Nat
  BY StateFacts
<1>2. job[k].time_remaining \in Int /\ job[k].start_time \in Int
  BY <1>1, RecordFields
<1>3. k \in {QUEUE[l] : l \in 1..num_cores} <=> job[k].core_id # -1
  <2>1. /\ num_cores <= Len(QUEUE)
        /\ \A l \in 1..Len(QUEUE) : Running(QUEUE[l]) <=> l <= num_cores
    BY DEF IInv, RunningFirst
  <2>2. QUEUE \in Seq(Jobs) /\ ToSet(QUEUE) = DOMAIN job /\ num_cores \in Nat
    BY StateFacts
  <2>3. PICK m \in 1..Len(QUEUE) : QUEUE[m] = k
    BY <2>2, ElementsOf DEF Occurs
  <2>4. ASSUME NEW l \in 1..num_cores, k = QUEUE[l] PROVE job[k].core_id # -1
    <3>1. l \in 1..Len(QUEUE) /\ l <= num_cores
      BY <2>1, <2>2
    <3> QED
      BY <2>1, <2>4, <3>1 DEF Running
  <2>5. ASSUME job[k].core_id # -1 PROVE m \in 1..num_cores
    <3>1. m <= num_cores
      BY <2>1, <2>3, <2>5 DEF Running
    <3> QED
      BY <2>2, <3>1
  <2> QED
    BY <2>3, <2>4, <2>5
<1>4. CASE job[k].core_id # -1
  <2>1. Refreshed[k] = [job[k] EXCEPT
            !.time_remaining = @ - (time - job[k].start_time), !.start_time = time]
    BY <1>3, <1>4 DEF Refreshed
  <2>2. /\ Refreshed[k].time_remaining = job[k].time_remaining - (time - job[k].start_time)
        /\ Refreshed[k].start_time = time
        /\ Refreshed[k].core_id = job[k].core_id
        /\ Refreshed[k].arrival_time = job[k].arrival_time
        /\ Refreshed[k].run_time = job[k].run_time
        /\ Refreshed[k].priority = job[k].priority
        /\ Refreshed[k].responded = job[k].responded
        /\ Refreshed[k].pause_time = job[k].pause_time
    BY <1>1, <2>1 DEF JobRecord
  <2> QED
    BY <1>1, <1>2, <1>4, <2>2 DEF Passed, Left
<1>5. CASE job[k].core_id = -1
  <2>1. Refreshed[k] = job[k]
    BY <1>3, <1>5 DEF Refreshed
  <2> QED
    BY <1>5, <2>1 DEF Passed
<1> QED
  BY <1>4, <1>5

(* The record of the job that arrives.                                     *)
Entered(record, r, p, core) ==
    /\ record.core_id = core
    /\ record.arrival_time = time
    /\ record.run_time = r
    /\ record.priority = p
    /\ record.time_remaining = r
    /\ core = -1 => record.responded = -1 /\ record.pause_time = time
    /\ core # -1 => record.responded = 1

LEMMA NewJobEffect ==
    ASSUME IInv, NEW j \in Jobs \ DOMAIN job, NEW r \in RunTimes, NEW p \in Priorities,
           NEW core, scheduler_new_job(j, r, p, core)
    PROVE  /\ DOMAIN job' = DOMAIN job \cup {j}
           /\ core \in Cores \cup {-1}
           /\ \A k \in DOMAIN job : Passed(job[k], job'[k], core)
           /\ ~Preemptive => \A k \in DOMAIN job : job'[k].core_id = job[k].core_id
           /\ Entered(job'[j], r, p, core)
           /\ Left(job'[j]) = r
           /\ UNCHANGED <<CURRENT_SCHEME, num_cores, waiting_time, turnaround_time,
                          response_time, time>>
<1> DEFINE new == NewRecord(r, p)
<1>0. /\ TypeOK
      /\ QUEUE \in Seq(Jobs) /\ ToSet(QUEUE) = DOMAIN job
      /\ job \in [DOMAIN job -> JobRecord]
      /\ time \in Nat /\ num_cores \in Nat \ {0} /\ -1 \notin Cores
  BY StateFacts DEF IInv
<1>1. new \in JobRecord /\ r \in Int
  BY <1>0, NewRecordProperties, SchedulerAssumption
<1>2. /\ new.core_id = -1 /\ new.arrival_time = time /\ new.run_time = r
      /\ new.priority = p
      /\ new.time_remaining = r /\ new.responded = -1 /\ new.pause_time = time
  BY DEF NewRecord
<1>3. UNCHANGED <<CURRENT_SCHEME, num_cores, waiting_time, turnaround_time,
                  response_time, time>>
  BY DEF scheduler_new_job
<1>4. /\ Refreshed \in [DOMAIN job -> JobRecord]
      /\ RecordsAtOffer \in [DOMAIN job -> JobRecord]
  BY <1>0, RecordsAtOfferProperties
<1> HIDE DEF new
<1>5. CASE IdleCores # {}
  <2>1. /\ core = LowestIdle
        /\ Allocate(j, [new EXCEPT !.core_id = core, !.responded = 1,
                                   !.start_time = time], job)
    BY <1>5 DEF scheduler_new_job, new
  <2>2. core \in IdleCores
    BY <1>0, <1>5, <2>1, MinProperties, CoresFacts DEF LowestIdle, IdleCores
  <2>3. core \in Cores /\ core # -1 /\ \A k \in DOMAIN job : job[k].core_id # core
    BY <1>0, <2>2 DEF IInv, CoresMatch, IdleCores
  <2>4. DOMAIN job' = DOMAIN job \cup {j} /\ \A k \in DOMAIN job : job'[k] = job[k]
    BY <2>1 DEF Allocate
  <2>5. job'[j] = [new EXCEPT !.core_id = core, !.responded = 1, !.start_time = time]
    BY <2>1 DEF Allocate
  <2>6. /\ job'[j].core_id = core /\ job'[j].arrival_time = time
        /\ job'[j].run_time = r /\ job'[j].priority = p /\ job'[j].responded = 1
        /\ job'[j].time_remaining = r /\ job'[j].start_time = time
    BY <1>1, <1>2, <2>5 DEF JobRecord
  <2>7. Left(job'[j]) = r
    BY <1>0, <1>1, <2>3, <2>6 DEF Left
  <2>8. \A k \in DOMAIN job : Passed(job[k], job'[k], core)
    BY <2>3, <2>4 DEF Passed
  <2> QED
    BY <1>3, <2>3, <2>4, <2>6, <2>7, <2>8 DEF Entered
<1>6. CASE IdleCores = {} /\ Preemptive /\ AmongFirst(j, QUEUE')
  <2> DEFINE v == Victim
             given == [Refreshed EXCEPT ![v].core_id = -1, ![v].pause_time = time]
             mine == [new EXCEPT !.core_id = core, !.responded = 1,
                                 !.start_time = time, !.pause_time = 0]
  <2>1. core = job[v].core_id /\ Allocate(j, mine, given)
    BY <1>6 DEF scheduler_new_job, new
  <2>2. v \in DOMAIN job /\ job[v].core_id # -1
    <3>1. num_cores \in 1..Len(QUEUE) /\ Running(QUEUE[num_cores])
      BY <1>0, <1>6 DEF IInv, RunningFirst
    <3>2. QUEUE[num_cores] \in DOMAIN job
      BY <1>0, <3>1, ElementsOf DEF Occurs
    <3> QED
      BY <3>1, <3>2 DEF Victim, Running
  <2> HIDE DEF v
  <2>3. core \in Cores /\ core # -1
    BY <1>0, <2>1, <2>2 DEF JobRecord
  <2>4. DOMAIN given = DOMAIN job
    BY <1>4
  <2>5. DOMAIN job' = DOMAIN job \cup {j} /\ job'[j] = mine
        /\ \A k \in DOMAIN job : job'[k] = given[k]
    BY <2>1, <2>4 DEF Allocate
  <2>6. /\ job'[j].core_id = core /\ job'[j].arrival_time = time
        /\ job'[j].run_time = r /\ job'[j].priority = p /\ job'[j].responded = 1
        /\ job'[j].time_remaining = r /\ job'[j].start_time = time
    BY <1>1, <1>2, <2>5 DEF JobRecord
  <2>7. Left(job'[j]) = r
    BY <1>0, <1>1, <2>3, <2>6 DEF Left
  <2>8. ASSUME NEW k \in DOMAIN job PROVE Passed(job[k], job'[k], core)
    <3>1. /\ Passed(job[k], Refreshed[k], -1)
          /\ job[k].core_id # -1 => Refreshed[k].time_remaining = Left(job[k])
      BY <1>6, RefreshedFields
    <3>2. Refreshed[k] \in JobRecord
      BY <1>4
    <3>3. CASE k = v
      <4>1. given[k] = [Refreshed[k] EXCEPT !.core_id = -1, !.pause_time = time]
        BY <1>4, <3>3
      <4> HIDE DEF given
      <4>2. /\ given[k].core_id = -1 /\ given[k].pause_time = time
            /\ given[k].arrival_time = Refreshed[k].arrival_time
            /\ given[k].run_time = Refreshed[k].run_time
            /\ given[k].priority = Refreshed[k].priority
            /\ given[k].responded = Refreshed[k].responded
            /\ given[k].time_remaining = Refreshed[k].time_remaining
        BY <3>2, <4>1 DEF JobRecord
      <4>3. Left(given[k]) = Left(job[k])
        BY <2>2, <3>1, <3>3, <4>2 DEF Left
      <4> QED
        BY <2>1, <2>2, <2>5, <3>1, <3>3, <4>2, <4>3 DEF Passed
    <3>4. CASE k # v
      <4>1. job'[k] = Refreshed[k]
        BY <1>4, <2>5, <3>4
      <4>2. job[k].core_id # core
        BY <2>1, <2>2, <3>4 DEF IInv, CoresMatch, Running
      <4> QED
        BY <3>1, <4>1, <4>2 DEF Passed
    <3> QED
      BY <3>3, <3>4
  <2> QED
    BY <1>3, <1>6, <2>3, <2>5, <2>6, <2>7, <2>8 DEF Entered
<1>7. CASE IdleCores = {} /\ ~(Preemptive /\ AmongFirst(j, QUEUE'))
  <2>1. core = -1 /\ Allocate(j, new, RecordsAtOffer)
    BY <1>7 DEF scheduler_new_job, new
  <2>2. /\ DOMAIN job' = DOMAIN job \cup {j} /\ job'[j] = new
        /\ \A k \in DOMAIN job : job'[k] = RecordsAtOffer[k]
    BY <1>4, <2>1 DEF Allocate
  <2>3. \A k \in DOMAIN job : Passed(job[k], job'[k], core)
    <3>1. CASE Preemptive
      <4>1. RecordsAtOffer = Refreshed
        BY <1>7, <3>1 DEF RecordsAtOffer
      <4> QED
        BY <1>7, <2>1, <2>2, <3>1, <4>1, RefreshedFields
    <3>2. CASE ~Preemptive
      <4>1. RecordsAtOffer = job
        BY <3>2 DEF RecordsAtOffer
      <4> QED
        BY <2>1, <2>2, <4>1 DEF Passed
    <3> QED
      BY <3>1, <3>2
  <2>4. \A k \in DOMAIN job : job'[k].core_id = job[k].core_id
    BY <2>1, <2>3 DEF Passed
  <2>5. Left(job'[j]) = r
    BY <1>2, <2>2 DEF Left
  <2> QED
    BY <1>2, <1>3, <2>1, <2>2, <2>3, <2>4, <2>5 DEF Entered
<1> QED
  BY <1>5, <1>6, <1>7

-----------------------------------------------------------------------------
(* The order of the list.  It stays in the order of its comparer, for any  *)
(* set of jobs, any running times and priorities and any number of cores,  *)
(* wherever the comparer is an order whose keys stay (FCFS, SJF, PRI,      *)
(* PPRI), and for PSJF on one core, where only the key of the first job    *)
(* changes, and only downwards.                                            *)

(* What a comparer reads of a record.                                      *)
SameKeys(a, b) ==
    /\ a.arrival_time = b.arrival_time
    /\ a.run_time = b.run_time
    /\ a.priority = b.priority
    /\ CURRENT_SCHEME = "PSJF" => a.time_remaining = b.time_remaining

SortedBy(q, known) ==
    \A i, k \in 1..Len(q) : i < k => cmp(known[q[i]], known[q[k]]) < 0

Ordered ==
    \/ CURRENT_SCHEME \in {"FCFS", "SJF", "PRI", "PPRI"}
    \/ CURRENT_SCHEME = "PSJF" /\ num_cores = 1

(* No two jobs compare equal: they arrived at different times.             *)
ArrivalsDiffer ==
    \A j, k \in DOMAIN job : job[j].arrival_time = job[k].arrival_time => j = k

OrderInv == IInv /\ ArrivalsDiffer /\ SortedQueue

LEMMA SortedQueueIs == SortedQueue <=> (Ordered => SortedBy(QUEUE, job))
BY DEF SortedQueue, Ordered, SortedBy

-----------------------------------------------------------------------------
(* The comparers.                                                          *)

LEMMA CmpSame ==
    ASSUME NEW a, NEW b, NEW c, NEW d, SameKeys(a, c), SameKeys(b, d)
    PROVE  cmp(a, b) = cmp(c, d)
BY DEF SameKeys, cmp, FCFS_COMPARE, SJF_COMPARE, PSJF_COMPARE, PRI_COMPARE,
       RR_COMPARE, ByThenArrival

LEMMA CmpTotal ==
    ASSUME NEW a \in JobRecord, NEW b \in JobRecord, time \in Nat,
           a.arrival_time # b.arrival_time, Ordered
    PROVE  /\ cmp(a, b) >= 0 => cmp(b, a) < 0
           /\ cmp(a, b) <= 0 => cmp(a, b) < 0
<1>1. /\ a.arrival_time \in Int /\ b.arrival_time \in Int
      /\ a.run_time \in Int /\ b.run_time \in Int
      /\ a.priority \in Int /\ b.priority \in Int
      /\ a.time_remaining \in Int /\ b.time_remaining \in Int
  BY RecordFields
<1> QED
  BY <1>1 DEF Ordered, cmp, FCFS_COMPARE, SJF_COMPARE, PSJF_COMPARE, PRI_COMPARE,
              ByThenArrival

LEMMA CmpTransitive ==
    ASSUME NEW a \in JobRecord, NEW b \in JobRecord, NEW c \in JobRecord, time \in Nat,
           Ordered, cmp(a, b) < 0, cmp(b, c) < 0
    PROVE  cmp(a, c) < 0
<1>1. /\ a.arrival_time \in Int /\ b.arrival_time \in Int /\ c.arrival_time \in Int
      /\ a.run_time \in Int /\ b.run_time \in Int /\ c.run_time \in Int
      /\ a.priority \in Int /\ b.priority \in Int /\ c.priority \in Int
      /\ a.time_remaining \in Int /\ b.time_remaining \in Int /\ c.time_remaining \in Int
  BY RecordFields
<1> QED
  BY <1>1 DEF Ordered, cmp, FCFS_COMPARE, SJF_COMPARE, PSJF_COMPARE, PRI_COMPARE,
              ByThenArrival

-----------------------------------------------------------------------------
(* What keeps a list in order.                                             *)

LEMMA SameOrder ==
    ASSUME NEW q, NEW known, NEW records, SortedBy(q, known),
           \A k \in 1..Len(q) : SameKeys(records[q[k]], known[q[k]])
    PROVE  SortedBy(q, records)
<1> SUFFICES ASSUME NEW i \in 1..Len(q), NEW k \in 1..Len(q), i < k
             PROVE  cmp(records[q[i]], records[q[k]]) < 0
  BY DEF SortedBy
<1>1. cmp(records[q[i]], records[q[k]]) = cmp(known[q[i]], known[q[k]])
  BY CmpSame
<1> QED
  BY <1>1 DEF SortedBy

LEMMA TakenOutOrder ==
    ASSUME NEW n \in Nat, NEW p \in 1..n, NEW q, NEW r, Len(q) = n, Len(r) = n - 1,
           IsTakenOut(r, q, n, p), NEW known, SortedBy(q, known)
    PROVE  SortedBy(r, known)
<1> SUFFICES ASSUME NEW i \in 1..(n - 1), NEW k \in 1..(n - 1), i < k
             PROVE  cmp(known[r[i]], known[r[k]]) < 0
  BY DEF SortedBy
<1>1. PICK a \in 1..n : r[i] = q[a] /\ a = IF i < p THEN i ELSE i + 1
  <2>1. i \in 1..n /\ i + 1 \in 1..n
    OBVIOUS
  <2> QED
    BY <2>1 DEF IsTakenOut
<1>2. PICK b \in 1..n : r[k] = q[b] /\ b = IF k < p THEN k ELSE k + 1
  <2>1. k \in 1..n /\ k + 1 \in 1..n
    OBVIOUS
  <2> QED
    BY <2>1 DEF IsTakenOut
<1>3. a < b
  BY <1>1, <1>2
<1> QED
  BY <1>1, <1>2, <1>3 DEF SortedBy

(* The list after priqueue_offer.  The head is compared differently from   *)
(* the others, and a job behind the place is never looked at.              *)
LEMMA OfferOrder ==
    ASSUME Ordered, time \in Nat,
           NEW q \in Seq(Jobs), IsInjective(q),
           NEW known, known \in [DOMAIN known -> JobRecord],
           ToSet(q) \subseteq DOMAIN known,
           NEW j \in Jobs, j \notin ToSet(q), NEW new \in JobRecord,
           \A k \in DOMAIN known : new.arrival_time # known[k].arrival_time,
           SortedBy(q, known),
           NEW records, SameKeys(records[j], new),
           \A k \in 1..Len(q) : SameKeys(records[q[k]], known[q[k]])
    PROVE  SortedBy(OfferJob(q, known, j, new), records)
<1> DEFINE n == Len(q)
           c == [k \in 1..n |-> cmp(new, known[q[k]])]
           p == OfferIndex(c)
           r == OfferJob(q, known, j, new)
<1>0. n \in Nat
  OBVIOUS
<1>1. ASSUME NEW k \in 1..n
      PROVE  /\ known[q[k]] \in JobRecord /\ c[k] \in Int
             /\ c[k] = cmp(new, known[q[k]])
             /\ new.arrival_time # known[q[k]].arrival_time
  <2>1. q[k] \in DOMAIN known
    BY ElementsOf DEF Occurs
  <2>2. known[q[k]] \in JobRecord
    BY <2>1
  <2> QED
    BY <2>1, <2>2, CmpType
<1>2. c \in Seq(Int) /\ Len(c) = n
  BY <1>1
<1>3. r = Offer(q, j, c)
  BY DEF OfferJob
<1> HIDE DEF c, r, n
<1>4. /\ p \in 1..(n + 1) /\ Len(r) = n + 1 /\ IsPutIn(r, q, n, p, j)
  BY <1>2, <1>3, OfferProperties DEF n
<1>5. /\ p = 1 => n = 0 \/ c[1] < 0
      /\ p > 1 => n > 0 /\ c[1] >= 0
      /\ \A k \in 2..(p - 1) : c[k] > 0
      /\ p \in 2..n => c[p] <= 0
  BY <1>0, <1>2, OfferIndexProperties, SMTT(30)
<1> HIDE DEF p
<1>6. ASSUME NEW k \in 1..n, k < p PROVE cmp(known[q[k]], new) < 0
  <2>1. c[k] >= 0
    <3>1. CASE k = 1
      BY <1>4, <1>5, <1>6, <3>1
    <3>2. CASE k # 1
      <4>1. k \in 2..(p - 1)
        BY <1>0, <1>4, <1>6, <3>2
      <4> QED
        BY <4>1, <1>1, <1>5
    <3> QED
      BY <3>1, <3>2
  <2> QED
    BY <2>1, <1>1, CmpTotal
<1>7. ASSUME NEW k \in 1..n, k >= p PROVE cmp(new, known[q[k]]) < 0
  <2>1. p \in 1..n
    BY <1>0, <1>4, <1>7
  <2>2. c[p] <= 0
    BY <1>0, <1>1, <1>4, <1>5, <2>1
  <2>3. cmp(new, known[q[p]]) < 0
    BY <1>1, <2>1, <2>2, CmpTotal
  <2>4. CASE k = p
    BY <2>3, <2>4
  <2>5. CASE k > p
    <3>1. cmp(known[q[p]], known[q[k]]) < 0
      BY <2>1, <2>5 DEF SortedBy, n
    <3> QED
      BY <1>1, <2>1, <2>3, <3>1, CmpTransitive
  <2> QED
    BY <1>7, <2>4, <2>5, <2>1
<1>8. ASSUME NEW k \in 1..n PROVE SameKeys(records[q[k]], known[q[k]])
  BY DEF n
<1> SUFFICES ASSUME NEW i \in 1..(n + 1), NEW k \in 1..(n + 1), i < k
             PROVE  cmp(records[r[i]], records[r[k]]) < 0
  BY <1>4 DEF SortedBy, r
<1>9. /\ r[i] = (IF i < p THEN q[i] ELSE IF i = p THEN j ELSE q[i - 1])
      /\ r[k] = (IF k < p THEN q[k] ELSE IF k = p THEN j ELSE q[k - 1])
  BY <1>4 DEF IsPutIn
<1>10. CASE i = p
  <2>1. r[i] = j /\ r[k] = q[k - 1] /\ k - 1 \in 1..n /\ k - 1 >= p
    BY <1>0, <1>4, <1>9, <1>10
  <2>2. cmp(records[j], records[q[k - 1]]) = cmp(new, known[q[k - 1]])
    BY <1>8, <2>1, CmpSame
  <2> QED
    BY <1>7, <2>1, <2>2
<1>11. CASE k = p
  <2>1. r[k] = j /\ r[i] = q[i] /\ i \in 1..n /\ i < p
    BY <1>0, <1>4, <1>9, <1>11
  <2>2. cmp(records[q[i]], records[j]) = cmp(known[q[i]], new)
    BY <1>8, <2>1, CmpSame
  <2> QED
    BY <1>6, <2>1, <2>2
<1>12. CASE i # p /\ k # p
  <2>1. PICK a \in 1..n : r[i] = q[a] /\ a = IF i < p THEN i ELSE i - 1
    <3>1. IF i < p THEN i \in 1..n ELSE i - 1 \in 1..n
      BY <1>0, <1>4, <1>12
    <3> QED
      BY <3>1, <1>9, <1>12
  <2>2. PICK b \in 1..n : r[k] = q[b] /\ b = IF k < p THEN k ELSE k - 1
    <3>1. IF k < p THEN k \in 1..n ELSE k - 1 \in 1..n
      BY <1>0, <1>4, <1>12
    <3> QED
      BY <3>1, <1>9, <1>12
  <2>3. a < b
    BY <1>0, <1>4, <1>12, <2>1, <2>2
  <2>4. cmp(known[q[a]], known[q[b]]) < 0
    BY <2>3 DEF SortedBy, n
  <2>5. cmp(records[q[a]], records[q[b]]) = cmp(known[q[a]], known[q[b]])
    BY <1>8, CmpSame
  <2> QED
    BY <2>1, <2>2, <2>4, <2>5
<1> QED
  BY <1>10, <1>11, <1>12

-----------------------------------------------------------------------------
(* What the functions do to the keys.                                      *)

KeysKept(records, known) ==
    \A k \in DOMAIN known : SameKeys(records[k], known[k])

ArrivalsIn(known) ==
    \A j, k \in DOMAIN known : known[j].arrival_time = known[k].arrival_time => j = k

(* The first loop of the preemptive branch lowers the key of the job that  *)
(* runs, and of no other.                                                  *)
LEMMA RefreshedOrder ==
    ASSUME IInv, Ordered, SortedBy(QUEUE, job), IdleCores = {}, Preemptive
    PROVE  SortedBy(QUEUE, Refreshed)
<1>1. /\ QUEUE \in Seq(Jobs) /\ IsInjective(QUEUE) /\ ToSet(QUEUE) = DOMAIN job
      /\ job \in [DOMAIN job -> JobRecord] /\ time \in Nat
  BY SchedulerAssumption DEF IInv, TypeOK, QueueHoldsLiveJobs
<1>2. ASSUME NEW k \in 1..Len(QUEUE) PROVE QUEUE[k] \in DOMAIN job
  BY <1>1, ElementsOf DEF Occurs
<1>3. CASE CURRENT_SCHEME = "PPRI"
  <2>1. ASSUME NEW k \in DOMAIN job PROVE SameKeys(Refreshed[k], job[k])
    <3>1. job[k] \in JobRecord
      BY <1>1
    <3> QED
      BY <1>3, <3>1 DEF Refreshed, SameKeys, JobRecord
  <2> QED
    BY <1>2, <2>1, SameOrder
<1>4. CASE CURRENT_SCHEME = "PSJF" /\ num_cores = 1
  <2> SUFFICES ASSUME NEW i \in 1..Len(QUEUE), NEW k \in 1..Len(QUEUE), i < k
               PROVE  cmp(Refreshed[QUEUE[i]], Refreshed[QUEUE[k]]) < 0
    BY DEF SortedBy
  <2>1. cmp(job[QUEUE[i]], job[QUEUE[k]]) < 0
    BY DEF SortedBy
  <2>2. {QUEUE[l] : l \in 1..num_cores} = {QUEUE[1]}
    BY <1>4
  <2>3. QUEUE[k] # QUEUE[1]
    BY <1>1 DEF IsInjective
  <2>4. Refreshed[QUEUE[k]] = job[QUEUE[k]]
    BY <1>2, <2>2, <2>3 DEF Refreshed
  <2>5. CASE QUEUE[i] # QUEUE[1]
    <3>1. Refreshed[QUEUE[i]] = job[QUEUE[i]]
      BY <1>2, <2>2, <2>5 DEF Refreshed
    <3> QED
      BY <2>1, <2>4, <3>1
  <2>6. CASE QUEUE[i] = QUEUE[1]
    <3> DEFINE a == job[QUEUE[i]]
               b == job[QUEUE[k]]
    <3>1. a \in JobRecord /\ b \in JobRecord
      BY <1>1, <1>2
    <3>2. Refreshed[QUEUE[i]] =
            [a EXCEPT !.time_remaining = @ - (time - a.start_time), !.start_time = time]
      BY <1>2, <2>2, <2>6 DEF Refreshed
    <3>3. /\ Refreshed[QUEUE[i]].time_remaining = a.time_remaining - (time - a.start_time)
          /\ Refreshed[QUEUE[i]].arrival_time = a.arrival_time
      BY <3>1, <3>2 DEF JobRecord
    <3>4. a.start_time \in Int /\ a.start_time <= time /\ a.time_remaining \in Int
          /\ b.time_remaining \in Int /\ a.arrival_time \in Int /\ b.arrival_time \in Int
      <4>1. a.start_time \in -1..time
        BY <3>1 DEF JobRecord
      <4> QED
        BY <1>1, <3>1, <4>1, RecordFields
    <3> HIDE DEF a, b
    <3>5. cmp(a, b) < 0
      BY <2>1 DEF a, b
    <3>6. cmp(Refreshed[QUEUE[i]], b) < 0
      BY <1>1, <1>4, <3>3, <3>4, <3>5 DEF cmp, PSJF_COMPARE, FCFS_COMPARE, ByThenArrival
    <3> QED
      BY <2>4, <3>6 DEF b
  <2> QED
    BY <2>5, <2>6
<1> QED
  BY <1>3, <1>4 DEF Ordered, Preemptive

(* No loop touches the time of arrival.                                    *)
LEMMA OfferArrivals ==
    ASSUME TypeOK, NEW k \in DOMAIN job
    PROVE  /\ Refreshed[k].arrival_time = job[k].arrival_time
           /\ RecordsAtOffer[k].arrival_time = job[k].arrival_time
<1>1. job[k] \in JobRecord
  BY DEF TypeOK
<1>2. Refreshed[k].arrival_time = job[k].arrival_time
  BY <1>1 DEF Refreshed, JobRecord
<1> QED
  BY <1>2 DEF RecordsAtOffer

LEMMA OfferedOrder ==
    ASSUME IInv, Ordered, SortedBy(QUEUE, job)
    PROVE  SortedBy(QUEUE, RecordsAtOffer)
BY RefreshedOrder DEF RecordsAtOffer

(* The job that gets a core keeps its key.                                 *)
LEMMA WakeKeys ==
    ASSUME NEW c, NEW q, NEW known, known \in [DOMAIN known -> JobRecord],
           NEW mark, NEW w, WakeOn(c, q, known, mark, w)
    PROVE  DOMAIN job' = DOMAIN known /\ KeysKept(job', known)
<1>1. CASE w = -1
  BY <1>1 DEF WakeOn, KeysKept, SameKeys
<1>2. CASE w # -1
  <2>1. job' = [known EXCEPT ![w].core_id = c, ![w].start_time = time,
                             ![w].pause_time = mark, ![w].responded = 1]
    BY <1>2 DEF WakeOn
  <2>2. ASSUME NEW k \in DOMAIN known PROVE SameKeys(job'[k], known[k])
    <3>1. known[k] \in JobRecord
      OBVIOUS
    <3> QED
      BY <2>1, <3>1 DEF SameKeys, JobRecord
  <2> QED
    BY <2>1, <2>2 DEF KeysKept
<1> QED
  BY <1>1, <1>2

LEMMA KeptArrivals ==
    ASSUME NEW known, NEW records, DOMAIN records = DOMAIN known,
           KeysKept(records, known), ArrivalsIn(known)
    PROVE  ArrivalsIn(records)
BY DEF KeysKept, SameKeys, ArrivalsIn

LEMMA KeptOrder ==
    ASSUME NEW q, NEW known, NEW records, SortedBy(q, known), KeysKept(records, known),
           \A k \in 1..Len(q) : q[k] \in DOMAIN known
    PROVE  SortedBy(q, records)
BY SameOrder DEF KeysKept

(* The comparer of a list does not change while it is used.                *)
LEMMA OrderCarriesOver ==
    ASSUME CURRENT_SCHEME' = CURRENT_SCHEME, num_cores' = num_cores,
           ArrivalsIn(job'), Ordered => SortedBy(QUEUE', job')
    PROVE  ArrivalsDiffer' /\ SortedQueue'
<1>1. ArrivalsDiffer'
  BY DEF ArrivalsDiffer, ArrivalsIn
<1>2. SortedQueue'
  <2> SUFFICES ASSUME Ordered, NEW i \in 1..Len(QUEUE'), NEW k \in 1..Len(QUEUE'), i < k
               PROVE  cmp(job[QUEUE[i]], job[QUEUE[k]])' < 0
    BY DEF SortedQueue, Ordered
  <2>1. cmp(job'[QUEUE'[i]], job'[QUEUE'[k]]) < 0
    BY DEF SortedBy
  <2> QED
    BY <2>1 DEF cmp, FCFS_COMPARE, SJF_COMPARE, PSJF_COMPARE, PRI_COMPARE,
                RR_COMPARE, ByThenArrival
<1> QED
  BY <1>1, <1>2

-----------------------------------------------------------------------------
(* The steps.                                                              *)

LEMMA OrderNewJob ==
    ASSUME OrderInv, \A k \in DOMAIN job : job[k].arrival_time # time,
           NEW j \in Jobs \ DOMAIN job, NEW r \in RunTimes, NEW p \in Priorities,
           NEW core_index, scheduler_new_job(j, r, p, core_index)
    PROVE  ArrivalsDiffer' /\ SortedQueue'
<1> DEFINE new == NewRecord(r, p)
<1>1. TypeOK /\ IInv /\ ArrivalsIn(job) /\ (Ordered => SortedBy(QUEUE, job))
  BY SortedQueueIs DEF OrderInv, IInv, ArrivalsDiffer, ArrivalsIn
<1>2. /\ QUEUE \in Seq(Jobs) /\ IsInjective(QUEUE) /\ ToSet(QUEUE) = DOMAIN job
      /\ job \in [DOMAIN job -> JobRecord] /\ time \in Nat
  BY <1>1, SchedulerAssumption DEF IInv, TypeOK, QueueHoldsLiveJobs
<1>3. new \in JobRecord /\ new.arrival_time = time
  BY <1>1, NewRecordProperties DEF NewRecord
<1>4. /\ RecordsAtOffer \in [DOMAIN job -> JobRecord]
      /\ DOMAIN RecordsAtOffer = DOMAIN job
      /\ Refreshed \in [DOMAIN job -> JobRecord] /\ DOMAIN Refreshed = DOMAIN job
  BY <1>1, RecordsAtOfferProperties
<1>5. /\ DOMAIN job' = DOMAIN job \cup {j}
      /\ SameKeys(job'[j], new)
      /\ \A k \in DOMAIN job : SameKeys(job'[k], RecordsAtOffer[k])
  <2>1. CASE IdleCores # {}
    <3>1. Allocate(j, [new EXCEPT !.core_id = core_index, !.responded = 1,
                                  !.start_time = time], job)
      BY <2>1 DEF scheduler_new_job
    <3>2. SameKeys([new EXCEPT !.core_id = core_index, !.responded = 1,
                               !.start_time = time], new)
      BY <1>3 DEF SameKeys, JobRecord
    <3>3. RecordsAtOffer = job
      BY <2>1 DEF RecordsAtOffer
    <3> QED
      BY <3>1, <3>2, <3>3 DEF Allocate, SameKeys
  <2>2. CASE IdleCores = {} /\ Preemptive /\ AmongFirst(j, QUEUE')
    <3> DEFINE given == [Refreshed EXCEPT ![Victim].core_id = -1,
                                          ![Victim].pause_time = time]
    <3>1. Allocate(j, [new EXCEPT !.core_id = core_index, !.responded = 1,
                                  !.start_time = time, !.pause_time = 0], given)
      BY <2>2 DEF scheduler_new_job
    <3>2. SameKeys([new EXCEPT !.core_id = core_index, !.responded = 1,
                               !.start_time = time, !.pause_time = 0], new)
      BY <1>3 DEF SameKeys, JobRecord
    <3>3. RecordsAtOffer = Refreshed
      BY <2>2 DEF RecordsAtOffer
    <3>4. DOMAIN given = DOMAIN job
      BY <1>4
    <3>5. ASSUME NEW k \in DOMAIN job PROVE SameKeys(given[k], Refreshed[k])
      <4>1. Refreshed[k] \in JobRecord
        BY <1>4
      <4> QED
        BY <1>4, <4>1 DEF SameKeys, JobRecord
    <3> HIDE DEF given
    <3> QED
      BY <3>1, <3>2, <3>3, <3>4, <3>5 DEF Allocate, SameKeys
  <2>3. CASE IdleCores = {} /\ ~(Preemptive /\ AmongFirst(j, QUEUE'))
    <3>1. Allocate(j, new, RecordsAtOffer)
      BY <2>3 DEF scheduler_new_job
    <3> QED
      BY <1>4, <3>1 DEF Allocate, SameKeys
  <2> QED
    BY <2>1, <2>2, <2>3
<1>6. /\ CURRENT_SCHEME' = CURRENT_SCHEME /\ num_cores' = num_cores
      /\ QUEUE' = OfferJob(QUEUE, RecordsAtOffer, j, new)
  BY DEF scheduler_new_job
<1> HIDE DEF new
<1>7. ArrivalsIn(job')
  <2>1. job'[j].arrival_time = time
    BY <1>3, <1>5 DEF SameKeys
  <2>2. ASSUME NEW k \in DOMAIN job PROVE job'[k].arrival_time = job[k].arrival_time
    BY <1>1, <1>5, OfferArrivals DEF SameKeys
  <2> QED
    BY <1>1, <1>5, <2>1, <2>2 DEF ArrivalsIn
<1>8. ASSUME Ordered PROVE SortedBy(QUEUE', job')
  <2>1. SortedBy(QUEUE, RecordsAtOffer)
    BY <1>1, <1>8, OfferedOrder
  <2>2. \A k \in DOMAIN RecordsAtOffer :
            new.arrival_time # RecordsAtOffer[k].arrival_time
    BY <1>1, <1>3, <1>4, OfferArrivals
  <2>3. \A k \in 1..Len(QUEUE) : SameKeys(job'[QUEUE[k]], RecordsAtOffer[QUEUE[k]])
    BY <1>2, <1>5, ElementsOf DEF Occurs
  <2>4. j \in Jobs /\ j \notin ToSet(QUEUE) /\ ToSet(QUEUE) \subseteq DOMAIN RecordsAtOffer
    BY <1>2, <1>4
  <2>5. RecordsAtOffer \in [DOMAIN RecordsAtOffer -> JobRecord]
    BY <1>4
  <2> QED
    BY <1>2, <1>3, <1>5, <1>6, <1>8, <2>1, <2>2, <2>3, <2>4, <2>5, OfferOrder
<1> QED
  BY <1>6, <1>7, <1>8, OrderCarriesOver

LEMMA OrderFinish ==
    ASSUME OrderInv, NEW j \in DOMAIN job, NEW w,
           scheduler_job_finished(job[j].core_id, j, w)
    PROVE  ArrivalsDiffer' /\ SortedQueue'
<1> DEFINE known == RecordsWithout(j)
           n == Len(QUEUE)
<1>1. TypeOK /\ IInv /\ ArrivalsIn(job) /\ (Ordered => SortedBy(QUEUE, job))
  BY SortedQueueIs DEF OrderInv, IInv, ArrivalsDiffer, ArrivalsIn
<1>2. /\ QUEUE \in Seq(Jobs) /\ IsInjective(QUEUE) /\ ToSet(QUEUE) = DOMAIN job
      /\ job \in [DOMAIN job -> JobRecord] /\ time \in Nat /\ n \in Nat
  BY <1>1, SchedulerAssumption DEF IInv, TypeOK, QueueHoldsLiveJobs
<1>3. /\ DOMAIN known = DOMAIN job \ {j}
      /\ known \in [DOMAIN known -> JobRecord]
      /\ \A k \in DOMAIN known : known[k] = job[k]
  BY <1>2 DEF RecordsWithout
<1>4. PICK p \in 1..n : /\ Len(QueueWithout(j)) = n - 1
                        /\ IsTakenOut(QueueWithout(j), QUEUE, n, p)
  BY <1>2, TakeOutProperties DEF QueueWithout
<1>5. QueueWithout(j) \in Seq(Jobs) /\ ToSet(QueueWithout(j)) = DOMAIN known
  BY <1>2, <1>3, TakeOutProperties DEF QueueWithout
<1>6. /\ CURRENT_SCHEME' = CURRENT_SCHEME /\ num_cores' = num_cores
      /\ QUEUE' = QueueWithout(j)
      /\ WakeOn(job[j].core_id, QueueWithout(j), known, 0, w)
  BY DEF scheduler_job_finished
<1> HIDE DEF known
<1>7. DOMAIN job' = DOMAIN known /\ KeysKept(job', known)
  BY <1>3, <1>6, WakeKeys
<1>8. ArrivalsIn(job')
  <2>1. ArrivalsIn(known)
    BY <1>1, <1>3 DEF ArrivalsIn
  <2> QED
    BY <1>7, <2>1, KeptArrivals
<1>9. ASSUME Ordered PROVE SortedBy(QUEUE', job')
  <2>1. SortedBy(QueueWithout(j), job)
    BY <1>1, <1>2, <1>4, <1>9, TakenOutOrder
  <2>2. \A k \in 1..Len(QueueWithout(j)) : QueueWithout(j)[k] \in DOMAIN known
    BY <1>5, ElementsOf DEF Occurs
  <2>3. SortedBy(QueueWithout(j), known)
    BY <1>3, <2>1, <2>2 DEF SortedBy
  <2> QED
    BY <1>6, <1>7, <2>2, <2>3, KeptOrder
<1> QED
  BY <1>6, <1>8, <1>9, OrderCarriesOver

LEMMA OrderExpire ==
    ASSUME OrderInv, CURRENT_SCHEME = "RR", NEW c, NEW w,
           scheduler_quantum_expired(c, w)
    PROVE  ArrivalsDiffer' /\ SortedQueue'
<1>1. TypeOK /\ ArrivalsIn(job) /\ job \in [DOMAIN job -> JobRecord]
  BY DEF OrderInv, IInv, TypeOK, ArrivalsDiffer, ArrivalsIn
<1>2. CURRENT_SCHEME' = CURRENT_SCHEME /\ num_cores' = num_cores /\ ~Ordered
  BY DEF scheduler_quantum_expired, Ordered
<1>3. ArrivalsIn(job')
  <2>1. CASE OnCore(c) = 0
    <3>1. job' = job
      BY <2>1 DEF scheduler_quantum_expired
    <3> QED
      BY <1>1, <3>1 DEF ArrivalsIn
  <2>2. CASE OnCore(c) # 0
    <3> DEFINE e == QUEUE[OnCore(c)]
               known == RecordsExpired(e)
    <3>1. WakeOn(c, QUEUE', known, -1, w)
      BY <2>2 DEF scheduler_quantum_expired
    <3>2. e \in DOMAIN job
      <4>1. QUEUE \in Seq(Jobs)
        BY <1>1 DEF TypeOK
      <4>2. e \in {k \in DOMAIN job : job[k].core_id = c}
        BY <2>2, <4>1, FirstInProperties DEF OnCore
      <4> QED
        BY <4>2
    <3>3. DOMAIN known = DOMAIN job /\ known \in [DOMAIN known -> JobRecord]
      BY <1>1, <3>2, ExpiredRecord
    <3>4. KeysKept(known, job)
      <4>1. ASSUME NEW k \in DOMAIN job PROVE SameKeys(known[k], job[k])
        <5>1. job[k] \in JobRecord
          BY <1>1
        <5> QED
          BY <5>1 DEF RecordsExpired, SameKeys, JobRecord
      <4> QED
        BY <4>1 DEF KeysKept
    <3> HIDE DEF known
    <3>5. DOMAIN job' = DOMAIN known /\ KeysKept(job', known)
      BY <3>1, <3>3, WakeKeys
    <3>6. ArrivalsIn(known)
      BY <1>1, <3>3, <3>4, KeptArrivals
    <3> QED
      BY <3>5, <3>6, KeptArrivals
  <2> QED
    BY <2>1, <2>2
<1> QED
  BY <1>2, <1>3, OrderCarriesOver

LEMMA OrderInit == SchedInit => OrderInv
<1> SUFFICES ASSUME SchedInit PROVE OrderInv
  OBVIOUS
<1>1. QUEUE = <<>> /\ job = <<>>
  BY DEF SchedInit, scheduler_start_up
<1>2. ArrivalsDiffer
  BY <1>1 DEF ArrivalsDiffer
<1>3. SortedQueue
  BY <1>1 DEF SortedQueue
<1> QED
  BY <1>2, <1>3, InitInvariant DEF OrderInv

LEMMA OrderNext == OrderInv /\ [SchedNext]_schedVars => OrderInv'
<1> SUFFICES ASSUME OrderInv, [SchedNext]_schedVars
             PROVE  ArrivalsDiffer' /\ SortedQueue'
  BY NextInvariant DEF OrderInv
<1>1. CASE Arrive
  <2>1. PICK j \in Jobs \ DOMAIN job, r \in RunTimes, p \in Priorities,
             core_index \in Cores \cup {-1} :
                scheduler_new_job(j, r, p, core_index)
    BY <1>1 DEF Arrive
  <2>2. \A k \in DOMAIN job : job[k].arrival_time # time
    BY <1>1 DEF Arrive
  <2> QED
    BY <2>1, <2>2, OrderNewJob
<1>2. CASE Finish
  <2>1. PICK j \in DOMAIN job, w \in Jobs \cup {-1} :
            scheduler_job_finished(job[j].core_id, j, w)
    BY <1>2 DEF Finish
  <2> QED
    BY <2>1, OrderFinish
<1>3. CASE Expire
  <2>1. PICK c \in Cores, w \in Jobs \cup {-1} : scheduler_quantum_expired(c, w)
    BY <1>3 DEF Expire
  <2>2. CURRENT_SCHEME = "RR"
    BY <1>3 DEF Expire
  <2> QED
    BY <2>1, <2>2, OrderExpire
<1>4. CASE Tick \/ UNCHANGED schedVars
  <2>1. /\ CURRENT_SCHEME' = CURRENT_SCHEME /\ num_cores' = num_cores
        /\ QUEUE' = QUEUE /\ job' = job
    BY <1>4 DEF Tick, schedVars
  <2>2. ArrivalsIn(job') /\ (Ordered => SortedBy(QUEUE', job'))
    BY <2>1, SortedQueueIs DEF OrderInv, ArrivalsDiffer, ArrivalsIn
  <2> QED
    BY <2>1, <2>2, OrderCarriesOver
<1> QED
  BY <1>1, <1>2, <1>3, <1>4 DEF SchedNext

-----------------------------------------------------------------------------
(* The invariant that is preserved by every step: what SchedulerProofs     *)
(* establishes, the order of the list, and that no two live jobs have the  *)
(* same time of arrival, which breaks every tie of the comparers.          *)
THEOREM OrderInvariant == SchedSpec => []OrderInv
BY OrderInit, OrderNext, PTL DEF SchedSpec

(* priqueue_offer keeps the list in the order of its comparer, although it *)
(* tests the first node with "< 0" and the others with "> 0", and although *)
(* the key of PSJF is lowered while the job is in the list                 *)
(* (libpriqueue.c:48-61, libscheduler.c:210).                              *)
THEOREM QueueSorted == SchedSpec => []SortedQueue
<1>1. OrderInv => SortedQueue
  BY DEF OrderInv
<1> QED
  BY <1>1, OrderInvariant, PTL

-----------------------------------------------------------------------------
(* The scheduler library implements Dispatcher.  The comparers decide who  *)
(* precedes whom, so a list in the order of its comparer (the order above) *)
(* has a most urgent waiting job where the scans of the library find one.  *)
(* Round robin has no order of that kind: WaitingOrder takes its place.    *)
(* Each handler is mapped on its own (FinishMapped, ExpireMapped,          *)
(* ArriveMapped, TickMapped); what Dispatcher sees of a state is           *)
(* RunningNow and InfoNow.                                                 *)

(* Round robin: who waits behind has not waited longer.                    *)

WaitsInOrder(q, known) ==
    \A i, k \in 1..Len(q) :
        i < k /\ known[q[i]].core_id = -1 /\ known[q[k]].core_id = -1
            => known[q[i]].pause_time <= known[q[k]].pause_time

WaitingOrder == CURRENT_SCHEME = "RR" => WaitsInOrder(QUEUE, job)

DispatchInv == OrderInv /\ WaitingOrder

LEMMA WaitsTakenOut ==
    ASSUME NEW n \in Nat, NEW p \in 1..n, NEW q, NEW r, Len(q) = n, Len(r) = n - 1,
           IsTakenOut(r, q, n, p), NEW known, WaitsInOrder(q, known)
    PROVE  WaitsInOrder(r, known)
<1> SUFFICES ASSUME NEW i \in 1..(n - 1), NEW k \in 1..(n - 1), i < k,
                    known[r[i]].core_id = -1, known[r[k]].core_id = -1
             PROVE  known[r[i]].pause_time <= known[r[k]].pause_time
  BY DEF WaitsInOrder
<1>1. PICK a \in 1..n : r[i] = q[a] /\ a = IF i < p THEN i ELSE i + 1
  <2>1. i \in 1..n /\ i + 1 \in 1..n
    OBVIOUS
  <2> QED
    BY <2>1 DEF IsTakenOut
<1>2. PICK b \in 1..n : r[k] = q[b] /\ b = IF k < p THEN k ELSE k + 1
  <2>1. k \in 1..n /\ k + 1 \in 1..n
    OBVIOUS
  <2> QED
    BY <2>1 DEF IsTakenOut
<1>3. a < b
  BY <1>1, <1>2
<1> QED
  BY <1>1, <1>2, <1>3 DEF WaitsInOrder

(* Nobody but who waited before waits now, and for as long.                *)
LEMMA WaitsKept ==
    ASSUME NEW q, NEW known, NEW records, WaitsInOrder(q, known),
           \A k \in 1..Len(q) :
                records[q[k]].core_id = -1 =>
                    /\ known[q[k]].core_id = -1
                    /\ records[q[k]].pause_time = known[q[k]].pause_time
    PROVE  WaitsInOrder(q, records)
BY DEF WaitsInOrder

(* Round robin compares a new job with nobody.                             *)
LEMMA OfferedLast ==
    ASSUME CURRENT_SCHEME = "RR", NEW q \in Seq(Jobs), IsInjective(q),
           NEW j \in Jobs, j \notin ToSet(q), NEW new, NEW records
    PROVE  /\ Len(OfferJob(q, records, j, new)) = Len(q) + 1
           /\ \A k \in 1..Len(q) : OfferJob(q, records, j, new)[k] = q[k]
           /\ OfferJob(q, records, j, new)[Len(q) + 1] = j
<1> DEFINE n == Len(q)
           c == [k \in 1..n |-> cmp(new, records[q[k]])]
           p == OfferIndex(c)
           r == OfferJob(q, records, j, new)
<1>0. n \in Nat
  OBVIOUS
<1>1. \A k \in 1..n : c[k] = 1
  BY DEF cmp, RR_COMPARE
<1>2. c \in Seq(Int) /\ Len(c) = n
  BY <1>0, <1>1
<1>3. r = Offer(q, j, c)
  BY DEF OfferJob
<1> HIDE DEF c, r, n
<1>4. /\ p \in 1..(n + 1) /\ Len(r) = n + 1 /\ IsPutIn(r, q, n, p, j)
  BY <1>2, <1>3, OfferProperties DEF n
<1>5. /\ p = 1 => n = 0 \/ c[1] < 0
      /\ p > 1 => n > 0 /\ c[1] >= 0
      /\ p \in 2..n => c[p] <= 0
  BY <1>0, <1>2, OfferIndexProperties
<1> HIDE DEF p
<1>6. p = n + 1
  <2>1. p \notin 2..n
    BY <1>0, <1>1, <1>5
  <2>2. p = 1 => n = 0
    BY <1>0, <1>1, <1>5
  <2> QED
    BY <1>0, <1>4, <2>1, <2>2
<1>7. /\ \A k \in 1..n : r[k] = q[k]
      /\ r[n + 1] = j
  BY <1>0, <1>4, <1>6 DEF IsPutIn
<1> QED
  BY <1>4, <1>7 DEF n, r

(* A job comes to the end of the list, and has waited for the shortest     *)
(* time.                                                                   *)
LEMMA WaitsAppended ==
    ASSUME CURRENT_SCHEME = "RR", NEW q \in Seq(Jobs), IsInjective(q),
           NEW known, WaitsInOrder(q, known),
           NEW j \in Jobs, j \notin ToSet(q), NEW new, known[j].core_id = -1 =>
                \A k \in 1..Len(q) : known[q[k]].core_id = -1 =>
                    known[q[k]].pause_time <= known[j].pause_time,
           NEW records
    PROVE  /\ WaitsInOrder(OfferJob(q, records, j, new), known)
           /\ Len(OfferJob(q, records, j, new)) = Len(q) + 1
           /\ \A k \in 1..Len(q) : OfferJob(q, records, j, new)[k] = q[k]
           /\ OfferJob(q, records, j, new)[Len(q) + 1] = j
<1> DEFINE n == Len(q)
           r == OfferJob(q, records, j, new)
<1>0. n \in Nat
  OBVIOUS
<1>1. /\ Len(r) = n + 1
      /\ \A k \in 1..n : r[k] = q[k]
      /\ r[n + 1] = j
  BY OfferedLast
<1> HIDE DEF r, n
<1>2. WaitsInOrder(r, known)
  <2> SUFFICES ASSUME NEW i \in 1..(n + 1), NEW k \in 1..(n + 1), i < k,
                      known[r[i]].core_id = -1, known[r[k]].core_id = -1
               PROVE  known[r[i]].pause_time <= known[r[k]].pause_time
    BY <1>1 DEF WaitsInOrder
  <2>1. i \in 1..n
    BY <1>0
  <2>2. CASE k \in 1..n
    BY <1>1, <2>1, <2>2 DEF WaitsInOrder, n
  <2>3. CASE k = n + 1
    BY <1>1, <2>1, <2>3 DEF n
  <2> QED
    BY <1>0, <2>2, <2>3
<1> QED
  BY <1>1, <1>2 DEF n, r

LEMMA WaitsNewJob ==
    ASSUME IInv, WaitingOrder, CURRENT_SCHEME = "RR",
           NEW j \in Jobs \ DOMAIN job, NEW r \in RunTimes, NEW p \in Priorities,
           NEW core, scheduler_new_job(j, r, p, core)
    PROVE  WaitsInOrder(QUEUE', job')
<1> DEFINE new == NewRecord(r, p)
<1>1. /\ QUEUE \in Seq(Jobs) /\ IsInjective(QUEUE) /\ ToSet(QUEUE) = DOMAIN job
      /\ job \in [DOMAIN job -> JobRecord] /\ time \in Nat
  BY StateFacts
<1>2. \A k \in DOMAIN job : job'[k].core_id = job[k].core_id
  BY NewJobEffect DEF Preemptive
<1>3. \A k \in DOMAIN job : Passed(job[k], job'[k], core)
  BY NewJobEffect
<1>4. Entered(job'[j], r, p, core)
  BY NewJobEffect
<1>5. ASSUME NEW k \in 1..Len(QUEUE)
      PROVE  /\ QUEUE[k] \in DOMAIN job
             /\ job'[QUEUE[k]].core_id = job[QUEUE[k]].core_id
             /\ job'[QUEUE[k]].pause_time = job[QUEUE[k]].pause_time
             /\ job[QUEUE[k]].pause_time <= time
  <2>1. QUEUE[k] \in DOMAIN job
    BY <1>1, ElementsOf DEF Occurs
  <2>2. Passed(job[QUEUE[k]], job'[QUEUE[k]], core)
    BY <1>3, <2>1
  <2>3. job[QUEUE[k]] \in JobRecord
    BY <1>1, <2>1
  <2>4. job[QUEUE[k]].pause_time <= time
    BY <1>1, <2>3, RecordFields
  <2> QED
    BY <1>2, <2>1, <2>2, <2>4 DEF Passed
<1>6. WaitsInOrder(QUEUE, job')
  <2>1. WaitsInOrder(QUEUE, job)
    BY DEF WaitingOrder
  <2> QED
    BY <1>5, <2>1, WaitsKept
<1>7. job'[j].core_id = -1 => job'[j].pause_time = time
  BY <1>4 DEF Entered
<1>8. QUEUE' = OfferJob(QUEUE, RecordsAtOffer, j, new)
  BY DEF scheduler_new_job
<1>9. j \in Jobs /\ j \notin ToSet(QUEUE)
  BY <1>1
<1>10. job'[j].core_id = -1 =>
            \A k \in 1..Len(QUEUE) : job'[QUEUE[k]].core_id = -1 =>
                job'[QUEUE[k]].pause_time <= job'[j].pause_time
  BY <1>5, <1>7
<1> HIDE DEF new
<1> QED
  BY <1>1, <1>6, <1>8, <1>9, <1>10, WaitsAppended

LEMMA WaitsFinish ==
    ASSUME IInv, WaitingOrder, CURRENT_SCHEME = "RR",
           NEW j \in DOMAIN job, NEW c \in Cores, NEW w, scheduler_job_finished(c, j, w)
    PROVE  WaitsInOrder(QUEUE', job')
<1> DEFINE n == Len(QUEUE)
<1>1. /\ QUEUE \in Seq(Jobs) /\ IsInjective(QUEUE) /\ ToSet(QUEUE) = DOMAIN job
      /\ job \in [DOMAIN job -> JobRecord] /\ time \in Nat /\ n \in Nat
      /\ -1 \notin Cores
  BY StateFacts
<1>2. PICK p \in 1..n : /\ Len(QueueWithout(j)) = n - 1
                        /\ IsTakenOut(QueueWithout(j), QUEUE, n, p)
  BY <1>1, TakeOutProperties DEF QueueWithout
<1>3. QueueWithout(j) \in Seq(Jobs) /\ ToSet(QueueWithout(j)) = DOMAIN job \ {j}
  BY <1>1, TakeOutProperties DEF QueueWithout
<1>4. WaitsInOrder(QUEUE, job)
  BY DEF WaitingOrder
<1>5. WaitsInOrder(QueueWithout(j), job)
  BY <1>1, <1>2, <1>4, WaitsTakenOut
<1>6. /\ DOMAIN RecordsWithout(j) = DOMAIN job \ {j}
      /\ \A k \in DOMAIN job \ {j} : RecordsWithout(j)[k] = job[k]
      /\ Handed(c, RecordsWithout(j), 0, w)
  BY FinishEffect
<1>7. \A k \in DOMAIN job \ {j} :
            job'[k] = IF k = w THEN Woken(job[k], c, 0) ELSE job[k]
  BY <1>6 DEF Handed
<1>8. ASSUME NEW k \in 1..Len(QueueWithout(j))
      PROVE  job'[QueueWithout(j)[k]].core_id = -1 =>
                job'[QueueWithout(j)[k]] = job[QueueWithout(j)[k]]
  <2> DEFINE x == QueueWithout(j)[k]
  <2>1. x \in DOMAIN job \ {j}
    BY <1>3, ElementsOf DEF Occurs
  <2>2. job[x] \in JobRecord
    BY <1>1, <2>1
  <2> HIDE DEF x
  <2>3. Woken(job[x], c, 0).core_id = c
    BY <1>1, <2>2, WokenFields
  <2>4. job'[x].core_id = -1 => job'[x] = job[x]
    BY <1>1, <1>7, <2>1, <2>3
  <2> QED
    BY <2>4 DEF x
<1>9. QUEUE' = QueueWithout(j)
  BY DEF scheduler_job_finished
<1> QED
  BY <1>5, <1>8, <1>9, WaitsKept

LEMMA WaitsExpire ==
    ASSUME IInv, WaitingOrder, CURRENT_SCHEME = "RR",
           NEW c \in Cores, NEW w, scheduler_quantum_expired(c, w)
    PROVE  WaitsInOrder(QUEUE', job')
<1> DEFINE n == Len(QUEUE)
<1>1. /\ QUEUE \in Seq(Jobs) /\ IsInjective(QUEUE) /\ ToSet(QUEUE) = DOMAIN job
      /\ job \in [DOMAIN job -> JobRecord] /\ time \in Nat /\ n \in Nat
      /\ -1 \notin Cores
  BY StateFacts
<1>2. WaitsInOrder(QUEUE, job)
  BY DEF WaitingOrder
<1>3. CASE OnCore(c) = 0
  BY <1>2, <1>3 DEF scheduler_quantum_expired
<1>4. CASE OnCore(c) # 0
  <2> DEFINE e == QUEUE[OnCore(c)]
             known == RecordsExpired(e)
             q == QueueWithout(e)
  <2>1. e \in DOMAIN job /\ job[e].core_id = c
    <3>1. e \in {k \in DOMAIN job : job[k].core_id = c}
      BY <1>1, <1>4, FirstInProperties DEF OnCore
    <3> QED
      BY <3>1
  <2>2. QUEUE' = OfferJob(q, known, e, known[e])
    BY <1>4 DEF scheduler_quantum_expired
  <2> HIDE DEF e
  <2>3. PICK p \in 1..n : Len(q) = n - 1 /\ IsTakenOut(q, QUEUE, n, p)
    BY <1>1, <2>1, TakeOutProperties DEF QueueWithout
  <2>4. /\ q \in Seq(Jobs) /\ IsInjective(q) /\ ToSet(q) = DOMAIN job \ {e}
        /\ e \in Jobs /\ e \notin ToSet(q)
    <3>1. q \in Seq(Jobs) /\ IsInjective(q) /\ ToSet(q) = ToSet(QUEUE) \ {e}
      BY <1>1, <2>1, TakeOutProperties DEF QueueWithout
    <3>2. e \in Jobs
      BY <2>1, StateFacts
    <3> HIDE DEF q
    <3> QED
      BY <1>1, <3>1, <3>2
  <2>5. WaitsInOrder(q, job)
    BY <1>1, <1>2, <2>3, WaitsTakenOut
  <2>6. /\ DOMAIN known = DOMAIN job
        /\ \A k \in DOMAIN job :
                known[k] = IF k = e
                           THEN [job[e] EXCEPT !.core_id = -1, !.pause_time = time,
                                    !.time_remaining = @ - (time - job[e].start_time)]
                           ELSE job[k]
        /\ Handed(c, known, -1, w)
    BY <2>1, ExpireEffect
  <2> HIDE DEF known
  <2>7. known[e].core_id = -1 /\ known[e].pause_time = time
    <3>1. job[e] \in JobRecord
      BY <1>1, <2>1
    <3> QED
      BY <2>1, <2>6, <3>1 DEF JobRecord
  <2>8. ASSUME NEW k \in 1..Len(q)
        PROVE  /\ q[k] \in DOMAIN job
               /\ known[q[k]] = job[q[k]]
               /\ job[q[k]].pause_time <= time
    <3>1. q[k] \in DOMAIN job /\ q[k] # e
      BY <2>4, ElementsOf DEF Occurs
    <3>2. job[q[k]] \in JobRecord
      BY <1>1, <3>1
    <3>3. job[q[k]].pause_time <= time
      BY <1>1, <3>2, RecordFields
    <3> QED
      BY <2>6, <3>1, <3>3
  <2>9. WaitsInOrder(q, known)
    BY <2>5, <2>8, WaitsKept
  <2>10. known[e].core_id = -1 =>
            \A k \in 1..Len(q) : known[q[k]].core_id = -1 =>
                known[q[k]].pause_time <= known[e].pause_time
    BY <2>7, <2>8
  <2> DEFINE r == OfferJob(q, known, e, known[e])
  <2>11. /\ WaitsInOrder(r, known) /\ Len(r) = Len(q) + 1
         /\ \A k \in 1..Len(q) : r[k] = q[k]
         /\ r[Len(q) + 1] = e
    BY <2>4, <2>9, <2>10, WaitsAppended
  <2> HIDE DEF r
  <2>12. ASSUME NEW k \in 1..Len(r)
         PROVE  job'[r[k]].core_id = -1 => job'[r[k]] = known[r[k]]
    <3>1. r[k] \in DOMAIN job
      <4>1. CASE k = Len(q) + 1
        BY <2>1, <2>11, <4>1
      <4>2. CASE k \in 1..Len(q)
        BY <2>8, <2>11, <4>2
      <4> QED
        BY <2>4, <2>11, <4>1, <4>2
    <3>2. known[r[k]] \in JobRecord
      BY <1>1, <2>1, <3>1, ExpiredRecord DEF IInv, known
    <3>3. Woken(known[r[k]], c, -1).core_id = c
      BY <1>1, <3>2, WokenFields
    <3>4. job'[r[k]] = IF r[k] = w THEN Woken(known[r[k]], c, -1) ELSE known[r[k]]
      BY <2>6, <3>1 DEF Handed
    <3> QED
      BY <1>1, <3>3, <3>4
  <2>13. QUEUE' = r
    BY <2>2 DEF r
  <2> QED
    BY <2>11, <2>12, <2>13, WaitsKept
<1> QED
  BY <1>3, <1>4

LEMMA DispatchInit == SchedInit => DispatchInv
<1> SUFFICES ASSUME SchedInit PROVE DispatchInv
  OBVIOUS
<1>1. QUEUE = <<>>
  BY DEF SchedInit, scheduler_start_up
<1>2. WaitingOrder
  BY <1>1 DEF WaitingOrder, WaitsInOrder
<1> QED
  BY <1>2, OrderInit DEF DispatchInv

LEMMA DispatchNext == DispatchInv /\ [SchedNext]_schedVars => DispatchInv'
<1> SUFFICES ASSUME DispatchInv, [SchedNext]_schedVars, CURRENT_SCHEME' = "RR"
             PROVE  WaitsInOrder(QUEUE', job')
  BY OrderNext DEF DispatchInv, WaitingOrder, WaitsInOrder
<1>0. IInv /\ WaitingOrder /\ -1 \notin Cores
  BY StateFacts DEF DispatchInv, OrderInv
<1>1. CASE Arrive
  <2>1. PICK j \in Jobs \ DOMAIN job, r \in RunTimes, p \in Priorities,
             core_index \in Cores \cup {-1} :
                scheduler_new_job(j, r, p, core_index)
    BY <1>1 DEF Arrive
  <2>2. CURRENT_SCHEME = "RR"
    BY <2>1 DEF scheduler_new_job
  <2> QED
    BY <1>0, <2>1, <2>2, WaitsNewJob
<1>2. CASE Finish
  <2>1. PICK j \in DOMAIN job, w \in Jobs \cup {-1} :
            Running(j) /\ scheduler_job_finished(job[j].core_id, j, w)
    BY <1>2 DEF Finish
  <2>2. CURRENT_SCHEME = "RR"
    BY <2>1 DEF scheduler_job_finished
  <2>3. job[j].core_id \in Cores
    <3>1. job[j] \in JobRecord
      BY <1>0, StateFacts
    <3> QED
      BY <2>1, <3>1 DEF Running, JobRecord
  <2> QED
    BY <1>0, <2>1, <2>2, <2>3, WaitsFinish
<1>3. CASE Expire
  <2>1. PICK c \in Cores, w \in Jobs \cup {-1} : scheduler_quantum_expired(c, w)
    BY <1>3 DEF Expire
  <2>2. CURRENT_SCHEME = "RR"
    BY <1>3 DEF Expire
  <2> QED
    BY <1>0, <2>1, <2>2, WaitsExpire
<1>4. CASE Tick \/ UNCHANGED schedVars
  <2>1. CURRENT_SCHEME' = CURRENT_SCHEME /\ QUEUE' = QUEUE /\ job' = job
    BY <1>4 DEF Tick, schedVars
  <2> QED
    BY <1>0, <2>1 DEF WaitingOrder
<1> QED
  BY <1>1, <1>2, <1>3, <1>4 DEF SchedNext

-----------------------------------------------------------------------------
(* What Dispatcher sees of a state of the library.                         *)

RunningNow == [c \in Cores |-> JobOn(c)]
InfoNow == [j \in DOMAIN job |-> Known(j)]

(* Core c runs x, or nothing when x = -1.                                  *)
RunsIn(known, c, x) ==
    \/ x = -1 /\ \A k \in DOMAIN known : known[k].core_id # c
    \/ x \in DOMAIN known /\ known[x].core_id = c

OneOwner(known) ==
    \A j, k \in DOMAIN known :
        known[j].core_id # -1 /\ known[j].core_id = known[k].core_id => j = k

LEMMA RunsOnce ==
    ASSUME NEW known, OneOwner(known), -1 \notin DOMAIN known,
           NEW c, c # -1, NEW x, NEW y, RunsIn(known, c, x), RunsIn(known, c, y)
    PROVE  x = y
BY DEF RunsIn, OneOwner

LEMMA JobOnRuns ==
    IInv => /\ OneOwner(job) /\ -1 \notin DOMAIN job
            /\ \A c \in Cores : RunsIn(job, c, JobOn(c))
<1> SUFFICES ASSUME IInv
             PROVE  /\ OneOwner(job) /\ -1 \notin DOMAIN job
                    /\ \A c \in Cores : RunsIn(job, c, JobOn(c))
  OBVIOUS
<1>1. OneOwner(job)
  BY DEF IInv, CoresMatch, OneOwner, Running
<1>2. -1 \notin DOMAIN job
  BY StateFacts
<1> QED
  BY <1>1, <1>2 DEF RunsIn, JobOn

RunsMapped ==
    /\ OneOwner(job) /\ -1 \notin DOMAIN job
    /\ \A c \in Cores : RunsIn(job, c, JobOn(c))

LEMMA RunsAreMapped == IInv => RunsMapped
BY JobOnRuns DEF RunsMapped

(* One core changes hands.                                                 *)
LEMMA RunningAfter ==
    ASSUME IInv, IInv', Cores' = Cores, NEW c \in Cores, NEW w, RunsIn(job', c, w),
           \A d \in Cores : d # c => \A x : RunsIn(job, d, x) => RunsIn(job', d, x)
    PROVE  RunningNow' = [RunningNow EXCEPT ![c] = w]
<1>1. \A d \in Cores : RunsIn(job, d, JobOn(d))
  BY JobOnRuns
<1>2. OneOwner(job') /\ -1 \notin DOMAIN job' /\ \A d \in Cores : RunsIn(job', d, JobOn(d)')
  <2>1. RunsMapped'
    BY RunsAreMapped, PTL
  <2> QED
    BY <2>1 DEF RunsMapped
<1>3. -1 \notin Cores
  BY StateFacts
<1>4. ASSUME NEW d \in Cores PROVE JobOn(d)' = IF d = c THEN w ELSE JobOn(d)
  <2>1. CASE d = c
    BY <1>2, <1>3, <2>1, RunsOnce
  <2>2. CASE d # c
    <3>1. RunsIn(job', d, JobOn(d))
      BY <1>1, <2>2
    <3> QED
      BY <1>2, <1>3, <2>2, <3>1, RunsOnce
  <2> QED
    BY <2>1, <2>2
<1> QED
  BY <1>4 DEF RunningNow

(* No core changes hands.                                                  *)
LEMMA RunningBefore ==
    ASSUME IInv, IInv', Cores' = Cores,
           \A d \in Cores : \A x : RunsIn(job, d, x) => RunsIn(job', d, x)
    PROVE  RunningNow' = RunningNow
<1>1. \A d \in Cores : RunsIn(job, d, JobOn(d))
  BY JobOnRuns
<1>2. OneOwner(job') /\ -1 \notin DOMAIN job' /\ \A d \in Cores : RunsIn(job', d, JobOn(d)')
  <2>1. RunsMapped'
    BY RunsAreMapped, PTL
  <2> QED
    BY <2>1 DEF RunsMapped
<1>3. -1 \notin Cores
  BY StateFacts
<1>4. ASSUME NEW d \in Cores PROVE JobOn(d)' = JobOn(d)
  <2>1. RunsIn(job', d, JobOn(d))
    BY <1>1
  <2> QED
    BY <1>2, <1>3, <2>1, RunsOnce
<1> QED
  BY <1>4 DEF RunningNow

LEMMA IdleMapped ==
    ASSUME IInv
    PROVE  /\ D!IdleCores = IdleCores
           /\ D!Waiting = {j \in DOMAIN job : job[j].core_id = -1}
<1>1. /\ active \in [Cores -> {-1, 1}] /\ -1 \notin Cores
      /\ job \in [DOMAIN job -> JobRecord]
  BY StateFacts DEF IInv, TypeOK
<1>2. \A c \in Cores : RunsIn(job, c, JobOn(c))
  BY JobOnRuns
<1>3. ASSUME NEW c \in Cores PROVE JobOn(c) = -1 <=> active[c] = -1
  <2>1. active[c] \in {-1, 1}
    BY <1>1
  <2>2. active[c] = 1 <=> \E j \in DOMAIN job : job[j].core_id = c
    BY DEF IInv, CoresMatch
  <2> QED
    BY <1>2, <2>1, <2>2, JobOnRuns DEF RunsIn
<1>4. ASSUME NEW j \in DOMAIN job
      PROVE  job[j].core_id = -1 <=> \A c \in Cores : JobOn(c) # j
  <2>1. job[j].core_id \in Cores \cup {-1}
    BY <1>1 DEF JobRecord
  <2>2. ASSUME job[j].core_id \in Cores PROVE JobOn(job[j].core_id) = j
    <3>1. RunsIn(job, job[j].core_id, j)
      BY DEF RunsIn
    <3> QED
      BY <1>1, <1>2, <2>2, <3>1, JobOnRuns, RunsOnce
  <2>3. ASSUME NEW c \in Cores, JobOn(c) = j PROVE job[j].core_id = c
    BY <1>2, <2>3, JobOnRuns DEF RunsIn
  <2> QED
    BY <1>1, <2>1, <2>2, <2>3
<1> QED
  BY <1>3, <1>4 DEF D!IdleCores, D!Waiting, IdleCores

-----------------------------------------------------------------------------
(* Who precedes whom.                                                      *)

WaitingIn(known) == {j \in DOMAIN known : known[j].core_id = -1}

(* What Dispatcher knows of a job with this record.                        *)
InfoOf(record) ==
    [arrival |-> record.arrival_time, run |-> record.run_time,
     priority |-> record.priority, left |-> Left(record),
     since |-> IF record.core_id # -1 THEN 0 ELSE record.pause_time]

LEMMA InfoIs ==
    /\ \A j : Known(j) = InfoOf(job[j])
    /\ InfoNow = [j \in DOMAIN job |-> InfoOf(job[j])]
BY DEF Known, InfoOf, InfoNow, Left, StillToRun, Running

LEMMA InfoAfter ==
    time' = time => InfoNow' = [j \in DOMAIN job' |-> InfoOf(job'[j])]
BY DEF Known, InfoOf, InfoNow, Left, StillToRun, Running

(* a says of a job what the comparer reads of its record.                  *)
Tells(a, record) ==
    /\ a.arrival = record.arrival_time
    /\ a.run = record.run_time
    /\ a.priority = record.priority
    /\ CURRENT_SCHEME = "PSJF" => a.left = record.time_remaining
    /\ CURRENT_SCHEME = "RR" => a.since = record.pause_time

LEMMA TellsWaiting ==
    ASSUME NEW x, x.core_id = -1
    PROVE  Tells(InfoOf(x), x)
BY DEF Tells, InfoOf, Left

LEMMA PrecedesIs ==
    ASSUME NEW x \in JobRecord, NEW y \in JobRecord, time \in Nat,
           NEW a, NEW b, Tells(a, x), Tells(b, y)
    PROVE  /\ CURRENT_SCHEME # "RR" /\ CURRENT_SCHEME \in Schemes =>
                (D!Precedes(a, b) <=> cmp(x, y) < 0)
           /\ CURRENT_SCHEME = "RR" => (D!Precedes(a, b) <=> x.pause_time < y.pause_time)
<1>1. /\ x.arrival_time \in Int /\ y.arrival_time \in Int
      /\ x.run_time \in Int /\ y.run_time \in Int
      /\ x.priority \in Int /\ y.priority \in Int
      /\ x.time_remaining \in Int /\ y.time_remaining \in Int
  BY RecordFields
<1>2. CASE CURRENT_SCHEME = "RR"
  BY <1>2 DEF D!Precedes, Tells
<1>3. CASE CURRENT_SCHEME # "RR" /\ CURRENT_SCHEME \in Schemes
  BY <1>1, <1>3 DEF D!Precedes, Tells, Schemes, cmp, FCFS_COMPARE, SJF_COMPARE,
                    PSJF_COMPARE, PRI_COMPARE, ByThenArrival
<1> QED
  BY <1>2, <1>3

LEMMA CmpStrict ==
    ASSUME NEW x \in JobRecord, NEW y \in JobRecord, time \in Nat,
           CURRENT_SCHEME \in Schemes, CURRENT_SCHEME # "RR"
    PROVE  /\ ~(cmp(x, x) < 0)
           /\ cmp(x, y) < 0 => ~(cmp(y, x) < 0)
<1>1. /\ x.arrival_time \in Int /\ y.arrival_time \in Int
      /\ x.run_time \in Int /\ y.run_time \in Int
      /\ x.priority \in Int /\ y.priority \in Int
      /\ x.time_remaining \in Int /\ y.time_remaining \in Int
  BY RecordFields
<1> QED
  BY <1>1 DEF Schemes, cmp, FCFS_COMPARE, SJF_COMPARE, PSJF_COMPARE, PRI_COMPARE,
              ByThenArrival

(* Of two waiting jobs, the second does not precede the first.            *)
LEMMA NotPreceding ==
    ASSUME NEW x \in JobRecord, NEW y \in JobRecord, time \in Nat,
           CURRENT_SCHEME \in Schemes, x.core_id = -1, y.core_id = -1,
           CURRENT_SCHEME # "RR" => cmp(x, y) < 0,
           CURRENT_SCHEME = "RR" => x.pause_time <= y.pause_time
    PROVE  ~D!Precedes(InfoOf(y), InfoOf(x))
<1>1. Tells(InfoOf(x), x) /\ Tells(InfoOf(y), y)
  BY TellsWaiting
<1>2. x.pause_time \in Int /\ y.pause_time \in Int
  BY RecordFields
<1>3. CASE CURRENT_SCHEME = "RR"
  <2>1. ~(y.pause_time < x.pause_time)
    BY <1>2, <1>3
  <2> QED
    BY <1>1, <1>3, <2>1, PrecedesIs
<1>4. CASE CURRENT_SCHEME # "RR"
  <2>1. ~(cmp(y, x) < 0)
    BY <1>4, CmpStrict
  <2> QED
    BY <1>1, <1>4, <2>1, PrecedesIs
<1> QED
  BY <1>3, <1>4

(* PSJF is only a dispatcher on one core: on several the times of the      *)
(* running jobs are not up to date when a job is offered.                  *)
Exact == CURRENT_SCHEME = "PSJF" => num_cores = 1

(* The list, and the records its order was made from: in both kinds of     *)
(* order, who waits further back precedes nobody who waits in front.       *)
LEMMA NobodyBehind ==
    ASSUME CURRENT_SCHEME \in Schemes, Exact, time \in Nat,
           NEW q, NEW known,
           Ordered => SortedBy(q, known),
           CURRENT_SCHEME = "RR" => WaitsInOrder(q, known),
           NEW k \in 1..Len(q), NEW l \in 1..Len(q), k < l,
           known[q[k]] \in JobRecord, known[q[l]] \in JobRecord,
           known[q[k]].core_id = -1, known[q[l]].core_id = -1
    PROVE  ~D!Precedes(InfoOf(known[q[l]]), InfoOf(known[q[k]]))
<1>1. CURRENT_SCHEME # "RR" => cmp(known[q[k]], known[q[l]]) < 0
  BY DEF Ordered, Exact, Schemes, SortedBy
<1>2. CURRENT_SCHEME = "RR" => known[q[k]].pause_time <= known[q[l]].pause_time
  BY DEF WaitsInOrder
<1> QED
  BY <1>1, <1>2, NotPreceding

LEMMA NotItself ==
    ASSUME CURRENT_SCHEME \in Schemes, time \in Nat, NEW x \in JobRecord, x.core_id = -1
    PROVE  ~D!Precedes(InfoOf(x), InfoOf(x))
<1>1. Tells(InfoOf(x), x)
  BY TellsWaiting
<1>2. x.pause_time \in Int
  BY RecordFields
<1>3. ~(x.pause_time < x.pause_time)
  BY <1>2
<1>4. CURRENT_SCHEME # "RR" => ~(cmp(x, x) < 0)
  BY CmpStrict
<1> QED
  BY <1>1, <1>3, <1>4, PrecedesIs

(* The job that the scan finds is a most urgent one.                       *)
LEMMA ScanIsMostUrgent ==
    ASSUME CURRENT_SCHEME \in Schemes, Exact, time \in Nat, -1 \notin Jobs,
           NEW q \in Seq(Jobs), NEW known, known \in [DOMAIN known -> JobRecord],
           ToSet(q) = DOMAIN known,
           Ordered => SortedBy(q, known),
           CURRENT_SCHEME = "RR" => WaitsInOrder(q, known)
    PROVE  \/ /\ FirstWaiting(q, known) = -1
              /\ WaitingIn(known) = {}
           \/ /\ FirstWaiting(q, known) \in WaitingIn(known)
              /\ \A k \in WaitingIn(known) :
                    ~D!Precedes(InfoOf(known[k]), InfoOf(known[FirstWaiting(q, known)]))
<1> DEFINE w == FirstWaiting(q, known)
<1>1. CASE w = -1
  BY <1>1, FirstWaitingProperties, ElementsOf DEF WaitingIn
<1>2. CASE w # -1
  <2>1. PICK p \in 1..Len(q) :
            /\ w = q[p] /\ q[p] \in DOMAIN known /\ known[q[p]].core_id = -1
            /\ \A l \in 1..(p - 1) : known[q[l]].core_id # -1
    BY <1>2, FirstWaitingProperties
  <2>2. w \in WaitingIn(known)
    BY <2>1 DEF WaitingIn
  <2> HIDE DEF w
  <2>3. ASSUME NEW k \in WaitingIn(known)
        PROVE  ~D!Precedes(InfoOf(known[k]), InfoOf(known[w]))
    <3>1. k \in DOMAIN known /\ known[k].core_id = -1
      BY DEF WaitingIn
    <3>2. PICK l \in 1..Len(q) : q[l] = k
      BY <3>1, ElementsOf DEF Occurs
    <3>3. known[q[p]] \in JobRecord /\ known[q[l]] \in JobRecord
      BY <2>1, <3>1, <3>2
    <3>4. CASE l = p
      BY <2>1, <3>2, <3>3, <3>4, NotItself
    <3>5. CASE p < l
      <4>1. ~D!Precedes(InfoOf(known[q[l]]), InfoOf(known[q[p]]))
        BY <2>1, <3>1, <3>2, <3>3, <3>5, NobodyBehind
      <4> QED
        BY <2>1, <3>2, <4>1
    <3>6. CASE l < p
      <4>1. l \in 1..(p - 1)
        BY <3>6
      <4> QED
        BY <2>1, <3>1, <3>2, <4>1
    <3> QED
      BY <3>4, <3>5, <3>6
  <2> QED
    BY <2>2, <2>3 DEF w
<1> QED
  BY <1>1, <1>2

-----------------------------------------------------------------------------
(* A core is given up.                                                     *)

LEMMA GivenOn ==
    ASSUME NEW c \in Cores, NEW S, NEW known, NEW w,
           RunningNow' = [RunningNow EXCEPT ![c] = w],
           \/ w = -1 /\ S = {} /\ InfoNow' = known
           \/ /\ w \in S
              /\ \A k \in S : ~D!Precedes(known[k], known[w])
              /\ InfoNow' = [known EXCEPT ![w].since = 0]
    PROVE  D!GiveCore(c, S, known)
<1>1. CASE w = -1 /\ S = {} /\ InfoNow' = known
  BY <1>1 DEF D!GiveCore, RunningNow, InfoNow
<1>2. CASE /\ w \in S
           /\ \A k \in S : ~D!Precedes(known[k], known[w])
           /\ InfoNow' = [known EXCEPT ![w].since = 0]
  <2>1. w \in D!MostUrgent(S, known)
    BY <1>2 DEF D!MostUrgent
  <2>2. S # {}
    BY <1>2
  <2> QED
    BY <1>2, <2>1, <2>2 DEF D!GiveCore, RunningNow, InfoNow
<1> QED
  BY <1>1, <1>2

LEMMA InfoOfWoken ==
    ASSUME NEW a \in JobRecord, a.core_id = -1, NEW c \in Cores, NEW mark,
           time \in Nat, -1 \notin Cores
    PROVE  InfoOf(Woken(a, c, mark)) = [InfoOf(a) EXCEPT !.since = 0]
<1> DEFINE b == Woken(a, c, mark)
<1>1. /\ b.core_id # -1
      /\ b.arrival_time = a.arrival_time /\ b.run_time = a.run_time
      /\ b.priority = a.priority /\ Left(b) = Left(a)
  BY WokenFields
<1> HIDE DEF b
<1>2. InfoOf(b) = [arrival |-> a.arrival_time, run |-> a.run_time,
                   priority |-> a.priority, left |-> Left(a), since |-> 0]
  BY <1>1 DEF InfoOf
<1>3. InfoOf(a) = [arrival |-> a.arrival_time, run |-> a.run_time,
                   priority |-> a.priority, left |-> Left(a), since |-> a.pause_time]
  BY DEF InfoOf
<1>4. InfoOf(b) = [InfoOf(a) EXCEPT !.since = 0]
  BY <1>2, <1>3
<1> QED
  BY <1>4 DEF b

InfosOf(known) == [k \in DOMAIN known |-> InfoOf(known[k])]

(* The scan of both functions that give a core up is Dispatcher's choice,  *)
(* on the records and the list that are left.                              *)
LEMMA HandedMapped ==
    ASSUME IInv, IInv', Exact, UNCHANGED <<CURRENT_SCHEME, num_cores, time>>,
           NEW c \in Cores, NEW q \in Seq(Jobs), NEW known, NEW mark, NEW w,
           known \in [DOMAIN known -> JobRecord], ToSet(q) = DOMAIN known,
           Ordered => SortedBy(q, known),
           CURRENT_SCHEME = "RR" => WaitsInOrder(q, known),
           w = FirstWaiting(q, known), Handed(c, known, mark, w),
           \A k \in DOMAIN known : known[k].core_id # c,
           \A d \in Cores : d # c => \A x : RunsIn(job, d, x) => RunsIn(known, d, x)
    PROVE  D!GiveCore(c, WaitingIn(known), InfosOf(known))
<1>1. /\ time \in Nat /\ -1 \notin Cores /\ -1 \notin Jobs
  BY StateFacts
<1>2. CURRENT_SCHEME \in Schemes
  BY SchedulerAssumption DEF IInv, TypeOK
<1>3. \/ w = -1 /\ WaitingIn(known) = {}
      \/ /\ w \in WaitingIn(known)
         /\ \A k \in WaitingIn(known) : ~D!Precedes(InfoOf(known[k]), InfoOf(known[w]))
  BY <1>1, <1>2, ScanIsMostUrgent
<1>4. /\ DOMAIN job' = DOMAIN known
      /\ \A k \in DOMAIN known :
            job'[k] = IF k = w THEN Woken(known[k], c, mark) ELSE known[k]
  BY DEF Handed
<1>5. w # -1 => w \in DOMAIN known /\ known[w] \in JobRecord /\ known[w].core_id = -1
  BY DEF Handed
<1>6. w # -1 => Woken(known[w], c, mark).core_id = c
  BY <1>1, <1>5, WokenFields
<1>7. RunsIn(job', c, w)
  BY <1>1, <1>4, <1>5, <1>6 DEF RunsIn
<1>8. ASSUME NEW d \in Cores, d # c, NEW x, RunsIn(job, d, x)
      PROVE  RunsIn(job', d, x)
  <2>1. RunsIn(known, d, x)
    BY <1>8
  <2>2. CASE x = -1 /\ \A k \in DOMAIN known : known[k].core_id # d
    BY <1>4, <1>6, <1>8, <2>2, <1>5 DEF RunsIn
  <2>3. CASE x \in DOMAIN known /\ known[x].core_id = d
    <3>1. -1 \notin DOMAIN known
      BY <1>1, ElementsOf DEF Occurs
    <3>2. x # w
      BY <1>1, <1>5, <2>3, <3>1
    <3>3. x \in DOMAIN job' /\ job'[x].core_id = d
      BY <1>4, <2>3, <3>2
    <3> QED
      BY <3>3 DEF RunsIn
  <2> QED
    BY <2>1, <2>2, <2>3 DEF RunsIn
<1>9. RunningNow' = [RunningNow EXCEPT ![c] = w]
  <2>1. Cores' = Cores
    BY DEF Cores
  <2> QED
    BY <1>7, <1>8, <2>1, RunningAfter
<1>10. InfoNow' = [k \in DOMAIN known |-> InfoOf(job'[k])]
  BY <1>4, InfoAfter
<1>11. w = -1 => InfoNow' = InfosOf(known)
  <2>1. -1 \notin DOMAIN known
    BY <1>1, ElementsOf DEF Occurs
  <2> QED
    BY <1>4, <1>10, <2>1 DEF InfosOf
<1>12. w # -1 => InfoNow' = [InfosOf(known) EXCEPT ![w].since = 0]
  <2>1. w # -1 => InfoOf(job'[w]) = [InfoOf(known[w]) EXCEPT !.since = 0]
    BY <1>1, <1>4, <1>5, InfoOfWoken
  <2>2. \A k \in DOMAIN known : k # w => InfoOf(job'[k]) = InfoOf(known[k])
    BY <1>4
  <2> QED
    BY <1>5, <1>10, <2>1, <2>2 DEF InfosOf
<1>13. w \in WaitingIn(known) =>
            \A k \in WaitingIn(known) :
                InfosOf(known)[k] = InfoOf(known[k]) /\ InfosOf(known)[w] = InfoOf(known[w])
  BY DEF InfosOf, WaitingIn
<1>14. w \in WaitingIn(known) => w # -1
  BY <1>1, ElementsOf DEF Occurs, WaitingIn
<1>15. \/ w = -1 /\ WaitingIn(known) = {} /\ InfoNow' = InfosOf(known)
       \/ /\ w \in WaitingIn(known)
          /\ \A k \in WaitingIn(known) : ~D!Precedes(InfosOf(known)[k], InfosOf(known)[w])
          /\ InfoNow' = [InfosOf(known) EXCEPT ![w].since = 0]
  <2>1. CASE w = -1 /\ WaitingIn(known) = {}
    BY <1>11, <2>1
  <2>2. CASE /\ w \in WaitingIn(known)
             /\ \A k \in WaitingIn(known) :
                    ~D!Precedes(InfoOf(known[k]), InfoOf(known[w]))
    BY <1>12, <1>13, <1>14, <2>2
  <2> QED
    BY <1>3, <2>1, <2>2
<1> QED
  BY <1>9, <1>15, GivenOn

(* The list without a job is still in order.                               *)
LEMMA QueueWithoutOrder ==
    ASSUME DispatchInv, NEW j \in DOMAIN job
    PROVE  /\ QueueWithout(j) \in Seq(Jobs) /\ IsInjective(QueueWithout(j))
           /\ ToSet(QueueWithout(j)) = DOMAIN job \ {j}
           /\ Ordered => SortedBy(QueueWithout(j), job)
           /\ CURRENT_SCHEME = "RR" => WaitsInOrder(QueueWithout(j), job)
<1> DEFINE n == Len(QUEUE)
<1>1. IInv /\ (Ordered => SortedBy(QUEUE, job))
      /\ (CURRENT_SCHEME = "RR" => WaitsInOrder(QUEUE, job))
  BY SortedQueueIs DEF DispatchInv, OrderInv, WaitingOrder
<1>2. /\ QUEUE \in Seq(Jobs) /\ IsInjective(QUEUE) /\ ToSet(QUEUE) = DOMAIN job
      /\ n \in Nat
  BY <1>1, StateFacts
<1>3. PICK p \in 1..n : /\ Len(QueueWithout(j)) = n - 1
                        /\ IsTakenOut(QueueWithout(j), QUEUE, n, p)
  BY <1>2, TakeOutProperties DEF QueueWithout
<1>4. /\ QueueWithout(j) \in Seq(Jobs) /\ IsInjective(QueueWithout(j))
      /\ ToSet(QueueWithout(j)) = DOMAIN job \ {j}
  BY <1>2, TakeOutProperties DEF QueueWithout
<1>5. Ordered => SortedBy(QueueWithout(j), job)
  BY <1>1, <1>2, <1>3, TakenOutOrder
<1>6. CURRENT_SCHEME = "RR" => WaitsInOrder(QueueWithout(j), job)
  BY <1>1, <1>2, <1>3, WaitsTakenOut
<1> QED
  BY <1>4, <1>5, <1>6

LEMMA RunsMappedTo ==
    ASSUME IInv, NEW j \in DOMAIN job, Running(j)
    PROVE  job[j].core_id \in Cores /\ RunningNow[job[j].core_id] = j
<1> DEFINE c == job[j].core_id
<1>1. job \in [DOMAIN job -> JobRecord] /\ -1 \notin Cores
  BY StateFacts
<1>2. c \in Cores /\ c # -1
  <2>1. job[j] \in JobRecord
    BY <1>1
  <2> QED
    BY <1>1, <2>1 DEF JobRecord, Running
<1>3. RunsIn(job, c, j)
  BY DEF RunsIn
<1> HIDE DEF c
<1>4. JobOn(c) = j
  BY <1>2, <1>3, JobOnRuns, RunsOnce
<1>5. RunningNow[c] = j
  BY <1>2, <1>4 DEF RunningNow
<1> QED
  BY <1>2, <1>5 DEF c

LEMMA FinishMapped ==
    ASSUME DispatchInv, IInv', Exact, NEW j \in DOMAIN job, Running(j),
           StillToRun(j) = 0, NEW w, scheduler_job_finished(job[j].core_id, j, w)
    PROVE  D!Complete(job[j].core_id)
<1> DEFINE c == job[j].core_id
           known == RecordsWithout(j)
<1>1. IInv
  BY DEF DispatchInv, OrderInv
<1>2. c \in Cores /\ RunningNow[c] = j
  BY <1>1, RunsMappedTo
<1>3. /\ job \in [DOMAIN job -> JobRecord] /\ -1 \notin Cores /\ -1 \notin DOMAIN job
  BY <1>1, StateFacts
<1>4. scheduler_job_finished(c, j, w)
  OBVIOUS
<1>5. c = job[j].core_id
  OBVIOUS
<1> HIDE DEF c
<1>6. /\ DOMAIN known = DOMAIN job \ {j}
      /\ \A k \in DOMAIN job \ {j} : known[k] = job[k]
      /\ Handed(c, known, 0, w)
      /\ UNCHANGED <<CURRENT_SCHEME, num_cores, time>>
  BY <1>1, <1>4, FinishEffect
<1>7. w = FirstWaiting(QueueWithout(j), known)
  BY <1>4 DEF scheduler_job_finished, WakeOn
<1> HIDE DEF known
<1>8. known \in [DOMAIN known -> JobRecord]
  <2>1. known = [k \in DOMAIN known |-> known[k]]
    BY DEF known, RecordsWithout
  <2>2. \A k \in DOMAIN known : known[k] \in JobRecord
    BY <1>3, <1>6
  <2> QED
    BY <2>1, <2>2
<1>9. /\ QueueWithout(j) \in Seq(Jobs) /\ ToSet(QueueWithout(j)) = DOMAIN known
      /\ Ordered => SortedBy(QueueWithout(j), job)
      /\ CURRENT_SCHEME = "RR" => WaitsInOrder(QueueWithout(j), job)
  BY <1>6, QueueWithoutOrder
<1>10. \A k \in 1..Len(QueueWithout(j)) :
            QueueWithout(j)[k] \in DOMAIN job \ {j}
  BY <1>6, <1>9, ElementsOf DEF Occurs
<1>11. /\ Ordered => SortedBy(QueueWithout(j), known)
       /\ CURRENT_SCHEME = "RR" => WaitsInOrder(QueueWithout(j), known)
  BY <1>6, <1>9, <1>10 DEF SortedBy, WaitsInOrder
<1>12. \A k \in DOMAIN known : known[k].core_id # c
  BY <1>1, <1>5, <1>6 DEF IInv, CoresMatch, Running
<1>13. ASSUME NEW d \in Cores, d # c, NEW x, RunsIn(job, d, x)
       PROVE  RunsIn(known, d, x)
  BY <1>5, <1>6, <1>13 DEF RunsIn
<1>14. D!GiveCore(c, WaitingIn(known), InfosOf(known))
  BY <1>1, <1>2, <1>6, <1>7, <1>8, <1>9, <1>11, <1>12, <1>13, HandedMapped
<1>15. WaitingIn(known) = D!Waiting
  <2>1. job[j].core_id # -1
    BY DEF Running
  <2> QED
    BY <1>1, <1>6, <2>1, IdleMapped DEF WaitingIn
<1>16. InfosOf(known) = [k \in DOMAIN InfoNow \ {j} |-> InfoNow[k]]
  <2>1. InfoNow = [k \in DOMAIN job |-> InfoOf(job[k])]
    BY InfoIs
  <2> QED
    BY <1>6, <2>1 DEF InfosOf
<1>17. InfoNow[j].left = 0 /\ RunningNow[c] # -1
  BY <1>2, <1>3 DEF InfoNow, Known
<1>18. D!Complete(c)
  BY <1>2, <1>6, <1>14, <1>15, <1>16, <1>17 DEF D!Complete, RunningNow, InfoNow
<1> QED
  BY <1>18 DEF c

(* Nothing that Dispatcher sees changes.                                   *)
Stutter == UNCHANGED <<CURRENT_SCHEME, RunningNow, InfoNow, time>>

LEMMA StutterWhen ==
    ASSUME IInv, IInv', UNCHANGED <<CURRENT_SCHEME, num_cores, time, job>>
    PROVE  Stutter
<1>1. Cores' = Cores
  BY DEF Cores
<1>2. \A d \in Cores : \A x : RunsIn(job, d, x) => RunsIn(job', d, x)
  OBVIOUS
<1>3. RunningNow' = RunningNow
  BY <1>1, <1>2, RunningBefore
<1>4. InfoNow' = InfoNow
  BY InfoIs, InfoAfter
<1> QED
  BY <1>3, <1>4 DEF Stutter

(* The job that lost its core is behind all the others, and has waited for *)
(* the shortest time.                                                      *)
LEMMA ExpiredOrder ==
    ASSUME DispatchInv, CURRENT_SCHEME = "RR", NEW e \in DOMAIN job,
           NEW known \in [DOMAIN job -> JobRecord],
           \A k \in DOMAIN job \ {e} : known[k] = job[k],
           known[e].pause_time = time,
           NEW q, q = OfferJob(QueueWithout(e), known, e, known[e])
    PROVE  /\ q \in Seq(Jobs) /\ ToSet(q) = DOMAIN known
           /\ WaitsInOrder(q, known)
<1> DEFINE r == QueueWithout(e)
<1>1. /\ job \in [DOMAIN job -> JobRecord] /\ time \in Nat /\ DOMAIN job \subseteq Jobs
  BY StateFacts DEF DispatchInv, OrderInv
<1>2. /\ r \in Seq(Jobs) /\ IsInjective(r) /\ ToSet(r) = DOMAIN job \ {e}
      /\ WaitsInOrder(r, job)
  BY QueueWithoutOrder
<1> HIDE DEF r
<1>3. e \in Jobs /\ e \notin ToSet(r)
  BY <1>1, <1>2
<1>4. DOMAIN known = DOMAIN job /\ known \in [DOMAIN known -> JobRecord]
      /\ known[e] \in JobRecord
  OBVIOUS
<1>5. ASSUME NEW k \in 1..Len(r)
      PROVE  r[k] \in DOMAIN job \ {e} /\ job[r[k]].pause_time <= time
  <2>1. r[k] \in DOMAIN job \ {e}
    BY <1>2, ElementsOf DEF Occurs
  <2>2. job[r[k]] \in JobRecord
    BY <1>1, <2>1
  <2>3. job[r[k]].pause_time <= time
    BY <1>1, <2>2, RecordFields
  <2> QED
    BY <2>1, <2>3
<1>6. WaitsInOrder(r, known)
  BY <1>2, <1>5, WaitsKept
<1>7. known[e].core_id = -1 =>
            \A k \in 1..Len(r) : known[r[k]].core_id = -1 =>
                known[r[k]].pause_time <= known[e].pause_time
  BY <1>5
<1>8. q = OfferJob(r, known, e, known[e])
  BY DEF r
<1>9. WaitsInOrder(q, known)
  BY <1>2, <1>3, <1>6, <1>7, <1>8, WaitsAppended
<1>10. q \in Seq(Jobs) /\ ToSet(q) = ToSet(r) \cup {e}
  <2>1. ToSet(r) \subseteq DOMAIN known
    BY <1>2, <1>4
  <2> QED
    BY <1>1, <1>2, <1>3, <1>4, <1>8, <2>1, OfferJobProperties
<1>11. ToSet(q) = DOMAIN known
  BY <1>2, <1>4, <1>10
<1> QED
  BY <1>9, <1>10, <1>11

LEMMA ExpireMapped ==
    ASSUME DispatchInv, IInv', CURRENT_SCHEME = "RR", NEW c \in Cores, NEW w,
           scheduler_quantum_expired(c, w)
    PROVE  D!Rotate(c) \/ Stutter
<1>1. IInv /\ Exact
  BY DEF DispatchInv, OrderInv, Exact
<1>2. /\ job \in [DOMAIN job -> JobRecord] /\ -1 \notin Cores /\ -1 \notin DOMAIN job
      /\ QUEUE \in Seq(Jobs) /\ time \in Nat
  BY <1>1, StateFacts
<1>3. CASE OnCore(c) = 0
  <2>1. UNCHANGED <<CURRENT_SCHEME, num_cores, time, job>>
    BY <1>3 DEF scheduler_quantum_expired
  <2> QED
    BY <1>1, <2>1, StutterWhen
<1>4. CASE OnCore(c) # 0
  <2> DEFINE e == QUEUE[OnCore(c)]
             known == RecordsExpired(e)
             q == OfferJob(QueueWithout(e), known, e, known[e])
  <2>1. e \in DOMAIN job /\ job[e].core_id = c
    <3>1. e \in {k \in DOMAIN job : job[k].core_id = c}
      BY <1>2, <1>4, FirstInProperties DEF OnCore
    <3> QED
      BY <3>1
  <2>2. w = FirstWaiting(q, known)
    BY <1>4 DEF scheduler_quantum_expired, WakeOn
  <2> HIDE DEF e
  <2>3. /\ DOMAIN known = DOMAIN job
        /\ \A k \in DOMAIN job :
                known[k] = IF k = e
                           THEN [job[e] EXCEPT !.core_id = -1, !.pause_time = time,
                                    !.time_remaining = @ - (time - job[e].start_time)]
                           ELSE job[k]
        /\ Handed(c, known, -1, w)
        /\ UNCHANGED <<CURRENT_SCHEME, num_cores, time>>
    BY <1>1, <2>1, ExpireEffect
  <2>4. known \in [DOMAIN known -> JobRecord]
    BY <1>1, <2>1, ExpiredRecord DEF IInv
  <2> HIDE DEF known
  <2>5. /\ known[e] \in JobRecord
        /\ known[e].core_id = -1 /\ known[e].pause_time = time
        /\ known[e].arrival_time = job[e].arrival_time
        /\ known[e].run_time = job[e].run_time
        /\ known[e].priority = job[e].priority
        /\ known[e].time_remaining = job[e].time_remaining - (time - job[e].start_time)
    <3>1. job[e] \in JobRecord
      BY <1>2, <2>1
    <3>2. known[e] = [job[e] EXCEPT !.core_id = -1, !.pause_time = time,
                         !.time_remaining = @ - (time - job[e].start_time)]
      BY <2>1, <2>3
    <3> QED
      BY <2>1, <2>3, <2>4, <3>1, <3>2 DEF JobRecord
  <2>6. /\ \A k \in DOMAIN job \ {e} : known[k] = job[k]
        /\ known \in [DOMAIN job -> JobRecord]
    BY <2>3, <2>4
  <2>7. q \in Seq(Jobs) /\ ToSet(q) = DOMAIN known /\ WaitsInOrder(q, known)
    BY <2>1, <2>3, <2>4, <2>5, <2>6, ExpiredOrder
  <2> HIDE DEF q
  <2>8. \A k \in DOMAIN known : known[k].core_id # c
    BY <1>1, <1>2, <2>1, <2>3, <2>5, <2>6 DEF IInv, CoresMatch, Running
  <2>9. ASSUME NEW d \in Cores, d # c, NEW x, RunsIn(job, d, x)
        PROVE  RunsIn(known, d, x)
    <3>1. CASE x = -1 /\ \A k \in DOMAIN job : job[k].core_id # d
      BY <1>2, <2>3, <2>5, <2>6, <3>1 DEF RunsIn
    <3>2. CASE x \in DOMAIN job /\ job[x].core_id = d
      BY <2>1, <2>3, <2>6, <2>9, <3>2 DEF RunsIn
    <3> QED
      BY <2>9, <3>1, <3>2 DEF RunsIn
  <2>10. ~Ordered
    BY DEF Ordered
  <2>11. D!GiveCore(c, WaitingIn(known), InfosOf(known))
    BY <1>1, <2>2, <2>3, <2>4, <2>7, <2>8, <2>9, <2>10, HandedMapped
  <2>12. RunningNow[c] = e
    BY <1>1, <1>2, <2>1, RunsMappedTo DEF Running
  <2>13. WaitingIn(known) = D!Waiting \cup {e}
    <3>1. D!Waiting = {k \in DOMAIN job : job[k].core_id = -1}
      BY <1>1, IdleMapped
    <3> QED
      BY <2>1, <2>3, <2>5, <2>6, <3>1 DEF WaitingIn
  <2>14. InfoOf(known[e]) = [InfoOf(job[e]) EXCEPT !.since = time]
    <3>1. InfoOf(known[e]) =
            [arrival |-> job[e].arrival_time, run |-> job[e].run_time,
             priority |-> job[e].priority,
             left |-> job[e].time_remaining - (time - job[e].start_time), since |-> time]
      BY <2>5 DEF InfoOf, Left
    <3>2. InfoOf(job[e]) =
            [arrival |-> job[e].arrival_time, run |-> job[e].run_time,
             priority |-> job[e].priority,
             left |-> job[e].time_remaining - (time - job[e].start_time), since |-> 0]
      BY <1>2, <2>1 DEF InfoOf, Left
    <3> QED
      BY <3>1, <3>2
  <2>15. InfosOf(known) = [InfoNow EXCEPT ![e].since = time]
    <3>1. InfoNow = [k \in DOMAIN job |-> InfoOf(job[k])]
      BY InfoIs
    <3>2. \A k \in DOMAIN job : k # e => InfoOf(known[k]) = InfoOf(job[k])
      BY <2>6
    <3> QED
      BY <2>1, <2>3, <2>14, <3>1, <3>2 DEF InfosOf
  <2>16. D!Rotate(c)
    <3>1. e # -1
      BY <1>2, <2>1
    <3>2. UNCHANGED <<CURRENT_SCHEME, time>>
      BY <2>3
    <3>3. D!GiveCore(c, D!Waiting \cup {RunningNow[c]},
                     [InfoNow EXCEPT ![RunningNow[c]].since = time])
      BY <2>11, <2>12, <2>13, <2>15
    <3> QED
      BY <2>12, <3>1, <3>2, <3>3 DEF D!Rotate, RunningNow, InfoNow
  <2> QED
    BY <2>16
<1> QED
  BY <1>3, <1>4

-----------------------------------------------------------------------------
(* Time passes.                                                            *)

LEMMA TickMapped ==
    ASSUME IInv, IInv', Tick
    PROVE  D!Pass
<1>1. /\ job \in [DOMAIN job -> JobRecord] /\ time \in Nat
      /\ -1 \notin Cores /\ -1 \notin DOMAIN job
  BY StateFacts
<1>2. /\ UNCHANGED <<CURRENT_SCHEME, num_cores, job>>
      /\ time' = time + 1 /\ time < MaxTime /\ NoneOver
  BY DEF Tick
<1>3. RunningNow' = RunningNow
  <2>1. Cores' = Cores
    BY <1>2 DEF Cores
  <2>2. \A d \in Cores : \A x : RunsIn(job, d, x) => RunsIn(job', d, x)
    BY <1>2
  <2> QED
    BY <2>1, <2>2, RunningBefore
<1>4. D!Waiting = {k \in DOMAIN job : job[k].core_id = -1}
  BY IdleMapped
<1>5. ASSUME NEW k \in DOMAIN job
      PROVE  Known(k)' = IF k \in D!Waiting THEN Known(k)
                         ELSE [Known(k) EXCEPT !.left = @ - 1]
  <2>1. job[k] \in JobRecord
    BY <1>1
  <2>2. job[k].start_time \in Int /\ job[k].time_remaining \in Int
    BY <1>1, <2>1, RecordFields
  <2>3. CASE job[k].core_id = -1
    <3>1. k \in D!Waiting
      BY <1>4, <2>3
    <3>2. Known(k)' = Known(k)
      BY <1>2, <2>3 DEF Known, StillToRun, Running
    <3> QED
      BY <3>1, <3>2
  <2>4. CASE job[k].core_id # -1
    <3>1. k \notin D!Waiting
      BY <1>4, <2>4
    <3>2. StillToRun(k)' = StillToRun(k) - 1
      <4>1. StillToRun(k)' = job[k].time_remaining - (time + 1 - job[k].start_time)
        BY <1>1, <1>2, <2>2, <2>4 DEF StillToRun
      <4>2. StillToRun(k) = job[k].time_remaining - (time - job[k].start_time)
        BY <2>4 DEF StillToRun
      <4> QED
        BY <1>1, <2>2, <4>1, <4>2
    <3>3. Known(k)' = [arrival |-> job[k].arrival_time, run |-> job[k].run_time,
                       priority |-> job[k].priority, left |-> StillToRun(k)',
                       since |-> 0]
      BY <1>2, <2>4 DEF Known, Running
    <3>4. Known(k) = [arrival |-> job[k].arrival_time, run |-> job[k].run_time,
                      priority |-> job[k].priority, left |-> StillToRun(k),
                      since |-> 0]
      BY <2>4 DEF Known, Running
    <3>5. Known(k)' = [Known(k) EXCEPT !.left = @ - 1]
      BY <3>2, <3>3, <3>4
    <3> QED
      BY <3>1, <3>5
  <2> QED
    BY <2>3, <2>4
<1>6. InfoNow' = [k \in DOMAIN InfoNow |->
                    IF k \in D!Waiting THEN InfoNow[k]
                    ELSE [InfoNow[k] EXCEPT !.left = @ - 1]]
  BY <1>2, <1>5 DEF InfoNow
<1>7. ASSUME NEW c \in Cores, RunningNow[c] # -1
      PROVE  InfoNow[RunningNow[c]].left > 0
  <2>1. RunningNow[c] \in DOMAIN job /\ job[RunningNow[c]].core_id = c
    BY <1>7, JobOnRuns DEF RunsIn, RunningNow
  <2>2. StillToRun(RunningNow[c]) > 0
    BY <1>1, <1>2, <2>1 DEF NoneOver, Running
  <2> QED
    BY <2>1, <2>2 DEF InfoNow, Known
<1> QED
  BY <1>2, <1>3, <1>6, <1>7 DEF D!Pass, RunningNow, InfoNow

LEMMA InitMapped == SchedInit => D!Init
<1> SUFFICES ASSUME SchedInit PROVE D!Init
  OBVIOUS
<1>1. PICK config \in Configurations :
            CURRENT_SCHEME = config[1] /\ num_cores = config[2]
  BY DEF SchedInit, scheduler_start_up
<1>2. job = <<>> /\ time = 0
  BY DEF SchedInit, scheduler_start_up
<1>3. DOMAIN job = {}
  BY <1>2
<1>4. InfoNow = <<>>
  BY <1>3 DEF InfoNow
<1>5. RunningNow = [c \in 0..(config[2] - 1) |-> -1]
  BY <1>1, <1>3 DEF RunningNow, JobOn, Cores
<1> QED
  BY <1>1, <1>2, <1>4, <1>5 DEF D!Init, RunningNow, InfoNow

-----------------------------------------------------------------------------
(* A job arrives.                                                          *)

NewInfo(r, p, since) ==
    [arrival |-> time, run |-> r, priority |-> p, left |-> r, since |-> since]

(* What Dispatcher sees of scheduler_new_job, wherever the job was put.    *)
Admitted(j, r, p, core) ==
    /\ InfoNow' = [k \in DOMAIN InfoNow \cup {j} |->
                    IF k = j THEN NewInfo(r, p, IF core = -1 THEN time ELSE 0)
                    ELSE IF core # -1 /\ job[k].core_id = core
                         THEN [InfoNow[k] EXCEPT !.since = time]
                         ELSE InfoNow[k]]
    /\ RunningNow' = IF core = -1 THEN RunningNow ELSE [RunningNow EXCEPT ![core] = j]
    /\ UNCHANGED <<CURRENT_SCHEME, num_cores, time>>

LEMMA PassedInfo ==
    ASSUME NEW old, NEW new, NEW core, Passed(old, new, core)
    PROVE  InfoOf(new) = IF core # -1 /\ old.core_id = core
                         THEN [InfoOf(old) EXCEPT !.since = time]
                         ELSE InfoOf(old)
<1>1. /\ new.arrival_time = old.arrival_time /\ new.run_time = old.run_time
      /\ new.priority = old.priority /\ Left(new) = Left(old)
  BY DEF Passed
<1>2. CASE core # -1 /\ old.core_id = core
  <2>1. new.core_id = -1 /\ new.pause_time = time
    BY <1>2 DEF Passed
  <2>2. InfoOf(new) = [arrival |-> old.arrival_time, run |-> old.run_time,
                       priority |-> old.priority, left |-> Left(old), since |-> time]
    BY <1>1, <2>1 DEF InfoOf
  <2>3. InfoOf(old) = [arrival |-> old.arrival_time, run |-> old.run_time,
                       priority |-> old.priority, left |-> Left(old), since |-> 0]
    BY <1>2 DEF InfoOf
  <2>4. InfoOf(new) = [InfoOf(old) EXCEPT !.since = time]
    BY <2>2, <2>3
  <2> QED
    BY <1>2, <2>4
<1>3. CASE ~(core # -1 /\ old.core_id = core)
  <2>1. new.core_id = old.core_id /\ new.pause_time = old.pause_time
    BY <1>3 DEF Passed
  <2>2. InfoOf(new) = InfoOf(old)
    BY <1>1, <2>1 DEF InfoOf
  <2> QED
    BY <1>3, <2>2
<1> QED
  BY <1>2, <1>3

LEMMA NewJobAdmits ==
    ASSUME IInv, IInv', NEW j \in Jobs \ DOMAIN job, NEW r \in RunTimes,
           NEW p \in Priorities, NEW core, scheduler_new_job(j, r, p, core)
    PROVE  Admitted(j, r, p, core)
<1>1. /\ DOMAIN job' = DOMAIN job \cup {j}
      /\ core \in Cores \cup {-1}
      /\ \A k \in DOMAIN job : Passed(job[k], job'[k], core)
      /\ Entered(job'[j], r, p, core)
      /\ Left(job'[j]) = r
      /\ UNCHANGED <<CURRENT_SCHEME, num_cores, time>>
  BY NewJobEffect
<1>2. -1 \notin Cores /\ -1 \notin DOMAIN job
  BY StateFacts
<1>3. \A k \in DOMAIN job :
            InfoOf(job'[k]) = IF core # -1 /\ job[k].core_id = core
                              THEN [InfoOf(job[k]) EXCEPT !.since = time]
                              ELSE InfoOf(job[k])
  BY <1>1, PassedInfo
<1>4. InfoOf(job'[j]) = NewInfo(r, p, IF core = -1 THEN time ELSE 0)
  BY <1>1 DEF Entered, InfoOf, NewInfo
<1>5. /\ InfoNow' = [k \in DOMAIN job \cup {j} |-> InfoOf(job'[k])]
      /\ InfoNow = [k \in DOMAIN job |-> InfoOf(job[k])]
  BY <1>1, InfoIs, InfoAfter
<1>6. InfoNow' = [k \in DOMAIN InfoNow \cup {j} |->
                    IF k = j THEN NewInfo(r, p, IF core = -1 THEN time ELSE 0)
                    ELSE IF core # -1 /\ job[k].core_id = core
                         THEN [InfoNow[k] EXCEPT !.since = time]
                         ELSE InfoNow[k]]
  <2>1. DOMAIN InfoNow = DOMAIN job /\ \A k \in DOMAIN job : InfoNow[k] = InfoOf(job[k])
    BY <1>5
  <2>2. \A k \in DOMAIN job \cup {j} :
            InfoOf(job'[k]) =
                IF k = j THEN NewInfo(r, p, IF core = -1 THEN time ELSE 0)
                ELSE IF core # -1 /\ job[k].core_id = core
                     THEN [InfoNow[k] EXCEPT !.since = time]
                     ELSE InfoNow[k]
    BY <1>3, <1>4, <2>1
  <2> QED
    BY <1>5, <2>1, <2>2
<1>7. ASSUME NEW d \in Cores, d # core, NEW x, RunsIn(job, d, x)
      PROVE  RunsIn(job', d, x)
  <2>1. \A k \in DOMAIN job : job'[k].core_id = IF core # -1 /\ job[k].core_id = core
                                                THEN -1 ELSE job[k].core_id
    BY <1>1 DEF Passed
  <2>2. job'[j].core_id = core
    BY <1>1 DEF Entered
  <2> QED
    BY <1>1, <1>2, <1>7, <2>1, <2>2 DEF RunsIn
<1>8. Cores' = Cores
  BY <1>1 DEF Cores
<1>9. CASE core = -1
  <2>1. RunningNow' = RunningNow
    BY <1>2, <1>7, <1>8, <1>9, RunningBefore
  <2> QED
    BY <1>1, <1>6, <1>9, <2>1 DEF Admitted
<1>10. CASE core # -1
  <2>1. RunsIn(job', core, j)
    BY <1>1 DEF RunsIn, Entered
  <2>2. RunningNow' = [RunningNow EXCEPT ![core] = j]
    BY <1>1, <1>7, <1>8, <1>10, <2>1, RunningAfter
  <2> QED
    BY <1>1, <1>6, <1>10, <2>2 DEF Admitted
<1> QED
  BY <1>9, <1>10

(* The order of the list after a step, with the comparer before it: they   *)
(* are the same.                                                           *)
LEMMA OrderAfter ==
    ASSUME UNCHANGED <<CURRENT_SCHEME, num_cores>>, SortedQueue', Ordered
    PROVE  SortedBy(QUEUE', job')
<1> SUFFICES ASSUME NEW i \in 1..Len(QUEUE'), NEW k \in 1..Len(QUEUE'), i < k
             PROVE  cmp(job'[QUEUE'[i]], job'[QUEUE'[k]]) < 0
  BY DEF SortedBy
<1>1. cmp(job[QUEUE[i]], job[QUEUE[k]])' < 0
  BY DEF SortedQueue, Ordered
<1> QED
  BY <1>1 DEF cmp, FCFS_COMPARE, SJF_COMPARE, PSJF_COMPARE, PRI_COMPARE,
              RR_COMPARE, ByThenArrival

ListKnown ==
    /\ QUEUE \in Seq(Jobs) /\ ToSet(QUEUE) = DOMAIN job
    /\ job \in [DOMAIN job -> JobRecord]
    /\ num_cores \in Nat

LEMMA ListIsKnown == IInv => ListKnown
BY StateFacts DEF ListKnown

(* When a preemptive scheme has no idle core, who runs precedes who waits. *)
LEMMA RunningGoFirst ==
    ASSUME DispatchInv', Exact, Preemptive, IdleCores = {},
           UNCHANGED <<CURRENT_SCHEME, num_cores, time, active>>,
           NEW x \in DOMAIN job', NEW y \in DOMAIN job',
           job'[x].core_id # -1, job'[y].core_id = -1
    PROVE  /\ job'[x] \in JobRecord /\ job'[y] \in JobRecord
           /\ cmp(job'[x], job'[y]) < 0
<1>1. IInv' /\ SortedQueue'
  BY DEF DispatchInv, OrderInv
<1>2. SortedBy(QUEUE', job')
  BY <1>1, OrderAfter DEF Exact, Ordered, Preemptive
<1>3. /\ QUEUE' \in Seq(Jobs) /\ ToSet(QUEUE') = DOMAIN job'
      /\ job' \in [DOMAIN job' -> JobRecord'] /\ num_cores' \in Nat
  <2>1. ListKnown'
    BY <1>1, ListIsKnown, PTL
  <2> QED
    BY <2>1 DEF ListKnown
<1>4. JobRecord' = JobRecord
  BY DEF JobRecord, Cores
<1>5. IdleCores' = {} /\ Preemptive'
  BY DEF IdleCores, Cores, Preemptive
<1>6. \A i \in 1..Len(QUEUE') : job'[QUEUE'[i]].core_id # -1 <=> i <= num_cores
  BY <1>1, <1>5 DEF IInv, RunningFirst, Running
<1>7. PICK i \in 1..Len(QUEUE') : QUEUE'[i] = x
  BY <1>3, ElementsOf DEF Occurs
<1>8. PICK k \in 1..Len(QUEUE') : QUEUE'[k] = y
  BY <1>3, ElementsOf DEF Occurs
<1>9. i < k
  BY <1>3, <1>6, <1>7, <1>8
<1> QED
  BY <1>2, <1>3, <1>4, <1>7, <1>8, <1>9 DEF SortedBy

(* The records of info and, on top of them, that of the new job.           *)
With(j, record, info) ==
    [k \in DOMAIN info \cup {j} |-> IF k = j THEN record ELSE info[k]]

TakesIdle(j, r, p) ==
    /\ IdleCores # {}
    /\ RunningNow' = [RunningNow EXCEPT ![LowestIdle] = j]
    /\ InfoNow' = With(j, NewInfo(r, p, 0), InfoNow)

TakesOver(j, r, p, core) ==
    /\ IdleCores = {}
    /\ core \in D!Contested(NewInfo(r, p, time))
    /\ RunningNow' = [RunningNow EXCEPT ![core] = j]
    /\ InfoNow' = With(j, NewInfo(r, p, 0),
                       [InfoNow EXCEPT ![RunningNow[core]].since = time])

Waits(j, r, p) ==
    /\ IdleCores = {}
    /\ D!Contested(NewInfo(r, p, time)) = {}
    /\ RunningNow' = RunningNow
    /\ InfoNow' = With(j, NewInfo(r, p, time), InfoNow)

LEMMA AdmitWhen ==
    ASSUME IInv, UNCHANGED <<CURRENT_SCHEME, time>>, NEW j, NEW r, NEW p,
           TakesIdle(j, r, p) \/ (\E core : TakesOver(j, r, p, core)) \/ Waits(j, r, p)
    PROVE  D!Admit(j, r, p)
<1>0. D!IdleCores = IdleCores
  BY IdleMapped
<1>1. CASE TakesIdle(j, r, p)
  <2>1. D!Min(D!IdleCores) = LowestIdle
    BY <1>0 DEF D!Min, LowestIdle, Min
  <2> QED
    BY <1>0, <1>1, <2>1 DEF D!Admit, TakesIdle, With, NewInfo, RunningNow, InfoNow
<1>2. CASE \E core : TakesOver(j, r, p, core)
  <2>1. PICK core : TakesOver(j, r, p, core)
    BY <1>2
  <2> QED
    BY <1>0, <2>1 DEF D!Admit, TakesOver, With, NewInfo, RunningNow, InfoNow
<1>3. CASE Waits(j, r, p)
  BY <1>0, <1>3 DEF D!Admit, Waits, With, NewInfo, RunningNow, InfoNow
<1> QED
  BY <1>1, <1>2, <1>3

(* Nobody precedes himself: that needs the exact time left alone.          *)
LEMMA NobodyPrecedesHimself ==
    ASSUME NEW x \in JobRecord, time \in Nat
    PROVE  Preemptive => ~D!Precedes(InfoOf(x), InfoOf(x))
<1>1. /\ x.arrival_time \in Int /\ x.priority \in Int
      /\ x.time_remaining \in Int /\ x.start_time \in Int
  BY RecordFields
<1>2. Left(x) \in Int
  BY <1>1 DEF Left
<1>3. /\ InfoOf(x).arrival = x.arrival_time /\ InfoOf(x).priority = x.priority
      /\ InfoOf(x).left = Left(x)
  BY DEF InfoOf
<1>4. ~(Left(x) < Left(x)) /\ ~(x.arrival_time < x.arrival_time)
      /\ ~(x.priority < x.priority)
  BY <1>1, <1>2
<1> QED
  BY <1>3, <1>4 DEF D!Precedes, Preemptive

(* The last of the running jobs is the one that the others precede.        *)
LEMMA VictimLast ==
    ASSUME DispatchInv, Exact, Preemptive, IdleCores = {}
    PROVE  /\ Victim \in DOMAIN job /\ job[Victim].core_id \in Cores
           /\ RunningNow[job[Victim].core_id] = Victim
           /\ \A d \in Cores :
                /\ RunningNow[d] \in DOMAIN job /\ job[RunningNow[d]].core_id = d
                /\ ~D!Precedes(InfoOf(job[Victim]), InfoOf(job[RunningNow[d]]))
<1>1. IInv /\ SortedQueue
  BY DEF DispatchInv, OrderInv
<1>2. /\ QUEUE \in Seq(Jobs) /\ ToSet(QUEUE) = DOMAIN job
      /\ job \in [DOMAIN job -> JobRecord] /\ time \in Nat
      /\ num_cores \in Nat \ {0} /\ -1 \notin Cores
  BY <1>1, StateFacts
<1>3. /\ num_cores \in 1..Len(QUEUE)
      /\ \A i \in 1..Len(QUEUE) : job[QUEUE[i]].core_id # -1 <=> i <= num_cores
  BY <1>1, <1>2 DEF IInv, RunningFirst, Running
<1>4. Victim = QUEUE[num_cores] /\ Victim \in DOMAIN job /\ job[Victim].core_id # -1
  BY <1>2, <1>3, ElementsOf DEF Occurs, Victim
<1>5. /\ job[Victim].core_id \in Cores
      /\ RunningNow[job[Victim].core_id] = Victim
  BY <1>1, <1>4, RunsMappedTo DEF Running
<1> HIDE DEF Victim
<1>6. ASSUME NEW d \in Cores
      PROVE  RunningNow[d] \in DOMAIN job /\ job[RunningNow[d]].core_id = d
  <2>1. RunsIn(job, d, RunningNow[d])
    BY <1>1, JobOnRuns DEF RunningNow
  <2>2. active[d] # -1
    BY DEF IdleCores
  <2>3. \E k \in DOMAIN job : job[k].core_id = d
    <3>1. active[d] = 1
      BY <1>1, <2>2 DEF IInv, TypeOK
    <3> QED
      BY <1>1, <3>1 DEF IInv, CoresMatch
  <2> QED
    BY <2>1, <2>3 DEF RunsIn
<1>7. ASSUME NEW d \in Cores
      PROVE  ~D!Precedes(InfoOf(job[Victim]), InfoOf(job[RunningNow[d]]))
  <2> DEFINE x == RunningNow[d]
  <2>1. x \in DOMAIN job /\ job[x].core_id = d
    BY <1>6
  <2> HIDE DEF x
  <2>2. job[x] \in JobRecord /\ job[Victim] \in JobRecord
    BY <1>2, <1>4, <2>1
  <2>3. CASE x = Victim
    <3>1. ~D!Precedes(InfoOf(job[Victim]), InfoOf(job[Victim]))
      BY <1>2, <2>2, NobodyPrecedesHimself
    <3> QED
      BY <2>3, <3>1 DEF x
  <2>4. CASE x # Victim
    <3>1. num_cores # 1
      <4>1. num_cores = 1 => Cores = {0}
        BY DEF Cores
      <4> QED
        BY <1>1, <1>4, <1>5, <2>1, <2>4, <4>1 DEF IInv, CoresMatch, Running
    <3>2. CURRENT_SCHEME = "PPRI"
      BY <3>1 DEF Exact, Preemptive
    <3>3. PICK i \in 1..Len(QUEUE) : QUEUE[i] = x
      BY <1>2, <2>1, ElementsOf DEF Occurs
    <3>4. i < num_cores
      <4>1. i <= num_cores
        BY <1>2, <1>3, <2>1, <3>3
      <4>2. i # num_cores
        BY <1>4, <2>4, <3>3
      <4> QED
        BY <1>2, <4>1, <4>2
    <3>5. cmp(job[x], job[Victim]) < 0
      BY <1>1, <1>3, <1>4, <3>2, <3>3, <3>4 DEF SortedQueue
    <3>6. CURRENT_SCHEME \in Schemes /\ CURRENT_SCHEME # "RR"
      BY <3>2 DEF Schemes
    <3>7. ~(cmp(job[Victim], job[x]) < 0)
      BY <1>2, <2>2, <3>5, <3>6, CmpStrict
    <3>8. Tells(InfoOf(job[x]), job[x]) /\ Tells(InfoOf(job[Victim]), job[Victim])
      BY <3>2 DEF Tells, InfoOf
    <3>9. ~D!Precedes(InfoOf(job[Victim]), InfoOf(job[x]))
      BY <1>2, <2>2, <3>6, <3>7, <3>8, PrecedesIs
    <3> QED
      BY <3>9 DEF x
  <2> QED
    BY <2>3, <2>4
<1> QED
  BY <1>4, <1>5, <1>6, <1>7

LEMMA TellsNew ==
    ASSUME NEW record, NEW r, NEW p, NEW core, Entered(record, r, p, core),
           CURRENT_SCHEME # "RR"
    PROVE  Tells(NewInfo(r, p, time), record)
BY DEF Entered, NewInfo, Tells

LEMMA TellsPassed ==
    ASSUME NEW old, NEW new, NEW core, Passed(old, new, core), CURRENT_SCHEME # "RR",
           new.time_remaining = Left(old)
    PROVE  Tells(InfoOf(old), new)
BY DEF Passed, InfoOf, Tells

(* An idle core is there.                                                  *)
LEMMA IdleTaken ==
    ASSUME IInv, NEW j, NEW r, NEW p, NEW core, Admitted(j, r, p, core),
           IdleCores # {}, core = LowestIdle
    PROVE  TakesIdle(j, r, p)
<1>1. core \in IdleCores
  <2>1. TypeOK /\ num_cores \in Nat \ {0}
    BY StateFacts DEF IInv
  <2> QED
    BY <2>1, MinProperties, CoresFacts DEF LowestIdle, IdleCores
<1>2. core \in Cores /\ core # -1 /\ \A k \in DOMAIN job : job[k].core_id # core
  BY <1>1, StateFacts DEF IInv, CoresMatch, IdleCores
<1>3. DOMAIN InfoNow = DOMAIN job
  BY DEF InfoNow
<1> QED
  BY <1>2, <1>3 DEF Admitted, TakesIdle, With

(* The new job takes over the core of the last of the running jobs.        *)
LEMMA VictimTaken ==
    ASSUME DispatchInv, DispatchInv', Exact,
           NEW j \in Jobs \ DOMAIN job, NEW r \in RunTimes, NEW p \in Priorities,
           NEW core, scheduler_new_job(j, r, p, core),
           IdleCores = {}, Preemptive, core = job[Victim].core_id, active' = active
    PROVE  TakesOver(j, r, p, core)
<1> DEFINE v == Victim
<1>1. IInv /\ IInv'
  BY DEF DispatchInv, OrderInv
<1>2. /\ DOMAIN job' = DOMAIN job \cup {j}
      /\ \A k \in DOMAIN job : Passed(job[k], job'[k], core)
      /\ Entered(job'[j], r, p, core)
      /\ UNCHANGED <<CURRENT_SCHEME, num_cores, time>>
  BY <1>1, NewJobEffect
<1>3. Admitted(j, r, p, core)
  BY <1>1, NewJobAdmits
<1>4. /\ v \in DOMAIN job /\ core \in Cores /\ RunningNow[core] = v
      /\ \A d \in Cores :
            /\ RunningNow[d] \in DOMAIN job
            /\ ~D!Precedes(InfoOf(job[v]), InfoOf(job[RunningNow[d]]))
  BY VictimLast
<1>5. job[v].core_id = core
  OBVIOUS
<1> HIDE DEF v
<1>6. time \in Nat /\ -1 \notin Cores
  BY <1>1, StateFacts
<1>7. job'[j].core_id # -1 /\ job'[v].core_id = -1
      /\ job'[v].time_remaining = Left(job[v])
  <2>1. job'[v].core_id = -1 /\ Left(job'[v]) = Left(job[v])
    BY <1>2, <1>4, <1>5, <1>6 DEF Passed
  <2>2. job'[j].core_id # -1
    BY <1>2, <1>4, <1>6 DEF Entered
  <2> QED
    BY <2>1, <2>2 DEF Left
<1>8. /\ job'[j] \in JobRecord /\ job'[v] \in JobRecord
      /\ cmp(job'[j], job'[v]) < 0
  BY <1>2, <1>4, <1>7, RunningGoFirst
<1>9. CURRENT_SCHEME \in Schemes /\ CURRENT_SCHEME # "RR"
  BY DEF Preemptive, Schemes
<1>10. Tells(NewInfo(r, p, time), job'[j]) /\ Tells(InfoOf(job[v]), job'[v])
  BY <1>2, <1>4, <1>7, <1>9, TellsNew, TellsPassed
<1>11. D!Precedes(NewInfo(r, p, time), InfoOf(job[v]))
  BY <1>6, <1>8, <1>9, <1>10, PrecedesIs
<1>12. \A k \in DOMAIN job : InfoNow[k] = InfoOf(job[k])
  BY InfoIs
<1>13. core \in D!Contested(NewInfo(r, p, time))
  BY <1>4, <1>11, <1>12 DEF D!Contested, Preemptive, RunningNow, InfoNow
<1>14. \A k \in DOMAIN job : job[k].core_id = core <=> k = v
  BY <1>1, <1>4, <1>5, <1>6 DEF IInv, CoresMatch, Running
<1>15. InfoNow' = With(j, NewInfo(r, p, 0),
                       [InfoNow EXCEPT ![RunningNow[core]].since = time])
  <2>1. DOMAIN InfoNow = DOMAIN job /\ core # -1
    BY <1>4, <1>6 DEF InfoNow
  <2>2. InfoNow' = [k \in DOMAIN InfoNow \cup {j} |->
                        IF k = j THEN NewInfo(r, p, 0)
                        ELSE IF job[k].core_id = core
                             THEN [InfoNow[k] EXCEPT !.since = time]
                             ELSE InfoNow[k]]
    BY <1>3, <2>1 DEF Admitted
  <2>3. \A k \in DOMAIN job :
            [InfoNow EXCEPT ![v].since = time][k] =
                IF job[k].core_id = core THEN [InfoNow[k] EXCEPT !.since = time]
                ELSE InfoNow[k]
    BY <1>14, <2>1
  <2> QED
    BY <1>4, <2>1, <2>2, <2>3 DEF With
<1>16. RunningNow' = [RunningNow EXCEPT ![core] = j]
  BY <1>3, <1>4, <1>6 DEF Admitted
<1> QED
  BY <1>13, <1>15, <1>16 DEF TakesOver

(* Nobody that runs gives way to the new job.                              *)
LEMMA NobodyGivesWay ==
    ASSUME DispatchInv, DispatchInv', Exact,
           NEW j \in Jobs \ DOMAIN job, NEW r \in RunTimes, NEW p \in Priorities,
           scheduler_new_job(j, r, p, -1), IdleCores = {}, active' = active,
           Preemptive => \A k \in DOMAIN job : job'[k] = Refreshed[k]
    PROVE  Waits(j, r, p)
<1>1. IInv /\ IInv'
  BY DEF DispatchInv, OrderInv
<1>2. /\ DOMAIN job' = DOMAIN job \cup {j}
      /\ \A k \in DOMAIN job : Passed(job[k], job'[k], -1)
      /\ Entered(job'[j], r, p, -1)
      /\ UNCHANGED <<CURRENT_SCHEME, num_cores, time>>
  BY <1>1, NewJobEffect
<1>3. Admitted(j, r, p, -1)
  BY <1>1, NewJobAdmits
<1>4. time \in Nat /\ -1 \notin Cores
  BY <1>1, StateFacts
<1>5. ASSUME Preemptive, NEW c \in Cores
      PROVE  ~D!Precedes(NewInfo(r, p, time), InfoNow[RunningNow[c]])
  <2> DEFINE x == RunningNow[c]
  <2>1. x \in DOMAIN job /\ job[x].core_id = c
    BY <1>5, VictimLast
  <2> HIDE DEF x
  <2>2. job'[x].core_id # -1 /\ job'[j].core_id = -1
    BY <1>2, <1>4, <2>1 DEF Passed, Entered
  <2>3. /\ job'[x] \in JobRecord /\ job'[j] \in JobRecord
        /\ cmp(job'[x], job'[j]) < 0
    BY <1>2, <1>5, <2>1, <2>2, RunningGoFirst
  <2>4. CURRENT_SCHEME \in Schemes /\ CURRENT_SCHEME # "RR"
    BY <1>5 DEF Preemptive, Schemes
  <2>5. job'[x].time_remaining = Left(job[x])
    BY <1>1, <1>4, <1>5, <2>1, RefreshedFields
  <2>6. Tells(NewInfo(r, p, time), job'[j]) /\ Tells(InfoOf(job[x]), job'[x])
    BY <1>2, <2>1, <2>4, <2>5, TellsNew, TellsPassed
  <2>7. ~(cmp(job'[j], job'[x]) < 0)
    BY <1>4, <2>3, <2>4, CmpStrict
  <2>8. ~D!Precedes(NewInfo(r, p, time), InfoOf(job[x]))
    BY <1>4, <2>3, <2>4, <2>6, <2>7, PrecedesIs
  <2>9. InfoNow[x] = InfoOf(job[x])
    BY <2>1, InfoIs
  <2> QED
    BY <2>8, <2>9 DEF x
<1>6. D!Contested(NewInfo(r, p, time)) = {}
  BY <1>5 DEF D!Contested, Preemptive, RunningNow, InfoNow
<1>7. InfoNow' = With(j, NewInfo(r, p, time), InfoNow)
  BY <1>3 DEF Admitted, With
<1>8. RunningNow' = RunningNow
  BY <1>3 DEF Admitted
<1> QED
  BY <1>6, <1>7, <1>8 DEF Waits

LEMMA ArriveMapped ==
    ASSUME DispatchInv, DispatchInv', Exact,
           NEW j \in Jobs \ DOMAIN job, NEW r \in RunTimes, NEW p \in Priorities,
           NEW core, scheduler_new_job(j, r, p, core)
    PROVE  D!Admit(j, r, p)
<1>1. IInv /\ IInv'
  BY DEF DispatchInv, OrderInv
<1>2. Admitted(j, r, p, core)
  BY <1>1, NewJobAdmits
<1>3. UNCHANGED <<CURRENT_SCHEME, time>>
  BY <1>2 DEF Admitted
<1>4. CASE IdleCores # {}
  <2>1. core = LowestIdle
    BY <1>4 DEF scheduler_new_job
  <2>2. TakesIdle(j, r, p)
    BY <1>1, <1>2, <1>4, <2>1, IdleTaken
  <2> QED
    BY <1>1, <1>3, <2>2, AdmitWhen
<1>5. CASE IdleCores = {} /\ Preemptive /\ AmongFirst(j, QUEUE')
  <2>1. core = job[Victim].core_id /\ active' = active
    BY <1>5 DEF scheduler_new_job
  <2>2. TakesOver(j, r, p, core)
    BY <1>5, <2>1, VictimTaken
  <2> QED
    BY <1>1, <1>3, <2>2, AdmitWhen
<1>6. CASE IdleCores = {} /\ ~(Preemptive /\ AmongFirst(j, QUEUE'))
  <2>1. /\ core = -1 /\ active' = active
        /\ Allocate(j, NewRecord(r, p), RecordsAtOffer)
    BY <1>6 DEF scheduler_new_job
  <2>2. Preemptive => \A k \in DOMAIN job : job'[k] = Refreshed[k]
    <3>1. Preemptive => RecordsAtOffer = Refreshed
      BY <1>6 DEF RecordsAtOffer
    <3>2. DOMAIN Refreshed = DOMAIN job
      BY DEF Refreshed
    <3> QED
      BY <2>1, <3>1, <3>2 DEF Allocate
  <2>3. Waits(j, r, p)
    BY <1>6, <2>1, <2>2, NobodyGivesWay
  <2> QED
    BY <1>1, <1>3, <2>3, AdmitWhen
<1> QED
  BY <1>4, <1>5, <1>6

-----------------------------------------------------------------------------
(* The refinement.                                                         *)

LEMMA StepMapped ==
    DispatchInv /\ DispatchInv' /\ Exact /\ [SchedNext]_schedVars
        => [D!Next]_(D!dispatchVars)
<1> SUFFICES ASSUME DispatchInv, DispatchInv', Exact, [SchedNext]_schedVars
             PROVE  D!Next \/ Stutter
  BY DEF D!dispatchVars, Stutter, RunningNow, InfoNow
<1>0. IInv /\ IInv' /\ -1 \notin Cores
  BY StateFacts DEF DispatchInv, OrderInv
<1>1. CASE Arrive
  <2>1. PICK j \in Jobs \ DOMAIN job, r \in RunTimes, p \in Priorities,
             core_index \in Cores \cup {-1} :
                scheduler_new_job(j, r, p, core_index)
    BY <1>1 DEF Arrive
  <2>2. D!Admit(j, r, p)
    BY <2>1, ArriveMapped
  <2> QED
    BY <2>1, <2>2 DEF D!Next
<1>2. CASE Finish
  <2>1. PICK j \in DOMAIN job, w \in Jobs \cup {-1} :
            Running(j) /\ StillToRun(j) = 0
                /\ scheduler_job_finished(job[j].core_id, j, w)
    BY <1>2 DEF Finish
  <2>2. D!Complete(job[j].core_id)
    BY <1>0, <2>1, FinishMapped
  <2>3. job[j].core_id \in Cores
    BY <1>0, <2>1, RunsMappedTo
  <2> QED
    BY <2>2, <2>3 DEF D!Next
<1>3. CASE Expire
  <2>1. PICK c \in Cores, w \in Jobs \cup {-1} : scheduler_quantum_expired(c, w)
    BY <1>3 DEF Expire
  <2>2. CURRENT_SCHEME = "RR"
    BY <1>3 DEF Expire
  <2>3. D!Rotate(c) \/ Stutter
    BY <1>0, <2>1, <2>2, ExpireMapped
  <2> QED
    BY <2>3 DEF D!Next
<1>4. CASE Tick
  BY <1>0, <1>4, TickMapped DEF D!Next
<1>5. CASE UNCHANGED schedVars
  <2>1. UNCHANGED <<CURRENT_SCHEME, num_cores, time, job>>
    BY <1>5 DEF schedVars
  <2> QED
    BY <1>0, <2>1, StutterWhen
<1> QED
  BY <1>1, <1>2, <1>3, <1>4, <1>5 DEF SchedNext

(* The invariant of the refinement holds in every state that the library   *)
(* can reach: with round robin, of two jobs that wait the one in front has *)
(* waited at least as long (libscheduler.c:333-345 sends who lost a core   *)
(* to the end of the list).                                                *)
THEOREM DispatchInvariant == SchedSpec => []DispatchInv
<1>1. SchedInit => DispatchInv
  BY DispatchInit
<1>2. DispatchInv /\ [SchedNext]_schedVars => DispatchInv'
  BY DispatchNext
<1> QED
  BY <1>1, <1>2, PTL DEF SchedSpec

(* The scheme and the cores are those of one of the configurations.        *)
LEMMA AlwaysExact ==
    ASSUME \A config \in Configurations : config[1] = "PSJF" => config[2] = 1
    PROVE  DispatchInv => Exact
BY DEF DispatchInv, OrderInv, IInv, TypeOK, Exact

(* Every step of the library is a step that Dispatcher allows: the list    *)
(* that mixes running and waiting jobs, the comparers, the two loops over  *)
(* the first jobs and the scans pick the job and the core that the scheme  *)
(* asks for (libscheduler.c:168-381), with any number of cores for every   *)
(* scheme but PSJF, which keeps its promise on one core only.              *)
THEOREM DispatcherImplemented ==
    ASSUME \A config \in Configurations : config[1] = "PSJF" => config[2] = 1
    PROVE  SchedSpec => ImplementsDispatcher
<1>1. SchedInit => D!Init
  BY InitMapped
<1>2. DispatchInv => Exact
  BY AlwaysExact
<1>3. DispatchInv /\ DispatchInv' /\ [SchedNext]_schedVars => [D!Next]_(D!dispatchVars)
  BY <1>2, StepMapped
<1> QED
  BY <1>1, <1>3, DispatchInvariant, PTL DEF SchedSpec, ImplementsDispatcher, D!Spec
=============================================================================
