------------------------- MODULE DiningWaiterProofs -------------------------
(***************************************************************************)
(* Theorems about the table of dp_waiter.c for any number of philosophers  *)
(* from two on and any number of periods: types, in particular that the    *)
(* flags the code uses as indices stay 0 or 1, and that the waiter serves  *)
(* one philosopher at a time.                                              *)
(***************************************************************************)
EXTENDS DiningWaiter, FiniteSetTheorems, TLAPS

\* The threads that main has not created yet do not run.
NotCreatedYet ==
  main = "set_table" => \A p \in Phils : p >= i => pc[p] = "none"

\* A period begins only when one is left.
PeriodsLeft == Serving /\ main # "stop" => iter < ITERATION_LIMIT

\* The philosophers between a lock and an unlock of the waiter.
Served(p) == pc[p] \in {"taking", "returning"}

\* The waiter's mutex is locked by the one philosopher that is served.
OneServed ==
  /\ \A p, q \in Phils : Served(p) /\ Served(q) => p = q
  /\ waiter <=> \E p \in Phils : Served(p)

IInv == WaiterTypeOK /\ PeriodsLeft /\ NotCreatedYet /\ OneServed

-----------------------------------------------------------------------------

LEMMA InitInvariant == Init => IInv
<1> SUFFICES ASSUME Init PROVE IInv
  OBVIOUS
<1>1. 0 \in Phils /\ 0 \in 0 .. ITERATION_LIMIT /\ 0 < ITERATION_LIMIT
  BY TableAssumption DEF Phils
<1>2. WaiterTypeOK
  BY <1>1 DEF Init, TableInit, WaiterTypeOK, TableTypeOK, PhilStages, MainStages
<1>3. NotCreatedYet /\ OneServed
  BY DEF Init, TableInit, NotCreatedYet, OneServed, Served
<1>4. PeriodsLeft
  BY <1>1 DEF Init, TableInit, PeriodsLeft
<1> QED
  BY <1>2, <1>3, <1>4 DEF IInv

-----------------------------------------------------------------------------
\* The steps of main, none of which touches the waiter.

LEMMA AdvanceFacts ==
  ASSUME IInv, NEW next \in MainStages, Advance(next)
  PROVE  i' \in Phils /\ main' \in MainStages
<1>1. i \in Int /\ 0 <= i /\ i <= NUM_PHILS - 1 /\ main \in MainStages /\ NUM_PHILS \in Int
  BY TableAssumption DEF IInv, WaiterTypeOK, TableTypeOK, Phils
<1> QED
  BY <1>1, TableAssumption DEF Advance, Phils

\* Steps of main that create no thread.
LEMMA MainElsewhere ==
  ASSUME IInv, UNCHANGED <<pc, waiter, available_chopsticks>>,
         main' # "set_table", TableTypeOK', PeriodsLeft'
  PROVE  IInv'
<1>1. WaiterTypeOK' /\ NotCreatedYet'
  BY DEF IInv, WaiterTypeOK, NotCreatedYet
<1>2. OneServed'
  BY DEF IInv, OneServed, Served
<1> QED
  BY <1>1, <1>2 DEF IInv

\* The thread that main creates is not served yet.
LEMMA CreateInvariant ==
  ASSUME IInv, CreatePhilosopher, UNCHANGED <<waiter, available_chopsticks>>
  PROVE  IInv'
<1>1. i' \in Phils /\ main' \in MainStages
  BY AdvanceFacts DEF CreatePhilosopher, MainStages
<1>2. pc' = [pc EXCEPT ![i] = "while"] /\ i \in Phils /\ pc \in [Phils -> PhilStages]
  BY DEF IInv, WaiterTypeOK, TableTypeOK, CreatePhilosopher
<1>3. WaiterTypeOK'
  BY <1>1, <1>2 DEF IInv, WaiterTypeOK, TableTypeOK, CreatePhilosopher, PhilStages
<1>4. PeriodsLeft'
  BY DEF IInv, PeriodsLeft, CreatePhilosopher, Advance, Serving
<1>5. NotCreatedYet'
  BY <1>2 DEF IInv, NotCreatedYet, CreatePhilosopher, Advance, Phils
<1>6. \A p \in Phils : Served(p)' <=> Served(p)
  BY <1>2, TableAssumption DEF IInv, NotCreatedYet, CreatePhilosopher, Served, Phils
<1>7. OneServed'
  BY <1>6 DEF IInv, OneServed
<1> QED
  BY <1>3, <1>4, <1>5, <1>7 DEF IInv

LEMMA DecideInvariant ==
  ASSUME IInv, Decide, UNCHANGED <<waiter, available_chopsticks>>
  PROVE  IInv'
<1>1. iter \in Int /\ 0 <= iter /\ iter < ITERATION_LIMIT /\ ITERATION_LIMIT \in Int
  BY TableAssumption DEF IInv, WaiterTypeOK, TableTypeOK, PeriodsLeft, Decide, Serving
<1>2. iter' = iter + 1 /\ main' \in {"reset", "stop"}
  BY DEF Decide
<1>3. iter' \in 0 .. ITERATION_LIMIT
  BY <1>1, <1>2
<1>4. TableTypeOK'
  BY <1>2, <1>3 DEF IInv, WaiterTypeOK, TableTypeOK, Decide, MainStages
<1>5. PeriodsLeft'
  BY DEF PeriodsLeft, Decide, Continue
<1> QED
  BY <1>2, <1>4, <1>5, MainElsewhere DEF Decide

LEMMA OtherStepsInvariant ==
  ASSUME IInv, UNCHANGED <<waiter, available_chopsticks>>,
         \/ ResetProgress \/ SleepPeriod \/ CheckProgress
         \/ SetStop \/ ReleaseChopstick \/ JoinPhilosopher
  PROVE  IInv'
<1>1. UNCHANGED <<pc, iter>> /\ main' # "set_table"
  BY DEF ResetProgress, SleepPeriod, CheckProgress, SetStop, ReleaseChopstick,
         JoinPhilosopher, Advance
<1>2. i' \in Phils /\ main' \in MainStages
  <2>1. CASE SleepPeriod \/ SetStop
    BY <2>1 DEF IInv, WaiterTypeOK, TableTypeOK, SleepPeriod, SetStop, MainStages
  <2>2. CASE ResetProgress \/ CheckProgress \/ ReleaseChopstick \/ JoinPhilosopher
    BY <2>2, AdvanceFacts DEF ResetProgress, CheckProgress, ReleaseChopstick,
       JoinPhilosopher, MainStages
  <2> QED
    BY <2>1, <2>2
<1>3. /\ chopstick' \in [Chops -> BOOLEAN] /\ prog' \in [Phils -> BOOLEAN]
      /\ Stop' \in BOOLEAN /\ deadlock' \in BOOLEAN
  BY DEF IInv, WaiterTypeOK, TableTypeOK, ResetProgress, ProgAfterReset, SleepPeriod,
         CheckProgress, SetStop, ReleaseChopstick, ChopsticksReleased, JoinPhilosopher
<1>4. TableTypeOK'
  BY <1>1, <1>2, <1>3 DEF IInv, WaiterTypeOK, TableTypeOK
<1>5. PeriodsLeft'
  BY <1>1 DEF IInv, PeriodsLeft, Serving, ResetProgress, SleepPeriod, CheckProgress,
              SetStop, ReleaseChopstick, JoinPhilosopher, Advance
<1> QED
  BY <1>1, <1>4, <1>5, MainElsewhere

-----------------------------------------------------------------------------
\* The steps of a philosopher.

\* Nobody but the philosopher p moves.
LEMMA OneMoves ==
  ASSUME IInv, NEW p \in Phils, NEW s \in PhilStages \ {"none"}, pc[p] # "none",
         Goto(p, s), WaiterTypeOK', UNCHANGED mainVars, OneServed'
  PROVE  IInv'
<1>1. NotCreatedYet'
  BY DEF IInv, WaiterTypeOK, NotCreatedYet, Goto, mainVars
<1>2. PeriodsLeft'
  BY DEF IInv, PeriodsLeft, Serving, mainVars
<1> QED
  BY <1>1, <1>2 DEF IInv

\* The flags and the indices the code makes of them: 0 and 1 are chopsticks,
\* as there are two at least.
LEMMA FlagsStayFlags ==
  ASSUME NEW flags \in [Chops -> {0, 1}], NEW c \in Chops, NEW value \in {0, 1}
  PROVE  StoreAt(flags, c, value) \in [Chops -> {0, 1}]
BY DEF StoreAt

LEMMA StoredType ==
  ASSUME WaiterTypeOK, NEW p \in Phils, NEW value \in {0, 1}
  PROVE  Stored(p, value) \in [Chops -> {0, 1}]
<1>1. left_chop(p) \in Chops /\ right_chop(p) \in Chops
  BY TableAssumption DEF left_chop, right_chop, Phils, Chops
<1>2. StoreAt(available_chopsticks, left_chop(p), value) \in [Chops -> {0, 1}]
  BY <1>1, FlagsStayFlags DEF WaiterTypeOK
<1> QED
  BY <1>1, <1>2, FlagsStayFlags DEF Stored

\* Locking the waiter: nobody was served, now p is.
LEMMA EnterInvariant ==
  ASSUME IInv, NEW p \in Phils, CallWaiter(p) \/ CallForBill(p)
  PROVE  IInv'
<1>1. PICK from \in {"hungry", "eat"}, to \in {"taking", "returning"} : EnterSection(p, from, to)
  BY DEF CallWaiter, CallForBill
<1>2. /\ ~waiter /\ waiter' = TRUE
      /\ pc[p] # "none" /\ pc' = [pc EXCEPT ![p] = to] /\ pc \in [Phils -> PhilStages]
  BY <1>1 DEF EnterSection, LockWaiter, Goto, IInv, WaiterTypeOK
<1>3. WaiterTypeOK'
  BY <1>1, <1>2 DEF IInv, WaiterTypeOK, TableTypeOK, EnterSection, PhilStages, mainVars
<1>4. \A q \in Phils : ~Served(q)
  BY <1>2 DEF IInv, OneServed
<1>5. \A q \in Phils : Served(q)' <=> q = p
  BY <1>2, <1>4 DEF Served
<1>6. OneServed'
  BY <1>2, <1>5 DEF OneServed
<1> QED
  BY <1>1, <1>2, <1>3, <1>6, OneMoves DEF EnterSection, PhilStages

\* Unlocking it: p was the one who was served.
LEMMA LeaveInvariant ==
  ASSUME IInv, NEW p \in Phils, TakeChopsticks(p) \/ ReturnChopsticks(p)
  PROVE  IInv'
<1>1. PICK to \in {"eat", "account"}, value \in {0, 1} :
        /\ Goto(p, to) /\ available_chopsticks' = Stored(p, value)
        /\ UNCHANGED <<chopstick, Stop, prog, mainVars>>
  BY DEF TakeChopsticks, ReturnChopsticks
<1>2. /\ Served(p) /\ waiter' = FALSE /\ pc[p] # "none"
      /\ pc' = [pc EXCEPT ![p] = to] /\ pc \in [Phils -> PhilStages]
  BY <1>1 DEF TakeChopsticks, ReturnChopsticks, UnlockWaiter, Served, Goto, IInv, WaiterTypeOK
<1>3. available_chopsticks' \in [Chops -> {0, 1}]
  BY <1>1, StoredType DEF IInv
<1>4. WaiterTypeOK'
  BY <1>1, <1>2, <1>3 DEF IInv, WaiterTypeOK, TableTypeOK, PhilStages, mainVars
<1>5. \A q \in Phils : ~Served(q)'
  BY <1>2 DEF IInv, OneServed, Served
<1>6. OneServed'
  BY <1>2, <1>5 DEF OneServed
<1> QED
  BY <1>1, <1>2, <1>4, <1>6, OneMoves DEF PhilStages

LEMMA OutsideInvariant ==
  ASSUME IInv, NEW p \in Phils, TestStop(p) \/ MarkProgress(p)
  PROVE  IInv'
<1>1. PICK to \in {"while", "hungry", "exited"} : Goto(p, to)
  BY DEF TestStop, MarkProgress
<1>2. /\ ~Served(p) /\ pc[p] # "none" /\ UNCHANGED <<waiter, mainVars>>
      /\ pc' = [pc EXCEPT ![p] = to] /\ pc \in [Phils -> PhilStages]
  BY <1>1 DEF TestStop, MarkProgress, Served, Goto, IInv, WaiterTypeOK
<1>3. WaiterTypeOK'
  BY <1>1, <1>2 DEF IInv, WaiterTypeOK, TableTypeOK, TestStop, MarkProgress, PhilStages, mainVars
<1>4. \A q \in Phils : Served(q)' <=> Served(q)
  BY <1>2 DEF Served
<1>5. OneServed'
  BY <1>2, <1>4 DEF IInv, OneServed
<1> QED
  BY <1>1, <1>2, <1>3, <1>5, OneMoves DEF PhilStages

-----------------------------------------------------------------------------

LEMMA NextInvariant == IInv /\ [Next]_vars => IInv'
<1> SUFFICES ASSUME IInv, [Next]_vars PROVE IInv'
  OBVIOUS
<1>1. CASE MainStep /\ UNCHANGED <<waiter, available_chopsticks>>
  BY <1>1, CreateInvariant, DecideInvariant, OtherStepsInvariant DEF MainStep
<1>2. CASE \E p \in Phils : dp_thread(p)
  BY <1>2, EnterInvariant, LeaveInvariant, OutsideInvariant DEF dp_thread
<1>3. CASE UNCHANGED vars
  BY <1>3 DEF vars, tableVars, mainVars, IInv, WaiterTypeOK, TableTypeOK, PeriodsLeft, Serving,
              NotCreatedYet, OneServed, Served
<1> QED
  BY <1>1, <1>2, <1>3 DEF Next

\* The inductive invariant holds in every reachable state: what each thread
\* is entitled to, and whom the waiter serves.
THEOREM Invariant == Spec => []IInv
<1> QED
  BY InitInvariant, NextInvariant, PTL DEF Spec

\* Type correctness: dp_waiter.c lines 164, 165, 188 and 189 index the flags
\* by the values of flags, and those stay 0 or 1, both of which are chopsticks.
THEOREM TypeCorrect == Spec => []WaiterTypeOK
<1>1. IInv => WaiterTypeOK
  BY DEF IInv
<1> QED
  BY <1>1, Invariant, PTL

\* dp_waiter.c lines 156 to 193: the waiter serves one philosopher at a time
\* and its mutex is locked exactly while it serves one.
THEOREM OneAtATime == Spec => []WaiterServesOne
<1>1. IInv => WaiterServesOne
  <2> SUFFICES ASSUME IInv PROVE WaiterServesOne
    OBVIOUS
  <2> DEFINE S == {p \in Phils : pc[p] \in {"taking", "returning"}}
  <2>1. CASE waiter
    <3>1. PICK p \in Phils : Served(p)
      BY <2>1 DEF IInv, OneServed
    <3>2. S = {p}
      BY <3>1 DEF IInv, OneServed, Served
    <3>3. Cardinality(S) = 1
      BY <3>2, FS_Singleton, Zenon
    <3> QED
      BY <2>1, <3>3 DEF WaiterServesOne
  <2>2. CASE ~waiter
    <3>1. S = {}
      BY <2>2 DEF IInv, OneServed, Served
    <3>2. Cardinality(S) = 0
      BY <3>1, FS_EmptySet, Zenon
    <3> QED
      BY <2>2, <3>2 DEF WaiterServesOne
  <2> QED
    BY <2>1, <2>2
<1> QED
  BY <1>1, Invariant, PTL
=============================================================================
