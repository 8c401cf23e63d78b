---------------------------- MODULE DiningProofs ----------------------------
(***************************************************************************)
(* Theorems about the table of dining_philosophers.c and dp_asymmetric.c   *)
(* for any number of philosophers from two on and any number of periods.   *)
(***************************************************************************)
EXTENDS Dining, TLAPS

\* The threads that main has not created yet do not run.
NotCreatedYet ==
  main = "set_table" => \A p \in Phils : p >= i => pc[p] = "none"

\* The converse of LockedIsHeld, which main ends when it starts to unlock.
HeldIsLocked ==
  Serving => \A p \in Phils : \A c \in Chops : Holds(p, c) => chopstick[c]

\* A period begins only when one is left.
PeriodsLeft == Serving /\ main # "stop" => iter < ITERATION_LIMIT

IInv ==
  /\ TypeOK
  /\ PeriodsLeft
  /\ NotCreatedYet
  /\ LockedIsHeld
  /\ HeldIsLocked
  /\ ChopsticksExclusive

-----------------------------------------------------------------------------

\* A philosopher takes two different chopsticks, whichever is first.
LEMMA ChopFacts ==
  ASSUME NEW p \in Phils
  PROVE  /\ left_chop(p) \in Chops /\ right_chop(p) \in Chops
         /\ left_chop(p) # right_chop(p)
         /\ FirstChop(p) \in Chops /\ SecondChop(p) \in Chops
         /\ {FirstChop(p), SecondChop(p)} = {left_chop(p), right_chop(p)}
<1>1. left_chop(p) \in Chops /\ right_chop(p) \in Chops /\ left_chop(p) # right_chop(p)
  BY TableAssumption DEF left_chop, right_chop, Phils, Chops
<1> QED
  BY <1>1 DEF FirstChop, SecondChop

LEMMA InitInvariant == Init => IInv
<1> SUFFICES ASSUME Init PROVE IInv
  OBVIOUS
<1>1. i \in Phils /\ iter \in 0 .. ITERATION_LIMIT
  BY TableAssumption DEF Init, TableInit, Phils
<1>2. TypeOK
  BY <1>1 DEF Init, TableInit, TypeOK, TableTypeOK, PhilStages, MainStages
<1>3. NotCreatedYet
  BY DEF Init, TableInit, NotCreatedYet
<1>6. PeriodsLeft
  BY TableAssumption DEF Init, TableInit, PeriodsLeft
<1>4. \A p \in Phils, c \in Chops : ~Holds(p, c)
  BY DEF Init, TableInit, Holds
<1>5. \A c \in Chops : ~chopstick[c]
  BY DEF Init, TableInit
<1> QED
  BY <1>2, <1>3, <1>4, <1>5, <1>6 DEF IInv, LockedIsHeld, HeldIsLocked, ChopsticksExclusive

-----------------------------------------------------------------------------
\* The steps of main.

LEMMA AdvanceFacts ==
  ASSUME IInv, NEW next \in MainStages, Advance(next)
  PROVE  i' \in Phils /\ main' \in MainStages
<1>1. i \in Int /\ 0 <= i /\ i <= NUM_PHILS - 1 /\ main \in MainStages /\ NUM_PHILS \in Int
  BY TableAssumption DEF IInv, TypeOK, TableTypeOK, Phils
<1> QED
  BY <1>1, TableAssumption DEF Advance, Phils

\* Steps of main that leave threads and chopsticks as they are.
LEMMA MainElsewhere ==
  ASSUME IInv, UNCHANGED <<chopstick, pc, order>>, Serving' => Serving,
         main' # "set_table", TableTypeOK', PeriodsLeft'
  PROVE  IInv'
<1>1. TypeOK'
  BY DEF IInv, TypeOK
<1>2. NotCreatedYet'
  BY DEF NotCreatedYet
<1>3. \A p, c : Holds(p, c)' <=> Holds(p, c)
  BY DEF Holds, FirstChop, left_chop, right_chop, TakesRightFirst
<1>4. LockedIsHeld' /\ HeldIsLocked' /\ ChopsticksExclusive'
  BY <1>3 DEF IInv, LockedIsHeld, HeldIsLocked, ChopsticksExclusive
<1> QED
  BY <1>1, <1>2, <1>4 DEF IInv

LEMMA CreateStep == IInv /\ CreatePhilosopher /\ UNCHANGED order => IInv'
<1> SUFFICES ASSUME IInv, CreatePhilosopher, UNCHANGED order PROVE IInv'
  OBVIOUS
<1>1. i' \in Phils /\ main' \in MainStages
  BY AdvanceFacts DEF CreatePhilosopher, MainStages
<1>2. pc[i] = "none" /\ i \in Phils
  BY DEF IInv, NotCreatedYet, CreatePhilosopher, TypeOK, TableTypeOK, Phils
<1>3. TypeOK'
  BY <1>1, <1>2 DEF IInv, TypeOK, TableTypeOK, CreatePhilosopher, PhilStages
<1>4. NotCreatedYet'
  <2>1. SUFFICES ASSUME main' = "set_table", NEW p \in Phils, p >= i'
                 PROVE  pc'[p] = "none"
    BY DEF NotCreatedYet
  <2>2. i' = i + 1
    BY <2>1 DEF CreatePhilosopher, Advance
  <2>3. p # i /\ p >= i
    BY <1>2, <2>1, <2>2, TableAssumption DEF Phils
  <2> QED
    BY <2>3 DEF IInv, NotCreatedYet, CreatePhilosopher, TypeOK
<1>5. \A p \in Phils, c \in Chops : Holds(p, c)' <=> Holds(p, c)
  BY <1>2 DEF Holds, FirstChop, left_chop, right_chop, TakesRightFirst,
              CreatePhilosopher, IInv, TypeOK
<1>6. Serving
  BY DEF Serving, CreatePhilosopher
<1>7. LockedIsHeld' /\ HeldIsLocked' /\ ChopsticksExclusive'
  BY <1>5, <1>6 DEF IInv, LockedIsHeld, HeldIsLocked, ChopsticksExclusive, CreatePhilosopher
<1>8. PeriodsLeft'
  BY <1>6 DEF IInv, PeriodsLeft, CreatePhilosopher
<1> QED
  BY <1>3, <1>4, <1>7, <1>8 DEF IInv

LEMMA ReleaseStep == IInv /\ ReleaseChopstick /\ UNCHANGED order => IInv'
<1> SUFFICES ASSUME IInv, ReleaseChopstick, UNCHANGED order PROVE IInv'
  OBVIOUS
<1>1. i' \in Phils /\ main' \in MainStages
  BY AdvanceFacts DEF ReleaseChopstick, MainStages
<1>2. TypeOK'
  BY <1>1 DEF IInv, TypeOK, TableTypeOK, ReleaseChopstick, ChopsticksReleased
<1>3. main' \in {"release", "join"}
  BY DEF ReleaseChopstick, Advance
<1>4. NotCreatedYet' /\ HeldIsLocked' /\ ChopsticksExclusive' /\ PeriodsLeft'
  BY <1>3 DEF PeriodsLeft, NotCreatedYet, HeldIsLocked, ChopsticksExclusive, Serving
<1>5. \A p, c : Holds(p, c)' <=> Holds(p, c)
  BY DEF Holds, FirstChop, left_chop, right_chop, TakesRightFirst, ReleaseChopstick
<1>6. \A c \in Chops : chopstick'[c] => chopstick[c]
  BY DEF ReleaseChopstick, ChopsticksReleased, IInv, TypeOK, TableTypeOK
<1>7. LockedIsHeld'
  BY <1>5, <1>6 DEF IInv, LockedIsHeld
<1> QED
  BY <1>2, <1>4, <1>7 DEF IInv

LEMMA MainInvariant == IInv /\ MainStep /\ UNCHANGED order => IInv'
<1> SUFFICES ASSUME IInv, MainStep, UNCHANGED order PROVE IInv'
  OBVIOUS
<1>1. CASE CreatePhilosopher
  BY <1>1, CreateStep
<1>2. CASE ReleaseChopstick
  BY <1>2, ReleaseStep
<1>3. CASE ResetProgress
  <2>1. i' \in Phils /\ main' \in MainStages
    BY <1>3, AdvanceFacts DEF ResetProgress, MainStages
  <2>2. TableTypeOK'
    BY <1>3, <2>1 DEF ResetProgress, ProgAfterReset, IInv, TypeOK, TableTypeOK
  <2> QED
    BY <1>3, <2>2, MainElsewhere DEF ResetProgress, Advance, Serving, PeriodsLeft, IInv
<1>4. CASE SleepPeriod
  <2>1. TableTypeOK'
    BY <1>4 DEF SleepPeriod, IInv, TypeOK, TableTypeOK, MainStages
  <2> QED
    BY <1>4, <2>1, MainElsewhere DEF SleepPeriod, Serving, PeriodsLeft, IInv
<1>5. CASE CheckProgress
  <2>1. i' \in Phils /\ main' \in MainStages
    BY <1>5, AdvanceFacts DEF CheckProgress, MainStages
  <2>2. TableTypeOK'
    BY <1>5, <2>1 DEF CheckProgress, IInv, TypeOK, TableTypeOK
  <2> QED
    BY <1>5, <2>2, MainElsewhere DEF CheckProgress, Advance, Serving, PeriodsLeft, IInv
<1>6. CASE Decide
  <2>1. iter \in 0 .. ITERATION_LIMIT /\ iter < ITERATION_LIMIT
    BY <1>6 DEF IInv, TypeOK, TableTypeOK, PeriodsLeft, Serving, Decide
  <2>2. iter' \in 0 .. ITERATION_LIMIT
    BY <1>6, <2>1, TableAssumption DEF Decide
  <2>3. TableTypeOK' /\ PeriodsLeft'
    BY <1>6, <2>2 DEF Decide, Continue, IInv, TypeOK, TableTypeOK, MainStages, PeriodsLeft
  <2> QED
    BY <1>6, <2>3, MainElsewhere DEF Decide, Serving
<1>7. CASE SetStop
  <2>1. TableTypeOK'
    BY <1>7 DEF SetStop, IInv, TypeOK, TableTypeOK, MainStages
  <2> QED
    BY <1>7, <2>1, MainElsewhere DEF SetStop, Serving, PeriodsLeft, IInv
<1>8. CASE JoinPhilosopher
  <2>1. i' \in Phils /\ main' \in MainStages
    BY <1>8, AdvanceFacts DEF JoinPhilosopher, MainStages
  <2>2. TableTypeOK'
    BY <1>8, <2>1 DEF JoinPhilosopher, IInv, TypeOK, TableTypeOK
  <2> QED
    BY <1>8, <2>2, MainElsewhere DEF JoinPhilosopher, Advance, Serving, PeriodsLeft, IInv
<1> QED
  BY <1>1, <1>2, <1>3, <1>4, <1>5, <1>6, <1>7, <1>8 DEF MainStep

-----------------------------------------------------------------------------
\* The steps of a philosopher.

\* What a step of p leaves alone: main, and what the others hold.
OnlyMoves(p, stage) ==
  /\ pc[p] # "none"
  /\ stage \in PhilStages
  /\ pc' = [pc EXCEPT ![p] = stage]
  /\ UNCHANGED <<Stop, mainVars, order>>
  /\ prog' \in [Phils -> BOOLEAN]
  /\ chopstick' \in [Chops -> BOOLEAN]

LEMMA OnlyMovesFacts ==
  ASSUME IInv, NEW p \in Phils, NEW stage, OnlyMoves(p, stage)
  PROVE  /\ TypeOK' /\ NotCreatedYet' /\ PeriodsLeft'
         /\ Serving' = Serving
         /\ pc'[p] = stage
         /\ \A q \in Phils \ {p} : \A c : Holds(q, c)' <=> Holds(q, c)
<1>1. pc'[p] = stage /\ \A q \in Phils \ {p} : pc'[q] = pc[q]
  BY DEF OnlyMoves, IInv, TypeOK
<1>2. TypeOK'
  BY DEF OnlyMoves, IInv, TypeOK, TableTypeOK, mainVars
<1>3. NotCreatedYet'
  BY <1>1 DEF OnlyMoves, IInv, NotCreatedYet, mainVars
<1>4. PeriodsLeft' /\ Serving' = Serving
  BY DEF OnlyMoves, IInv, PeriodsLeft, Serving, mainVars
<1>5. \A q \in Phils \ {p} : \A c : Holds(q, c)' <=> Holds(q, c)
  <2>1. order' = order
    BY DEF OnlyMoves
  <2> QED
    BY <1>1, <2>1 DEF Holds, FirstChop, left_chop, right_chop, TakesRightFirst
<1> QED
  BY <1>1, <1>2, <1>3, <1>4, <1>5

\* A step after which p holds what it held, and that changes no chopstick.
LEMMA HandsUnchanged ==
  ASSUME IInv, NEW p \in Phils, NEW stage, OnlyMoves(p, stage),
         chopstick' = chopstick,
         \A c \in Chops : ~Holds(p, c) /\ ~Holds(p, c)'
  PROVE  IInv'
<1>1. \A q \in Phils, c \in Chops : Holds(q, c)' <=> Holds(q, c)
  BY OnlyMovesFacts
<1>2. LockedIsHeld' /\ HeldIsLocked' /\ ChopsticksExclusive'
  BY <1>1, OnlyMovesFacts DEF IInv, LockedIsHeld, HeldIsLocked, ChopsticksExclusive
<1> QED
  BY <1>2, OnlyMovesFacts DEF IInv

\* A lock: until main unlocks chopsticks, nobody has a free one.
LEMMA LockStep ==
  ASSUME IInv, NEW p \in Phils, NEW stage, NEW c \in Chops,
         OnlyMoves(p, stage), Lock(c),
         \A d \in Chops : Holds(p, d)' <=> Holds(p, d) \/ d = c
  PROVE  IInv'
<1>1. chopstick'[c] /\ ~chopstick[c] /\ \A d \in Chops \ {c} : chopstick'[d] = chopstick[d]
  BY DEF Lock, IInv, TypeOK, TableTypeOK
<1>2. \A q \in Phils : \A d \in Chops : Holds(q, d)' <=> Holds(q, d) \/ (q = p /\ d = c)
  BY OnlyMovesFacts
<1>3. Serving' = Serving
  BY OnlyMovesFacts
<1>4. LockedIsHeld'
  BY <1>1, <1>2 DEF IInv, LockedIsHeld
<1>5. HeldIsLocked'
  BY <1>1, <1>2, <1>3 DEF IInv, HeldIsLocked
<1>6. ChopsticksExclusive'
  BY <1>1, <1>2, <1>3 DEF IInv, HeldIsLocked, ChopsticksExclusive
<1> QED
  BY <1>4, <1>5, <1>6, OnlyMovesFacts DEF IInv

\* An unlock of a chopstick that p holds.
LEMMA UnlockStep ==
  ASSUME IInv, NEW p \in Phils, NEW stage, NEW c \in Chops,
         OnlyMoves(p, stage), Unlock(c), Holds(p, c),
         \A d \in Chops : Holds(p, d)' <=> Holds(p, d) /\ d # c
  PROVE  IInv'
<1>1. ~chopstick'[c] /\ \A d \in Chops \ {c} : chopstick'[d] = chopstick[d]
  BY DEF Unlock, IInv, TypeOK, TableTypeOK
<1>2. \A q \in Phils : \A d \in Chops : Holds(q, d)' <=> Holds(q, d) /\ ~(q = p /\ d = c)
  BY OnlyMovesFacts
<1>3. Serving' = Serving
  BY OnlyMovesFacts
<1>4. LockedIsHeld'
  BY <1>1, <1>2 DEF IInv, LockedIsHeld
<1>5. HeldIsLocked'
  BY <1>1, <1>2, <1>3 DEF IInv, HeldIsLocked, ChopsticksExclusive
<1>6. ChopsticksExclusive'
  BY <1>2, <1>3 DEF IInv, ChopsticksExclusive
<1> QED
  BY <1>4, <1>5, <1>6, OnlyMovesFacts DEF IInv

LEMMA PhilInvariant ==
  IInv /\ (\E p \in Phils : dp_thread(p)) /\ UNCHANGED order => IInv'
<1> SUFFICES ASSUME IInv, NEW p \in Phils, dp_thread(p), UNCHANGED order PROVE IInv'
  OBVIOUS
<1>0. chopstick \in [Chops -> BOOLEAN] /\ prog \in [Phils -> BOOLEAN] /\ pc \in [Phils -> PhilStages]
  BY DEF IInv, TypeOK, TableTypeOK
<1>1. CASE TestStop(p)
  <2> DEFINE stage == IF Stop THEN "exited" ELSE "first"
  <2>1. OnlyMoves(p, stage) /\ chopstick' = chopstick
    BY <1>0, <1>1 DEF TestStop, Goto, OnlyMoves, PhilStages, mainVars
  <2>2. \A c \in Chops : ~Holds(p, c) /\ ~Holds(p, c)'
    BY <1>1, <1>0 DEF TestStop, Goto, Holds
  <2> HIDE DEF stage
  <2> QED
    BY <2>1, <2>2, HandsUnchanged
<1>2. CASE TakeFirst(p)
  <2>1. OnlyMoves(p, "second") /\ Lock(FirstChop(p))
    BY <1>0, <1>2 DEF TakeFirst, Goto, OnlyMoves, PhilStages, mainVars, Lock
  <2>2. \A d \in Chops : Holds(p, d)' <=> Holds(p, d) \/ d = FirstChop(p)
    BY <1>2, <1>0 DEF TakeFirst, Goto, Holds, FirstChop, left_chop, right_chop, TakesRightFirst
  <2>3. FirstChop(p) \in Chops
    BY ChopFacts
  <2> QED
    BY <2>1, <2>2, <2>3, LockStep
<1>3. CASE TakeSecond(p)
  <2>1. OnlyMoves(p, "eat") /\ Lock(SecondChop(p))
    BY <1>0, <1>3 DEF TakeSecond, Goto, OnlyMoves, PhilStages, mainVars, Lock
  <2>2. \A d \in Chops : Holds(p, d)' <=> d \in {left_chop(p), right_chop(p)}
    BY <1>3, <1>0 DEF TakeSecond, Goto, Holds, left_chop, right_chop
  <2>3. \A d \in Chops : Holds(p, d)' <=> Holds(p, d) \/ d = SecondChop(p)
    BY <1>3, <2>2, ChopFacts DEF TakeSecond, Holds
  <2>4. SecondChop(p) \in Chops
    BY ChopFacts
  <2> QED
    BY <2>1, <2>3, <2>4, LockStep
<1>4. CASE PutDownRight(p)
  <2>1. OnlyMoves(p, "full") /\ Unlock(right_chop(p))
    BY <1>0, <1>4 DEF PutDownRight, Goto, OnlyMoves, PhilStages, mainVars, Unlock
  <2>2. \A d \in Chops : Holds(p, d)' <=> d = left_chop(p)
    BY <1>4, <1>0 DEF PutDownRight, Goto, Holds, left_chop
  <2>3. Holds(p, right_chop(p)) /\ \A d \in Chops : Holds(p, d)' <=> Holds(p, d) /\ d # right_chop(p)
    BY <1>4, <2>2, ChopFacts DEF PutDownRight, Holds
  <2> QED
    BY <2>1, <2>3, ChopFacts, UnlockStep
<1>5. CASE PutDownLeft(p)
  <2>1. OnlyMoves(p, "account") /\ Unlock(left_chop(p))
    BY <1>0, <1>5 DEF PutDownLeft, Goto, OnlyMoves, PhilStages, mainVars, Unlock
  <2>2. Holds(p, left_chop(p)) /\ \A d \in Chops : Holds(p, d)' <=> Holds(p, d) /\ d # left_chop(p)
    BY <1>5, <1>0 DEF PutDownLeft, Goto, Holds
  <2> QED
    BY <2>1, <2>2, ChopFacts, UnlockStep
<1>6. CASE MarkProgress(p)
  <2>1. OnlyMoves(p, "while") /\ chopstick' = chopstick
    BY <1>0, <1>6 DEF MarkProgress, Goto, OnlyMoves, PhilStages, mainVars
  <2>2. \A c \in Chops : ~Holds(p, c) /\ ~Holds(p, c)'
    BY <1>6, <1>0 DEF MarkProgress, Goto, Holds
  <2> QED
    BY <2>1, <2>2, HandsUnchanged
<1> QED
  BY <1>1, <1>2, <1>3, <1>4, <1>5, <1>6 DEF dp_thread

LEMMA NextInvariant == IInv /\ [Next]_diningVars => IInv'
<1>1. IInv /\ UNCHANGED diningVars => IInv'
  <2> SUFFICES ASSUME IInv, UNCHANGED diningVars PROVE IInv'
    OBVIOUS
  <2>1. \A p, c : Holds(p, c)' <=> Holds(p, c)
    BY DEF Holds, FirstChop, left_chop, right_chop, TakesRightFirst, diningVars, tableVars
  <2>2. TypeOK' /\ PeriodsLeft' /\ NotCreatedYet'
    BY DEF IInv, TypeOK, TableTypeOK, PeriodsLeft, NotCreatedYet, Serving,
           diningVars, tableVars, mainVars
  <2>3. LockedIsHeld' /\ HeldIsLocked' /\ ChopsticksExclusive'
    BY <2>1 DEF IInv, LockedIsHeld, HeldIsLocked, ChopsticksExclusive, Serving,
                diningVars, tableVars, mainVars
  <2> QED
    BY <2>2, <2>3 DEF IInv
<1> QED
  BY <1>1, MainInvariant, PhilInvariant DEF Next

\* The inductive invariant holds in every reachable state: what each thread
\* holds, which mutexes are locked, and how far main has come.
THEOREM Invariant == Spec => []IInv
  BY InitInvariant, NextInvariant, PTL DEF Spec, SafetySpec

-----------------------------------------------------------------------------

\* main and the threads only ever reach the states that the code names.
THEOREM TypeCorrect == Spec => []TypeOK
<1>1. IInv => TypeOK
  BY DEF IInv
<1> QED
  BY <1>1, Invariant, PTL

\* Until the table is shut down, no chopstick is in two hands: each mutex
\* protects its chopstick, in either order and for any number of philosophers.
THEOREM MutualExclusion == Spec => []ChopsticksExclusive
<1>1. IInv => ChopsticksExclusive
  BY DEF IInv
<1> QED
  BY <1>1, Invariant, PTL

\* No mutex stays locked after its owner is gone, however main's unlocks and
\* those of the philosophers interleave.
THEOREM NoLockLeftBehind == Spec => []LockedIsHeld
<1>1. IInv => LockedIsHeld
  BY DEF IInv
<1> QED
  BY <1>1, Invariant, PTL

-----------------------------------------------------------------------------
\* The order of dp_asymmetric.c.

\* The first chopsticks are the even ones; the second ones are odd, but for
\* that of philosopher 0 when the table is odd.
LEMMA AlternatingChops ==
  ASSUME order = "alternating", NEW p \in Phils
  PROVE  /\ FirstChop(p) % 2 = 0
         /\ SecondChop(p) % 2 = 0 => p = 0 /\ SecondChop(p) = NUM_PHILS - 1
         /\ FirstChop(p) = NUM_PHILS - 1 => p = NUM_PHILS - 1
<1>1. NUM_PHILS \in Int /\ NUM_PHILS >= 2 /\ p \in Int /\ 0 <= p /\ p <= NUM_PHILS - 1
  BY TableAssumption DEF Phils
<1> QED
  BY <1>1 DEF FirstChop, SecondChop, left_chop, right_chop, TakesRightFirst

\* If every running thread is blocked, then one that waits for its second
\* chopstick waits for somebody's first one.  Only philosopher 0 can, for the
\* chopstick of its right neighbour; but that one waits for an odd chopstick.
LEMMA AlternatingProgress == IInv => SomebodyCanGoOn
<1> SUFFICES ASSUME order = "alternating", IInv,
                    \A p \in Phils : Running(p) => Blocked(p),
                    NEW p0 \in Phils, Running(p0)
             PROVE  FALSE
  BY DEF SomebodyCanGoOn
<1>1. \A c \in Chops : chopstick[c] =>
         \E q \in Phils : pc[q] = "second" /\ chopstick[SecondChop(q)] /\ c = FirstChop(q)
  BY DEF IInv, LockedIsHeld, Holds, Running, Blocked
<1>2. \A p \in Phils : pc[p] = "second" /\ chopstick[SecondChop(p)]
         => p = 0 /\ SecondChop(p) = NUM_PHILS - 1
  BY <1>1, ChopFacts, AlternatingChops
<1>3. \A p \in Phils : ~(pc[p] = "second" /\ chopstick[SecondChop(p)])
  <2> SUFFICES ASSUME NEW p \in Phils, pc[p] = "second", chopstick[SecondChop(p)]
               PROVE  FALSE
    OBVIOUS
  <2>1. p = 0 /\ SecondChop(p) = NUM_PHILS - 1
    BY <1>2
  <2>2. PICK q \in Phils : /\ pc[q] = "second" /\ chopstick[SecondChop(q)]
                           /\ SecondChop(p) = FirstChop(q)
    BY <1>1, ChopFacts
  <2>3. q = NUM_PHILS - 1
    BY <2>1, <2>2, AlternatingChops
  <2>4. q = 0
    BY <1>2, <2>2
  <2> QED
    BY <2>3, <2>4, TableAssumption
<1>4. \A c \in Chops : ~chopstick[c]
  BY <1>1, <1>3
<1> QED
  BY <1>4, ChopFacts DEF Blocked

\* With the order of dp_asymmetric.c, some running thread can always go on.
THEOREM NoDeadlock == Spec => []SomebodyCanGoOn
BY AlternatingProgress, Invariant, PTL
=============================================================================
