------------------------------- MODULE Dining -------------------------------
(***************************************************************************)
(* dining_philosophers.c, where every philosopher takes its left chopstick *)
(* first, and dp_asymmetric.c, where those with an odd number take the     *)
(* right one first: two programs that differ in the order only.            *)
(*                                                                         *)
(* A step of a philosopher is one access to what it shares: reading Stop,  *)
(* a lock, an unlock, the progress mark.  Thinking and eating touch local  *)
(* variables only and take some finite time, so each is part of the wait   *)
(* for the step that follows it.                                           *)
(***************************************************************************)
EXTENDS Table

\* Which of the two programs runs: it is chosen before the first step.
VARIABLE order

Orders == {"left_first", "alternating"}

diningVars == <<tableVars, order>>

\* Only dp_asymmetric.c asks for the number of the philosopher.
TakesRightFirst_never(p) == FALSE

TakesRightFirst(p) == order = "alternating" /\ p % 2 = 1

FirstChop(p)  == IF TakesRightFirst(p) THEN right_chop(p) ELSE left_chop(p)
SecondChop(p) == IF TakesRightFirst(p) THEN left_chop(p) ELSE right_chop(p)

\* "eat" lasts until the right chopstick is unlocked, "full" until the left
\* one is, "account" until the progress mark is set.
PhilStages == {"none", "while", "first", "second", "eat", "full", "account",
               "exited"}

TypeOK == TableTypeOK /\ pc \in [Phils -> PhilStages] /\ order \in Orders

Init == TableInit /\ order \in Orders

-----------------------------------------------------------------------------

Goto(p, stage) == pc' = [pc EXCEPT ![p] = stage]

Lock_tried(c) == chopstick' = [chopstick EXCEPT ![c] = TRUE]

Lock(c)   == ~chopstick[c] /\ chopstick' = [chopstick EXCEPT ![c] = TRUE]
Unlock(c) == chopstick' = [chopstick EXCEPT ![c] = FALSE]

TestStop(p) ==
  /\ pc[p] = "while"
  /\ Goto(p, IF Stop THEN "exited" ELSE "first")
  /\ UNCHANGED <<chopstick, Stop, prog, mainVars>>

TakeFirst(p) ==
  /\ pc[p] = "first"
  /\ Lock(FirstChop(p))
  /\ Goto(p, "second")
  /\ UNCHANGED <<Stop, prog, mainVars>>

TakeSecond(p) ==
  /\ pc[p] = "second"
  /\ Lock(SecondChop(p))
  /\ Goto(p, "eat")
  /\ UNCHANGED <<Stop, prog, mainVars>>

PutDownRight(p) ==
  /\ pc[p] = "eat"
  /\ Unlock(right_chop(p))
  /\ Goto(p, "full")
  /\ UNCHANGED <<Stop, prog, mainVars>>

PutDownLeft_right(p) ==
  /\ pc[p] = "full"
  /\ Unlock(right_chop(p))
  /\ Goto(p, "account")
  /\ UNCHANGED <<Stop, prog, mainVars>>

PutDownLeft(p) ==
  /\ pc[p] = "full"
  /\ Unlock(left_chop(p))
  /\ Goto(p, "account")
  /\ UNCHANGED <<Stop, prog, mainVars>>

MarkProgress(p) ==
  /\ pc[p] = "account"
  /\ prog' = [prog EXCEPT ![p] = TRUE]
  /\ Goto(p, "while")
  /\ UNCHANGED <<chopstick, Stop, mainVars>>

dp_thread(p) ==
  \/ TestStop(p)
  \/ TakeFirst(p)
  \/ TakeSecond(p)
  \/ PutDownRight(p)
  \/ PutDownLeft(p)
  \/ MarkProgress(p)

Next ==
  /\ MainStep \/ \E p \in Phils : dp_thread(p)
  /\ UNCHANGED order

\* The operating system runs every thread that can go on.  Nothing is assumed
\* about who gets a contended mutex.
Fairness == WF_tableVars(MainStep) /\ \A p \in Phils : WF_tableVars(dp_thread(p))

SafetySpec == Init /\ [][Next]_diningVars
Spec == SafetySpec /\ Fairness

-----------------------------------------------------------------------------

\* Thread p has locked chopstick c and not unlocked it.
Holds(p, c) ==
  \/ pc[p] = "second" /\ c = FirstChop(p)
  \/ pc[p] = "eat"    /\ c \in {left_chop(p), right_chop(p)}
  \/ pc[p] = "full"   /\ c = left_chop(p)

Blocked(p) ==
  \/ pc[p] = "first"  /\ chopstick[FirstChop(p)]
  \/ pc[p] = "second" /\ chopstick[SecondChop(p)]

Running(p) == pc[p] \notin {"none", "exited"}

Deadlocked == \A p \in Phils : Blocked(p)

\* Until main unlocks chopsticks that are not its own, no chopstick is in two
\* hands.  Afterwards it may be: a released philosopher eats with its neighbour.
ChopsticksExclusive ==
  Serving => \A p, q \in Phils : \A c \in Chops :
               Holds(p, c) /\ Holds(q, c) => p = q

\* A locked chopstick is in the hands of a thread that will unlock it, even
\* when main and two philosophers have unlocked it in any order: no mutex
\* stays locked after the last one to lock it has gone on.
LockedIsHeld ==
  \A c \in Chops : chopstick[c] => \E p \in Phils : Holds(p, c)

\* With the order of dp_asymmetric.c, no threads wait for one another: as long
\* as threads run, one of them can go on, while the table is being set and
\* while it is being shut down, too.
SomebodyCanGoOn ==
  order = "alternating" /\ (\E p \in Phils : Running(p)) =>
    \E p \in Phils : Running(p) /\ ~Blocked(p)

\* The table is deadlocked while main still has a whole period to go: this one
\* or a later one.
DeadlockedInTime ==
  /\ Deadlocked
  /\ Serving
  /\ \/ main = "reset" /\ i = 0
     \/ iter + 1 < ITERATION_LIMIT

\* Whatever main was doing when the table deadlocked (half-way through a reset,
\* so that marks of meals before it survive, or through a check), the deadlock
\* is found out, at the latest in the next period.
DeadlockDetected == DeadlockedInTime ~> (Stop /\ deadlock)

\* dining_philosophers.c:356-358: the diners of a deadlocked table can exit.
\* This much is true: when a whole period was left to find the deadlock.
DeadlockReleased == DeadlockedInTime ~> (main = "returned")

\* The whole of that comment: once told to stop, philosophers can exit.
PhilosophersExit == Stop ~> (\A p \in Phils : pc[p] = "exited")

\* dp_asymmetric.c ends.
Terminates == order = "alternating" => <>(main = "returned")

=============================================================================
