---------------------------- MODULE DiningWaiter ----------------------------
(***************************************************************************)
(* dp_waiter.c: philosophers ask a waiter, who is a mutex, before they eat. *)
(* The chopsticks are the integers available_chopsticks; the mutexes of    *)
(* module Table exist but no philosopher locks them.                       *)
(*                                                                         *)
(* left_chop_available and right_chop_available return pointers.  The loop *)
(* of line 158 tests the pointers, which are never null, so it is never    *)
(* entered and nobody waits for a condition; lines 164, 165, 188 and 189   *)
(* use what the pointers point to, 0 or 1, as the index of the chopstick.  *)
(* The broadcast of line 191 is on a condition for which nobody waits.     *)
(***************************************************************************)
EXTENDS Table, FiniteSets

VARIABLES
  waiter,                \* is its mutex locked?
  available_chopsticks   \* chopstick -> 0 or 1

vars == <<tableVars, waiter, available_chopsticks>>

\* "taking" and "returning" are inside the sections that the waiter protects;
\* "eat" lasts until the waiter is locked again.
PhilStages == {"none", "while", "hungry", "taking", "eat", "returning",
               "account", "exited"}

WaiterTypeOK ==
  /\ TableTypeOK
  /\ pc \in [Phils -> PhilStages]
  /\ waiter \in BOOLEAN
  /\ available_chopsticks \in [Chops -> {0, 1}]

Init ==
  /\ TableInit
  /\ waiter = FALSE
  /\ available_chopsticks = [c \in Chops |-> 1]

-----------------------------------------------------------------------------

Goto(p, stage) == pc' = [pc EXCEPT ![p] = stage]

StoreAt_counted(flags, c, value) ==
  [flags EXCEPT ![flags[c]] = IF value = 1 THEN @ + 1 ELSE @ - 1]

\* available_chopsticks[*left_chop_available(me)] = value, and the same for
\* the right one: the second index is read after the first store.
StoreAt(flags, c, value) == [flags EXCEPT ![flags[c]] = value]

Stored(p, value) ==
  StoreAt(StoreAt(available_chopsticks, left_chop(p), value), right_chop(p), value)

TestStop(p) ==
  /\ pc[p] = "while"
  /\ Goto(p, IF Stop THEN "exited" ELSE "hungry")
  /\ UNCHANGED <<chopstick, Stop, prog, mainVars, waiter, available_chopsticks>>

LockWaiter_missing   == waiter' = TRUE
UnlockWaiter_missing == waiter' = TRUE

LockWaiter   == ~waiter /\ waiter' = TRUE
UnlockWaiter == waiter' = FALSE

EnterSection(p, from, to) ==
  /\ pc[p] = from
  /\ LockWaiter
  /\ Goto(p, to)
  /\ UNCHANGED <<chopstick, Stop, prog, mainVars, available_chopsticks>>

CallWaiter(p)  == EnterSection(p, "hungry", "taking")
CallForBill(p) == EnterSection(p, "eat", "returning")

\* Only the thread that has locked the waiter reads or writes the flags.
TakeChopsticks(p) ==
  /\ pc[p] = "taking"
  /\ available_chopsticks' = Stored(p, 0)
  /\ UnlockWaiter
  /\ Goto(p, "eat")
  /\ UNCHANGED <<chopstick, Stop, prog, mainVars>>

ReturnChopsticks(p) ==
  /\ pc[p] = "returning"
  /\ available_chopsticks' = Stored(p, 1)
  /\ UnlockWaiter
  /\ Goto(p, "account")
  /\ UNCHANGED <<chopstick, Stop, prog, mainVars>>

MarkProgress(p) ==
  /\ pc[p] = "account"
  /\ prog' = [prog EXCEPT ![p] = TRUE]
  /\ Goto(p, "while")
  /\ UNCHANGED <<chopstick, Stop, mainVars, waiter, available_chopsticks>>

dp_thread(p) ==
  \/ TestStop(p)
  \/ CallWaiter(p)
  \/ TakeChopsticks(p)
  \/ CallForBill(p)
  \/ ReturnChopsticks(p)
  \/ MarkProgress(p)

Next ==
  \/ MainStep /\ UNCHANGED <<waiter, available_chopsticks>>
  \/ \E p \in Phils : dp_thread(p)

Fairness ==
  /\ WF_vars(MainStep /\ UNCHANGED <<waiter, available_chopsticks>>)
  /\ \A p \in Phils : WF_vars(dp_thread(p))

Spec == Init /\ [][Next]_vars /\ Fairness

-----------------------------------------------------------------------------

\* At most one philosopher reads and writes the flags, and the waiter is
\* locked exactly while one does, in whatever order they come and go.
WaiterServesOne ==
  Cardinality({p \in Phils : pc[p] \in {"taking", "returning"}})
    = IF waiter THEN 1 ELSE 0

\* Nobody who calls the waiter is left waiting when the table is shut down:
\* main unlocks chopsticks that nobody locks, and all threads are joined.
Terminates == <>(main = "returned")

\* A philosopher between lines 168 and 186 has both its chopsticks.
Eating(p) == pc[p] = "eat"

\* dp_waiter.c:46 and 153: a chopstick is shared by two philosophers, and both
\* are grabbed before eating.  So neighbours do not eat at the same time.
NeighboursEatApart == \A p \in Phils : ~(Eating(p) /\ Eating(left_phil(p)))

=============================================================================
