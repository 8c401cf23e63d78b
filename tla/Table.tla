------------------------------- MODULE Table -------------------------------
(***************************************************************************)
(* What the three dining programs of src/pthreads_pc have in common: the   *)
(* chopsticks, the flag Stop, the progress marks, and the thread main,     *)
(* which sets the table, watches it for some accounting periods and shuts  *)
(* it down.  Modules Dining and DiningWaiter add the philosophers.         *)
(*                                                                         *)
(* A mutex is a Boolean, TRUE while it is locked.  main unlocks mutexes    *)
(* that others locked, which POSIX leaves undefined; the default mutex of  *)
(* the C library that the Makefile links keeps no account of its owner in  *)
(* pthread_mutex_unlock, so the mutex is free afterwards, whoever had it.  *)
(*                                                                         *)
(* prog counts meals, and all that main asks is whether it is zero, so it  *)
(* is a Boolean here: prog++ leaves it true, whatever value it had read.   *)
(* For the same reason prog_total, which is only printed, is left out.     *)
(* sleep may return at any time relative to the philosophers.              *)
(*                                                                         *)
(* A definition whose name has a suffix, as in ProgAfterReset_kept, is     *)
(* the one of that name with a bug; only the mutants use it.               *)
(***************************************************************************)
EXTENDS Integers

CONSTANTS
  NUM_PHILS,        \* philosophers, and chopsticks
  ITERATION_LIMIT   \* accounting periods before main stops the table

ASSUME TableAssumption ==
  /\ NUM_PHILS \in Nat /\ NUM_PHILS >= 2
  /\ ITERATION_LIMIT \in Nat \ {0}

VARIABLES
  chopstick,   \* chopstick -> is its mutex locked?
  Stop,        \* the global flag
  pc,          \* philosopher -> where its thread is
  prog,        \* philosopher -> did it finish a meal since the last reset?
  main,        \* where the main thread is
  i,           \* its loop index
  iter,        \* accounting periods that are over
  deadlock     \* its verdict on the current period

mainVars  == <<main, i, iter, deadlock>>
tableVars == <<chopstick, Stop, pc, prog, mainVars>>

Phils == 0 .. NUM_PHILS - 1
Chops == Phils

left_phil(p)  == IF p = NUM_PHILS - 1 THEN 0 ELSE p + 1
left_chop(p)  == p
right_chop(p) == IF p = 0 THEN NUM_PHILS - 1 ELSE p - 1

-----------------------------------------------------------------------------

MainStages == {"set_table", "reset", "sleep", "check", "decide", "stop",
               "release", "join", "returned"}

TableTypeOK ==
  /\ chopstick \in [Chops -> BOOLEAN]
  /\ prog \in [Phils -> BOOLEAN]
  /\ Stop \in BOOLEAN
  /\ main \in MainStages
  /\ i \in Phils
  /\ iter \in 0 .. ITERATION_LIMIT
  /\ deadlock \in BOOLEAN

\* The mutexes are initialised before the first thread exists.
TableInit ==
  /\ chopstick = [c \in Chops |-> FALSE]
  /\ Stop = FALSE
  /\ pc = [p \in Phils |-> "none"]
  /\ prog = [p \in Phils |-> FALSE]
  /\ main = "set_table"
  /\ i = 0
  /\ iter = 0
  /\ deadlock = FALSE

-----------------------------------------------------------------------------

Advance_onemore(next) ==
  IF i <= NUM_PHILS - 1
  THEN i' = i + 1 /\ main' = main
  ELSE i' = 0 /\ main' = next

\* One iteration of the loop over all philosophers of a stage is done.
Advance(next) ==
  IF i < NUM_PHILS - 1
  THEN i' = i + 1 /\ main' = main
  ELSE i' = 0 /\ main' = next

CreatePhilosopher ==
  /\ main = "set_table"
  /\ pc' = [pc EXCEPT ![i] = "while"]
  /\ Advance("reset")
  /\ UNCHANGED <<chopstick, Stop, prog, iter, deadlock>>

ProgAfterReset_kept == prog

ProgAfterReset == [prog EXCEPT ![i] = FALSE]

ResetProgress ==
  /\ main = "reset"
  /\ prog' = ProgAfterReset
  /\ Advance("sleep")
  /\ UNCHANGED <<chopstick, Stop, pc, iter, deadlock>>

SleepPeriod ==
  /\ main = "sleep"
  /\ main' = "check"
  /\ deadlock' = TRUE
  /\ UNCHANGED <<chopstick, Stop, pc, prog, i, iter>>

CheckProgress ==
  /\ main = "check"
  /\ deadlock' = (deadlock /\ ~prog[i])
  /\ Advance("decide")
  /\ UNCHANGED <<chopstick, Stop, pc, prog, iter>>

Continue == ~deadlock /\ iter' < ITERATION_LIMIT

Decide ==
  /\ main = "decide"
  /\ iter' = iter + 1
  /\ main' = IF Continue THEN "reset" ELSE "stop"
  /\ UNCHANGED <<chopstick, Stop, pc, prog, i, deadlock>>

SetStop ==
  /\ main = "stop"
  /\ Stop' = TRUE
  /\ main' = "release"
  /\ UNCHANGED <<chopstick, pc, prog, i, iter, deadlock>>

ChopsticksReleased_kept == chopstick

ChopsticksReleased == [chopstick EXCEPT ![i] = FALSE]

ReleaseChopstick ==
  /\ main = "release"
  /\ chopstick' = ChopsticksReleased
  /\ Advance("join")
  /\ UNCHANGED <<Stop, pc, prog, iter, deadlock>>

JoinPhilosopher ==
  /\ main = "join"
  /\ pc[i] = "exited"
  /\ Advance("returned")
  /\ UNCHANGED <<chopstick, Stop, pc, prog, iter, deadlock>>

MainStep ==
  \/ CreatePhilosopher
  \/ ResetProgress
  \/ SleepPeriod
  \/ CheckProgress
  \/ Decide
  \/ SetStop
  \/ ReleaseChopstick
  \/ JoinPhilosopher

\* No mutex has been unlocked by main yet.
Serving == main \notin {"release", "join", "returned"}

=============================================================================
