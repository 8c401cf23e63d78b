------------------------------ MODULE Pipeline ------------------------------
(***************************************************************************)
(* ipc/main.c: a parent that makes three pipes, forks four children, which *)
(* become find, xargs grep, sort and head, closes its ends of the pipes    *)
(* and waits for the children one after the other.                         *)
(*                                                                         *)
(* A pipe is the number of lines in it.  A reader comes to the end of its  *)
(* input when the pipe is empty and no process has its write end open; a   *)
(* writer is killed when no process has the read end open.  fork and exec  *)
(* may fail, and a program may fail at any time: the code looks at neither *)
(* the process ids nor the status of the children.  The programs are not   *)
(* part of the repository; what is modelled is when they read, write and   *)
(* end.  pipe, whose result the code does not look at either, is taken to  *)
(* succeed.                                                                *)
(***************************************************************************)
EXTENDS Integers, FiniteSets

CONSTANTS Found,     \* the numbers of files that find may find
          Limits,    \* the numbers of lines head may be asked for
          Capacity   \* the lines a pipe can hold

ASSUME PipelineAssumption == /\ Found \subseteq Nat /\ Limits \subseteq Nat
                             /\ Capacity \in Nat \ {0}

VARIABLES stage, k,        \* what the parent does, and for which child
          arguments,       \* argc is 4
          limit,           \* argv[3], and from then on what head has left to print
          created,         \* the children whose fork succeeded
          reaped,          \* the children that waitpid has returned
          child,           \* what a child does
          ends,            \* the descriptors of pipe ends that a process has open
          std,             \* the standard input and output of a child
          pipe,            \* the lines in each pipe
          lines, eof       \* the lines a program has read and not yet written,
                           \* and whether its input has ended

parentVars == <<stage, k, arguments, created, reaped>>
childVars == <<child, std, lines, eof>>
vars == <<parentVars, childVars, limit, ends, pipe>>

Parent == 0
Kids == 1..4
Procs == 0..4
Pipes == 1..3
Terminal == 0        \* the standard input and output that main was given

Ends == Pipes \X {"read", "write"}

(* The pipes that a child takes for its standard input and output.         *)
Input(c) == IF c = 1 THEN Terminal ELSE c - 1
Output(c) == IF c = 4 THEN Terminal ELSE c

IsOpen(e) == \/ \E p \in Procs : e \in ends[p]
             \/ \E c \in Kids : e \in std[c]

Init ==
    /\ stage = "pipes" /\ k = 1
    /\ arguments \in BOOLEAN /\ limit \in Limits
    /\ created = {} /\ reaped = {}
    /\ child = [c \in Kids |-> "none"]
    /\ ends = [p \in Procs |-> {}] /\ std = [c \in Kids |-> {}]
    /\ pipe = [n \in Pipes |-> 0]
    /\ \E n \in Found : lines = [c \in Kids |-> IF c = 1 THEN n ELSE 0]
    /\ eof = [c \in Kids |-> c = 1]

-----------------------------------------------------------------------------
(* The parent.                                                             *)
Goto(s) == stage' = s /\ k' = 1
MakePipes ==
    /\ stage = "pipes" /\ Goto("arguments")
    /\ ends' = [ends EXCEPT ![Parent] = Ends]
    /\ UNCHANGED <<arguments, created, reaped, childVars, limit, pipe>>

(* exit and return close what a process has open.                          *)
CheckArguments ==
    /\ stage = "arguments"
    /\ IF arguments
       THEN Goto("fork") /\ UNCHANGED ends
       ELSE Goto("usage") /\ ends' = [ends EXCEPT ![Parent] = {}]
    /\ UNCHANGED <<arguments, created, reaped, childVars, limit, pipe>>

AfterFork_past == stage' = (IF k < 4 THEN "fork" ELSE "close") /\ k' = k + 1
AfterFork == IF k < 4 THEN stage' = "fork" /\ k' = k + 1 ELSE Goto("close")

Fork ==
    /\ stage = "fork" /\ AfterFork
    /\ created' = created \cup {k}
    /\ child' = [child EXCEPT ![k] = "forked"]
    /\ ends' = [ends EXCEPT ![k] = ends[Parent]]
    /\ UNCHANGED <<arguments, reaped, std, lines, eof, limit, pipe>>

(* fork returns -1, which is neither 0 nor looked at.                      *)
ForkFails ==
    /\ stage = "fork" /\ AfterFork
    /\ UNCHANGED <<arguments, created, reaped, childVars, limit, ends, pipe>>

(* close, six times, of the parent or a child: what it keeps open.         *)
KeptOpen_input(p) == {<<p - 1, "write">>} \cap Ends
KeptOpen(p) == {}

CloseEnds ==
    /\ stage = "close" /\ Goto("wait")
    /\ ends' = [ends EXCEPT ![Parent] = KeptOpen(Parent)]
    /\ UNCHANGED <<arguments, created, reaped, childVars, limit, pipe>>

(* waitpid(pid_k): for that child, or for any one when its fork failed.    *)
Awaited == IF k \in created THEN {k} ELSE created

AfterWait == IF k < 4 THEN stage' = "wait" /\ k' = k + 1 ELSE Goto("success")

WaitReturns ==
    /\ stage = "wait" /\ AfterWait
    /\ \E c \in Awaited \ reaped :
        /\ child[c] = "ended"
        /\ reaped' = reaped \cup {c}
    /\ UNCHANGED <<arguments, created, childVars, limit, ends, pipe>>

(* There is no such child, or not any more: waitpid returns -1.            *)
OnWaitError_ignored == AfterWait
OnWaitError == Goto("failure")

WaitFails ==
    /\ stage = "wait" /\ Awaited \subseteq reaped
    /\ OnWaitError
    /\ UNCHANGED <<arguments, created, reaped, childVars, limit, ends, pipe>>

MainStep == \/ MakePipes \/ CheckArguments \/ Fork \/ ForkFails \/ CloseEnds
            \/ WaitReturns \/ WaitFails

-----------------------------------------------------------------------------
(* A child, up to execl.                                                   *)
Becomes(c, s) == child' = [child EXCEPT ![c] = s]

Exit(c) == /\ Becomes(c, "ended")
           /\ ends' = [ends EXCEPT ![c] = {}] /\ std' = [std EXCEPT ![c] = {}]
           /\ UNCHANGED <<lines, eof>>

Redirect(c) ==
    /\ child[c] = "forked" /\ Becomes(c, "redirected")
    /\ std' = [std EXCEPT ![c] = {<<Input(c), "read">>, <<Output(c), "write">>}]
    /\ UNCHANGED <<lines, eof, ends, pipe, limit>>

CloseInherited(c) ==
    /\ child[c] = "redirected" /\ Becomes(c, "closed")
    /\ ends' = [ends EXCEPT ![c] = KeptOpen(c)]
    /\ UNCHANGED <<std, lines, eof, pipe, limit>>

Exec(c) ==
    /\ child[c] = "closed" /\ Becomes(c, "runs")
    /\ UNCHANGED <<std, lines, eof, ends, pipe, limit>>

ExecFails(c) == child[c] = "closed" /\ Exit(c) /\ UNCHANGED <<pipe, limit>>

-----------------------------------------------------------------------------
(* The programs: find has its lines, xargs passes on what it has read when *)
(* it likes, sort when it has read all, head as long as it has lines to    *)
(* print.                                                                  *)
WantsToRead(c) == ~eof[c] /\ (c = 4 => limit > 0)
WantsToWrite(c) == lines[c] > 0 /\ (c = 3 => eof[c])

(* head prints what it reads, and stops after limit lines.                 *)
Read(c) ==
    /\ child[c] = "runs" /\ WantsToRead(c)
    /\ pipe[Input(c)] > 0
    /\ pipe' = [pipe EXCEPT ![Input(c)] = @ - 1]
    /\ IF c = 4 THEN limit' = limit - 1 /\ UNCHANGED lines
       ELSE lines' = [lines EXCEPT ![c] = @ + 1] /\ UNCHANGED limit
    /\ UNCHANGED <<child, std, eof, ends>>

ReadsEnd(c) ==
    /\ child[c] = "runs" /\ WantsToRead(c)
    /\ pipe[Input(c)] = 0 /\ ~IsOpen(<<Input(c), "write">>)
    /\ eof' = [eof EXCEPT ![c] = TRUE]
    /\ UNCHANGED <<child, std, lines, ends, pipe, limit>>

Write(c) ==
    /\ child[c] = "runs" /\ WantsToWrite(c)
    /\ IsOpen(<<Output(c), "read">>)
    /\ pipe[Output(c)] < Capacity
    /\ pipe' = [pipe EXCEPT ![Output(c)] = @ + 1]
    /\ lines' = [lines EXCEPT ![c] = @ - 1]
    /\ UNCHANGED <<child, std, eof, ends, limit>>

(* SIGPIPE.                                                                *)
WriteKills(c) ==
    /\ child[c] = "runs" /\ WantsToWrite(c)
    /\ ~IsOpen(<<Output(c), "read">>)
    /\ Exit(c) /\ UNCHANGED <<pipe, limit>>

ProgramEnds(c) ==
    /\ child[c] = "runs" /\ ~WantsToRead(c) /\ lines[c] = 0
    /\ Exit(c) /\ UNCHANGED <<pipe, limit>>

(* The program fails, or somebody kills it.                                *)
ProgramFails(c) == child[c] = "runs" /\ Exit(c) /\ UNCHANGED <<pipe, limit>>

-----------------------------------------------------------------------------
KidStep(c) ==
    /\ \/ Redirect(c) \/ CloseInherited(c) \/ Exec(c) \/ ExecFails(c)
       \/ Read(c) \/ ReadsEnd(c) \/ Write(c) \/ WriteKills(c) \/ ProgramEnds(c)
    /\ UNCHANGED parentVars

KidFails(c) == ProgramFails(c) /\ UNCHANGED parentVars

Next == MainStep \/ \E c \in Kids : KidStep(c) \/ KidFails(c)

(* The operating system runs every process that can go on.  Nothing has to *)
(* fail.                                                                   *)
Fairness == WF_vars(MainStep) /\ \A c \in Kids : WF_vars(KidStep(c))

Spec == Init /\ [][Next]_vars /\ Fairness

-----------------------------------------------------------------------------
(* Every variable has its type.                                            *)
PipeTypeOK ==
    /\ stage \in {"pipes", "arguments", "fork", "close", "wait",
                  "usage", "success", "failure"}
    /\ k \in Kids
    /\ arguments \in BOOLEAN /\ limit \in Nat
    /\ created \subseteq Kids /\ reaped \subseteq Kids
    /\ child \in [Kids -> {"none", "forked", "redirected", "closed", "runs", "ended"}]
    /\ ends \in [Procs -> SUBSET Ends]
    /\ std \in [Kids -> SUBSET ((Pipes \cup {Terminal}) \X {"read", "write"})]
    /\ pipe \in [Pipes -> 0..Capacity]
    /\ lines \in [Kids -> Nat] /\ eof \in [Kids -> BOOLEAN]

(* The parent comes to "return 0" (line 155) only when all four children   *)
(* have been created and have ended, although it never looks at what fork  *)
(* returned and asks for any child at all when a fork failed (lines 138 to *)
(* 153).  The status 0 alone says less: with the wrong number of arguments *)
(* it is 0 too (line 31, the stage "usage"), and no child was created.     *)
SuccessMeansAll == stage = "success" => \A c \in Kids : child[c] = "ended"

(* The parent comes back and no child is left behind, whichever fork, exec *)
(* or program fails: no copy of the end of a pipe stays open in a process  *)
(* that waits, so every reader comes to the end of its input and every     *)
(* writer is told that nobody reads.                                       *)
Terminates == <>(/\ stage \in {"usage", "success", "failure"}
                 /\ \A c \in Kids : child[c] \in {"none", "ended"})
=============================================================================
