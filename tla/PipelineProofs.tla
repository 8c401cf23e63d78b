--------------------------- MODULE PipelineProofs ---------------------------
(***************************************************************************)
(* Theorems about the processes of ipc/main.c, for any number of files,    *)
(* any limit and pipes of any size: every variable keeps its type, and the *)
(* parent comes to "return 0" only when all four children have ended.      *)
(***************************************************************************)
EXTENDS Pipeline, FiniteSetTheorems, TLAPS

\* find does not read and head prints what it reads at once, so neither end
\* of the pipeline uses a pipe it does not have.
EndsOfPipeline == eof[1] = TRUE /\ lines[4] = 0

\* Before the parent waits it has collected nothing.  Then each waitpid that
\* returns collects one more child, of those that have ended.
Collected ==
  /\ stage \in {"pipes", "arguments", "fork", "close"} => reaped = {}
  /\ stage = "wait" => Cardinality(reaped) = k - 1
  /\ stage = "success" => Cardinality(reaped) = 4

OnlyEndedCollected == \A c \in reaped : child[c] = "ended"

IInv == PipeTypeOK /\ EndsOfPipeline /\ Collected /\ OnlyEndedCollected

-----------------------------------------------------------------------------

LEMMA KidsFinite == IsFiniteSet(Kids) /\ Cardinality(Kids) = 4
<1>1. Kids = 1 .. 4
  BY DEF Kids
<1>2. 1 \in Int /\ 4 \in Int
  OBVIOUS
<1>3. /\ IsFiniteSet(1 .. 4)
      /\ Cardinality(1 .. 4) = IF 1 > 4 THEN 0 ELSE 4 - 1 + 1
  BY <1>2, FS_Interval, Zenon
<1> QED
  BY <1>1, <1>3

\* A set of children that has all of them, counted.
LEMMA FourAreAll ==
  ASSUME NEW S \in SUBSET Kids
  PROVE  IsFiniteSet(S) /\ (Cardinality(S) = 4 => S = Kids)
<1>1. IsFiniteSet(S) /\ (Cardinality(Kids) = Cardinality(S) => Kids = S)
  BY KidsFinite, FS_Subset, Zenon
<1> QED
  BY <1>1, KidsFinite

\* The pipe that a child reads or writes exists, but for the first and last.
LEMMA PipesOfKids ==
  ASSUME NEW c \in Kids
  PROVE  /\ c # 1 => Input(c) \in Pipes
         /\ c # 4 => Output(c) \in Pipes
BY DEF Input, Output, Kids, Pipes, Terminal

LEMMA InitInvariant == Init => IInv
<1> SUFFICES ASSUME Init PROVE IInv
  OBVIOUS
<1>1. limit \in Nat /\ Capacity \in Nat
  BY PipelineAssumption DEF Init
<1>2. PICK n \in Found : lines = [c \in Kids |-> IF c = 1 THEN n ELSE 0]
  BY DEF Init
<1>3. lines \in [Kids -> Nat] /\ lines[4] = 0
  BY <1>2, PipelineAssumption DEF Kids
<1>4. PipeTypeOK
  BY <1>1, <1>3 DEF Init, PipeTypeOK, Kids, Pipes
<1>5. EndsOfPipeline
  <2>1. eof = [c \in Kids |-> c = 1] /\ 1 \in Kids
    BY DEF Init, Kids
  <2>2. eof[1] = TRUE
    BY <2>1
  <2> QED
    BY <1>3, <2>2 DEF EndsOfPipeline
<1>6. Collected /\ OnlyEndedCollected
  BY DEF Init, Collected, OnlyEndedCollected
<1> QED
  BY <1>4, <1>5, <1>6 DEF IInv

-----------------------------------------------------------------------------
\* The steps of the parent.

\* A step before the parent waits: nothing is collected, so it does not
\* matter what becomes of the children.
LEMMA BeforeTheWaits ==
  ASSUME IInv, PipeTypeOK', UNCHANGED <<lines, eof, reaped>>,
         reaped = {},
         stage' \in {"arguments", "fork", "close", "usage"} \/ (stage' = "wait" /\ k' = 1)
  PROVE  IInv'
<1>1. Cardinality(reaped') = 0
  BY FS_EmptySet
<1>2. Collected'
  BY <1>1 DEF Collected
<1>3. EndsOfPipeline' /\ OnlyEndedCollected'
  BY DEF IInv, EndsOfPipeline, OnlyEndedCollected
<1> QED
  BY <1>2, <1>3 DEF IInv

LEMMA MakePipesInvariant == IInv /\ MakePipes => IInv'
<1> SUFFICES ASSUME IInv, MakePipes PROVE IInv'
  OBVIOUS
<1>1. PipeTypeOK'
  BY DEF IInv, PipeTypeOK, MakePipes, Goto, childVars, Kids, Procs, Parent
<1>2. reaped = {} /\ stage' = "arguments" /\ UNCHANGED <<lines, eof, reaped>>
  BY DEF IInv, Collected, MakePipes, Goto, childVars
<1> QED
  BY <1>1, <1>2, BeforeTheWaits

LEMMA CheckArgumentsInvariant == IInv /\ CheckArguments => IInv'
<1> SUFFICES ASSUME IInv, CheckArguments PROVE IInv'
  OBVIOUS
<1>1. PipeTypeOK'
  BY DEF IInv, PipeTypeOK, CheckArguments, Goto, childVars, Kids, Procs, Parent
<1>2. /\ reaped = {} /\ stage' \in {"fork", "usage"}
      /\ UNCHANGED <<lines, eof, reaped>>
  BY DEF IInv, Collected, CheckArguments, Goto, childVars
<1> QED
  BY <1>1, <1>2, BeforeTheWaits

LEMMA ForkFacts ==
  ASSUME IInv, AfterFork
  PROVE  stage' \in {"fork", "close"} /\ k' \in Kids
BY DEF IInv, PipeTypeOK, AfterFork, Goto, Kids

LEMMA ForkInvariant == IInv /\ (Fork \/ ForkFails) => IInv'
<1> SUFFICES ASSUME IInv, Fork \/ ForkFails PROVE IInv'
  OBVIOUS
<1>1. stage' \in {"fork", "close"} /\ k' \in Kids
  BY ForkFacts DEF Fork, ForkFails
<1>2. k \in Procs /\ Parent \in Procs /\ k \in Kids
  BY DEF IInv, PipeTypeOK, Procs, Kids, Parent
<1>3. PipeTypeOK'
  BY <1>1, <1>2 DEF IInv, PipeTypeOK, Fork, ForkFails, childVars
<1>4. reaped = {} /\ UNCHANGED <<lines, eof, reaped>>
  BY DEF IInv, Collected, Fork, ForkFails, childVars
<1> QED
  BY <1>1, <1>3, <1>4, BeforeTheWaits

LEMMA CloseEndsInvariant == IInv /\ CloseEnds => IInv'
<1> SUFFICES ASSUME IInv, CloseEnds PROVE IInv'
  OBVIOUS
<1>1. PipeTypeOK'
  BY DEF IInv, PipeTypeOK, CloseEnds, KeptOpen, Goto, childVars, Kids, Procs, Parent
<1>2. /\ reaped = {} /\ stage' = "wait" /\ k' = 1
      /\ UNCHANGED <<lines, eof, reaped>>
  BY DEF IInv, Collected, CloseEnds, Goto, childVars
<1> QED
  BY <1>1, <1>2, BeforeTheWaits

\* waitpid returns: one more child is collected, and the next one is asked
\* for, or the parent is done after the fourth.
LEMMA WaitReturnsInvariant == IInv /\ WaitReturns => IInv'
<1> SUFFICES ASSUME IInv, WaitReturns PROVE IInv'
  OBVIOUS
<1>1. PICK c \in Awaited \ reaped : child[c] = "ended" /\ reaped' = reaped \cup {c}
  BY DEF WaitReturns
<1>2. c \in Kids
  BY <1>1 DEF IInv, PipeTypeOK, Awaited
<1>3. k \in 1 .. 4 /\ stage = "wait" /\ Cardinality(reaped) = k - 1
  BY DEF IInv, PipeTypeOK, Collected, WaitReturns, Kids
<1>4. Cardinality(reaped') = k
  <2>1. IsFiniteSet(reaped)
    BY FourAreAll DEF IInv, PipeTypeOK
  <2>2. Cardinality(reaped') = Cardinality(reaped) + 1
    BY <1>1, <2>1, FS_AddElement
  <2> QED
    BY <1>3, <2>2
<1>5. \/ stage' = "wait" /\ k' = k + 1 /\ k < 4
      \/ stage' = "success" /\ k' = 1 /\ k = 4
  BY <1>3 DEF WaitReturns, AfterWait, Goto
<1>6. PipeTypeOK'
  BY <1>1, <1>2, <1>3, <1>5 DEF IInv, PipeTypeOK, WaitReturns, childVars, Kids
<1>7. Collected'
  BY <1>3, <1>4, <1>5 DEF Collected
<1>8. EndsOfPipeline' /\ OnlyEndedCollected'
  BY <1>1 DEF IInv, EndsOfPipeline, OnlyEndedCollected, WaitReturns, childVars
<1> QED
  BY <1>6, <1>7, <1>8 DEF IInv

LEMMA WaitFailsInvariant == IInv /\ WaitFails => IInv'
<1> SUFFICES ASSUME IInv, WaitFails PROVE IInv'
  OBVIOUS
<1>1. PipeTypeOK'
  BY DEF IInv, PipeTypeOK, WaitFails, OnWaitError, Goto, childVars, Kids
<1>2. Collected' /\ EndsOfPipeline' /\ OnlyEndedCollected'
  BY DEF IInv, Collected, EndsOfPipeline, OnlyEndedCollected, WaitFails, OnWaitError, Goto, childVars
<1> QED
  BY <1>1, <1>2 DEF IInv

-----------------------------------------------------------------------------
\* The steps of a child.

\* A child that has not ended has not been collected.
LEMMA KidElsewhere ==
  ASSUME IInv, UNCHANGED parentVars, PipeTypeOK', EndsOfPipeline',
         NEW c \in Kids, child[c] # "ended",
         \A d \in Kids : d # c => child'[d] = child[d]
  PROVE  IInv'
<1>1. Collected'
  BY DEF IInv, Collected, parentVars
<1>2. OnlyEndedCollected'
  BY DEF IInv, PipeTypeOK, OnlyEndedCollected, parentVars
<1> QED
  BY <1>1, <1>2 DEF IInv

\* Up to execl, and whenever it ends, a child changes what it does and which
\* descriptors it has, and no data.
LEMMA DescriptorsInvariant ==
  ASSUME IInv, UNCHANGED parentVars, UNCHANGED <<lines, eof, pipe, limit>>,
         NEW c \in Kids, child[c] # "ended",
         NEW s \in {"redirected", "closed", "runs", "ended"}, Becomes(c, s),
         ends' \in [Procs -> SUBSET Ends],
         std' \in [Kids -> SUBSET ((Pipes \cup {Terminal}) \X {"read", "write"})]
  PROVE  IInv'
<1>1. child' \in [Kids -> {"none", "forked", "redirected", "closed", "runs", "ended"}]
  BY DEF IInv, PipeTypeOK, Becomes
<1>2. PipeTypeOK'
  BY <1>1 DEF IInv, PipeTypeOK, parentVars
<1>3. EndsOfPipeline'
  BY DEF IInv, EndsOfPipeline
<1>4. \A d \in Kids : d # c => child'[d] = child[d]
  BY DEF IInv, PipeTypeOK, Becomes
<1> QED
  BY <1>2, <1>3, <1>4, KidElsewhere

LEMMA ExitInvariant ==
  ASSUME IInv, UNCHANGED parentVars, UNCHANGED <<pipe, limit>>,
         NEW c \in Kids, child[c] # "ended", Exit(c)
  PROVE  IInv'
<1>1. c \in Procs
  BY DEF Kids, Procs
<1>2. /\ ends' \in [Procs -> SUBSET Ends]
      /\ std' \in [Kids -> SUBSET ((Pipes \cup {Terminal}) \X {"read", "write"})]
  BY <1>1 DEF IInv, PipeTypeOK, Exit
<1> QED
  BY <1>2, DescriptorsInvariant DEF Exit

LEMMA UpToExecInvariant ==
  ASSUME IInv, UNCHANGED parentVars, NEW c \in Kids,
         Redirect(c) \/ CloseInherited(c) \/ Exec(c)
  PROVE  IInv'
<1>1. c \in Procs
  BY DEF Kids, Procs
<1>2. CASE Redirect(c)
  <2>1. Input(c) \in Pipes \cup {Terminal} /\ Output(c) \in Pipes \cup {Terminal}
    BY DEF Input, Output, Kids, Pipes, Terminal
  <2>2. std' \in [Kids -> SUBSET ((Pipes \cup {Terminal}) \X {"read", "write"})]
    BY <1>2, <2>1 DEF IInv, PipeTypeOK, Redirect
  <2>3. ends' \in [Procs -> SUBSET Ends]
    BY <1>2 DEF IInv, PipeTypeOK, Redirect
  <2> QED
    BY <1>2, <2>2, <2>3, DescriptorsInvariant DEF Redirect
<1>3. CASE CloseInherited(c)
  <2>1. /\ ends' \in [Procs -> SUBSET Ends]
        /\ std' \in [Kids -> SUBSET ((Pipes \cup {Terminal}) \X {"read", "write"})]
    BY <1>1, <1>3 DEF IInv, PipeTypeOK, CloseInherited, KeptOpen
  <2> QED
    BY <1>3, <2>1, DescriptorsInvariant DEF CloseInherited
<1>4. CASE Exec(c)
  <2>1. /\ ends' \in [Procs -> SUBSET Ends]
        /\ std' \in [Kids -> SUBSET ((Pipes \cup {Terminal}) \X {"read", "write"})]
    BY <1>4 DEF IInv, PipeTypeOK, Exec
  <2> QED
    BY <1>4, <2>1, DescriptorsInvariant DEF Exec
<1> QED
  BY <1>2, <1>3, <1>4

\* find does not read, so what is read is in a pipe.
LEMMA ReadInvariant ==
  ASSUME IInv, UNCHANGED parentVars, NEW c \in Kids, Read(c)
  PROVE  IInv'
<1>1. c # 1
  BY DEF IInv, EndsOfPipeline, Read, WantsToRead
<1>2. Input(c) \in Pipes
  BY <1>1, PipesOfKids
<1>3. pipe' \in [Pipes -> 0 .. Capacity]
  BY <1>2, PipelineAssumption DEF IInv, PipeTypeOK, Read
<1>4. /\ limit' \in Nat /\ lines' \in [Kids -> Nat]
      /\ lines'[4] = 0
  <2>1. CASE c = 4
    BY <2>1 DEF IInv, PipeTypeOK, EndsOfPipeline, Read, WantsToRead
  <2>2. CASE c # 4
    BY <2>2 DEF IInv, PipeTypeOK, EndsOfPipeline, Read, Kids
  <2> QED
    BY <2>1, <2>2
<1>5. PipeTypeOK'
  BY <1>3, <1>4 DEF IInv, PipeTypeOK, Read, parentVars
<1>6. EndsOfPipeline'
  BY <1>4 DEF IInv, EndsOfPipeline, Read
<1> QED
  BY <1>5, <1>6, KidElsewhere DEF Read

LEMMA ReadsEndInvariant ==
  ASSUME IInv, UNCHANGED parentVars, NEW c \in Kids, ReadsEnd(c)
  PROVE  IInv'
<1>1. PipeTypeOK'
  BY DEF IInv, PipeTypeOK, ReadsEnd, parentVars
<1>2. EndsOfPipeline'
  BY DEF IInv, PipeTypeOK, EndsOfPipeline, ReadsEnd, Kids
<1> QED
  BY <1>1, <1>2, KidElsewhere DEF ReadsEnd

\* head has nothing left to write, so what is written goes into a pipe.
LEMMA WriteInvariant ==
  ASSUME IInv, UNCHANGED parentVars, NEW c \in Kids, Write(c)
  PROVE  IInv'
<1>1. c # 4 /\ lines[c] > 0
  BY DEF IInv, EndsOfPipeline, Write, WantsToWrite
<1>2. Output(c) \in Pipes
  BY <1>1, PipesOfKids
<1>3. pipe' \in [Pipes -> 0 .. Capacity]
  BY <1>2, PipelineAssumption DEF IInv, PipeTypeOK, Write
<1>4. lines' \in [Kids -> Nat] /\ lines'[4] = 0
  BY <1>1 DEF IInv, PipeTypeOK, EndsOfPipeline, Write, Kids
<1>5. PipeTypeOK'
  BY <1>3, <1>4 DEF IInv, PipeTypeOK, Write, parentVars
<1>6. EndsOfPipeline'
  BY <1>4 DEF IInv, EndsOfPipeline, Write
<1> QED
  BY <1>5, <1>6, KidElsewhere DEF Write

LEMMA KidInvariant ==
  ASSUME IInv, NEW c \in Kids, KidStep(c) \/ KidFails(c)
  PROVE  IInv'
<1>1. UNCHANGED parentVars
  BY DEF KidStep, KidFails
<1>2. CASE Redirect(c) \/ CloseInherited(c) \/ Exec(c)
  BY <1>1, <1>2, UpToExecInvariant
<1>3. CASE Read(c)
  BY <1>1, <1>3, ReadInvariant
<1>4. CASE ReadsEnd(c)
  BY <1>1, <1>4, ReadsEndInvariant
<1>5. CASE Write(c)
  BY <1>1, <1>5, WriteInvariant
<1>6. CASE ExecFails(c) \/ WriteKills(c) \/ ProgramEnds(c) \/ ProgramFails(c)
  BY <1>1, <1>6, ExitInvariant DEF ExecFails, WriteKills, ProgramEnds, ProgramFails
<1> QED
  BY <1>2, <1>3, <1>4, <1>5, <1>6 DEF KidStep, KidFails

-----------------------------------------------------------------------------

LEMMA NextInvariant == IInv /\ [Next]_vars => IInv'
<1> SUFFICES ASSUME IInv, [Next]_vars PROVE IInv'
  OBVIOUS
<1>1. CASE MainStep
  BY <1>1, MakePipesInvariant, CheckArgumentsInvariant, ForkInvariant, CloseEndsInvariant,
     WaitReturnsInvariant, WaitFailsInvariant DEF MainStep
<1>2. CASE \E c \in Kids : KidStep(c) \/ KidFails(c)
  BY <1>2, KidInvariant
<1>3. CASE UNCHANGED vars
  BY <1>3 DEF vars, parentVars, childVars, IInv, PipeTypeOK, EndsOfPipeline, Collected,
              OnlyEndedCollected
<1> QED
  BY <1>1, <1>2, <1>3 DEF Next

\* The inductive invariant holds in every reachable state: who holds the ends
\* of an open pipe, and that the parent collected one child for each wait.
THEOREM Invariant == Spec => []IInv
<1> QED
  BY InitInvariant, NextInvariant, PTL DEF Spec

\* Type correctness: the parent's loop over the children stays in range, a
\* pipe never holds more than it can, and head never prints more than it was
\* asked for.
THEOREM TypeCorrect == Spec => []PipeTypeOK
<1>1. IInv => PipeTypeOK
  BY DEF IInv
<1> QED
  BY <1>1, Invariant, PTL

\* ipc/main.c lines 138 to 155: when the parent comes to "return 0", four
\* children were created and have ended, although nobody looks at what fork
\* returned.
THEOREM ZeroMeansAllEnded == Spec => []SuccessMeansAll
<1>1. IInv => SuccessMeansAll
  <2> SUFFICES ASSUME IInv, stage = "success" PROVE \A c \in Kids : child[c] = "ended"
    BY DEF SuccessMeansAll
  <2>1. reaped = Kids
    BY FourAreAll DEF IInv, PipeTypeOK, Collected
  <2> QED
    BY <2>1 DEF IInv, OnlyEndedCollected
<1> QED
  BY <1>1, Invariant, PTL
=============================================================================
