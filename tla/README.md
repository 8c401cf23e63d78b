# A verification project for EECS678

The repository holds the programs of an operating-systems course. They do not
share code, except that `project2` is three layers: a priority queue, a CPU
scheduler library built on it, and a simulator that drives the scheduler. This
directory models them in TLA+, checks small instances with TLC and proves the
main invariants with TLAPS. `PROJECT.json` lists, for every definition, the lines
of the source that it models, and for every run what it checks.

## Inventory

| part | state | operations | interacts with | hard behaviour | what makes it correct |
|---|---|---|---|---|---|
| `project2/libpriqueue` | singly linked nodes, a comparer | offer, peek, poll, at, remove, remove_at, size, destroy | called by libscheduler; calls the comparer back | boundaries (empty list, head, ties), nodes leaked or lost | the list is the sequence the documentation describes |
| `project2/libscheduler` | one list with running and waiting jobs, a record per job, an activity flag per core, three sums | start_up, new_job, job_finished, quantum_expired, three averages, clean_up | called by the simulator, which must act on the return values | long sequences of calls; keys that change inside a sorted list; times that are only sometimes brought up to date | one job per core, no core idle while a job waits, the right job gets the core, exact statistics |
| `project2/simulator.c` | its own array of jobs, with its own idea of who runs where; a quantum clock per core; the time | the phases of a time unit | calls libscheduler, mirrors its decisions | order of events in one time unit, deletion during iteration, two copies of the same state | both copies agree, none of its checks fails, it ends |
| `pthreads_pc/*.c` (three programs) | a mutex per chopstick (or flags under a waiter's mutex), a Stop flag, progress counters | think, take, eat, release; the monitor; the shutdown | threads share mutexes, flags and counters | all interleavings; deadlock and its detection; unlocking on behalf of others | neighbours never eat together, someone always can go on, the program ends |
| `ipc/main.c` | three pipes, five processes with copies of six descriptors | fork, dup2, close, exec, waitpid | end of file travels through the pipes | a reader waits for ever when one write end stays open | the parent comes back |
| `signals/main.c` | the Ctrl-C counter, the alarm | three handlers | handlers interrupt `pause`, `fgets` and one another | a pending alarm, nesting | the user who answers is not thrown out |
| `project3Graphical/main.cpp` | a list of blocks | allocate (find, split), free | drawn by `SFMLMemBlock` | sequences of allocations and frees | blocks partition the memory, none is handed out twice |
| `project3/main.cpp`, `list.h` | free areas per order | init, an unfinished alloc, an empty free | - | - | superseded by the graphical version |
| `pthread/main.c` | a counter, a mutex | add in a loop | threads share the counter | lost updates | the total |
| `qsortfunctionptrs/main.c` | an array | sort by arrival, by priority | calls `qsort` of the C library | - | the order |
| `project2/doc/doc/html/search/search.js`, `index.html` | the search panel's flags, its text field, what is displayed, up to two kinds of timers, a frame with the results | the handlers of keys, mouse, focus and timers | the page calls `SearchBox`, the frame calls `SearchResults`, which calls back into the page | a timer that is forgotten but runs on; a timer that races the mouse; focus that moves while a page is loaded; indices over rows of which some are hidden | the panel, the field and the frame tell the same story; the menu stays under the mouse; the arrow keys follow what is displayed |
| `navtree.js`, `navtreeindex.js`, `resize.js`, `jquery.js` | the tree of pages, its width | - | - | - | see "Not modelled" |
| `queuetest.c`, `examples.pl`, `examples/`, the rest of `doc/` | - | tests, expected outputs, generated pages | - | - | - |

`EECS678/` and `Shell/` are submodules whose contents are not in the repository.

`PROJECT.json` "hazards" lists what is hard to test in each part, at its line,
with the properties that watch it.

## What is modelled so far

### The modules

    PriqueueOps  <-- Scheduler <-- Simulator
      ^     ^           ^    ^
      |     |           |    +--- SchedulerDispatch  (refinement of Dispatcher)
      |   PriqueueTheorems <-- SchedulerProofs --> SchedulerDispatch
      |           ^                   ^
      |           |       Simulator <-- SimulatorHorizon <-- SimulatorProofs
      |           |
      |           +---- PriqueueListProofs
      |                         |
    Priqueue  <-- PriqueueList <+  (refinement of Priqueue)

    Table <-- Dining <-- DiningProofs
      ^
    DiningWaiter <-- DiningWaiterProofs

    Pipeline <-- PipelineProofs

    SearchBox, SearchResults <-- SearchPage <-- SearchProofs

* **PriqueueOps** — what the queue functions that the scheduler calls compute, on
  the sequence of data pointers, head first. `OfferIndex` is the position at which
  `priqueue_offer` links a node in, from the results of the comparer;
  `priqueue_remove_at` is `RemoveAt` of the community module SequencesExt;
  `FirstIn` is the scan loop of the scheduler.
* **Priqueue** — the queue without its nodes, call by call: the effect on the sequence and
  the result. It has two specifications. `Comments` is what the comments of
  `libpriqueue.c` promise, with what `queuetest.c` expects; `Spec` is what the
  code can be relied on for. They share the actions on which the two agree
  (`AgreedReturns`), and differ where the code does: what `priqueue_offer` returns
  (`StoredAt`, `LastIndex`), which elements `priqueue_remove` takes out (those equal to `ptr`,
  or those in `Alike`), whether it may fail when the first element is one of them
  (`FirstMatches`), and what becomes of a call for an element that is not there (`NullReturns`, or
  `BecomesUndefined`).
* **PriqueueList** — the same library pointer by pointer: nodes on a heap of
  addresses, `malloc` and `free`, local variables, and one step for an iteration of
  a loop. The caller is the most general one. `previous` in `priqueue_remove` is
  uninitialised (line 146): its value is any of what may be left on the stack, and a
  step that writes through it damages the list or crashes. The refinement maps the
  list to its sequence between calls, and to the sequence of before the call during
  one. `PriqueueList` implements `Priqueue!Spec` (`ImplementsPriqueue`) and not
  `Priqueue!Comments` (`KeepsComments`, a finding).
* **Scheduler** — `libscheduler.c`. Each function is an action of the same name.
  `QUEUE` is the list, `job` the allocated `job_t` records by job number (its domain
  grows with `malloc` and shrinks with `free`), `active` the field of `core_list`,
  and the three sums are the globals. The last parameter of an action is the value
  that the C function returns, for the caller to act on. A comparer works on
  records, so the lines that change a record before `priqueue_offer` and those that
  change it after are kept apart (`RecordsAtOffer`).
  `SchedSpec` adds the most general caller that respects what the comments of the
  library ask for: unique arrival times (line 158), a job is reported when it has run
  for its running time, and quantums expire at any time but only with RR (line 310).
* **Dispatcher** — the abstract specification: no queue, a set of jobs with the
  exact time each still needs, and one rule per scheme for which job is more urgent.
  An idle core is only idle when nobody waits, a newcomer takes the lowest idle core
  or, with a preemptive scheme, the core of the least urgent running job, and a core
  that is given up goes to a most urgent waiting job.
* **SchedulerDispatch** — the refinement mapping: a core runs the job whose record
  names it, the time a job needs is what `StillToRun` computes from its last start.
* **Simulator** — `simulator.c` with the library. An action is one iteration of
  the loop of a phase that calls the library, or the step to the next phase; the
  loop index `i` is part of the state because entries are deleted and swapped while
  the loop runs. The file and the command line are one `workload`. `spent` is a
  history variable: what the jobs went through, counted unit by unit.
* **SimulatorHorizon** — the simulator with the workload it was started with kept beside
  it, so that what becomes of a file can be said of the whole run: when it ends, that its steps lead
  there, and that its jobs are dispatched as `Dispatcher` says. `Asked` are the units of time of the file, as
  pairs of a job and a unit, `StillNeeded` those of the array.
* **Table** — what the three dining programs share, line for line: `set_table` and
  the thread `main`, whose loops over the philosophers are interleaved with them
  one iteration at a time. A mutex is a Boolean. `main` unlocks mutexes that others
  have locked; POSIX leaves that undefined, and the default mutex of the C library
  that the Makefile links is then free, whoever had it, which is what is modelled. `prog` is
  reduced to "is not zero", the only thing `main` asks: `prog++` makes it true from
  whatever value it read, so a meal that ends while `main` resets the marks is counted
  in the next period, here as there. `sleep` may end at any time.
* **Dining** — the threads of `dining_philosophers.c` and `dp_asymmetric.c`, which differ in the
  order of the chopsticks: the variable `order`, chosen before the first step, says which of the two
  programs runs. One action per access to shared state.
* **DiningWaiter** — the threads of `dp_waiter.c`. The condition of its `while` is
  true for any pointers, so there is no action that waits; the flags are indexed by
  flags, as in the code.
* **Pipeline** — `ipc/main.c`: the parent and its four children. `ends` is who has
  which descriptor open, `std` what `dup2` has put in place of the standard input and
  output. `fork`, `execl` and the programs may fail at any time, which the code does
  not look at (nor at the result of `pipe`, which the model takes to succeed); `waitpid` for a child that was never created asks for any child. Each
  loop of `close` is one action, because nothing else sees the state in between. The
  programs (find, xargs, sort, head) are external: they read, write and end.
* **SearchBox** — the class `SearchBox` of `search.js`. The object and the elements
  of the page that it reads and writes are one record `box`, and a method is a
  function on that record, because a handler calls several of them in a row, and moving the
  focus calls one in the middle of another.
* **SearchResults** — the class `SearchResults` and the page in the frame: which rows
  are displayed, which children are, where Up and Down lead from a link, and the
  state machine of keydown, keypress and keyup (`ProcessKeys`).
* **SearchPage** — the two on one page: the handlers that `index.html` binds, the
  keys and the mouse of the reader, the timers, and the page that arrives in the
  frame. A key that goes down in one element comes up in the one that has the focus
  by then. Only keys, clicks, and timers that some element is bound to have an
  action; following a link to another page ends the session.
* **MCScheduler**, **MCSimulator**, **MCPriqueueList**, **MCSearch** — the instances.
* **PriqueueTheorems**, **PriqueueListProofs**, **SchedulerProofs**, **SimulatorProofs**,
  **DiningProofs**, **DiningWaiterProofs**, **PipelineProofs**, **SearchProofs** — the proofs.

`search.js` was written by the documentation generator and checked in with its
output. It is modelled for any tables and any result pages. In this repository the
tables `indexSectionsWithContent` and `indexSectionNames` are empty, so that every
search fails at the table; the run `search` has that page and one with a section.

Definitions with a suffix, such as `LowestIdle_unchecked`, are the next definition
with a plausible bug. No specification uses them; they show that a property
notices the bug (`PROJECT.json` "mutants").

### The runs

| run | what it asks | instance |
|---|---|---|
| `scheduler` | is the bookkeeping of the library consistent, and does it dispatch as `Dispatcher` says, under any caller that respects its contract? | 3 jobs, 6 schemes on 1 and 2 cores (PSJF on 1), running times 1 and 3, two priorities, time up to 4 |
| `simulator` | do the program and the library agree, are the statistics exact, does the program end, and within the time its file asks for? | every file with 3 jobs and arrival times in any order, and every file with 4 jobs that arrive one after the other; no job at all, 1 job arriving by 3, 2 jobs arriving by 5 in any order; running times 1 to 3; 6 schemes, quantums 1 and 2, 1 to 3 cores |
| `psjf` | does PSJF run the shortest jobs on two cores? No. | 3 jobs, running times 1 to 4 |
| `response` | is the response time the time to the first time unit, as the expected outputs have it? No. | `examples/proc2.csv`, PSJF, 1 core |
| `dining` | is a chopstick in one hand only, is a deadlocked table found out and released; with the alternating order, can somebody always go on, does the program end? | 3 philosophers, either order, 2 periods |
| `dining_shutdown` | can every philosopher exit once told to stop? No, with the left chopstick first. | 3 philosophers, either order, 2 periods |
| `waiter` | does the waiter serve one at a time, does the program end? | 3 philosophers, 2 periods |
| `waiter_neighbours` | do neighbours eat apart? No. | 3 philosophers, 1 period |
| `queue` | does the pointer code do what `Priqueue!Spec` says, touch only memory it has, and come back? | 4 nodes, 3 data pointers of which two have the same key, indices -1 to 3, any sequence of calls |
| `queue_comments` | does it do what its comments say? No. | the same |
| `pipeline` | does the parent come back with no child left behind, and what has happened when it comes to `return 0`? | 0 or 3 files, a limit of 0, 1 or 4, pipes that hold one line; every fork, exec and program may fail |
| `search` | do panel, field, focus and frame agree under any keys, mouse moves and timers? | 0 or 1 sections, 5 texts (empty, one space, the label, and two that differ in a space), 3 rows of which two have 2 children, one search timer that nobody can stop |

Why these bounds are enough. The branches of the library depend on the number of
idle cores (none, one, two), on whether the head of the queue is full of running
jobs, and on the place of a job among its neighbours. Three jobs on one core
give one running and two waiting ones, so that an insertion goes before, between
and behind; three jobs on two cores preempt, hand over and leave idle. Running
times 1 and 3 make ties, short jobs that overtake a long one and jobs preempted
twice. The time bound of `scheduler` lets all three jobs arrive, run and be
preempted. In `simulator` no bound on the time is ever reached: the files are finite.
With two jobs the arrivals can be so far apart that the program idles between them. An `ASSUME` of
`MCSimulator` has TLC check that `MaxTime` is beyond the last unit of every file.
Four jobs give a swap of the last entry into each position and round robin with two
jobs ahead. Three cores cover a partly idle machine with two running jobs.

Three philosophers are the smallest odd table, where two philosophers with an even number are
neighbours and the order of `dp_asymmetric.c` has its exception; the safety
properties are proved for every number. Two periods let marks of one period be
left for the next, which is as far back as the monitor looks.

The queue of `queue` has up to four nodes: a first, a last and two between, so that
an insertion, a removal and an index meet every position; two data pointers with one
key are a tie. A pipe that holds one line is full after one; three lines are
more than a pipe, a reader and a limit of 1 take, so that a writer is killed, and less
than the limit of 4, so that a reader comes to the end. In `search` two
texts of one page differ in a space only, which one comparison of the code sees and another does
not; each hides rows that the other shows; one row without children lies behind two with children, of which a last
child is not the first. `MaxStrays` is named in the guards of the menu's actions; the invariant
and all properties of the run are proved for every value of it. `hides` never reaches
its bound.

Deadlock checking is on in `search`, where the reader can always do something. It
is off in the others: the caller of the library stops at `MaxTime`, a program that
crashed stays where it is, and the programs end.

What the properties say:

* `QueueHoldsLiveJobs`, `CoresMatch`, `WorkConserving` — no job is lost or freed
  twice; the flag of a core, and the core ids of the jobs, which are updated in
  different places, describe one assignment; no core idles while a job waits.
* `RunningFirst` — what `scheduler_new_job` takes for granted at line 208. It is
  not obvious: it holds because an idle core with a preemptive scheme means that no
  job waits, so the queue is full of running jobs when the last core is taken, and
  because the first waiting job after a completion is the one that moves up to
  position `num_cores`.
* `SortedQueue` — the list keeps the order of its comparer, with a head that is
  compared differently (libpriqueue.c:48 and 57) and, for PSJF, keys that change
  in place. With PSJF on several cores it does not hold; see the findings.
* `NonPreemptive`, `ImplementsDispatcher` — what a step may do at all.
* `NoFailure`, `CoresAgree`, `RunTimesAgree`, `StatisticsExact`,
  `RoundRobinBound` — the two programs together. `RoundRobinBound` is the bound on
  the wait for the next turn that a job appended at the end of the queue has.
* `HonoursScheduler` — the simulator is a caller that `SchedSpec` allows, so that
  what is proved of `SchedSpec` holds of the program.
* `EndsInTime` — time never passes the last arrival by more than the units that all jobs ask for, so in
  every unit somebody runs or somebody is still to come, and no preemption or quantum costs a unit.
* Two formulas are proved and in no run. `AllFreedAtEnd`, that nothing is left to free at the end, is
  what `CoresAgree` says of the last phase. `StepsForward`, that between two units no phase goes round in
  circles although the first one deletes entries while it walks over the array
  (simulator.c:261-265), is a part of what `Terminates` needs: with `EndsInTime` it bounds the number of steps
  without any fairness. That the program is never stuck before its end is left to `Terminates`.
* `ChopsticksExclusive`, `LockedIsHeld` — what the mutexes are for. The first holds
  until `main` starts to unlock chopsticks that others have; from then on two
  neighbours may well eat at the same time, and each unlocks the other's mutex. The
  second says that this still leaves no mutex locked for ever.
* `DeadlockDetected`, `DeadlockReleased` — a deadlock that begins while a whole period is
  still to come, this one or a later one, leads to the verdict and to the end of the program,
  whatever `main` is doing when it begins. In the middle of a reset or of a sleep, marks
  of meals before it are left and hide it from the next check; that they hide it from
  that one only is what the properties say. (A deadlock that begins within the
  last period is reported as "Finished without Deadlock"; a slow table may be
  reported as deadlocked, since nothing relates the sleep to the threads.)
* `SomebodyCanGoOn` — with the order of `dp_asymmetric.c`, no set of threads waits for one another, not even when some of
  them have exited.
* `WaiterServesOne` — the flags are only touched by the one who has the waiter.
* `UsesLiveMemory`, `ListSorted`, `ImplementsPriqueue` — no node is lost or linked in
  twice, no freed node is followed, over any sequence of calls. The last compares the
  pointer code with what the code is said to do, departures from the comments included
  (`Priqueue!Spec`); what it adds is that nothing else goes wrong: every other result and effect
  is right, and the list is only damaged, and the program only crashes, in a call for an element that is not
  there or in the removal of a first element that matches.
* `KeepsComments` — the comments themselves; it does not hold.
* `CallsReturn` — the loops end, under weak fairness of the call under way: one
  thread, which nothing blocks.
* `SuccessMeansAll` — the parent comes to `return 0` (line 155) only after four children. The
  status 0 alone does not say so: with a wrong number of arguments `exit(0)` (line 31, the stage
  "usage") gives it too, with no child.
* `Terminates` of the pipeline — under weak fairness of the
  parent and of each child, not of their failures: no copy of a descriptor is left
  open in a process that waits, so every reader comes to its end and every writer
  is told that nobody reads.
* `BoxAgrees` — results that are displayed can be closed and are those that the
  panel believes it shows. `Search` sets `keyTimeout` to 0 without stopping the
  timer, so that a search may start long after the panel was left; the property
  says that even this keeps the parts together.
* `MenuStaysUnderMouse` — the timer that closes the menu never outlives the return
  of the mouse: at most one is running, and `hideTimeout` names it.
* `NavFollowsDisplay` — `NavNext`, `NavPrev` and the child functions compute indices
  without looking at the display; they agree with it because the rows that a search
  displays are consecutive, which the module assumes (`RowAssumption`): the generator sorts
  them. (With rows that are not, line 623 would look the last child up in a row that is
  hidden; the property does not cover that.)
* `FocusVisible` — what has the focus in the frame is displayed, with one exception that the
  property names and therefore does not catch: the emptied field below.
* `SearchTypeOK` — the index of the section stays in the table or one past it. One
  past it is reached: Down in the menu (line 285) stops one too late, and a search
  then fails at the table. The property admits this; it does not catch it.
* `Terminates` of the dining programs — under weak fairness of each thread: the
  operating system runs every thread that can go on. No fairness of mutexes is
  assumed, and none is needed, because after Stop each thread takes each chopstick at
  most once more.
* `Terminates` of the simulator — under weak fairness of the whole next-state relation: one process
  that never blocks, so the operating system runs it until it ends.

### Findings

* **psjf** — the library brings `time_remaining` up to date for the first `num_cores`
  jobs, only when no core is idle, and only when a job arrives. On two cores a job
  that is offered while a core is idle is compared with times that are no longer
  true, and can end up as the one that gives way, or not at all, for the wrong job.
* **response** — a job counts as having responded when it is woken
  (libscheduler.c:296). An arrival in the same time unit can preempt it before it has
  run. For `examples/proc2.csv` the program prints 3.00 where the expected output of
  the repository says 4.20.
* **dining_shutdown** — a philosopher reads `Stop` long before it takes its
  chopsticks. When all of them do so after `main` has released the chopsticks, they
  deadlock and `main` waits for them for ever, having printed "Finished without
  Deadlock".
* **waiter_neighbours** — line 158 of `dp_waiter.c` tests two pointers, so that the
  waiter turns nobody away.
* **queue_comments** — four departures of `libpriqueue.c` from its comments and its test. TLC stops at the
  shortest counterexample, which is the first of them; the other three are the differences between
  `Comments` and `Spec` in `Priqueue`, and that the code does what `Spec` says is checked in
  `queue` and proved.
  1. `priqueue_peek`, `priqueue_poll`, `priqueue_at` and `priqueue_remove_at` dereference NULL
     for what is not there (lines 88, 102, 130, 197 and 203), where the comments promise NULL (lines 84,
     98, 116 and 180).
  2. `priqueue_offer` returns the last index (line 75), not the index where the pointer is
     stored (line 32).
  3. `priqueue_remove` compares with the comparer (line 151), where its comment asks for `==` (line
     137), and so removes other pointers to equal keys too.
  4. When the first element is to be removed, `priqueue_remove` tests a pointer that it has not
     initialised (lines 146 and 152); `queuetest.c:45-46` makes such a call and expects 2.

### Behaviours worth knowing that are not findings

Nothing in the repository says otherwise, so these are not listed as disagreements;
the models contain them.

* A search timer that `Search` forgot reopens the results of a panel that has just
  been closed.
* A text that reads like the label ("Search") is taken out of the field when the
  focus leaves for the results, and the results then close under the focus.
* Down in the menu selects one section more than there are, and the next search
  fails before it displays anything.
* When a fork of `ipc/main.c` fails, `waitpid` takes any child; the wait for the
  child that was taken then fails, and the parent returns an error with some
  children still running. They end by themselves.

### The proofs

`SchedulerProofs` proves for any set of jobs, any number of cores, all schemes, any
running times and priorities (`SchedulerAssumption` is all that is assumed: job
numbers are naturals, there is at least one core, a job has some running time):

* `TypeCorrect`, `NoJobLost`, `OneJobPerCore`, `NoCoreWasted`, `PreemptionPicksRunning` —
  five of the invariants of run `scheduler`; and `NoPreemption`, an action property.
  They cover PSJF on several cores too.

The invariants are not inductive one by one. When an arrival takes the last idle core,
`RunningFirst` needs that the queue has exactly one job less than there are
cores; hence the inductive invariant adds `QueueCountsActive`. Its proof has one lemma
per action. `HandedOn` and `PutAmong` are the two facts about positions: when one of
the first m jobs is taken out, the first waiting one of the rest is the m-th; when
a job is put in among the first m, the one that was the m-th is behind them.
`WakeOnProperties` is shared by the two functions that end with the scan.

Its second part proves `QueueSorted` (`SortedQueue`) on top of that, for the schemes
whose keys stay and for PSJF on one core. The inductive invariant adds
`ArrivalsDiffer`: live jobs arrived at different times, so no two compare equal, and the
`< 0` of the first node and the `> 0` of the others decide alike. `OfferOrder` shows that
the place is right although only the jobs before it are looked at, `RefreshedOrder`
that lowering the key of the running job leaves it in front; the other lemmas
say that no function changes what a comparer reads of a record.

Its third part proves `DispatcherImplemented`: `SchedSpec` implies
`ImplementsDispatcher`, handler by handler (`ArriveMapped`, `FinishMapped`, `ExpireMapped`,
`TickMapped`). Its one hypothesis is that a configuration with PSJF has one core, where run
`psjf` shows that it must. The argument has three parts.
(1) What `Dispatcher` sees of a state: `RunningAfter` and
`RunningBefore` turn a change of one `core_id` into a change of one core, `PassedInfo` and `InfoOfWoken` say that a
call changes what is known of a job exactly as `Dispatcher` does, in particular that writing
`time_remaining` back leaves the time a job still needs alone.
(2) The comparer of two records decides who precedes whom when the records are up to
date (`Tells`, `PrecedesIs`), so the first waiting job of a list in order is a most urgent
one (`ScanIsMostUrgent`) and the last of the first `num_cores` jobs is the least urgent of
the running ones (`VictimLast`). Whether the newcomer is in front of it is read off the list *after* the call:
`RunningFirst` and `SortedQueue` of the next state say that who runs precedes who waits (`RunningGoFirst`),
which settles both outcomes of the loop at line 217 at once.
(3) Round robin keeps no such order; the inductive invariant `DispatchInv`
adds `WaitingOrder`: of two waiting jobs the one in front has been
waiting at least as long. `ExpiredOrder` is the reason: who lost its core goes to the end.

`SimulatorProofs` proves what the program and the library are to each other, for any
input file with distinct times of arrival, any number of cores, any quantum and every scheme:
`SimTypeOK`, `NoFailure`, `CoresAgree` (and from it `AllFreedAtEnd`), `RunTimesAgree`, `StatisticsExact`,
`RoundRobinBound`, and `HonoursScheduler`, that the program implements `SchedSpec`. It assumes `SchedulerAssumption` and
`WorkloadAssumption`: the scheme and the cores are a valid configuration, round robin has a
positive quantum, the lines of the file have running times and priorities of the model, and no two
jobs arrive at the same time, which is what libscheduler.c:158 asks for. `HonoursScheduler` has the hypothesis
`[](time <= MaxTime)`, because `MaxTime` bounds the most general caller and not the program; it can be any number
(`RunHonoursScheduler`, below, needs no such hypothesis about the behaviour).

The properties of the program are not inductive, and not one without the others. A call changes the
record of one job or two, the program changes its own entries from what the call returned, and
the entry of a job is at an index that a deletion may change. The inductive invariant `SimInv`
therefore says entry by entry what the record of the same number says (`AllInStep`), that numbers and times
of arrival tell the entries apart (`EntriesDiffer`), who has been handed over at which
point of the time unit (`ArrivedWhenDue`), and that a job whose time is over is on a core and is
reported before anything else happens (`OverIsReported`). It includes the inductive invariant of the
library: that `RunningFirst` holds when a job arrives is what makes the returned core
the one of a running job. The lemmas ending in `Effect` say what a call does to every record, the
ones ending in `Entries` what the program does to every entry, and the ones ending in `Step` put the two together.

For the statistics `StatInv` adds that the books balance at every moment (`Books`): a sum, with
what the records still owe it, is what the jobs went through. The debts are numbers of
pairs of a job and a time unit (`UnitsOf`), so that a unit that passes adds one pair for every job in
the state (`UnitsPass`), and a wake-up moves the pairs of one job from the debt to the sum (`UnitsWithout`). The
response time needs one thing more, `AnswersFit`: without preemption, a job that has
responded has run for a unit at least or is on a core now, which under round robin depends on the
clock of the core being restarted whenever the core changes hands.

For round robin `TurnInv` adds that turns and waiting jobs are in balance (`TurnComes`). A core
with `clock` units on its clock hands its job on after `clock`, `clock + quantum`, `clock +
2*quantum`, ... units at the latest. Count, over all cores, the turns of this kind (`Turns`) that come before a
waiting job would have waited too long (`LeftFor`): they are at least as many as the waiting jobs up to
this one in the queue (`AheadOf`). A unit that passes shortens the clocks and the time left alike
(`TurnsPass`), a core that is handed on costs one turn at most (`TurnsUsed`) and takes the first of the jobs
ahead off the count (`TurnTaken`), and an arrival is behind everybody and raises the number of rounds, if
anything (`TurnsKept`). A job that starts to wait has every other job's turns before it (`FreshTurns`): then
every core has a job, so at most `num_jobs - num_cores` jobs wait. The bound follows because a clock that
is at 0 has been noticed before the unit runs (`ClocksRun`), so that the turn of the waiting job lies at least one
unit ahead. That each step keeps the order of the queue is where the comparer of round robin and the
removal before the offer (libscheduler.c:340-371) come in: `OfferedLast`, `BehindTakenOut`.

Its last part is about the whole run of a file, `RunSpec`, which is what run `simulator` checks: `SimSpec` with a
variable that remembers the workload, so that all of the above holds of it (`RunIsSimulator`). `HorizonInvariant` has the inductive invariant: the entries of
the array are still those of the file (`FromFile`), after the first phase of a unit there is a job (`JobsLeft`), and the
time that has passed, with the units still needed, is at most one of the arrivals and the units asked for
(`OnTrack`). `EndsInTime` alone is not inductive, since nothing in it says that somebody makes
progress. Steps that pass no time carry entries over without making any longer (`Carried`). A unit in which somebody
runs takes a pair away from `StillNeeded` (`UnitUsed`, by `EntriesDiffer`), and in a unit in which nobody does, somebody is
still to come (`SomeoneToCome`): if a job were in the system, some core would be busy (`CoresInUse`), so the
arrival that `OnTrack` names can be taken to be that of the newcomer. From this follow `InTime` (`EndsInTime`);
`AlwaysForward` (`StepsForward`); `RunHonoursScheduler`, where the hypothesis on time is a fact about the constants only,
that `MaxTime` is beyond every file (`MaxTimeSuffices`, which run `simulator` checks of its instance); and
`ProgramDispatches`, that the program implements `Dispatcher`, which is `RunHonoursScheduler` and `DispatcherImplemented`
put together; TLC checks the two halves, in the runs `simulator` and `scheduler`.

`PriqueueTheorems` proves what offering, removing and scanning do to any sequence:
positions, membership and the absence of duplicates. The existence of a first
position (`FirstPosition`), from which the `CHOOSE` of the scans is resolved, comes from
the well-foundedness of finite sets of the library.

`PriqueueListProofs` proves what `libpriqueue.c` does pointer by pointer, for any finite memory, any
data pointers, keys and indices, and any sequence of calls: `ListTypeOK`, `UsesLiveMemory`,
`ListSorted`, and `ImplementsPriqueue`, that every call has the effect and the result that
`Priqueue!Spec` states, and that only a call for an element that is not there, or the removal of a first
element that matches, crashes or damages the list. It assumes
`ListAssumption` only: addresses are positive, memory is finite, some data pointer is offered.

The inductive invariant `ListInv` says that the nodes of the list are a sequence `s` without
repetitions whose `next` lead from each to the one behind (`ListOf`), and adds for each loop
where in `s` it stands and what it has done so far: `PlaceOK`, `CountOK`, `IndexOK`,
`RemoveOK`. `LinkIn` and `UnlinkFrom` are the two assignments to `next` as operations on `s`. Two
things make it more than bookkeeping. The history variable `before` has to be related to the list
in the middle of a call, which `priqueue_remove` changes as it goes: `StandsAt` says that what is behind the
loop is what it keeps of the front of `before` (`KeptOf`), and what is ahead of it is the rest
of `before`, shifted by the number removed. And `previous` of `priqueue_remove` means nothing until
a node has been passed: the invariant says that it is the node before `temp` from then on, and NULL
when a first node has been removed, so that the only steps that damage the list are those on a list
whose first element matches (`RemovingFirst`), which is `FirstMatches` of `Priqueue`. After
such a step nothing is claimed of the list but the types.

`Walk` and `Without` are recursive functions. What they are is never proved by
induction over the data: the invariant names a function that satisfies the same equations, and two
such functions are equal because there is no first position where they differ (`FirstPosition`).

`DiningProofs` proves for any number of philosophers from two on, any number of periods, and
either order: `TypeCorrect`, `MutualExclusion`, `NoLockLeftBehind`, and
`NoDeadlock`, which is about the alternating order. The inductive invariant adds that threads
not yet created do not run, that a period only begins when one is left, and
`HeldIsLocked`, the converse of `LockedIsHeld`, which holds until `main`
unlocks: without it, a mutex that is free says nothing about who holds the
chopstick. The proof has one lemma for a lock, one for an unlock and one for a step
that touches no chopstick. `NoDeadlock` then follows without a further induction: all
first chopsticks are even, all second ones odd but one, so a chain of threads
that wait for one another has length two at most. It assumes `TableAssumption` only.

`DiningWaiterProofs` proves `WaiterTypeOK` and `WaiterServesOne` for any number of
philosophers from two on. The inductive invariant adds that two philosophers that the waiter
serves are the same one and that its mutex is locked exactly when there is
one, and, for the types, that threads not yet created do not run and that a
period only begins when one is left.

`PipelineProofs` proves `PipeTypeOK` and `SuccessMeansAll` for any numbers of files
and lines and pipes of any size. The second is an argument by counting: each
`waitpid` that returns collects one more child, all of them have ended, and the
parent counts to four. Which child was collected does not matter, which is why
it holds with failed forks too. The inductive invariant adds the count
(`Collected`), what the collected ones have done (`OnlyEndedCollected`), and, for the
types, that find does not read and head keeps nothing (`EndsOfPipeline`).

`SearchProofs` proves all five properties of run `search`, for any texts, tables,
result pages, numbers of children and stray timers. It assumes only what the modules name:
the two comparisons leave the label and the empty text alone (`TextAssumption`), the
result pages are not the two special ones (`ContentAssumption`), the rows are numbered and those
that begin with a term are consecutive, since the generator sorts them
(`RowAssumption`), and every text has its rows (`PageAssumption`).
First, what each method of `SearchBox` keeps of any box; then, for `NavFollowsDisplay`,
that in any page with consecutive rows Down leads to the least link that is displayed
below (`DownFacts`) and Up to the greatest one above (`UpFacts`); then one lemma per
action. The inductive invariant `IInv` says of box, focus and mouse together
(`BoxFits`) what the properties say one by one, and adds that at most one timer that
closes the menu is running, that the panel is active while the field has the
focus, and that the displayed rows are consecutive.

Every invariant and every refinement that a passing run checks is proved. Only model-checked
are the liveness properties, which are out of the prover's reach: `Terminates`, `CallsReturn`
and the monitor's verdicts, `DeadlockDetected` and `DeadlockReleased`. Of the `Terminates` of the
simulator the part that needs no fairness is proved (`InTime`, `AlwaysForward`).

## Not modelled, and the plan

The plan is carried out: what is modelled is modelled in full, and every safety property
of a passing run is a theorem.

Components without a model, and why:

* **`navtree.js`, `navtreeindex.js`** — the first statement of the file closes a bracket too many
  (line 4), so no function of it is ever defined in this output. There is no
  behaviour to model.
* **`resize.js`** — computes widths and heights and keeps one in a cookie: layout.
* **`jquery.js`** — vendored and minified.
* **Buddy allocators** — the graphical one makes three fixed allocations and
  deletes the list; no path frees a block, no other sequence of calls is ever made, and which
  would be legal is nowhere said. The first version is unfinished.
* **Signal handlers** — the masks and flags of the handlers are never
  initialised, so which signal interrupts which handler is open, and the handlers call
  `printf` and `fgets`, which they must not. Almost nothing remains that could be stated.
* **Counter threads** — every thread holds the one mutex for its whole loop: they
  run one after the other.
* **Overflow of the comparers** (libscheduler.c:46 and following) — the integers of
  the models are unbounded, and the keys of the example files are small.
* **A `pipe` that fails** (ipc/main.c:26-28) — the code does not look at the result; the descriptors
  are then whatever the stack holds. The model takes `pipe` to succeed.
* **Nodes that are lost** — `priqueue_at`, `priqueue_remove_at` and
  `priqueue_destroy` allocate a node that nothing refers to afterwards; the model of the
  queue does not represent them, and does not claim that memory is freed.
* In `search.js`: positions and widths, the bullet in front of the chosen section
  (`SelectItemSet`), and the creation of the elements of a page.

Out of scope: printing and the format of the outputs (`scheduler_show_queue`, the
timing diagram), the parsing of the command line and of the files (a workload is what
they result in), the growth of print buffers, floating-point division in the
averages (the model keeps the sums), rendering in `project3Graphical`, the vendored
`list.h`, and the generated pages other than the search panel.
