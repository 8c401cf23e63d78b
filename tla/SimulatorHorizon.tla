--------------------------- MODULE SimulatorHorizon ---------------------------
(***************************************************************************)
(* The simulator with the workload it was started with kept beside it, so  *)
(* that what becomes of a file can be said of the whole run: when it ends, *)
(* and that its jobs are dispatched as Dispatcher says.                    *)
(***************************************************************************)
EXTENDS Simulator, SchedulerDispatch

VARIABLE workload   \* the command line and the file, as they were read

runVars == <<simVars, workload>>

RunInit ==
    /\ workload \in Workloads
    /\ Start(workload)

RunNext == SimNext /\ UNCHANGED workload

(* It is SimSpec, with a variable that only remembers.                     *)
RunSpec == RunInit /\ [][RunNext]_runVars /\ WF_simVars(SimNext)

(* The units of time that the jobs of a file ask for, and those that the   *)
(* jobs in the array still need: pairs of a job number and a unit.         *)
Asked(lines) ==
    UNION {{k - 1} \X (1..lines[k].run_time) : k \in DOMAIN lines}
StillNeeded ==
    UNION {{jobs[k].job_id} \X (1..jobs[k].run_time) : k \in 1..active_jobs}

(* No unit of time is wasted: from the last arrival on some job runs in    *)
(* every unit, whatever the scheme, the quantum and the number of cores,   *)
(* and every unit that a job runs brings it nearer to its end, through     *)
(* preemptions and quantums.  So the program is at its end, at the latest, *)
(* when the last job has arrived and as many units have passed after that  *)
(* as all jobs together ask for (simulator.c:248-464).                     *)
EndsInTime ==
    IF workload.lines = <<>>
    THEN time = 0
    ELSE \E k \in DOMAIN workload.lines :
            time <= workload.lines[k].arrival_time + Cardinality(Asked(workload.lines))

(* The calls that a phase may still have to make.                          *)
LeftToReport ==
    CASE phase = "finish"  -> active_jobs
      [] phase = "quantum" -> num_cores + 1 - i
      [] phase = "arrive"  -> active_jobs + 1 - i
      [] OTHER             -> 0

PhaseOrder == <<"finish", "quantum", "arrive", "run", "done", "ended">>

Later(p, q) == \E a, b \in 1..6 : a < b /\ PhaseOrder[a] = p /\ PhaseOrder[b] = q

Forward ==
    \/ time' = time + 1
    \/ /\ time' = time
       /\ \/ Later(phase, phase')
          \/ phase' = phase /\ 0 <= LeftToReport' /\ LeftToReport' < LeftToReport

(* No phase goes round in circles: each step passes a unit of time, or is  *)
(* the last of its phase, or leaves the phase with fewer calls to make.    *)
(* The loop over the finished jobs looks at an index again when another    *)
(* job was moved there (simulator.c:261-265), so that only the shrinking   *)
(* array brings it to its end.                                             *)
StepsForward == [][Forward]_runVars

(* The library's clock, which MaxTime bounds, is not what ends a run.      *)
MaxTimeSuffices ==
    \A w \in Workloads : \A k \in DOMAIN w.lines :
        w.lines[k].arrival_time + Cardinality(Asked(w.lines)) <= MaxTime
=============================================================================
