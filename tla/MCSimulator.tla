----------------------------- MODULE MCSimulator -----------------------------
(* Small input files, on one to three cores. *)
EXTENDS SimulatorHorizon

Line(a, r, p) == [arrival_time |-> a, run_time |-> r, priority |-> p]

(* The lines of a file: distinct arrival times in any order of lines.      *)
Files(n, lastArrival, runs, priorities) ==
    {[k \in 1..n |-> Line(a[k], r[k], p[k])] :
        a \in {f \in [1..n -> 0..lastArrival] : IsInjective(f)},
        r \in [1..n -> runs],
        p \in [1..n -> priorities]}

(* Jobs that arrive one right after the other, in the order of the file.   *)
Dense(n, runs, priorities) ==
    {[k \in 1..n |-> Line(k - 1, r[k], p[k])] :
        r \in [1..n -> runs], p \in [1..n -> priorities]}

(* No job, and jobs with room for the cores to be idle between them.       *)
Sparse == {<<>>} \cup Files(1, 3, 1..3, {0}) \cup Files(2, 5, 1..2, {0, 1})

Started(schemes, cores, quantums, files) ==
    [scheme : schemes, cores : cores, quantum : quantums, lines : files]

MCWorkloads ==
    UNION {
        Started({"FCFS", "SJF", "PSJF"}, 1..3, {0},
                Sparse \cup Files(3, 3, 1..3, {0}) \cup Dense(4, 1..3, {0})),
        Started({"PRI", "PPRI"}, 1..3, {0},
                Sparse \cup Files(3, 2, 1..2, {0, 1}) \cup Dense(4, {1, 3}, {0, 1})),
        Started({"RR"}, 1..3, {1, 2},
                Sparse \cup Files(3, 3, 1..3, {0}) \cup Dense(4, 1..3, {0}))}

MCConfigurations == Schemes \X (1..3)

(* project2/examples/proc2.csv, as "./simulator -c 1 -s psjf" reads it.    *)
MCProc2 ==
    {[scheme |-> "PSJF", cores |-> 1, quantum |-> 0,
      lines |-> <<Line(0, 3, 2), Line(1, 10, 3), Line(2, 5, 1), Line(3, 2, 4),
                  Line(4, 4, 5)>>]}

ASSUME LongEnough == MaxTimeSuffices
=============================================================================
