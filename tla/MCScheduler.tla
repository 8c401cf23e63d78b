----------------------------- MODULE MCScheduler -----------------------------
(* Small instances of the scheduler library under its most general caller. *)
EXTENDS SchedulerDispatch

(* Every scheme on one and on two cores, PSJF on one only.                 *)
MCConfigurations ==
    (Schemes \X {1, 2}) \ {<<"PSJF", 2>>}

MCPsjfOnTwoCores == {<<"PSJF", 2>>}
=============================================================================
