---------------------------- MODULE MCScheduler ----------------------------
(* Scheduler with main, idle and two more threads, with short time slices. *)
EXTENDS Scheduler

CONSTANTS a, b

MCThread == {main, idle, a, b}
MCPriority == [t \in MCThread |-> IF t \in {main, a} THEN 2 ELSE 1]
=============================================================================
