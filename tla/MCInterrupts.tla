---------------------------- MODULE MCInterrupts ----------------------------
(* Interrupts with main, idle and one more thread, time slices of one tick. *)
EXTENDS Interrupts

CONSTANTS a

MCThread == {main, idle, a}
MCPriority == [t \in MCThread |-> 1]
=============================================================================
