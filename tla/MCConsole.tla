----------------------------- MODULE MCConsole -----------------------------
(* Console: main prints with and without the lock, a kernel thread with    *)
(* it, on a screen of two short rows.                                      *)
EXTENDS Console

CONSTANTS a

MCThread == {main, idle, a}
MCPriority == [t \in MCThread |-> 1]
MCSemaInit == [s \in {} |-> 0]
MCLock == {console_lock}
MCNoSema == {}
MCMainAndA == {main, a}
MCMain == {main}
=============================================================================
