------------------------------- MODULE MCIde -------------------------------
(* Ide with main, idle and one more thread.                                *)
EXTENDS Ide

CONSTANTS a

MCThread == {main, idle, a}
MCPriority == [t \in MCThread |-> 1]
MCSemaInit == [s \in {disk_done} |-> 0]
MCLock == {chan}
MCSema == {disk_done}
MCOneUser == {main}
MCTwoUsers == {main, a}
MCData == {0, 1}
=============================================================================
