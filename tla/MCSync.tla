------------------------------- MODULE MCSync -------------------------------
(* SyncClients with three clients (main is one of them) and idle.          *)
EXTENDS SyncClients

CONSTANTS a, b

MCThread == {main, idle, a, b}
MCPriority == [t \in MCThread |-> 1]
MCSemaInit == [s \in {sem} |-> 1]
MCLock == {lk}
MCSema == {sem}
=============================================================================
