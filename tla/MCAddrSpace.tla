---------------------------- MODULE MCAddrSpace ----------------------------
(* AddrSpace with two processes and a kernel thread besides main and idle. *)
EXTENDS AddrSpace

CONSTANTS a, p, q

MCThread == {main, idle, a, p, q}
MCPriority == [t \in MCThread |-> 1]
MCProcess == {p, q}
=============================================================================
