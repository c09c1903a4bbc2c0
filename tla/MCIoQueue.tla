------------------------------ MODULE MCIoQueue ------------------------------
(* IoQueue with a producer, a consumer and a thread that does neither.     *)
EXTENDS IoQueue

CONSTANTS a

MCThread == {main, idle, a}
MCPriority == [t \in MCThread |-> 1]
MCSemaInit == [s \in {} |-> 0]
MCLock == {qlock}
MCSema == {}
MCProducer == {main}
MCConsumer == {a}
MCChar == {"x", "y"}
=============================================================================
