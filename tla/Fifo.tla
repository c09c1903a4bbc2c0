-------------------------------- MODULE Fifo --------------------------------
(***************************************************************************)
(* What an ioqueue promises: a bounded queue of characters, first in first *)
(* out.                                                                    *)
(***************************************************************************)
EXTENDS Naturals, Sequences

CONSTANTS Char, Capacity

VARIABLE queue

FifoInit == queue = <<>>

Put == Len(queue) < Capacity /\ \E c \in Char : queue' = Append(queue, c)

Get == queue # <<>> /\ queue' = Tail(queue)

FifoSpec == FifoInit /\ [][Put \/ Get]_queue
=============================================================================
