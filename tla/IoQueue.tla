------------------------------- MODULE IoQueue -------------------------------
(***************************************************************************)
(* The ring buffer of os/ds/ioqueue.c, with threads that call              *)
(* ioqueue_getchar() and ioqueue_putchar() the way its assertions ask:     *)
(* after intr_disable(), with the flag set again when the call is over.    *)
(***************************************************************************)
EXTENDS Sync

CONSTANTS
  qlock,              \* ioq->lock
  Producer, Consumer, \* the threads that put and that get
  Char,               \* the characters
  BUF_SIZE            \* slots of the ring (64 in ioqueue.h)

ASSUME IoQueueAssumption ==
  /\ Lock = {qlock} /\ Sema = {}
  /\ Producer \cup Consumer \subseteq Thread \ {idle}
  /\ Producer \cap Consumer = {}
  /\ BUF_SIZE \in Nat /\ BUF_SIZE > 1

VARIABLES
  ring, head, tail,    \* ioq->buf, ioq->head, ioq->tail
  waiting,             \* [producer, consumer]: the two waiting threads
  qpc                  \* thread |-> where it is in its call

ringVars == <<ring, head, tail>>
ioqVars == <<vars, syncVars, ringVars, waiting, qpc>>

ioqueue_init ==
  /\ ring = [i \in 0..BUF_SIZE-1 |-> NULL]
  /\ head = 0 /\ tail = 0
  /\ waiting = [producer |-> NULL, consumer |-> NULL]

IoqInit ==
  /\ Init /\ lock_sema_init /\ ioqueue_init
  /\ qpc = [t \in Producer \cup Consumer |-> "out"]

role(t) == IF t \in Producer THEN "producer" ELSE "consumer"
peer(t) == IF t \in Producer THEN "consumer" ELSE "producer"

next_pos(p) == (p + 1) % BUF_SIZE

ioqueue_empty == head = tail

\* Mutant: the last slot is used too, so a full ring looks like an empty one.
ioqueue_full_late == FALSE

ioqueue_full == next_pos(head) = tail

At(label) == cur \in Producer \cup Consumer /\ qpc[cur] = label
goto(label) == qpc' = [qpc EXCEPT ![cur] = label]

MustWait == IF cur \in Producer THEN ioqueue_full ELSE ioqueue_empty

-----------------------------------------------------------------------------
\* The caller: intr_disable(), then the call.
enter ==
  /\ At("out") /\ intr_disable /\ goto("test")
  /\ UNCHANGED <<syncVars, ringVars, waiting>>

(***************************************************************************)
(* The test of the loop asserts that the flag is off (ioqueue.c:19, 25).   *)
(* If the thread must wait it takes the lock and keeps it while it waits.  *)
(***************************************************************************)
test_fails ==
  /\ At("test") /\ intr
  /\ sync_panic
  /\ UNCHANGED <<ringVars, waiting, qpc>>

test_waits ==
  /\ At("test") /\ ~intr /\ MustWait
  /\ lock_acquire(qlock) /\ goto("wait")
  /\ UNCHANGED <<ringVars, waiting>>

\* Mutant: the thread does not leave its name before it blocks.
ioqueue_wait_unnamed ==
  /\ At("wait")
  /\ thread_block("BLOCKED") /\ UNCHANGED <<idlepc, syncVars>>
  /\ goto("woken")
  /\ UNCHANGED <<ringVars, waiting>>

ioqueue_wait ==
  /\ At("wait")
  /\ IF waiting[role(cur)] # NULL
     THEN sync_panic /\ UNCHANGED <<waiting, qpc>>
     ELSE /\ waiting' = [waiting EXCEPT ![role(cur)] = cur]
          /\ thread_block("BLOCKED") /\ UNCHANGED <<idlepc, syncVars>>
          /\ goto("woken")
  /\ UNCHANGED ringVars

woken ==
  /\ At("woken")
  /\ lock_release(qlock) /\ goto("test")
  /\ UNCHANGED <<ringVars, waiting>>

\* ioqueue_wakeup() of the other side, if it waits.
ioqueue_wakeup ==
  IF waiting[peer(cur)] = NULL
  THEN UNCHANGED <<vars, waiting>>
  ELSE /\ thread_unblock(waiting[peer(cur)])
       /\ waiting' = [waiting EXCEPT ![peer(cur)] = NULL]
       /\ UNCHANGED idlepc

ioqueue_getchar ==
  /\ At("test") /\ cur \in Consumer /\ ~intr /\ ~ioqueue_empty
  /\ tail' = next_pos(tail)
  /\ ioqueue_wakeup /\ goto("ret")
  /\ UNCHANGED <<syncVars, ring, head>>

ioqueue_putchar ==
  /\ At("test") /\ cur \in Producer /\ ~intr /\ ~ioqueue_full
  /\ \E c \in Char : ring' = [ring EXCEPT ![head] = c]
  /\ head' = next_pos(head)
  /\ ioqueue_wakeup /\ goto("ret")
  /\ UNCHANGED <<syncVars, tail>>

\* The caller: set_intr_status() after the call.
leave ==
  /\ At("ret") /\ intr_enable /\ goto("out")
  /\ UNCHANGED <<syncVars, ringVars, waiting>>

-----------------------------------------------------------------------------
unused == <<syncVars, ringVars, waiting, qpc>>

enable == (cur \in Producer \cup Consumer => At("out")) /\ intr_enable /\ UNCHANGED unused

boot == (main \in DOMAIN qpc => qpc[main] = "out") /\ start /\ UNCHANGED unused

timer == timer_intr_handler /\ UNCHANGED unused

idler == (idle_block \/ idle_hlt) /\ UNCHANGED unused

IoqNext ==
  /\ ~panicked
  /\ \/ enter \/ test_fails \/ test_waits \/ ioqueue_wait \/ woken
     \/ ioqueue_getchar \/ ioqueue_putchar \/ leave
     \/ enable \/ boot \/ timer \/ idler

IoqSpec == IoqInit /\ [][IoqNext]_ioqVars

-----------------------------------------------------------------------------
(***************************************************************************)
(* A thread whose name is left in the queue is blocked there, and a thread *)
(* that is blocked there has left its name: ioqueue_wakeup() never trips   *)
(* the assertion of thread_unblock() and nobody sleeps unknown to it.      *)
(***************************************************************************)
SleepersAreNamed ==
  \A t \in DOMAIN qpc : status[t] = "BLOCKED" <=> waiting[role(t)] = t

(***************************************************************************)
(* Until the kernel panics, the ring is a first-in first-out queue of at   *)
(* most BUF_SIZE - 1 characters, wrap-around included.                     *)
(***************************************************************************)
Contents == [i \in 1..((head + BUF_SIZE - tail) % BUF_SIZE) |->
               ring[(tail + i - 1) % BUF_SIZE]]

F == INSTANCE Fifo WITH queue <- Contents, Capacity <- BUF_SIZE - 1

RingIsFifo == F!FifoSpec

(***************************************************************************)
(* The assertion of ioqueue_empty() and ioqueue_full(): whoever tests the  *)
(* queue does so with interrupts off, in particular when it was woken.     *)
(***************************************************************************)
TestsWithIntrOff == \A t \in DOMAIN qpc : cur = t /\ qpc[t] = "test" => ~intr
=============================================================================
