-------------------------------- MODULE Sync --------------------------------
(***************************************************************************)
(* Semaphores and locks: os/kernel/sync.c on top of os/kernel/spinlock.c,  *)
(* as operations of the running thread.  A module that uses them extends   *)
(* this one and gives each thread its program.                             *)
(*                                                                         *)
(* lock_acquire() reads the holder before it clears the interrupt flag;    *)
(* whether the holder is the running thread can not change in between, so  *)
(* the call is one step.  sema_down() is three: cli, then one pass of its  *)
(* loop at a time, with the flag off until it returns.                     *)
(***************************************************************************)
EXTENDS Scheduler

CONSTANTS
  Lock,        \* the struct locks in use
  Sema,        \* the struct semaphores in use
  SemaInit,    \* the value each is initialised with by sema_init()
  NULL

ASSUME SyncAssumption ==
  SemaInit \in [Sema -> {0, 1}] /\ NULL \notin Thread /\ "BLOCKED" \in BlockedAs

VARIABLES
  locks,       \* lock |-> [locked, holder, number]
  value,       \* semaphore |-> value, a uint8_t
  waiters,     \* semaphore |-> list of waiting threads
  old          \* thread |-> old_status of its call of sema_down()

syncVars == <<locks, value, waiters, old>>

\* Everything of the scheduler except the interrupt flag and panicked.
queues == <<status, ready, all, cur, ticks, saved, idlepc>>

Free == [locked |-> FALSE, holder |-> NULL, number |-> 0]

lock_sema_init ==
  /\ locks = [l \in Lock |-> Free]
  /\ value = SemaInit
  /\ waiters = [s \in Sema |-> <<>>]
  /\ old = [t \in Thread |-> FALSE]

(***************************************************************************)
(* A failed assertion or panic() in the middle of an operation.            *)
(***************************************************************************)
sync_panic ==
  /\ panicked' = TRUE
  /\ intr' = FALSE
  /\ UNCHANGED <<queues, syncVars>>

-----------------------------------------------------------------------------
\* Mutant: the interrupt flag is left alone.
spinlock_acquire_nocli(l) ==
  /\ locks' = [locks EXCEPT ![l] = [locked |-> TRUE, holder |-> cur, number |-> 1]]
  /\ UNCHANGED <<intr, panicked, queues, value, waiters, old>>

(***************************************************************************)
(* spinlock_acquire(): holding() is true whoever holds the lock, so a      *)
(* second thread does not spin, it panics.                                 *)
(***************************************************************************)
spinlock_acquire(l) ==
  IF locks[l].locked \/ locks[l].number # 0
  THEN sync_panic
  ELSE /\ locks' = [locks EXCEPT ![l] = [locked |-> TRUE, holder |-> cur, number |-> 1]]
       /\ intr' = FALSE
       /\ UNCHANGED <<panicked, queues, value, waiters, old>>

lock_acquire(l) ==
  IF locks[l].holder # cur
  THEN spinlock_acquire(l)
  ELSE /\ locks' = [locks EXCEPT ![l].number = @ + 1]
       /\ UNCHANGED <<intr, panicked, queues, value, waiters, old>>

(***************************************************************************)
(* lock_release(): the outermost one ends in popcli(), which sets the flag *)
(* whatever it was before lock_acquire().                                  *)
(***************************************************************************)
lock_release(l) ==
  IF locks[l].holder # cur \/ locks[l].number = 0 \/ ~locks[l].locked
  THEN sync_panic
  ELSE IF locks[l].number > 1
       THEN /\ locks' = [locks EXCEPT ![l].number = @ - 1]
            /\ UNCHANGED <<intr, panicked, queues, value, waiters, old>>
       ELSE /\ locks' = [locks EXCEPT ![l] = Free]
            /\ intr' = TRUE
            /\ UNCHANGED <<panicked, queues, value, waiters, old>>

-----------------------------------------------------------------------------
\* sema_down(), its first instruction: intr_disable().
sema_down_cli ==
  /\ old' = [old EXCEPT ![cur] = intr]
  /\ intr' = FALSE
  /\ UNCHANGED <<panicked, queues, locks, value, waiters>>

\* Mutant: the thread blocks as if the flag had been on.
sema_wait_flag_on(s) ==
  /\ value[s] = 0
  /\ waiters' = [waiters EXCEPT ![s] = Append(@, cur)]
  /\ schedule([status EXCEPT ![cur] = "BLOCKED"], ready, TRUE)
  /\ UNCHANGED <<idlepc, locks, value, old>>

\* sema_down(), one pass of the loop that finds the value 0.
sema_wait(s) ==
  /\ value[s] = 0
  /\ IF list_find(waiters[s], cur)
     THEN sync_panic
     ELSE /\ waiters' = [waiters EXCEPT ![s] = Append(@, cur)]
          /\ thread_block("BLOCKED")
          /\ UNCHANGED <<idlepc, locks, value, old>>

\* Mutant: the value is not tested again after the thread was woken.
sema_take_anyway(s) ==
  /\ value' = [value EXCEPT ![s] = 0]
  /\ intr' = old[cur]
  /\ UNCHANGED <<panicked, queues, locks, waiters, old>>

\* sema_down(), the loop is left: the value is decremented.
sema_take(s) ==
  /\ value[s] # 0
  /\ IF value[s] # 1
     THEN sync_panic
     ELSE /\ value' = [value EXCEPT ![s] = 0]
          /\ intr' = old[cur]
          /\ UNCHANGED <<panicked, queues, locks, waiters, old>>

\* Mutant: the woken thread stays on the list of waiters.
sema_up_nopop(s) ==
  /\ value' = [value EXCEPT ![s] = 1]
  /\ IF waiters[s] # <<>>
     THEN thread_unblock(Head(waiters[s]))
     ELSE UNCHANGED <<status, ready, all, cur, ticks, intr, saved, panicked>>
  /\ UNCHANGED <<waiters, locks, old>>

\* Mutant: the value is raised only when nobody waits.
sema_up_handoff(s) ==
  /\ IF waiters[s] # <<>>
     THEN /\ waiters' = [waiters EXCEPT ![s] = Tail(@)]
          /\ thread_unblock(Head(waiters[s]))
          /\ UNCHANGED value
     ELSE /\ value' = [value EXCEPT ![s] = 1]
          /\ UNCHANGED <<waiters, status, ready, all, cur, ticks, intr, saved, panicked>>
  /\ UNCHANGED <<locks, old>>

(***************************************************************************)
(* sema_up(), by a thread or by an interrupt handler: the first waiter is  *)
(* made ready and will test the value again when it runs.                  *)
(***************************************************************************)
sema_up(s) ==
  IF value[s] # 0
  THEN /\ panicked' = TRUE
       /\ UNCHANGED <<status, ready, all, cur, ticks, intr, saved, syncVars>>
  ELSE /\ value' = [value EXCEPT ![s] = 1]
       /\ IF waiters[s] # <<>>
          THEN /\ waiters' = [waiters EXCEPT ![s] = Tail(@)]
               /\ thread_unblock(Head(waiters[s]))
          ELSE UNCHANGED <<waiters, status, ready, all, cur, ticks, intr, saved, panicked>>
       /\ UNCHANGED <<locks, old>>
=============================================================================
