----------------------------- MODULE SyncClients -----------------------------
(***************************************************************************)
(* Threads that use one semaphore, initialised to 1, to exclude each other *)
(* and a lock for short sections in which they do not block: the use for   *)
(* which sync.c is written.  They are preempted by the timer wherever the  *)
(* interrupt flag is on.                                                   *)
(***************************************************************************)
EXTENDS Sync

CONSTANTS sem, lk

ASSUME SyncClientsAssumption == Sema = {sem} /\ Lock = {lk} /\ SemaInit[sem] = 1

VARIABLE pc     \* thread |-> "out", "down" (in sema_down) or "in"

allVars == <<vars, syncVars, pc>>

SyncInit == Init /\ lock_sema_init /\ pc = [t \in Thread |-> "out"]

HoldsLock == locks[lk].holder = cur

down ==
  /\ pc[cur] = "out" /\ ~HoldsLock
  /\ sema_down_cli
  /\ pc' = [pc EXCEPT ![cur] = "down"]

wait == pc[cur] = "down" /\ sema_wait(sem) /\ UNCHANGED pc

take == pc[cur] = "down" /\ sema_take(sem) /\ pc' = [pc EXCEPT ![cur] = "in"]

up ==
  /\ pc[cur] = "in"
  /\ sema_up(sem) /\ UNCHANGED idlepc
  /\ pc' = [pc EXCEPT ![cur] = "out"]

\* Two nested calls are enough for the reentrant case.
MaxDepth == 2

acquire ==
  /\ pc[cur] # "down"
  /\ HoldsLock => locks[lk].number < MaxDepth
  /\ lock_acquire(lk) /\ UNCHANGED pc

release == HoldsLock /\ lock_release(lk) /\ UNCHANGED pc

\* A thread that starts with the flag off, or main at the end of its boot.
enable == pc[cur] # "down" /\ ~HoldsLock /\ intr_enable /\ UNCHANGED <<syncVars, pc>>

client == cur # idle /\ (down \/ wait \/ take \/ up \/ acquire \/ release \/ enable)

boot == pc[main] = "out" /\ ~HoldsLock /\ start /\ UNCHANGED <<syncVars, pc>>

timer == timer_intr_handler /\ UNCHANGED <<syncVars, pc>>

idler == (idle_block \/ idle_hlt) /\ UNCHANGED <<syncVars, pc>>

SyncNext == ~panicked /\ (client \/ boot \/ timer \/ idler)

(***************************************************************************)
(* A thread that has the processor with the flag off runs on; the section  *)
(* under the lock ends; a thread in the section guarded by the semaphore   *)
(* leaves it if it gets to run again and again.                            *)
(***************************************************************************)
SyncFairness ==
  /\ SF_allVars(~panicked /\ timer)
  /\ WF_allVars(~panicked /\ idler)
  /\ WF_allVars(~panicked /\ cur # idle /\ (wait \/ take \/ release \/ enable))
  /\ SF_allVars(~panicked /\ locks[lk].number = 1 /\ release)
  /\ \A t \in Thread : SF_allVars(~panicked /\ cur = t /\ ~HoldsLock /\ up)

SyncSpec == SyncInit /\ [][SyncNext]_allVars

SyncFairSpec == SyncSpec /\ SyncFairness

-----------------------------------------------------------------------------
(***************************************************************************)
(* At most one thread is between sema_down() and sema_up(), and then the   *)
(* value is 0: barging threads and woken ones never both get it.           *)
(***************************************************************************)
SemaExcludes ==
  \A t, u \in Thread : pc[t] = "in" /\ pc[u] = "in" => t = u /\ value[sem] = 0

(***************************************************************************)
(* A thread's one list tag is on the list of waiters exactly while it is   *)
(* blocked in sema_down(): it can not be on the ready list too, and nobody *)
(* is blocked where sema_up() would not find it.                           *)
(***************************************************************************)
WaitersAreBlocked ==
  /\ \A t \in Thread \ {idle} :
       list_find(waiters[sem], t) <=> status[t] = "BLOCKED"
  /\ \A i, j \in DOMAIN waiters[sem] : waiters[sem][i] = waiters[sem][j] => i = j

(***************************************************************************)
(* Threads that do not block while they hold the lock never meet a held    *)
(* lock: the holder is the running thread and it runs with interrupts off, *)
(* so the panic("acquire") of spinlock.c is out of reach for them.         *)
(***************************************************************************)
HolderRuns == locks[lk].locked => locks[lk].holder = cur /\ ~intr

(***************************************************************************)
(* The threads keep the contract of the scheduler: every step is one that  *)
(* Scheduler allows (they wake only blocked threads, each once, and pass   *)
(* the interrupt flag on as it assumes), so what is proved of Scheduler    *)
(* holds of them: with NoPanic, that no assertion of thread.c, sync.c or   *)
(* spinlock.c fails.                                                       *)
(***************************************************************************)
ImplementsScheduler == Spec

(***************************************************************************)
(* Progress: when nobody is in the section and somebody wants to enter it, *)
(* somebody does.  sema_down() and sema_up() never leave everybody waiting,*)
(* although a woken thread may lose the race and wait again.               *)
(***************************************************************************)
SemaProgress ==
  (/\ \A t \in Thread : pc[t] # "in"
   /\ \E t \in Thread : pc[t] = "down") ~> \E t \in Thread : pc[t] = "in"
=============================================================================
