------------------------------ MODULE SyncProofs ------------------------------
(***************************************************************************)
(* What sync.c provides, for any number of threads: the semaphore excludes,*)
(* its list holds exactly the blocked threads, a held lock is that of the  *)
(* running thread; and every step of its clients is one of Scheduler, so   *)
(* that no assertion fails.                                                *)
(*                                                                         *)
(* The invariant adds to that what makes it inductive: a thread in         *)
(* sema_down() has the interrupt flag off, or will have when it is         *)
(* switched to; a thread that holds the lock is neither there nor idle.    *)
(***************************************************************************)
EXTENDS SyncClients, SchedulerProofs

SyncTypes ==
  /\ pc \in [Thread -> {"out", "down", "in"}]
  /\ old \in [Thread -> BOOLEAN]
  /\ value \in [Sema -> {0, 1}]
  /\ waiters \in [Sema -> Seq(Thread)]
  /\ locks \in [Lock -> [locked : BOOLEAN, holder : Thread \cup {NULL}, number : 0..MaxDepth]]

LockSound ==
  \/ locks[lk] = Free
  \/ /\ locks[lk].locked /\ locks[lk].holder = cur /\ locks[lk].number \in 1..MaxDepth
     /\ ~intr /\ pc[cur] # "down" /\ cur # idle

Exclusive ==
  /\ value[sem] = 1 => \A t \in Thread : pc[t] # "in"
  /\ \A t, u \in Thread : pc[t] = "in" /\ pc[u] = "in" => t = u

FlagOff ==
  /\ pc[idle] = "out"
  /\ \A t \in Thread : pc[t] = "down" => IF t = cur THEN ~intr ELSE ~saved[t]

WaitersSound ==
  /\ NoDup(waiters[sem])
  /\ idle \notin Threads(waiters[sem])
  /\ \A t \in Thread \ {idle} : t \in Threads(waiters[sem]) <=> status[t] = "BLOCKED"

SyncInv ==
  /\ IInv
  /\ SyncTypes /\ LockSound /\ Exclusive /\ FlagOff /\ WaitersSound

-----------------------------------------------------------------------------
(***************************************************************************)
(* A switch keeps FlagOff when a thread in sema_down() leaves with the     *)
(* flag off.                                                               *)
(***************************************************************************)
LEMMA SwitchedFlag ==
  ASSUME TypeOK, FlagOff, cur' \in Thread, pc' = pc, NEW restore \in BOOLEAN,
         saved' = [saved EXCEPT ![cur] = restore],
         intr' = (IF cur' = cur THEN restore ELSE saved[cur']),
         pc[cur] = "down" => ~restore
  PROVE  FlagOff'
<1>1. \A t \in Thread : saved'[t] = IF t = cur THEN restore ELSE saved[t]
  BY DEF TypeOK
<1> QED BY <1>1 DEF FlagOff

\* The names of the constants' sets.
LEMMA Single == Sema = {sem} /\ Lock = {lk} /\ idle \in Thread /\ NULL \notin Thread
BY SyncClientsAssumption, SyncAssumption, ThreadAssumption

\* IInv of the next state, for steps of Scheduler.
LEMMA NextKeeps == ASSUME SyncInv, Next PROVE IInv'
BY NextIInv DEF SyncInv

-----------------------------------------------------------------------------
LEMMA DownStep == ASSUME SyncInv, cur # idle, down PROVE SyncInv' /\ [Next]_vars
<1>1. /\ pc[cur] = "out" /\ locks[lk].holder # cur /\ pc' = [pc EXCEPT ![cur] = "down"]
      /\ old' = [old EXCEPT ![cur] = intr] /\ intr' = FALSE
      /\ UNCHANGED <<panicked, queues, locks, value, waiters>>
  BY DEF down, HoldsLock, sema_down_cli
<1>2. [Next]_vars
  <2>1. CASE intr
    BY <1>1, <2>1 DEF Next, intr_disable, queues, SyncInv, IInv
  <2>2. CASE ~intr
    BY <1>1, <2>2 DEF vars, queues, SyncInv, IInv, TypeOK
  <2> QED BY <2>1, <2>2
<1>3. IInv'
  BY <1>2, NextIInv DEF SyncInv
<1>4. cur \in Thread /\ intr \in BOOLEAN /\ pc \in [Thread -> {"out", "down", "in"}]
  BY DEF SyncInv, IInv, TypeOK, SyncTypes
<1>5. SyncTypes'
  BY <1>1, <1>4 DEF SyncInv, SyncTypes
<1>6. LockSound'
  BY <1>1 DEF SyncInv, LockSound, Free
<1>7. Exclusive' /\ FlagOff' /\ WaitersSound'
  BY <1>1, <1>4 DEF SyncInv, Exclusive, FlagOff, WaitersSound, queues
<1> QED BY <1>2, <1>3, <1>5, <1>6, <1>7 DEF SyncInv

LEMMA WaitStep == ASSUME SyncInv, cur # idle, wait PROVE SyncInv' /\ [Next]_vars
<1>1. pc[cur] = "down" /\ sema_wait(sem) /\ pc' = pc
  BY DEF wait
<1>2. /\ cur \in Thread /\ status[cur] = "RUNNING" /\ intr \in BOOLEAN /\ sem \in Sema
      /\ waiters \in [Sema -> Seq(Thread)] /\ status \in [Thread -> Status]
  BY Single DEF SyncInv, IInv, TypeOK, OneRunning, SyncTypes
<1>3. cur \notin Threads(waiters[sem])
  BY <1>2 DEF SyncInv, WaitersSound
<1> DEFINE st == [status EXCEPT ![cur] = "BLOCKED"]
<1>4. /\ waiters' = [waiters EXCEPT ![sem] = Append(@, cur)]
      /\ thread_block("BLOCKED")
      /\ UNCHANGED <<idlepc, locks, value, old>>
  BY <1>1, <1>3 DEF sema_wait, list_find
<1>5. Next
  BY <1>4, SyncAssumption DEF Next, block, SyncInv, IInv
<1>6. IInv'
  BY <1>5, NextKeeps
<1>7. Consistent(st, ready)
  BY StopConsistent DEF Stopped, SyncInv
<1>8. /\ saved' = [saved EXCEPT ![cur] = intr]
      /\ intr' = (IF cur' = cur THEN intr ELSE saved[cur'])
      /\ \A t \in Thread \ {idle} : status'[t] = "BLOCKED" <=> st[t] = "BLOCKED"
  <2>1. schedule(st, ready, intr) /\ TypeOK /\ ~panicked'
    BY <1>4, <1>6 DEF thread_block, SyncInv, IInv
  <2> QED BY <1>2, <1>7, <2>1, Switched
<1>9. /\ Append(waiters[sem], cur) \in Seq(Thread)
      /\ Threads(Append(waiters[sem], cur)) = Threads(waiters[sem]) \cup {cur}
      /\ NoDup(Append(waiters[sem], cur))
  BY <1>2, <1>3, AppendFacts DEF list_find, SyncInv, WaitersSound
<1>10. waiters'[sem] = Append(waiters[sem], cur) /\ waiters' \in [Sema -> Seq(Thread)]
  BY <1>2, <1>4, <1>9
<1>11. SyncTypes'
  BY <1>1, <1>4, <1>10 DEF SyncInv, SyncTypes
<1>12. LockSound'
  BY <1>1, <1>4 DEF SyncInv, LockSound, Free
<1>13. Exclusive'
  BY <1>1, <1>4 DEF SyncInv, Exclusive
<1>14. FlagOff'
  <2>1. ~intr
    BY <1>1, <1>2 DEF SyncInv, FlagOff
  <2>2. TypeOK /\ FlagOff /\ cur' \in Thread
    BY <1>6 DEF SyncInv, IInv, TypeOK
  <2> QED BY <1>1, <1>2, <1>8, <2>1, <2>2, SwitchedFlag
<1>15. WaitersSound'
  <2>1. \A t \in Thread : st[t] = "BLOCKED" <=> (t = cur \/ status[t] = "BLOCKED")
    BY <1>2
  <2> QED BY <1>8, <1>9, <1>10, <2>1 DEF SyncInv, WaitersSound
<1> QED BY <1>5, <1>6, <1>11, <1>12, <1>13, <1>14, <1>15 DEF SyncInv

LEMMA TakeStep == ASSUME SyncInv, cur # idle, take PROVE SyncInv' /\ [Next]_vars
<1>1. pc[cur] = "down" /\ sema_take(sem) /\ pc' = [pc EXCEPT ![cur] = "in"]
  BY DEF take
<1>2. /\ cur \in Thread /\ sem \in Sema /\ old[cur] \in BOOLEAN
      /\ value \in [Sema -> {0, 1}] /\ pc \in [Thread -> {"out", "down", "in"}]
  BY Single DEF SyncInv, IInv, TypeOK, SyncTypes
<1>3. /\ value[sem] = 1 /\ value' = [value EXCEPT ![sem] = 0]
      /\ intr' = old[cur]
      /\ UNCHANGED <<panicked, queues, locks, waiters, old>>
  BY <1>1, <1>2 DEF sema_take
<1>4. ~intr
  BY <1>1, <1>2 DEF SyncInv, FlagOff
<1>5. [Next]_vars
  <2>1. CASE old[cur]
    BY <1>3, <1>4, <2>1 DEF Next, intr_enable, queues, SyncInv, IInv
  <2>2. CASE ~old[cur]
    BY <1>2, <1>3, <1>4, <2>2 DEF vars, queues, SyncInv, IInv, TypeOK
  <2> QED BY <2>1, <2>2
<1>6. IInv'
  BY <1>5, NextIInv DEF SyncInv
<1>7. SyncTypes'
  BY <1>1, <1>2, <1>3 DEF SyncInv, SyncTypes
<1>8. LockSound'
  BY <1>1, <1>3 DEF SyncInv, LockSound, Free
<1>9. Exclusive'
  BY <1>1, <1>2, <1>3 DEF SyncInv, Exclusive
<1>10. FlagOff' /\ WaitersSound'
  BY <1>1, <1>2, <1>3 DEF SyncInv, FlagOff, WaitersSound, queues
<1> QED BY <1>5, <1>6, <1>7, <1>8, <1>9, <1>10 DEF SyncInv

LEMMA UpStep == ASSUME SyncInv, cur # idle, up PROVE SyncInv' /\ [Next]_vars
<1>1. /\ pc[cur] = "in" /\ sema_up(sem) /\ pc' = [pc EXCEPT ![cur] = "out"]
      /\ UNCHANGED idlepc
  BY DEF up
<1>2. /\ cur \in Thread /\ sem \in Sema /\ pc \in [Thread -> {"out", "down", "in"}]
      /\ value \in [Sema -> {0, 1}] /\ waiters \in [Sema -> Seq(Thread)]
  BY Single DEF SyncInv, IInv, TypeOK, SyncTypes
<1>3. value[sem] = 0
  BY <1>1, <1>2 DEF SyncInv, Exclusive
<1> DEFINE q == waiters[sem]
           w == Head(q)
<1>4. /\ value' = [value EXCEPT ![sem] = 1]
      /\ UNCHANGED <<locks, old>>
      /\ \/ q # <<>> /\ waiters' = [waiters EXCEPT ![sem] = Tail(@)] /\ thread_unblock(w)
         \/ UNCHANGED <<waiters, status, ready, all, cur, ticks, intr, saved, panicked>>
  BY <1>1, <1>3 DEF sema_up
\* The first waiter is blocked, so waking it is a step of Scheduler.
<1>5. ASSUME q # <<>>
      PROVE  /\ w \in Thread \ {idle} /\ w # cur /\ status[w] = "BLOCKED"
             /\ Tail(q) \in Seq(Thread) /\ NoDup(Tail(q))
             /\ Threads(Tail(q)) = Threads(q) \ {w}
  <2>1. q \in Seq(Thread) /\ NoDup(q) /\ idle \notin Threads(q)
    BY <1>2 DEF SyncInv, WaitersSound
  <2>2. /\ Tail(q) \in Seq(Thread) /\ NoDup(Tail(q))
        /\ Threads(Tail(q)) = Threads(q) \ {w} /\ w \in Thread /\ w \in Threads(q)
    BY <1>5, <2>1, PopFacts
  <2>3. w # idle /\ status[w] = "BLOCKED"
    BY <2>1, <2>2 DEF SyncInv, WaitersSound
  <2>4. w # cur
    BY <1>2, <2>3 DEF SyncInv, IInv, OneRunning
  <2> QED BY <2>2, <2>3, <2>4
<1>6. [Next]_vars
  <2>1. CASE q # <<>> /\ thread_unblock(w)
    <3>1. w \in Waiting
      BY <1>5, <2>1 DEF Waiting, Stopped
    <3> QED BY <1>1, <2>1, <3>1 DEF Next, unblock, SyncInv, IInv
  <2>2. CASE UNCHANGED <<status, ready, all, cur, ticks, intr, saved, panicked>>
    BY <1>1, <2>2 DEF vars
  <2> QED BY <1>4, <2>1, <2>2
<1>7. IInv'
  BY <1>6, NextIInv DEF SyncInv
<1>8. UNCHANGED <<cur, intr, saved>>
  BY <1>4, <1>7 DEF thread_unblock, panic, IInv
<1>9. \/ UNCHANGED <<waiters, status>>
      \/ /\ q # <<>> /\ waiters' = [waiters EXCEPT ![sem] = Tail(q)]
         /\ status' = [status EXCEPT ![w] = "READY"]
  BY <1>4, <1>7 DEF thread_unblock, panic, IInv
<1>10. SyncTypes'
  <2>1. waiters' \in [Sema -> Seq(Thread)]
    BY <1>2, <1>5, <1>9
  <2>2. pc' \in [Thread -> {"out", "down", "in"}] /\ value' \in [Sema -> {0, 1}]
    BY <1>1, <1>2, <1>4
  <2> QED BY <1>4, <2>1, <2>2 DEF SyncInv, SyncTypes
<1>11. LockSound'
  <2>1. pc'[cur] = "out"
    BY <1>1, <1>2
  <2> QED BY <1>4, <1>8, <2>1 DEF SyncInv, LockSound, Free
<1>12. Exclusive' /\ FlagOff'
  BY <1>1, <1>2, <1>4, <1>8 DEF SyncInv, Exclusive, FlagOff
<1>13. WaitersSound'
  <2>1. CASE UNCHANGED <<waiters, status>>
    BY <2>1 DEF SyncInv, WaitersSound
  <2>2. CASE /\ q # <<>> /\ waiters' = [waiters EXCEPT ![sem] = Tail(q)]
             /\ status' = [status EXCEPT ![w] = "READY"]
    <3>1. waiters'[sem] = Tail(q)
      BY <1>2, <2>2
    <3>2. \A t \in Thread : status'[t] = IF t = w THEN "READY" ELSE status[t]
      BY <2>2 DEF SyncInv, IInv, TypeOK
    <3> HIDE DEF q, w
    <3>3. \A t \in Thread \ {idle} : t \in Threads(q) <=> status[t] = "BLOCKED"
      BY DEF SyncInv, WaitersSound, q
    <3>4. idle \notin Threads(q)
      BY DEF SyncInv, WaitersSound, q
    <3>5. /\ w \in Thread /\ NoDup(Tail(q)) /\ Threads(Tail(q)) = Threads(q) \ {w}
      BY <1>5, <2>2
    <3> DEFINE r == Tail(q)
    <3> HIDE DEF r
    <3>6. NoDup(r) /\ Threads(r) = Threads(q) \ {w} /\ waiters'[sem] = r
      BY <3>1, <3>5 DEF r
    <3>7. \A t \in Thread \ {idle} : t \in Threads(r) <=> status'[t] = "BLOCKED"
      BY <3>2, <3>3, <3>6
    <3> QED BY <3>4, <3>6, <3>7 DEF WaitersSound
  <2> QED BY <1>9, <2>1, <2>2
<1> QED BY <1>6, <1>7, <1>10, <1>11, <1>12, <1>13 DEF SyncInv

LEMMA AcquireStep == ASSUME SyncInv, cur # idle, acquire PROVE SyncInv' /\ [Next]_vars
<1>1. /\ pc[cur] # "down" /\ pc' = pc /\ lock_acquire(lk)
      /\ locks[lk].holder = cur => locks[lk].number < MaxDepth
  BY DEF acquire, HoldsLock
<1>2. /\ cur \in Thread /\ lk \in Lock /\ cur # NULL /\ intr \in BOOLEAN
      /\ locks \in [Lock -> [locked : BOOLEAN, holder : Thread \cup {NULL}, number : 0..MaxDepth]]
  BY Single DEF SyncInv, IInv, TypeOK, SyncTypes
\* Nobody but the running thread can hold it.
<1>3. /\ locks' \in [Lock -> [locked : BOOLEAN, holder : Thread \cup {NULL}, number : 0..MaxDepth]]
      /\ locks'[lk].locked /\ locks'[lk].holder = cur
      /\ locks'[lk].number \in 1..MaxDepth
      /\ intr' = FALSE
      /\ UNCHANGED <<panicked, queues, value, waiters, old>>
  <2>1. CASE locks[lk] = Free
    <3>1. locks[lk].holder # cur /\ ~locks[lk].locked /\ locks[lk].number = 0
      BY <1>2, <2>1 DEF Free
    <3>2. /\ locks' = [locks EXCEPT ![lk] = [locked |-> TRUE, holder |-> cur, number |-> 1]]
          /\ intr' = FALSE
          /\ UNCHANGED <<panicked, queues, value, waiters, old>>
      BY <1>1, <3>1 DEF lock_acquire, spinlock_acquire
    <3> QED BY <1>2, <3>2 DEF MaxDepth
  <2>2. CASE /\ locks[lk].locked /\ locks[lk].holder = cur
             /\ locks[lk].number \in 1..MaxDepth /\ ~intr
    <3>1. /\ locks' = [locks EXCEPT ![lk].number = @ + 1]
          /\ UNCHANGED <<intr, panicked, queues, value, waiters, old>>
      BY <1>1, <2>2 DEF lock_acquire
    <3>2. locks[lk].number + 1 \in 1..MaxDepth
      BY <1>1, <2>2 DEF MaxDepth
    <3> QED BY <1>2, <2>2, <3>1, <3>2 DEF MaxDepth
  <2> QED BY <2>1, <2>2 DEF SyncInv, LockSound
<1>4. [Next]_vars
  <2>1. CASE intr
    BY <1>3, <2>1 DEF Next, intr_disable, queues, SyncInv, IInv
  <2>2. CASE ~intr
    BY <1>2, <1>3, <2>2 DEF vars, queues
  <2> QED BY <2>1, <2>2
<1>5. IInv'
  BY <1>4, NextIInv DEF SyncInv
<1>6. SyncTypes'
  BY <1>1, <1>3 DEF SyncInv, SyncTypes
<1>7. LockSound'
  BY <1>1, <1>3 DEF LockSound, queues
<1>8. Exclusive' /\ FlagOff' /\ WaitersSound'
  BY <1>1, <1>3 DEF SyncInv, Exclusive, FlagOff, WaitersSound, queues
<1> QED BY <1>4, <1>5, <1>6, <1>7, <1>8 DEF SyncInv

LEMMA ReleaseStep == ASSUME SyncInv, cur # idle, release PROVE SyncInv' /\ [Next]_vars
<1>1. locks[lk].holder = cur /\ lock_release(lk) /\ pc' = pc
  BY DEF release, HoldsLock
<1>2. /\ cur \in Thread /\ lk \in Lock /\ cur # NULL /\ NULL \in Thread \cup {NULL}
      /\ locks \in [Lock -> [locked : BOOLEAN, holder : Thread \cup {NULL}, number : 0..MaxDepth]]
  BY Single DEF SyncInv, IInv, TypeOK, SyncTypes
<1>3. /\ locks[lk].locked /\ locks[lk].number \in 1..MaxDepth
      /\ ~intr /\ pc[cur] # "down"
  BY <1>1, <1>2 DEF SyncInv, LockSound, Free
<1>4. UNCHANGED <<panicked, queues, value, waiters, old>>
  BY <1>1, <1>3 DEF lock_release
<1>5. \/ /\ locks[lk].number > 1 /\ UNCHANGED intr
         /\ locks' = [locks EXCEPT ![lk].number = @ - 1]
      \/ intr' = TRUE /\ locks' = [locks EXCEPT ![lk] = Free]
  BY <1>1, <1>3 DEF lock_release
<1>6. [Next]_vars
  BY <1>3, <1>4, <1>5 DEF Next, intr_enable, queues, vars, SyncInv, IInv
<1>7. IInv'
  BY <1>6, NextIInv DEF SyncInv
<1>8. SyncTypes' /\ LockSound'
  <2>1. CASE /\ locks[lk].number > 1 /\ UNCHANGED intr
             /\ locks' = [locks EXCEPT ![lk].number = @ - 1]
    <3>1. locks[lk].number - 1 \in 1..MaxDepth
      BY <1>3, <2>1 DEF MaxDepth
    <3>2. /\ locks' \in [Lock -> [locked : BOOLEAN, holder : Thread \cup {NULL}, number : 0..MaxDepth]]
          /\ locks'[lk].locked /\ locks'[lk].holder = cur
          /\ locks'[lk].number \in 1..MaxDepth
      BY <1>1, <1>2, <1>3, <2>1, <3>1 DEF MaxDepth
    <3> QED BY <1>1, <1>3, <1>4, <2>1, <3>2 DEF SyncInv, SyncTypes, LockSound, queues
  <2>2. CASE intr' = TRUE /\ locks' = [locks EXCEPT ![lk] = Free]
    <3>1. Free \in [locked : BOOLEAN, holder : Thread \cup {NULL}, number : 0..MaxDepth]
      BY <1>2 DEF Free, MaxDepth
    <3>2. /\ locks' \in [Lock -> [locked : BOOLEAN, holder : Thread \cup {NULL}, number : 0..MaxDepth]]
          /\ locks'[lk] = Free
      BY <1>2, <2>2, <3>1
    <3> QED BY <1>1, <1>4, <3>2 DEF SyncInv, SyncTypes, LockSound, Free
  <2> QED BY <1>5, <2>1, <2>2
<1>9. Exclusive' /\ FlagOff' /\ WaitersSound'
  BY <1>1, <1>3, <1>4 DEF SyncInv, Exclusive, FlagOff, WaitersSound, queues
<1> QED BY <1>6, <1>7, <1>8, <1>9 DEF SyncInv

LEMMA EnableStep == ASSUME SyncInv, cur # idle, enable PROVE SyncInv' /\ [Next]_vars
<1>1. /\ pc[cur] # "down" /\ locks[lk].holder # cur /\ intr_enable
      /\ UNCHANGED <<syncVars, pc>>
  BY DEF enable, HoldsLock
<1>2. Next
  BY <1>1 DEF Next, SyncInv, IInv
<1>3. IInv'
  BY <1>2, NextKeeps
<1>4. SyncTypes' /\ LockSound'
  BY <1>1 DEF SyncInv, SyncTypes, LockSound, Free, syncVars
<1>5. Exclusive' /\ FlagOff' /\ WaitersSound'
  BY <1>1 DEF SyncInv, Exclusive, FlagOff, WaitersSound, syncVars, intr_enable
<1> QED BY <1>2, <1>3, <1>4, <1>5 DEF SyncInv

LEMMA BootStep == ASSUME SyncInv, boot PROVE SyncInv' /\ [Next]_vars
<1>1. PICK t \in Thread : thread_start(t)
  BY DEF boot, start
<1>2. Next
  BY DEF boot, Next, SyncInv, IInv
<1>3. IInv'
  BY <1>2, NextKeeps
<1>4. /\ status[t] = "NONE" /\ status' = [status EXCEPT ![t] = "READY"]
      /\ saved' = [saved EXCEPT ![t] = FALSE]
      /\ UNCHANGED <<cur, intr, syncVars, pc>>
  BY <1>1, <1>3 DEF thread_start, panic, boot, IInv
<1>5. SyncTypes' /\ LockSound' /\ Exclusive'
  BY <1>4 DEF SyncInv, SyncTypes, LockSound, Free, Exclusive, syncVars
<1>6. FlagOff'
  <2>1. \A u \in Thread : saved'[u] = IF u = t THEN FALSE ELSE saved[u]
    BY <1>4 DEF SyncInv, IInv, TypeOK
  <2> QED BY <1>4, <2>1 DEF SyncInv, FlagOff
<1>7. WaitersSound'
  <2>1. \A u \in Thread : status'[u] = "BLOCKED" <=> status[u] = "BLOCKED"
    BY <1>4 DEF SyncInv, IInv, TypeOK
  <2> QED BY <1>4, <2>1 DEF SyncInv, WaitersSound, syncVars
<1> QED BY <1>2, <1>3, <1>5, <1>6, <1>7 DEF SyncInv

(***************************************************************************)
(* A step in which the clients' variables keep their values, the lock is   *)
(* free and nobody stops or is woken but idle: the timer's, idle's.        *)
(***************************************************************************)
LEMMA QuietStep ==
  ASSUME SyncInv, Next, FlagOff', locks[lk] = Free, UNCHANGED <<syncVars, pc>>,
         \A t \in Thread \ {idle} : status'[t] = "BLOCKED" <=> status[t] = "BLOCKED"
  PROVE  SyncInv'
<1>1. IInv'
  BY NextKeeps
<1>2. SyncTypes' /\ LockSound' /\ Exclusive' /\ WaitersSound'
  BY DEF SyncInv, SyncTypes, LockSound, Exclusive, WaitersSound, syncVars, Free
<1> QED BY <1>1, <1>2 DEF SyncInv

LEMMA TimerStep == ASSUME SyncInv, timer PROVE SyncInv' /\ [Next]_vars
<1>1. intr /\ timer_intr_handler /\ UNCHANGED <<syncVars, pc>>
  BY DEF timer, timer_intr_handler
<1>2. Next
  BY <1>1 DEF Next, SyncInv, IInv
<1>3. locks[lk] = Free /\ pc[cur] # "down" /\ ~panicked' /\ cur' \in Thread
  BY <1>1, <1>2, NextKeeps DEF SyncInv, LockSound, FlagOff, IInv, TypeOK
<1>4. FlagOff' /\ \A t \in Thread \ {idle} : status'[t] = "BLOCKED" <=> status[t] = "BLOCKED"
  <2>1. CASE slice_over
    <3>1. schedule(status, ready, TRUE)
      BY <1>1, <2>1 DEF timer_intr_handler
    <3>2. /\ saved' = [saved EXCEPT ![cur] = TRUE]
          /\ intr' = (IF cur' = cur THEN TRUE ELSE saved[cur'])
          /\ \A t \in Thread \ {idle} : status'[t] = "BLOCKED" <=> status[t] = "BLOCKED"
      BY <1>3, <3>1, Switched DEF SyncInv, IInv
    <3>3. TypeOK /\ FlagOff
      BY DEF SyncInv, IInv
    <3> QED BY <1>1, <1>3, <3>2, <3>3, SwitchedFlag
  <2>2. CASE ~slice_over
    <3>1. UNCHANGED <<status, cur, intr, saved, pc>>
      BY <1>1, <2>2 DEF timer_intr_handler
    <3> QED BY <3>1 DEF SyncInv, FlagOff
  <2> QED BY <2>1, <2>2
<1> QED BY <1>1, <1>2, <1>3, <1>4, QuietStep

LEMMA IdleStep == ASSUME SyncInv, idler PROVE SyncInv' /\ [Next]_vars
<1>1. /\ cur = idle /\ UNCHANGED <<syncVars, pc>>
      /\ idle_block \/ idle_hlt
  BY DEF idler, idle_block, idle_hlt
<1>2. Next
  BY <1>1 DEF Next, SyncInv, IInv
<1>3. /\ locks[lk] = Free /\ pc[cur] = "out" /\ ~panicked' /\ cur' \in Thread
      /\ cur \in Thread /\ intr \in BOOLEAN /\ status \in [Thread -> Status]
  BY <1>1, <1>2, NextKeeps, Single DEF SyncInv, LockSound, FlagOff, IInv, TypeOK
<1>4. FlagOff' /\ \A t \in Thread \ {idle} : status'[t] = "BLOCKED" <=> status[t] = "BLOCKED"
  <2>1. CASE idle_block
    <3> DEFINE st == [status EXCEPT ![cur] = "BLOCKED"]
    <3>1. schedule(st, ready, intr)
      BY <2>1 DEF idle_block, thread_block
    <3>2. Consistent(st, ready)
      BY StopConsistent DEF Stopped, SyncInv
    <3>3. \A t \in Thread \ {idle} : st[t] = status[t]
      BY <1>1, <1>3
    <3>4. TypeOK /\ FlagOff
      BY DEF SyncInv, IInv
    <3> HIDE DEF st
    <3>5. /\ saved' = [saved EXCEPT ![cur] = intr]
          /\ intr' = (IF cur' = cur THEN intr ELSE saved[cur'])
          /\ \A t \in Thread \ {idle} : status'[t] = "BLOCKED" <=> st[t] = "BLOCKED"
      BY <1>3, <3>1, <3>2, <3>4, Switched
    <3>6. FlagOff'
      BY <1>1, <1>3, <3>4, <3>5, SwitchedFlag
    <3> QED BY <3>3, <3>5, <3>6
  <2>2. CASE idle_hlt
    <3>1. UNCHANGED <<status, cur, saved, pc>>
      BY <1>1, <2>2 DEF idle_hlt
    <3> QED BY <1>3, <3>1 DEF SyncInv, FlagOff
  <2> QED BY <1>1, <2>1, <2>2
<1> QED BY <1>1, <1>2, <1>3, <1>4, QuietStep

-----------------------------------------------------------------------------
LEMMA InitSyncInv == SyncInit => SyncInv
<1> SUFFICES ASSUME SyncInit PROVE SyncInv
  OBVIOUS
<1>1. IInv
  BY InitIInv DEF SyncInit
<1>2. /\ pc = [t \in Thread |-> "out"] /\ old = [t \in Thread |-> FALSE]
      /\ value = SemaInit /\ waiters = [s \in Sema |-> <<>>]
      /\ locks = [l \in Lock |-> Free]
  BY DEF SyncInit, lock_sema_init
<1>3. sem \in Sema /\ lk \in Lock /\ idle \in Thread /\ <<>> \in Seq(Thread)
  BY Single
<1>4. SyncTypes
  <2>1. Free \in [locked : BOOLEAN, holder : Thread \cup {NULL}, number : 0..MaxDepth]
    BY DEF Free, MaxDepth
  <2> QED BY <1>2, <1>3, <2>1, SyncAssumption DEF SyncTypes
<1>5. LockSound /\ Exclusive /\ FlagOff
  BY <1>2, <1>3 DEF LockSound, Exclusive, FlagOff
<1>6. WaitersSound
  <2>1. waiters[sem] = <<>> /\ Threads(<<>>) = {} /\ NoDup(<<>>)
    BY <1>2, <1>3 DEF Threads, NoDup
  <2>2. \A t \in Thread : status[t] # "BLOCKED"
    BY ThreadAssumption DEF SyncInit, Init
  <2> QED BY <2>1, <2>2 DEF WaitersSound
<1> QED BY <1>1, <1>4, <1>5, <1>6 DEF SyncInv

LEMMA SyncStep == SyncInv /\ [SyncNext]_allVars => SyncInv' /\ [Next]_vars
<1> SUFFICES ASSUME SyncInv, [SyncNext]_allVars PROVE SyncInv' /\ [Next]_vars
  OBVIOUS
<1>1. CASE client
  BY <1>1, DownStep, WaitStep, TakeStep, UpStep, AcquireStep, ReleaseStep, EnableStep
  DEF client
<1>2. CASE boot
  BY <1>2, BootStep
<1>3. CASE timer
  BY <1>3, TimerStep
<1>4. CASE idler
  BY <1>4, IdleStep
<1>5. CASE UNCHANGED allVars
  <2>1. UNCHANGED <<vars, syncVars, pc>>
    BY <1>5 DEF allVars
  <2>2. IInv'
    BY <2>1, NextIInv DEF SyncInv
  <2>3. SyncTypes' /\ LockSound' /\ Exclusive' /\ FlagOff' /\ WaitersSound'
    BY <2>1 DEF vars, syncVars, SyncInv, SyncTypes, LockSound, Free, Exclusive,
                FlagOff, WaitersSound
  <2> QED BY <2>1, <2>2, <2>3 DEF SyncInv
<1> QED BY <1>1, <1>2, <1>3, <1>4, <1>5 DEF SyncNext

\* The invariant of the threads that use sync.c.
THEOREM SyncInvariance == SyncSpec => []SyncInv
BY InitSyncInv, SyncStep, PTL DEF SyncSpec

(***************************************************************************)
(* sema_down() and sema_up() exclude any number of threads, and while one  *)
(* is inside the value is 0, whoever barges in or is woken.                *)
(***************************************************************************)
THEOREM SemaphoreExcludes == SyncSpec => []SemaExcludes
<1>1. SyncInv => SemaExcludes
  BY Single DEF SyncInv, SyncTypes, Exclusive, SemaExcludes
<1> QED BY <1>1, SyncInvariance, PTL

(***************************************************************************)
(* The list of waiters holds each blocked thread, once, and no other: the  *)
(* tag of a thread is never on two lists, and nobody blocks unseen.        *)
(***************************************************************************)
THEOREM WaitersCorrect == SyncSpec => []WaitersAreBlocked
<1>1. SyncInv => WaitersAreBlocked
  BY DEF SyncInv, WaitersSound, NoDup, list_find, WaitersAreBlocked
<1> QED BY <1>1, SyncInvariance, PTL

(***************************************************************************)
(* A held lock of spinlock.c belongs to the running thread, which has      *)
(* interrupts off: nobody finds it held by another and panics.             *)
(***************************************************************************)
THEOREM HolderIsRunning == SyncSpec => []HolderRuns
<1>1. SyncInv => HolderRuns
  BY Single DEF SyncInv, LockSound, Free, HolderRuns
<1> QED BY <1>1, SyncInvariance, PTL

(***************************************************************************)
(* Threads that use sync.c are clients as thread.c assumes them: each step *)
(* is one of Scheduler or changes nothing of it.                           *)
(***************************************************************************)
THEOREM SyncRefinesScheduler == SyncSpec => ImplementsScheduler
<1>1. SyncInit => Init
  BY DEF SyncInit
<1>2. SyncInv /\ [SyncNext]_allVars => [Next]_vars
  BY SyncStep
<1> QED BY <1>1, <1>2, SyncInvariance, PTL DEF SyncSpec, ImplementsScheduler, Spec

(***************************************************************************)
(* Therefore no assertion of thread.c, sync.c or spinlock.c fails in them. *)
(***************************************************************************)
THEOREM SyncAssertionsHold == SyncSpec => []NoPanic
BY SyncRefinesScheduler, AssertionsHold, PTL DEF ImplementsScheduler
=============================================================================
