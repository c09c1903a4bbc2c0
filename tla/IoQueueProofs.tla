---------------------------- MODULE IoQueueProofs ----------------------------
(***************************************************************************)
(* The ring buffer of ioqueue.c, for any number of producers and consumers *)
(* and any size: no sleeper is lost, and what is put comes out in order.   *)
(*                                                                         *)
(* Its assertions do fail (see TestsWithIntrOff), so the invariant         *)
(* describes the states before the panic; SleepersAreNamed survives it.    *)
(***************************************************************************)
EXTENDS IoQueue, SchedulerProofs

Caller == Producer \cup Consumer

Roles == {"producer", "consumer"}

RingTypes ==
  /\ ring \in [0..BUF_SIZE-1 -> Char \cup {NULL}]
  /\ head \in 0..BUF_SIZE-1
  /\ tail \in 0..BUF_SIZE-1

IoqTypes ==
  /\ RingTypes
  /\ qpc \in [Caller -> {"out", "test", "wait", "woken", "ret"}]
  /\ waiting \in [Roles -> Caller \cup {NULL}]

(***************************************************************************)
(* The names in the queue: each is that of a thread blocked on that side,  *)
(* which has called thread_block() and not yet returned.                   *)
(***************************************************************************)
Named ==
  /\ \A t \in Caller : status[t] = "BLOCKED" <=> waiting[role(t)] = t
  /\ \A r \in Roles : waiting[r] # NULL => role(waiting[r]) = r
  /\ \A t \in Caller : status[t] = "BLOCKED" => qpc[t] = "woken"

(***************************************************************************)
(* The lock is held, once, by the thread that is between lock_acquire() and*)
(* lock_release(), blocked or not.                                         *)
(***************************************************************************)
Waits(t) == qpc[t] \in {"wait", "woken"}

LockHeld ==
  /\ locks \in [Lock -> [locked : BOOLEAN, holder : Caller \cup {NULL}, number : {0, 1}]]
  /\ \A t \in Caller : Waits(t) <=> locks[qlock].holder = t
  /\ locks[qlock].holder = NULL <=> locks[qlock] = Free
  /\ locks[qlock].holder # NULL => locks[qlock].locked /\ locks[qlock].number = 1

IoqInv == IInv /\ IoqTypes /\ Named /\ LockHeld

(***************************************************************************)
(* The panics the ring can end in: a caller tests it with the flag on, or  *)
(* must wait while another caller waits with the lock.                     *)
(***************************************************************************)
KnownPanic ==
  test_fails \/ (test_waits /\ locks[qlock].holder \notin {NULL, cur})

PanicNamed == panicked /\ SleepersAreNamed

-----------------------------------------------------------------------------
LEMMA Callers ==
  ASSUME IoqInv
  PROVE  /\ Caller \subseteq Thread /\ idle \notin Caller /\ NULL \notin Caller
         /\ qlock \in Lock
         /\ cur \in Thread /\ status[cur] = "RUNNING" /\ ~panicked
         /\ status \in [Thread -> Status] /\ intr \in BOOLEAN
         /\ DOMAIN qpc = Caller
         /\ \A t \in Caller : role(t) \in Roles /\ peer(t) \in Roles /\ role(t) # peer(t)
BY IoQueueAssumption, SyncAssumption
DEF IoqInv, IInv, TypeOK, OneRunning, IoqTypes, RingTypes, Caller, Roles, role, peer

\* Inside the invariant every step of Scheduler keeps IInv.
LEMMA KeepsIInv == ASSUME IoqInv, [Next]_vars PROVE IInv'
BY NextIInv DEF IoqInv

\* ((p + 1) % BUF_SIZE) for a position of the ring.
LEMMA NextPos ==
  ASSUME NEW p \in 0..BUF_SIZE-1
  PROVE  next_pos(p) = (IF p + 1 = BUF_SIZE THEN 0 ELSE p + 1)
BY IoQueueAssumption DEF next_pos

(***************************************************************************)
(* The running caller goes on outside its wait: names and lock stay.       *)
(***************************************************************************)
LEMMA Move ==
  ASSUME IoqInv, [Next]_vars, NEW l \in {"out", "test", "ret"},
         cur \in Caller, ~Waits(cur), qpc' = [qpc EXCEPT ![cur] = l],
         UNCHANGED <<status, waiting, locks>>,
         ring' \in [0..BUF_SIZE-1 -> Char \cup {NULL}],
         head' \in 0..BUF_SIZE-1, tail' \in 0..BUF_SIZE-1
  PROVE  IoqInv'
<1>1. IInv'
  BY KeepsIInv
<1>2. /\ qpc \in [Caller -> {"out", "test", "wait", "woken", "ret"}]
      /\ status[cur] = "RUNNING"
  BY Callers DEF IoqInv, IoqTypes, RingTypes
<1>3. IoqTypes'
  BY <1>2 DEF IoqInv, IoqTypes, RingTypes
<1>4. Named'
  BY <1>2 DEF IoqInv, Named
<1>5. LockHeld'
  BY <1>2 DEF IoqInv, LockHeld, Waits, Free
<1> QED BY <1>1, <1>3, <1>4, <1>5 DEF IoqInv

LEMMA EnterStep == ASSUME IoqInv, enter PROVE IoqInv' /\ [Next]_vars
<1>1. /\ cur \in Caller /\ qpc[cur] = "out" /\ intr_disable
      /\ qpc' = [qpc EXCEPT ![cur] = "test"]
      /\ UNCHANGED <<syncVars, ringVars, waiting, status>>
  BY DEF enter, At, goto, Caller, intr_disable
<1>2. [Next]_vars
  BY <1>1 DEF Next, IoqInv, IInv
<1> QED BY <1>1, <1>2, Move DEF Waits, syncVars, ringVars, IoqInv, IoqTypes, RingTypes

LEMMA LeaveStep == ASSUME IoqInv, leave PROVE IoqInv' /\ [Next]_vars
<1>1. /\ cur \in Caller /\ qpc[cur] = "ret" /\ intr_enable
      /\ qpc' = [qpc EXCEPT ![cur] = "out"]
      /\ UNCHANGED <<syncVars, ringVars, waiting, status>>
  BY DEF leave, At, goto, Caller, intr_enable
<1>2. [Next]_vars
  BY <1>1 DEF Next, IoqInv, IInv
<1> QED BY <1>1, <1>2, Move DEF Waits, syncVars, ringVars, IoqInv, IoqTypes, RingTypes

(***************************************************************************)
(* lock_acquire() by a caller that must wait: it gets a free lock, and     *)
(* panics when another caller waits with it.                               *)
(***************************************************************************)
LEMMA TestWaitsStep ==
  ASSUME IoqInv, test_waits
  PROVE  (IoqInv' /\ [Next]_vars) \/ (KnownPanic /\ PanicNamed')
<1>1. /\ cur \in Caller /\ qpc[cur] = "test" /\ ~intr
      /\ lock_acquire(qlock) /\ qpc' = [qpc EXCEPT ![cur] = "wait"]
      /\ UNCHANGED <<ringVars, waiting>>
  BY DEF test_waits, At, goto, Caller
<1>2. /\ cur \in Thread /\ cur # NULL /\ qlock \in Lock /\ status[cur] = "RUNNING"
      /\ qpc \in [Caller -> {"out", "test", "wait", "woken", "ret"}]
      /\ locks \in [Lock -> [locked : BOOLEAN, holder : Caller \cup {NULL}, number : {0, 1}]]
      /\ intr \in BOOLEAN
  BY <1>1, Callers DEF IoqInv, IoqTypes, RingTypes, LockHeld
<1>3. locks[qlock].holder # cur
  BY <1>1 DEF IoqInv, LockHeld, Waits
<1>4. CASE locks[qlock].holder = NULL
  <2>1. ~locks[qlock].locked /\ locks[qlock].number = 0
    BY <1>4 DEF IoqInv, LockHeld, Free
  <2>2. /\ locks' = [locks EXCEPT ![qlock] = [locked |-> TRUE, holder |-> cur, number |-> 1]]
        /\ intr' = FALSE /\ UNCHANGED <<panicked, queues>>
    BY <1>1, <1>3, <2>1 DEF lock_acquire, spinlock_acquire
  <2>3. UNCHANGED vars
    BY <1>1, <1>2, <2>2 DEF queues, vars
  <2>4. IInv'
    BY <2>3, KeepsIInv
  <2>5. IoqTypes'
    BY <1>1, <1>2 DEF IoqInv, IoqTypes, RingTypes, ringVars
  <2>6. Named'
    BY <1>1, <1>2, <2>3 DEF IoqInv, Named, vars
  <2>7. /\ locks'[qlock].locked /\ locks'[qlock].holder = cur /\ locks'[qlock].number = 1
        /\ locks' \in [Lock -> [locked : BOOLEAN, holder : Caller \cup {NULL}, number : {0, 1}]]
    BY <1>1, <1>2, <2>2
  <2>8. \A t \in Caller : ~Waits(t)
    BY <1>4, Callers DEF IoqInv, LockHeld
  <2>9. \A t \in Caller : Waits(t)' <=> t = cur
    BY <1>1, <1>2, <2>8 DEF Waits
  <2>10. LockHeld'
    <3>1. locks'[qlock] # Free
      BY <1>2, <2>7 DEF Free
    <3> QED BY <1>1, <1>2, <2>7, <2>9, <3>1 DEF LockHeld
  <2> QED BY <2>3, <2>4, <2>5, <2>6, <2>10 DEF IoqInv
<1>5. CASE locks[qlock].holder # NULL
  <2>1. locks[qlock].locked
    BY <1>5 DEF IoqInv, LockHeld
  <2>2. sync_panic
    BY <1>1, <1>3, <2>1 DEF lock_acquire, spinlock_acquire
  <2>3. SleepersAreNamed'
    BY <1>1, <1>2, <2>2 DEF IoqInv, Named, SleepersAreNamed, sync_panic, queues
  <2> QED BY <1>3, <1>5, <2>2, <2>3 DEF KnownPanic, PanicNamed, sync_panic
<1> QED BY <1>4, <1>5

(***************************************************************************)
(* The assertion of ioqueue_wait() holds: who is about to leave its name   *)
(* has the lock, and so has whoever left a name there.                     *)
(***************************************************************************)
LEMMA SlotIsFree ==
  ASSUME IoqInv, cur \in Caller, Waits(cur)
  PROVE  waiting[role(cur)] = NULL
<1> DEFINE r == role(cur)
           u == waiting[r]
<1>1. r \in Roles /\ u \in Caller \cup {NULL} /\ status[cur] = "RUNNING"
  BY Callers DEF IoqInv, IoqTypes, RingTypes
<1>2. SUFFICES ASSUME u \in Caller PROVE FALSE
  BY <1>1
<1>3. role(u) = r
  BY <1>1, <1>2, Callers DEF IoqInv, Named
<1>4. status[u] = "BLOCKED" /\ qpc[u] = "woken"
  BY <1>2, <1>3 DEF IoqInv, Named
<1>5. locks[qlock].holder = u /\ locks[qlock].holder = cur
  BY <1>2, <1>4 DEF IoqInv, LockHeld, Waits
<1> QED BY <1>1, <1>4, <1>5

LEMMA WaitStep == ASSUME IoqInv, ioqueue_wait PROVE IoqInv' /\ [Next]_vars
<1> DEFINE r == role(cur)
           st == [status EXCEPT ![cur] = "BLOCKED"]
<1>1. cur \in Caller /\ qpc[cur] = "wait" /\ UNCHANGED ringVars
  BY DEF ioqueue_wait, At, Caller
<1>2. waiting[r] = NULL
  BY <1>1, SlotIsFree DEF Waits
<1>3. /\ waiting' = [waiting EXCEPT ![r] = cur]
      /\ thread_block("BLOCKED") /\ UNCHANGED <<idlepc, syncVars>>
      /\ qpc' = [qpc EXCEPT ![cur] = "woken"]
  BY <1>2 DEF ioqueue_wait, goto
<1>4. /\ cur \in Thread /\ cur # idle /\ cur # NULL /\ r \in Roles
      /\ status[cur] = "RUNNING" /\ status \in [Thread -> Status] /\ intr \in BOOLEAN
      /\ Caller \subseteq Thread \ {idle}
      /\ qpc \in [Caller -> {"out", "test", "wait", "woken", "ret"}]
      /\ waiting \in [Roles -> Caller \cup {NULL}]
      /\ \A t \in Caller : role(t) \in Roles
  BY <1>1, Callers DEF IoqInv, IoqTypes, RingTypes
<1>5. Next
  BY <1>3, <1>4, SyncAssumption DEF Next, block, IoqInv, IInv
<1>6. IInv'
  BY <1>5, KeepsIInv
<1>7. Consistent(st, ready)
  BY StopConsistent DEF Stopped, IoqInv
<1>8. \A t \in Thread \ {idle} : status'[t] = "BLOCKED" <=> st[t] = "BLOCKED"
  <2>1. schedule(st, ready, intr) /\ TypeOK /\ ~panicked'
    BY <1>3, <1>6 DEF thread_block, IoqInv, IInv
  <2> HIDE DEF st
  <2> QED BY <1>4, <1>7, <2>1, Switched
<1>9. \A t \in Caller : status'[t] = "BLOCKED" <=> (t = cur \/ status[t] = "BLOCKED")
  BY <1>4, <1>8
<1> HIDE DEF r, st
<1>10. IoqTypes'
  BY <1>1, <1>3, <1>4 DEF IoqInv, IoqTypes, RingTypes, ringVars
<1>11. Named'
  <2>1. \A x \in Roles : waiting'[x] = IF x = r THEN cur ELSE waiting[x]
    BY <1>3, <1>4
  <2>2. \A t \in Caller : qpc'[t] = IF t = cur THEN "woken" ELSE qpc[t]
    BY <1>3, <1>4
  <2>3. \A t \in Caller : status'[t] = "BLOCKED" <=> waiting'[role(t)] = t
    <3>1. SUFFICES ASSUME NEW t \in Caller
                   PROVE  status'[t] = "BLOCKED" <=> waiting'[role(t)] = t
      OBVIOUS
    <3>2. CASE t = cur
      BY <1>4, <1>9, <2>1, <3>2 DEF r
    <3>3. CASE t # cur
      BY <1>2, <1>4, <1>9, <2>1, <3>3, Callers DEF IoqInv, Named
    <3> QED BY <3>2, <3>3
  <2>4. \A x \in Roles : waiting'[x] # NULL => role(waiting'[x]) = x
    BY <2>1 DEF IoqInv, Named, r
  <2>5. \A t \in Caller : status'[t] = "BLOCKED" => qpc'[t] = "woken"
    BY <1>9, <2>2 DEF IoqInv, Named
  <2> QED BY <2>3, <2>4, <2>5 DEF Named
<1>12. LockHeld'
  BY <1>1, <1>3, <1>4 DEF IoqInv, LockHeld, Waits, Free, syncVars
<1> QED BY <1>5, <1>6, <1>10, <1>11, <1>12 DEF IoqInv

\* lock_release() by the thread that was woken: it does hold the lock.
LEMMA WokenStep == ASSUME IoqInv, woken PROVE IoqInv' /\ [Next]_vars
<1>1. /\ cur \in Caller /\ qpc[cur] = "woken" /\ lock_release(qlock)
      /\ qpc' = [qpc EXCEPT ![cur] = "test"] /\ UNCHANGED <<ringVars, waiting>>
  BY DEF woken, At, goto, Caller
<1>2. /\ cur \in Thread /\ cur # idle /\ cur # NULL /\ qlock \in Lock
      /\ status[cur] = "RUNNING" /\ intr \in BOOLEAN
      /\ qpc \in [Caller -> {"out", "test", "wait", "woken", "ret"}]
      /\ locks \in [Lock -> [locked : BOOLEAN, holder : Caller \cup {NULL}, number : {0, 1}]]
  BY <1>1, Callers DEF IoqInv, IoqTypes, RingTypes, LockHeld
<1>3. locks[qlock].holder = cur /\ locks[qlock].locked /\ locks[qlock].number = 1
  BY <1>1, <1>2 DEF IoqInv, LockHeld, Waits
<1>4. /\ locks' = [locks EXCEPT ![qlock] = Free] /\ intr' = TRUE
      /\ UNCHANGED <<panicked, queues>>
  BY <1>1, <1>3 DEF lock_release
<1>5. [Next]_vars
  <2>1. CASE intr
    BY <1>2, <1>4, <2>1 DEF vars, queues
  <2>2. CASE ~intr
    BY <1>2, <1>4, <2>2 DEF Next, intr_enable, queues, IoqInv, IInv
  <2> QED BY <1>2, <2>1, <2>2
<1>6. IInv'
  BY <1>5, KeepsIInv
<1>7. IoqTypes'
  BY <1>1, <1>2 DEF IoqInv, IoqTypes, RingTypes, ringVars
<1>8. Named'
  BY <1>1, <1>2, <1>4 DEF IoqInv, Named, queues
<1>9. LockHeld'
  <2>1. \A t \in Caller : ~Waits(t)'
    BY <1>1, <1>2, <1>3 DEF IoqInv, LockHeld, Waits
  <2>2. Free \in [locked : BOOLEAN, holder : Caller \cup {NULL}, number : {0, 1}]
    BY DEF Free
  <2>3. locks'[qlock] = Free /\ Free.holder = NULL /\ NULL \notin Caller
    BY <1>1, <1>2, <1>4, Callers DEF Free
  <2> QED BY <1>2, <1>4, <2>1, <2>2, <2>3 DEF LockHeld
<1> QED BY <1>5, <1>6, <1>7, <1>8, <1>9 DEF IoqInv

-----------------------------------------------------------------------------
(***************************************************************************)
(* ioqueue_wakeup(): the name in the queue is that of a blocked thread, so *)
(* thread_unblock() accepts it.                                            *)
(***************************************************************************)
LEMMA WakeupStep ==
  ASSUME IoqInv, cur \in Caller, qpc[cur] = "test", ioqueue_wakeup,
         qpc' = [qpc EXCEPT ![cur] = "ret"], UNCHANGED locks,
         ring' \in [0..BUF_SIZE-1 -> Char \cup {NULL}],
         head' \in 0..BUF_SIZE-1, tail' \in 0..BUF_SIZE-1
  PROVE  IoqInv' /\ [Next]_vars
<1> DEFINE p == peer(cur)
           w == waiting[p]
<1>1. CASE w = NULL
  <2>1. UNCHANGED <<vars, waiting>>
    BY <1>1 DEF ioqueue_wakeup
  <2> QED BY <2>1, Move DEF vars, Waits
<1>2. CASE w # NULL
  <2>1. /\ thread_unblock(w) /\ UNCHANGED idlepc
        /\ waiting' = [waiting EXCEPT ![p] = NULL]
    BY <1>2 DEF ioqueue_wakeup
  <2>2. /\ p \in Roles /\ p # role(cur) /\ w \in Caller /\ w \in Thread \ {idle}
        /\ cur # idle /\ NULL \notin Caller /\ Caller \subseteq Thread \ {idle}
        /\ status[cur] = "RUNNING" /\ status \in [Thread -> Status]
        /\ waiting \in [Roles -> Caller \cup {NULL}]
        /\ qpc \in [Caller -> {"out", "test", "wait", "woken", "ret"}]
        /\ \A t \in Caller : role(t) \in Roles
    BY <1>2, Callers DEF IoqInv, IoqTypes, RingTypes
  <2>3. role(w) = p /\ status[w] = "BLOCKED" /\ qpc[w] = "woken" /\ w # cur
    BY <1>2, <2>2 DEF IoqInv, Named
  <2>4. w \in Waiting
    BY <2>2, <2>3 DEF Waiting, Stopped
  <2>5. Next
    BY <2>1, <2>2, <2>4 DEF Next, unblock, IoqInv, IInv
  <2>6. IInv'
    BY <2>5, KeepsIInv
  <2>7. status' = [status EXCEPT ![w] = "READY"]
    BY <2>1, <2>6 DEF thread_unblock, panic, IInv
  <2> HIDE DEF p, w
  <2>8. IoqTypes'
    BY <2>1, <2>2 DEF IoqInv, IoqTypes, RingTypes
  <2>9. Named'
    <3>1. \A t \in Caller : status'[t] = "BLOCKED" <=> (t # w /\ status[t] = "BLOCKED")
      BY <2>2, <2>7
    <3>2. \A x \in Roles : waiting'[x] = IF x = p THEN NULL ELSE waiting[x]
      BY <2>1, <2>2
    <3>3. \A t \in Caller : t # cur => qpc'[t] = qpc[t]
      BY <2>2
    <3>4. \A t \in Caller : status'[t] = "BLOCKED" <=> waiting'[role(t)] = t
      <4>1. SUFFICES ASSUME NEW t \in Caller
                     PROVE  status'[t] = "BLOCKED" <=> waiting'[role(t)] = t
        OBVIOUS
      <4>2. CASE role(t) = p
        <5>1. waiting'[role(t)] # t
          BY <2>2, <3>2, <4>2
        <5>2. status[t] = "BLOCKED" => t = w
          BY <4>2 DEF IoqInv, Named, w
        <5> QED BY <3>1, <5>1, <5>2
      <4>3. CASE role(t) # p
        BY <2>2, <2>3, <3>1, <3>2, <4>3 DEF IoqInv, Named
      <4> QED BY <4>2, <4>3
    <3> QED BY <2>2, <3>1, <3>2, <3>3, <3>4 DEF IoqInv, Named
  <2>10. LockHeld'
    BY <2>2 DEF IoqInv, LockHeld, Waits, Free
  <2> QED BY <2>5, <2>6, <2>8, <2>9, <2>10 DEF IoqInv
<1> QED BY <1>1, <1>2

LEMMA PositionType ==
  ASSUME NEW p \in 0..BUF_SIZE-1 PROVE next_pos(p) \in 0..BUF_SIZE-1
BY NextPos, IoQueueAssumption

LEMMA GetStep == ASSUME IoqInv, ioqueue_getchar PROVE IoqInv' /\ [Next]_vars
<1>1. /\ cur \in Caller /\ qpc[cur] = "test" /\ ioqueue_wakeup
      /\ qpc' = [qpc EXCEPT ![cur] = "ret"]
      /\ tail' = next_pos(tail) /\ UNCHANGED <<locks, ring, head>>
  BY DEF ioqueue_getchar, At, goto, Caller, syncVars
<1>2. tail' \in 0..BUF_SIZE-1
  BY <1>1, PositionType DEF IoqInv, IoqTypes, RingTypes
<1> QED BY <1>1, <1>2, WakeupStep DEF IoqInv, IoqTypes, RingTypes

LEMMA PutStep == ASSUME IoqInv, ioqueue_putchar PROVE IoqInv' /\ [Next]_vars
<1>1. /\ cur \in Caller /\ qpc[cur] = "test" /\ ioqueue_wakeup
      /\ qpc' = [qpc EXCEPT ![cur] = "ret"]
      /\ head' = next_pos(head) /\ UNCHANGED <<locks, tail>>
      /\ \E c \in Char : ring' = [ring EXCEPT ![head] = c]
  BY DEF ioqueue_putchar, At, goto, Caller, syncVars
<1>2. head' \in 0..BUF_SIZE-1
  BY <1>1, PositionType DEF IoqInv, IoqTypes, RingTypes
<1>3. ring' \in [0..BUF_SIZE-1 -> Char \cup {NULL}]
  BY <1>1 DEF IoqInv, IoqTypes, RingTypes
<1> QED BY <1>1, <1>2, <1>3, WakeupStep DEF IoqInv, IoqTypes, RingTypes

-----------------------------------------------------------------------------
(***************************************************************************)
(* The other steps: the queue is left alone and no caller stops or wakes.  *)
(***************************************************************************)
LEMMA QuietStep ==
  ASSUME IoqInv, Next, UNCHANGED unused,
         \A t \in Thread \ {idle} : status'[t] = "BLOCKED" <=> status[t] = "BLOCKED"
  PROVE  IoqInv' /\ [Next]_vars
<1>1. IInv' /\ Caller \subseteq Thread \ {idle}
  BY KeepsIInv, Callers
<1>2. UNCHANGED <<locks, ring, head, tail, waiting, qpc>>
  BY DEF unused, syncVars, ringVars
<1>3. IoqTypes' /\ Named' /\ LockHeld'
  BY <1>1, <1>2 DEF IoqInv, IoqTypes, RingTypes, Named, LockHeld, Waits, Free
<1> QED BY <1>1, <1>3 DEF IoqInv

LEMMA EnableStep == ASSUME IoqInv, enable PROVE IoqInv' /\ [Next]_vars
BY QuietStep DEF enable, Next, intr_enable, IoqInv, IInv

LEMMA BootStep == ASSUME IoqInv, boot PROVE IoqInv' /\ [Next]_vars
<1>1. PICK t \in Thread : thread_start(t)
  BY DEF boot, start
<1>2. Next /\ UNCHANGED unused
  BY DEF boot, Next, IoqInv, IInv
<1>3. IInv'
  BY <1>2, KeepsIInv
<1>4. status[t] = "NONE" /\ status' = [status EXCEPT ![t] = "READY"]
  BY <1>1, <1>3 DEF thread_start, panic, IInv
<1>5. \A u \in Thread : status'[u] = "BLOCKED" <=> status[u] = "BLOCKED"
  BY <1>4, Callers
<1> QED BY <1>2, <1>5, QuietStep

LEMMA TimerStep == ASSUME IoqInv, timer PROVE IoqInv' /\ [Next]_vars
<1>1. Next /\ timer_intr_handler /\ UNCHANGED unused
  BY DEF timer, Next, IoqInv, IInv
<1>2. ~panicked' /\ TypeOK /\ Consistent(status, ready)
  BY <1>1, KeepsIInv DEF IoqInv, IInv
<1>3. \A t \in Thread \ {idle} : status'[t] = "BLOCKED" <=> status[t] = "BLOCKED"
  <2>1. CASE slice_over
    <3>1. schedule(status, ready, TRUE)
      BY <1>1, <2>1 DEF timer_intr_handler
    <3> QED BY <1>2, <3>1, Switched
  <2>2. CASE ~slice_over
    BY <1>1, <2>2 DEF timer_intr_handler
  <2> QED BY <2>1, <2>2
<1> QED BY <1>1, <1>3, QuietStep

LEMMA IdleStep == ASSUME IoqInv, idler PROVE IoqInv' /\ [Next]_vars
<1>1. Next /\ UNCHANGED unused /\ cur = idle /\ (idle_block \/ idle_hlt)
  BY DEF idler, Next, IoqInv, IInv, idle_block, idle_hlt
<1>2. /\ ~panicked' /\ TypeOK /\ intr \in BOOLEAN /\ cur \in Thread
      /\ status \in [Thread -> Status]
  BY <1>1, KeepsIInv DEF IoqInv, IInv, TypeOK
<1>3. \A t \in Thread \ {idle} : status'[t] = "BLOCKED" <=> status[t] = "BLOCKED"
  <2>1. CASE idle_block
    <3> DEFINE st == [status EXCEPT ![cur] = "BLOCKED"]
    <3>1. schedule(st, ready, intr)
      BY <2>1 DEF idle_block, thread_block
    <3>2. Consistent(st, ready)
      BY StopConsistent DEF Stopped, IoqInv
    <3>3. \A t \in Thread \ {idle} : st[t] = status[t]
      BY <1>1, <1>2
    <3> HIDE DEF st
    <3>4. \A t \in Thread \ {idle} : status'[t] = "BLOCKED" <=> st[t] = "BLOCKED"
      BY <1>2, <3>1, <3>2, Switched
    <3> QED BY <3>3, <3>4
  <2>2. CASE idle_hlt
    BY <2>2 DEF idle_hlt
  <2> QED BY <1>1, <2>1, <2>2
<1> QED BY <1>1, <1>3, QuietStep

-----------------------------------------------------------------------------
LEMMA InitIoqInv == IoqInit => IoqInv
<1> SUFFICES ASSUME IoqInit PROVE IoqInv
  OBVIOUS
<1>1. IInv
  BY InitIInv DEF IoqInit
<1>2. /\ qpc = [t \in Caller |-> "out"]
      /\ ring = [i \in 0..BUF_SIZE-1 |-> NULL] /\ head = 0 /\ tail = 0
      /\ waiting \in [Roles -> {NULL}]
      /\ locks = [l \in Lock |-> Free]
      /\ \A t \in Thread : status[t] # "BLOCKED"
  BY ThreadAssumption
  DEF IoqInit, ioqueue_init, lock_sema_init, Init, Caller, Roles
<1>3. /\ Caller \subseteq Thread /\ NULL \notin Caller
      /\ \A t \in Caller : role(t) \in Roles
  BY IoQueueAssumption, SyncAssumption DEF Caller, Roles, role
<1>4. IoqTypes
  BY <1>2, IoQueueAssumption DEF IoqTypes, RingTypes
<1>5. Named
  BY <1>2, <1>3 DEF Named
<1>6. LockHeld
  <2>1. Free \in [locked : BOOLEAN, holder : Caller \cup {NULL}, number : {0, 1}]
    BY DEF Free
  <2>2. locks[qlock] = Free /\ Free.holder = NULL
    BY <1>2, IoQueueAssumption DEF Free
  <2> QED BY <1>2, <1>3, <2>1, <2>2 DEF LockHeld, Waits
<1> QED BY <1>1, <1>4, <1>5, <1>6 DEF IoqInv

(***************************************************************************)
(* A step from the invariant is one of Scheduler and keeps it, or one of   *)
(* the two known panics.                                                   *)
(***************************************************************************)
LEMMA IoqStep ==
  ASSUME IoqInv, [IoqNext]_ioqVars
  PROVE  (IoqInv' /\ [Next]_vars) \/ (KnownPanic /\ PanicNamed')
<1>1. CASE test_fails
  BY <1>1 DEF test_fails, sync_panic, queues, KnownPanic, PanicNamed,
              SleepersAreNamed, IoqInv, IoqTypes, RingTypes, Named
<1>2. CASE UNCHANGED ioqVars
  <2>1. UNCHANGED <<vars, syncVars, ringVars, waiting, qpc>>
    BY <1>2 DEF ioqVars
  <2>2. IInv'
    BY <2>1, KeepsIInv
  <2>3. IoqTypes' /\ Named' /\ LockHeld'
    BY <2>1 DEF vars, syncVars, ringVars, IoqInv, IoqTypes, RingTypes, Named, LockHeld, Waits, Free
  <2> QED BY <2>1, <2>2, <2>3 DEF IoqInv
<1> QED BY <1>1, <1>2, EnterStep, TestWaitsStep, WaitStep, WokenStep, GetStep,
           PutStep, LeaveStep, EnableStep, BootStep, TimerStep, IdleStep
        DEF IoqNext

\* Nothing happens after a panic.
LEMMA PanickedStep == PanicNamed /\ [IoqNext]_ioqVars => PanicNamed'
BY DEF PanicNamed, IoqNext, ioqVars, vars, SleepersAreNamed

\* Up to a panic the queue, its lock and its callers are in step.
THEOREM IoqInvariance == IoqSpec => [](IoqInv \/ PanicNamed)
<1>1. (IoqInv \/ PanicNamed) /\ [IoqNext]_ioqVars => (IoqInv \/ PanicNamed)'
  BY IoqStep, PanickedStep
<1> QED BY InitIoqInv, <1>1, PTL DEF IoqSpec

(***************************************************************************)
(* ioqueue_wakeup() finds every sleeper, and wakes nobody who does not     *)
(* sleep.                                                                  *)
(***************************************************************************)
THEOREM SleepersNamed == IoqSpec => []SleepersAreNamed
<1>1. IoqInv \/ PanicNamed => SleepersAreNamed
  BY DEF IoqInv, IoqTypes, RingTypes, Named, PanicNamed, SleepersAreNamed
<1> QED BY <1>1, IoqInvariance, PTL

(***************************************************************************)
(* Of the assertions and panics a call of the queue can reach, in ioqueue.c*)
(* and in the lock, the semaphore's lists and the scheduler under it, only *)
(* two are ever met: that of ioqueue_full() and ioqueue_empty() about the  *)
(* flag, and the lock held by a caller that waits.                         *)
(***************************************************************************)
THEOREM OnlyKnownPanics == IoqSpec => [][panicked' => KnownPanic]_ioqVars
<1>1. (IoqInv \/ PanicNamed) /\ [IoqNext]_ioqVars => [panicked' => KnownPanic]_ioqVars
  <2> SUFFICES ASSUME IoqInv \/ PanicNamed, IoqNext, panicked' PROVE KnownPanic
    OBVIOUS
  <2>1. IoqInv
    BY DEF IoqNext, PanicNamed
  <2> QED BY <2>1, IoqStep DEF IoqInv, IInv
<1> QED BY <1>1, IoqInvariance, PTL DEF IoqSpec

-----------------------------------------------------------------------------
(* The ring as a queue: the arithmetic of its positions.                    *)

\* One wrap-around at most.
LEMMA Wrap ==
  ASSUME NEW x \in 0..(2 * BUF_SIZE - 1)
  PROVE  x % BUF_SIZE = (IF x < BUF_SIZE THEN x ELSE x - BUF_SIZE)
<1>1. BUF_SIZE \in Nat /\ BUF_SIZE > 1
  BY IoQueueAssumption
<1>2. CASE x < BUF_SIZE
  BY <1>1, <1>2
<1>3. CASE x >= BUF_SIZE
  <2>1. x - BUF_SIZE \in 0..BUF_SIZE-1
    BY <1>1, <1>3
  <2>2. x = BUF_SIZE * 1 + (x - BUF_SIZE)
    BY <1>1
  <2> QED BY <1>1, <1>3, <2>1, <2>2
<1> QED BY <1>1, <1>2, <1>3

Count == IF head >= tail THEN head - tail ELSE head + BUF_SIZE - tail

Slot(i) == IF tail + i - 1 < BUF_SIZE THEN tail + i - 1 ELSE tail + i - 1 - BUF_SIZE

LEMMA ContentsIs ==
  ASSUME RingTypes
  PROVE  /\ Count \in 0..BUF_SIZE-1
         /\ \A i \in 1..(Count + 1) : Slot(i) \in 0..BUF_SIZE-1
         /\ Contents = [i \in 1..Count |-> ring[Slot(i)]]
<1>1. BUF_SIZE \in Nat /\ BUF_SIZE > 1 /\ head \in 0..BUF_SIZE-1 /\ tail \in 0..BUF_SIZE-1
  BY IoQueueAssumption DEF RingTypes
<1>2. Count \in 0..BUF_SIZE-1
  BY <1>1 DEF Count
<1>3. (head + BUF_SIZE - tail) % BUF_SIZE = Count
  <2>1. head + BUF_SIZE - tail \in 0..(2 * BUF_SIZE - 1)
    BY <1>1
  <2> DEFINE x == head + BUF_SIZE - tail
  <2> HIDE DEF x
  <2>2. x % BUF_SIZE = IF x < BUF_SIZE THEN x ELSE x - BUF_SIZE
    BY <2>1, Wrap DEF x
  <2>3. Count = IF x < BUF_SIZE THEN x ELSE x - BUF_SIZE
    BY <1>1 DEF Count, x
  <2> QED BY <2>2, <2>3 DEF x
<1>4. \A i \in 1..(Count + 1) :
        /\ (tail + i - 1) % BUF_SIZE = Slot(i)
        /\ Slot(i) \in 0..BUF_SIZE-1
  <2>1. SUFFICES ASSUME NEW i \in 1..(Count + 1)
                 PROVE  /\ (tail + i - 1) % BUF_SIZE = Slot(i)
                        /\ Slot(i) \in 0..BUF_SIZE-1
    OBVIOUS
  <2>2. tail + i - 1 \in 0..(2 * BUF_SIZE - 1)
    BY <1>1, <1>2
  <2> DEFINE x == tail + i - 1
  <2> HIDE DEF x
  <2>3. x % BUF_SIZE = IF x < BUF_SIZE THEN x ELSE x - BUF_SIZE
    BY <2>2, Wrap DEF x
  <2>4. Slot(i) = IF x < BUF_SIZE THEN x ELSE x - BUF_SIZE
    BY <1>1, <1>2 DEF Slot, x
  <2>5. x % BUF_SIZE = Slot(i)
    BY <2>3, <2>4
  <2>6. Slot(i) \in 0..BUF_SIZE-1
    <3>1. x \in 0..(2 * BUF_SIZE - 1)
      BY <2>2 DEF x
    <3>2. x < BUF_SIZE => x \in 0..BUF_SIZE-1
      BY <1>1, <3>1
    <3>3. ~(x < BUF_SIZE) => x - BUF_SIZE \in 0..BUF_SIZE-1
      BY <1>1, <3>1
    <3> QED BY <2>4, <3>2, <3>3
  <2> QED BY <2>5, <2>6 DEF x
<1>5. \A i \in 1..Count : i \in 1..(Count + 1)
  BY <1>2
<1> QED BY <1>2, <1>3, <1>4, <1>5 DEF Contents

ContentsFacts ==
  /\ Contents \in Seq(Char \cup {NULL})
  /\ Len(Contents) = Count
  /\ \A i \in 1..Count : Contents[i] = ring[Slot(i)]

LEMMA ContentsSeq == RingTypes => ContentsFacts
<1> SUFFICES ASSUME RingTypes PROVE ContentsFacts
  OBVIOUS
<1>1. /\ Count \in Nat /\ Contents = [i \in 1..Count |-> ring[Slot(i)]]
      /\ \A i \in 1..Count : ring[Slot(i)] \in Char \cup {NULL}
  BY ContentsIs, IoQueueAssumption DEF RingTypes
<1> QED BY <1>1 DEF ContentsFacts

\* The same of the next state.
LEMMA ContentsSeqNext == RingTypes' => ContentsFacts'
BY ContentsSeq, PTL

LEMMA FullEmpty ==
  ASSUME RingTypes
  PROVE  /\ ioqueue_full <=> Count = BUF_SIZE - 1
         /\ ioqueue_empty <=> Count = 0
<1>1. BUF_SIZE \in Nat /\ BUF_SIZE > 1 /\ head \in 0..BUF_SIZE-1 /\ tail \in 0..BUF_SIZE-1
  BY IoQueueAssumption DEF RingTypes
<1>2. next_pos(head) = IF head + 1 = BUF_SIZE THEN 0 ELSE head + 1
  BY <1>1, NextPos
<1> QED BY <1>1, <1>2 DEF ioqueue_full, ioqueue_empty, Count

\* A sequence is what it holds at each position.
LEMMA SameSeq ==
  ASSUME NEW S, NEW s \in Seq(S), NEW u \in Seq(S), Len(s) = Len(u),
         \A i \in 1..Len(s) : s[i] = u[i]
  PROVE  s = u
OBVIOUS

(***************************************************************************)
(* ioqueue_putchar() writes the slot behind the last one in use, even when *)
(* the ring wraps around there.                                            *)
(***************************************************************************)
LEMMA PutAppends ==
  ASSUME RingTypes, RingTypes', NEW c \in Char,
         ~ioqueue_full, ring' = [ring EXCEPT ![head] = c],
         head' = next_pos(head), tail' = tail
  PROVE  F!Put
<1>1. BUF_SIZE \in Nat /\ BUF_SIZE > 1 /\ head \in 0..BUF_SIZE-1 /\ tail \in 0..BUF_SIZE-1
  BY IoQueueAssumption DEF RingTypes
<1>2. head' = IF head + 1 = BUF_SIZE THEN 0 ELSE head + 1
  BY <1>1, NextPos
<1>3. Count \in 0..BUF_SIZE-1 /\ Count < BUF_SIZE - 1
  BY <1>1, ContentsIs, FullEmpty
<1>4. Count' = Count + 1
  BY <1>1, <1>2, <1>3 DEF Count
<1>5. /\ \A i \in 1..Count : Slot(i) # head
      /\ Slot(Count + 1) = head
      /\ \A i \in 1..(Count + 1) : Slot(i)' = Slot(i)
  BY <1>1, <1>3 DEF Slot, Count
<1>6. /\ Contents \in Seq(Char \cup {NULL}) /\ Len(Contents) = Count
      /\ \A i \in 1..Count : Contents[i] = ring[Slot(i)]
      /\ \A i \in 1..(Count + 1) : Slot(i) \in 0..BUF_SIZE-1
  BY ContentsSeq, ContentsIs DEF ContentsFacts
<1>7. /\ Contents' \in Seq(Char \cup {NULL}) /\ Len(Contents') = Count'
      /\ \A i \in 1..Count' : Contents'[i] = ring'[Slot(i)']
  BY ContentsSeqNext DEF ContentsFacts
<1> DEFINE u == Append(Contents, c)
<1>8. /\ u \in Seq(Char \cup {NULL}) /\ Len(u) = Count + 1
      /\ \A i \in 1..Count : u[i] = Contents[i]
      /\ u[Count + 1] = c
  BY <1>3, <1>6
<1>9. /\ \A i \in 1..Count : ring'[Slot(i)] = ring[Slot(i)]
      /\ ring'[Slot(Count + 1)] = c
  BY <1>1, <1>3, <1>5, <1>6 DEF RingTypes
<1> HIDE DEF u
<1>10. \A i \in 1..(Count + 1) : Contents'[i] = u[i]
  <2>1. SUFFICES ASSUME NEW i \in 1..(Count + 1) PROVE Contents'[i] = u[i]
    OBVIOUS
  <2>2. Contents'[i] = ring'[Slot(i)]
    BY <1>4, <1>5, <1>7
  <2>3. CASE i = Count + 1
    BY <1>8, <1>9, <2>2, <2>3
  <2>4. CASE i # Count + 1
    <3>1. i \in 1..Count
      BY <1>3, <2>4
    <3> QED BY <1>6, <1>8, <1>9, <2>2, <3>1
  <2> QED BY <2>3, <2>4
<1>11. Contents' = u
  BY <1>4, <1>7, <1>8, <1>10, SameSeq
<1> QED BY <1>3, <1>6, <1>11 DEF F!Put, u

(* ioqueue_getchar() takes the slot that was filled first.                  *)
LEMMA GetRemovesFirst ==
  ASSUME RingTypes, RingTypes', ~ioqueue_empty,
         ring' = ring, head' = head, tail' = next_pos(tail)
  PROVE  F!Get
<1>1. BUF_SIZE \in Nat /\ BUF_SIZE > 1 /\ head \in 0..BUF_SIZE-1 /\ tail \in 0..BUF_SIZE-1
  BY IoQueueAssumption DEF RingTypes
<1>2. tail' = IF tail + 1 = BUF_SIZE THEN 0 ELSE tail + 1
  BY <1>1, NextPos
<1>3. Count \in 1..BUF_SIZE-1
  BY <1>1, ContentsIs, FullEmpty
<1>4. Count' = Count - 1
  BY <1>1, <1>2, <1>3 DEF Count
<1>5. \A i \in 1..(Count - 1) : Slot(i)' = Slot(i + 1)
  BY <1>1, <1>2, <1>3 DEF Slot
<1>6. /\ Contents \in Seq(Char \cup {NULL}) /\ Len(Contents) = Count
      /\ \A i \in 1..Count : Contents[i] = ring[Slot(i)]
  BY ContentsSeq DEF ContentsFacts
<1>7. /\ Contents' \in Seq(Char \cup {NULL}) /\ Len(Contents') = Count'
      /\ \A i \in 1..Count' : Contents'[i] = ring'[Slot(i)']
  BY ContentsSeqNext DEF ContentsFacts
<1> DEFINE u == Tail(Contents)
<1>8. /\ u \in Seq(Char \cup {NULL}) /\ Len(u) = Count - 1
      /\ \A i \in 1..(Count - 1) : u[i] = Contents[i + 1]
      /\ Contents # <<>>
  BY <1>3, <1>6
<1> HIDE DEF u
<1>9. \A i \in 1..(Count - 1) : Contents'[i] = u[i]
  <2>1. SUFFICES ASSUME NEW i \in 1..(Count - 1) PROVE Contents'[i] = u[i]
    OBVIOUS
  <2>2. Contents'[i] = ring[Slot(i + 1)]
    BY <1>4, <1>5, <1>7
  <2>3. i + 1 \in 1..Count
    BY <1>3
  <2> QED BY <1>6, <1>8, <2>2, <2>3
<1>10. Contents' = u
  BY <1>4, <1>7, <1>8, <1>9, SameSeq
<1> QED BY <1>8, <1>10 DEF F!Get, u

(***************************************************************************)
(* The ring implements the bounded queue of Fifo: ioqueue_putchar() is Put,*)
(* ioqueue_getchar() is Get, and no other step changes what it holds.      *)
(***************************************************************************)
THEOREM RingImplementsFifo == IoqSpec => RingIsFifo
<1>1. IoqInit => F!FifoInit
  <2> SUFFICES ASSUME IoqInit PROVE Contents = <<>>
    BY DEF F!FifoInit
  <2>1. RingTypes /\ head = tail
    BY InitIoqInv DEF IoqInit, ioqueue_init, IoqInv, IoqTypes, RingTypes
  <2>2. Count = 0
    BY <2>1, FullEmpty DEF ioqueue_empty
  <2> QED BY <2>1, <2>2, ContentsSeq DEF ContentsFacts
<1>2. (IoqInv \/ PanicNamed) /\ [IoqNext]_ioqVars => [F!Put \/ F!Get]_Contents
  <2> SUFFICES ASSUME IoqInv \/ PanicNamed, [IoqNext]_ioqVars
               PROVE  [F!Put \/ F!Get]_Contents
    OBVIOUS
  <2>1. ASSUME UNCHANGED ringVars PROVE UNCHANGED Contents
    BY <2>1 DEF ringVars, Contents
  <2>2. CASE IoqNext
    <3>1. IoqInv
      BY <2>2 DEF IoqNext, PanicNamed
    <3>2. RingTypes
      BY <3>1 DEF IoqInv, IoqTypes, RingTypes
    <3>3. CASE ioqueue_putchar
      <4>1. RingTypes'
        BY <3>1, <3>3, PutStep DEF IoqInv, IoqTypes, RingTypes
      <4>2. PICK c \in Char : ring' = [ring EXCEPT ![head] = c]
        BY <3>3 DEF ioqueue_putchar
      <4>3. ~ioqueue_full /\ head' = next_pos(head) /\ tail' = tail
        BY <3>3 DEF ioqueue_putchar
      <4> QED BY <3>2, <4>1, <4>2, <4>3, PutAppends
    <3>4. CASE ioqueue_getchar
      <4>1. RingTypes'
        BY <3>1, <3>4, GetStep DEF IoqInv, IoqTypes, RingTypes
      <4>2. ~ioqueue_empty /\ ring' = ring /\ head' = head /\ tail' = next_pos(tail)
        BY <3>4 DEF ioqueue_getchar
      <4> QED BY <3>2, <4>1, <4>2, GetRemovesFirst
    <3>5. CASE \/ enter \/ test_fails \/ test_waits \/ ioqueue_wait \/ woken \/ leave
               \/ enable \/ boot \/ timer \/ idler
      <4>1. UNCHANGED ringVars
        BY <3>5 DEF enter, test_fails, test_waits, ioqueue_wait, woken, leave,
                    enable, boot, timer, idler, unused
      <4> QED BY <2>1, <4>1
    <3> QED BY <2>2, <3>3, <3>4, <3>5 DEF IoqNext
  <2>3. CASE UNCHANGED ioqVars
    BY <2>1, <2>3 DEF ioqVars
  <2> QED BY <2>2, <2>3
<1> QED BY <1>1, <1>2, IoqInvariance, PTL DEF IoqSpec, RingIsFifo, F!FifoSpec
=============================================================================
