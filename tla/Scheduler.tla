------------------------------ MODULE Scheduler ------------------------------
(***************************************************************************)
(* The thread scheduler of the kernel: os/kernel/thread.c, the timer       *)
(* interrupt of os/kernel/clock.c, the interrupt flag of os/kernel/intr.c  *)
(* and the context switch of os/kernel/switch.S.                           *)
(*                                                                         *)
(* There is one processor.  Code that runs with the interrupt flag clear   *)
(* is not interleaved with anything, so every such stretch is one step; in *)
(* particular schedule() together with switch_to() and the instructions    *)
(* that the thread switched to executes until it has restored its own      *)
(* interrupt flag.                                                         *)
(*                                                                         *)
(* Threads are arbitrary clients: the one that runs may block, yield, wake *)
(* a blocked thread or enable interrupts, in any order.  Sync, Ide and     *)
(* IoQueue replace these clients by the kernel's own.                      *)
(***************************************************************************)
EXTENDS Naturals, Sequences

CONSTANTS
  Thread,      \* every thread the kernel ever creates
  main, idle,  \* main_thread and idle_thread
  priority,    \* the time slice of each thread, thread_struct.priority
  BlockedAs    \* the statuses with which clients call thread_block

ASSUME ThreadAssumption == main \in Thread /\ idle \in Thread /\ main # idle
ASSUME PriorityAssumption == priority \in [Thread -> 1..255]
ASSUME BlockedAsAssumption == BlockedAs \subseteq {"BLOCKED", "WAITING", "HANGING"}

VARIABLES
  status,      \* thread_struct.status; "NONE" before thread_start
  ready,       \* thread_ready_list, the linked list as a sequence
  all,         \* the threads on thread_list_all
  cur,         \* running_thread(): the thread whose stack is in use
  ticks,       \* thread_struct.ticks: what is left of the time slice
  intr,        \* EFLAGS.IF
  saved,       \* the flag a thread that is switched to will restore
  idlepc,      \* where idle() is in its loop
  panicked     \* an assertion failed: panic() never returns

vars == <<status, ready, all, cur, ticks, intr, saved, idlepc, panicked>>

Stopped == {"BLOCKED", "WAITING", "HANGING"}
Status  == Stopped \cup {"NONE", "READY", "RUNNING"}

Threads(q) == {q[i] : i \in DOMAIN q}

list_find(q, t) == t \in Threads(q)

(***************************************************************************)
(* kthread_init() has run with interrupts off: main is the running thread, *)
(* idle has been started and is ready.                                     *)
(***************************************************************************)
Init ==
  /\ status = [[t \in Thread |-> "NONE"] EXCEPT ![main] = "RUNNING",
                                                ![idle] = "READY"]
  /\ ready = <<idle>>
  /\ all = {main, idle}
  /\ cur = main
  /\ ticks = priority
  /\ intr = FALSE
  /\ saved = [t \in Thread |-> FALSE]
  /\ idlepc = "loop"
  /\ panicked = FALSE

panic ==
  /\ panicked' = TRUE
  /\ UNCHANGED <<status, ready, all, cur, ticks, intr, saved>>

TypeOK ==
  /\ status \in [Thread -> Status]
  /\ ready \in Seq(Thread)
  /\ all \subseteq Thread
  /\ cur \in Thread
  /\ ticks \in [Thread -> 0..255]
  /\ intr \in BOOLEAN
  /\ saved \in [Thread -> BOOLEAN]
  /\ idlepc \in {"loop", "wake", "hlt"}
  /\ panicked \in BOOLEAN

-----------------------------------------------------------------------------
(***************************************************************************)
(* schedule(), with the status and the ready list its caller has left and  *)
(* the interrupt flag the caller will restore when it runs again.  A thread*)
(* that is still RUNNING goes to the end of the list with a new slice; one *)
(* that yielded or blocked keeps what is left of its slice.                *)
(***************************************************************************)
requeue(q, t) == Append(q, t)

\* Mutant: the blocked idle thread is made ready on every call.
wakeIdleAlways(q, st) ==
  IF st[idle] \in Stopped THEN <<idle>> \o q ELSE q

wakeIdle(q, st) == IF q = <<>> THEN <<idle>> ELSE q

\* Mutant: the preempted thread stays marked as running.
markPreempted_stale(st) == st

markPreempted(st) == [st EXCEPT ![cur] = "READY"]

\* The registers and the stack of cur are kept, with the flag its caller will
\* restore, and next goes on behind its own last call of switch_to().
switch_to(next, restore) ==
  /\ saved' = [saved EXCEPT ![cur] = restore]
  /\ cur' = next
  /\ intr' = (IF next = cur THEN restore ELSE saved[next])

schedule(st, q, restore) ==
  LET preempted == st[cur] = "RUNNING"
      q1  == IF preempted THEN requeue(q, cur) ELSE q
      st1 == IF preempted THEN markPreempted(st) ELSE st
      q2  == wakeIdle(q1, st1)
      next == Head(q2)
  IN IF \/ preempted /\ list_find(q, cur)
        \/ q1 = <<>> /\ st1[idle] \notin Stopped
     THEN panic
     ELSE /\ ready' = Tail(q2)
          /\ status' = [st1 EXCEPT ![next] = "RUNNING"]
          /\ ticks' = IF preempted THEN [ticks EXCEPT ![cur] = priority[cur]]
                                   ELSE ticks
          /\ switch_to(next, restore)
          /\ UNCHANGED <<all, panicked>>

(***************************************************************************)
(* The timer interrupt.  The gate clears the flag, iret sets it again, so  *)
(* the preempted thread restores it to on.  An interrupt ends a hlt.       *)
(***************************************************************************)
\* Mutant: the end of the slice is missed.
slice_over_never == FALSE

slice_over == ticks[cur] = 0

timer_intr_handler ==
  /\ intr
  /\ idlepc' = IF cur = idle /\ idlepc = "hlt" THEN "loop" ELSE idlepc
  /\ IF slice_over
     THEN schedule(status, ready, TRUE)
     ELSE /\ ticks' = [ticks EXCEPT ![cur] = @ - 1]
          /\ UNCHANGED <<status, ready, all, cur, intr, saved, panicked>>

\* Mutant: a thread that blocks gets a new time slice.
thread_block_refilled(stat) ==
  /\ ticks' = [ticks EXCEPT ![cur] = priority[cur]]
  /\ LET next == Head(wakeIdle(ready, status))
     IN /\ ready' = Tail(wakeIdle(ready, status))
        /\ status' = [status EXCEPT ![cur] = stat, ![next] = "RUNNING"]
        /\ saved' = [saved EXCEPT ![cur] = intr]
        /\ cur' = next
        /\ intr' = (IF next = cur THEN intr ELSE saved[next])
  /\ UNCHANGED <<all, panicked>>

thread_block(stat) == schedule([status EXCEPT ![cur] = stat], ready, intr)

\* Mutant: the yielding thread is queued but stays RUNNING.
thread_yield_running == schedule(status, Append(ready, cur), intr)

thread_yield ==
  IF list_find(ready, cur)
  THEN panic
  ELSE schedule([status EXCEPT ![cur] = "READY"], Append(ready, cur), intr)

\* Mutant: the woken thread is linked into the list but keeps its status.
thread_unblock_stale(t) ==
  /\ ready' = <<t>> \o ready
  /\ UNCHANGED <<status, all, cur, ticks, intr, saved, panicked>>

(***************************************************************************)
(* thread_unblock(): the woken thread goes to the FRONT of the list; the   *)
(* caller keeps the processor.                                             *)
(***************************************************************************)
thread_unblock(t) ==
  IF status[t] \notin Stopped \/ list_find(ready, t)
  THEN panic
  ELSE /\ ready' = <<t>> \o ready
       /\ status' = [status EXCEPT ![t] = "READY"]
       /\ UNCHANGED <<all, cur, ticks, intr, saved, panicked>>

(***************************************************************************)
(* thread_start() and process_execute(): both are called by main only, and *)
(* with interrupts off.  The new thread will start in kernel_thread_entry, *)
(* with the flag as schedule() left it: off.                               *)
(***************************************************************************)
thread_start(t) ==
  /\ cur = main /\ ~intr
  /\ status[t] = "NONE"
  /\ UNCHANGED idlepc
  /\ IF list_find(ready, t) \/ t \in all
     THEN panic
     ELSE /\ status' = [status EXCEPT ![t] = "READY"]
          /\ ready' = Append(ready, t)
          /\ all' = all \cup {t}
          /\ ticks' = [ticks EXCEPT ![t] = priority[t]]
          /\ saved' = [saved EXCEPT ![t] = FALSE]
          /\ UNCHANGED <<cur, intr, panicked>>

(***************************************************************************)
(* sti by a thread that runs with interrupts off: main after it has started*)
(* the threads, a thread that releases a lock or leaves a semaphore, a new *)
(* process by the iret into user mode.  cli by a thread that takes a lock  *)
(* or enters a semaphore.                                                  *)
(***************************************************************************)
intr_enable ==
  /\ cur # idle
  /\ ~intr
  /\ intr' = TRUE
  /\ UNCHANGED <<status, ready, all, cur, ticks, saved, idlepc, panicked>>

intr_disable ==
  /\ cur # idle
  /\ intr
  /\ intr' = FALSE
  /\ UNCHANGED <<status, ready, all, cur, ticks, saved, idlepc, panicked>>

(***************************************************************************)
(* idle(): block; when woken because nobody else was ready, sti; hlt.      *)
(***************************************************************************)
idle_block ==
  /\ cur = idle /\ idlepc = "loop"
  /\ idlepc' = "wake"
  /\ thread_block("BLOCKED")

idle_hlt ==
  /\ cur = idle /\ idlepc = "wake"
  /\ idlepc' = "hlt"
  /\ intr' = TRUE
  /\ UNCHANGED <<status, ready, all, cur, ticks, saved, panicked>>

(***************************************************************************)
(* The clients.  Only threads waiting on some list are ever woken, never   *)
(* idle: schedule() alone does that.                                       *)
(***************************************************************************)
Waiting == {t \in Thread \ {idle} : status[t] \in Stopped}

block == cur # idle /\ UNCHANGED idlepc /\ \E s \in BlockedAs : thread_block(s)

yield == cur # idle /\ UNCHANGED idlepc /\ thread_yield

unblock == cur # idle /\ UNCHANGED idlepc /\ \E t \in Waiting : thread_unblock(t)

\* A device interrupt whose handler wakes a thread (hd_intr_handler).
device_intr ==
  /\ intr
  /\ idlepc' = IF cur = idle /\ idlepc = "hlt" THEN "loop" ELSE idlepc
  /\ \E t \in Waiting : thread_unblock(t)

\* A device interrupt whose handler wakes nobody: the keyboard's, a spurious
\* one, or one of the disk that nobody waits for.
quiet_intr ==
  /\ intr
  /\ idlepc' = IF cur = idle /\ idlepc = "hlt" THEN "loop" ELSE idlepc
  /\ UNCHANGED <<status, ready, all, cur, ticks, intr, saved, panicked>>

start == \E t \in Thread : thread_start(t)

Next ==
  /\ ~panicked
  /\ \/ timer_intr_handler
     \/ block
     \/ yield
     \/ unblock
     \/ device_intr
     \/ quiet_intr
     \/ start
     \/ intr_enable
     \/ intr_disable
     \/ idle_block
     \/ idle_hlt

(***************************************************************************)
(* Fairness.  The 8259 latches a timer interrupt that arrives while IF is  *)
(* clear, so the timer is served as soon as, and therefore if it is again  *)
(* and again, enabled: strong fairness.  idle() does not stop in its loop, *)
(* and a thread that runs with interrupts off enables them if it keeps the *)
(* processor.  Nothing is assumed of block, yield, unblock and devices.    *)
(***************************************************************************)
Fairness ==
  /\ SF_vars(~panicked /\ timer_intr_handler)
  /\ WF_vars(~panicked /\ intr_enable)
  /\ WF_vars(~panicked /\ idle_block)
  /\ WF_vars(~panicked /\ idle_hlt)

Spec == Init /\ [][Next]_vars

FairSpec == Spec /\ Fairness

-----------------------------------------------------------------------------
(***************************************************************************)
(* The ready list holds exactly the READY threads, each one once: the tag  *)
(* of a thread is linked into at most one place of it (thread.c:81, 118,   *)
(* 145, 177 assert parts of this).                                         *)
(***************************************************************************)
ReadyListSound ==
  /\ \A t \in Thread : list_find(ready, t) <=> status[t] = "READY"
  /\ \A i, j \in DOMAIN ready : ready[i] = ready[j] => i = j

(***************************************************************************)
(* Exactly one thread is RUNNING, and it is the one whose stack the        *)
(* processor uses, across every path through schedule() and switch_to().   *)
(***************************************************************************)
OneRunning == \A t \in Thread : status[t] = "RUNNING" <=> t = cur

(***************************************************************************)
(* No assertion of thread.c fails.  The delicate one is in the call        *)
(* thread_unblock(idle_thread) of schedule(): whenever the list is empty   *)
(* there, idle must already be BLOCKED, even when idle is the caller.      *)
(***************************************************************************)
NoPanic == ~panicked

(***************************************************************************)
(* Once idle has blocked, or when it calls thread_block() itself, it goes  *)
(* on only by a schedule() that found no ready thread, and then at once.   *)
(***************************************************************************)
IdleIsLastResort ==
  [][/\ \/ status[idle] = "BLOCKED"
        \/ idlepc = "loop" /\ idlepc' = "wake"
     /\ status'[idle] # "BLOCKED"
     => cur' = idle /\ ready' = <<>>]_vars

(***************************************************************************)
(* No ready thread starves, although thread_unblock() lets woken threads   *)
(* overtake: blocking does not refill a time slice, so threads that wake   *)
(* each other in turn exhaust theirs and fall behind.                      *)
(***************************************************************************)
NoStarvation == \A t \in Thread : status[t] = "READY" ~> status[t] = "RUNNING"
=============================================================================
