--------------------------- MODULE SchedulerProofs ---------------------------
(***************************************************************************)
(* Proofs, for any set of threads and any time slices, that the scheduler  *)
(* keeps its ready list and its statuses consistent and that no assertion  *)
(* of thread.c ever fails.                                                 *)
(***************************************************************************)
EXTENDS Scheduler, TLAPS

NoDup(q) == \A i, j \in DOMAIN q : q[i] = q[j] => i = j

(***************************************************************************)
(* What schedule() relies on and re-establishes, of a status function and  *)
(* a list that need not be the current ones: its callers have already      *)
(* changed them.  That idle exists, and is READY exactly when it is on the *)
(* list, is what makes thread_unblock(idle_thread) safe.                   *)
(***************************************************************************)
Consistent(st, q) ==
  /\ st \in [Thread -> Status]
  /\ q \in Seq(Thread)
  /\ \A t \in Thread : list_find(q, t) <=> st[t] = "READY"
  /\ NoDup(q)
  /\ \A t \in Thread : t \in all <=> st[t] # "NONE"
  /\ st[idle] # "NONE"

IInv ==
  /\ TypeOK
  /\ Consistent(status, ready)
  /\ OneRunning
  /\ ~panicked

-----------------------------------------------------------------------------
(* list_append: the list gains the thread, at its end.                      *)
LEMMA AppendFacts ==
  ASSUME NEW q \in Seq(Thread), NEW t \in Thread
  PROVE  /\ Append(q, t) \in Seq(Thread)
         /\ Append(q, t) # <<>>
         /\ Threads(Append(q, t)) = Threads(q) \cup {t}
         /\ NoDup(q) /\ ~list_find(q, t) => NoDup(Append(q, t))
<1> DEFINE r == Append(q, t)
<1>1. r \in Seq(Thread) /\ Len(r) = Len(q) + 1
  OBVIOUS
<1>2. /\ DOMAIN q = 1..Len(q)
      /\ DOMAIN r = 1..(Len(q) + 1)
      /\ Len(q) \in Nat
  OBVIOUS
<1>3. \A i \in 1..Len(q) : r[i] = q[i]
  OBVIOUS
<1>4. r[Len(q) + 1] = t
  OBVIOUS
<1>5. Threads(r) = Threads(q) \cup {t}
  <2>1. ASSUME NEW x \in Threads(r) PROVE x \in Threads(q) \cup {t}
    <3>1. PICK i \in 1..(Len(q) + 1) : x = r[i]
      BY <1>2 DEF Threads
    <3>2. CASE i = Len(q) + 1
      BY <3>1, <3>2, <1>4
    <3>3. CASE i \in 1..Len(q)
      BY <3>1, <3>3, <1>2, <1>3 DEF Threads
    <3> QED BY <3>1, <3>2, <3>3, <1>2
  <2>2. ASSUME NEW x \in Threads(q) PROVE x \in Threads(r)
    <3>1. PICK i \in 1..Len(q) : x = q[i]
      BY <1>2 DEF Threads
    <3>2. i \in 1..(Len(q) + 1) /\ r[i] = x
      BY <3>1, <1>2, <1>3
    <3> QED BY <3>2, <1>2 DEF Threads
  <2>3. t \in Threads(r)
    <3>1. Len(q) + 1 \in DOMAIN r
      BY <1>2
    <3> QED BY <3>1, <1>4 DEF Threads
  <2> QED BY <2>1, <2>2, <2>3
<1>6. ASSUME NoDup(q), ~list_find(q, t) PROVE NoDup(r)
  <2>1. \A i \in 1..Len(q) : q[i] # t
    BY <1>6, <1>2 DEF list_find, Threads
  <2>2. \A i, j \in 1..Len(q) : r[i] = r[j] => i = j
    BY <1>6, <1>2, <1>3 DEF NoDup
  <2>3. \A i \in 1..(Len(q) + 1) : i \in 1..Len(q) \/ i = Len(q) + 1
    BY <1>2
  <2>4. \A i \in 1..Len(q) : r[i] # r[Len(q) + 1]
    BY <2>1, <1>3, <1>4
  <2> QED BY <2>2, <2>3, <2>4, <1>2 DEF NoDup
<1> QED BY <1>1, <1>5, <1>6

(* list_push: the list gains the thread, at its front.                      *)
LEMMA PushFacts ==
  ASSUME NEW q \in Seq(Thread), NEW t \in Thread
  PROVE  /\ <<t>> \o q \in Seq(Thread)
         /\ Threads(<<t>> \o q) = Threads(q) \cup {t}
         /\ NoDup(q) /\ ~list_find(q, t) => NoDup(<<t>> \o q)
<1> DEFINE r == <<t>> \o q
<1>0. <<t>> \in Seq(Thread) /\ Len(<<t>>) = 1 /\ <<t>>[1] = t
  OBVIOUS
<1>1. r \in Seq(Thread) /\ Len(r) = 1 + Len(q)
  BY <1>0
<1>2. /\ DOMAIN q = 1..Len(q)
      /\ DOMAIN r = 1..(1 + Len(q))
      /\ Len(q) \in Nat
  BY <1>1
<1>3. \A i \in 1..(1 + Len(q)) : r[i] = IF i = 1 THEN t ELSE q[i - 1]
  BY <1>0
<1>5. Threads(r) = Threads(q) \cup {t}
  <2>1. ASSUME NEW x \in Threads(r) PROVE x \in Threads(q) \cup {t}
    <3>1. PICK i \in 1..(1 + Len(q)) : x = r[i]
      BY <1>2 DEF Threads
    <3>2. CASE i = 1
      BY <3>1, <3>2, <1>3
    <3>3. CASE i # 1
      <4>1. i - 1 \in DOMAIN q /\ x = q[i - 1]
        BY <3>1, <3>3, <1>2, <1>3
      <4> QED BY <4>1 DEF Threads
    <3> QED BY <3>2, <3>3
  <2>2. ASSUME NEW x \in Threads(q) PROVE x \in Threads(r)
    <3>1. PICK i \in 1..Len(q) : x = q[i]
      BY <1>2 DEF Threads
    <3>2. /\ i + 1 \in 1..(1 + Len(q))
          /\ i + 1 # 1
          /\ (i + 1) - 1 = i
      BY <3>1, <1>2
    <3>3. r[i + 1] = x
      BY <3>1, <3>2, <1>3
    <3> QED BY <3>2, <3>3, <1>2 DEF Threads
  <2>3. 1 \in DOMAIN r /\ r[1] = t
    BY <1>2, <1>3
  <2> QED BY <2>1, <2>2, <2>3 DEF Threads
<1>6. ASSUME NoDup(q), ~list_find(q, t) PROVE NoDup(r)
  <2>1. \A i \in 1..Len(q) : q[i] # t
    BY <1>6, <1>2 DEF list_find, Threads
  <2>2. SUFFICES ASSUME NEW i \in 1..(1 + Len(q)), NEW j \in 1..(1 + Len(q)),
                        r[i] = r[j]
                 PROVE  i = j
    BY <1>2 DEF NoDup
  <2>3. i # 1 => i - 1 \in 1..Len(q) /\ r[i] = q[i - 1]
    BY <1>2, <1>3
  <2>4. j # 1 => j - 1 \in 1..Len(q) /\ r[j] = q[j - 1]
    BY <1>2, <1>3
  <2>5. r[1] = t
    BY <1>2, <1>3
  <2>6. CASE i = 1 \/ j = 1
    BY <2>1, <2>2, <2>3, <2>4, <2>5, <2>6
  <2>7. CASE i # 1 /\ j # 1
    <3>1. i - 1 = j - 1
      BY <2>2, <2>3, <2>4, <2>7, <1>2, <1>6 DEF NoDup
    <3> QED BY <3>1
  <2> QED BY <2>6, <2>7
<1> QED BY <1>1, <1>5, <1>6

(* list_pop: the list loses its first thread, and only that one.            *)
LEMMA PopFacts ==
  ASSUME NEW q \in Seq(Thread), q # <<>>, NoDup(q)
  PROVE  /\ Tail(q) \in Seq(Thread)
         /\ Head(q) \in Thread
         /\ Threads(Tail(q)) = Threads(q) \ {Head(q)}
         /\ Head(q) \in Threads(q)
         /\ NoDup(Tail(q))
<1> DEFINE r == Tail(q)
<1>1. /\ r \in Seq(Thread)
      /\ Len(q) \in Nat /\ Len(q) > 0
      /\ Len(r) = Len(q) - 1
      /\ DOMAIN q = 1..Len(q)
      /\ DOMAIN r = 1..(Len(q) - 1)
  OBVIOUS
<1>2. \A i \in 1..(Len(q) - 1) : r[i] = q[i + 1]
  OBVIOUS
<1>3. Head(q) = q[1] /\ 1 \in DOMAIN q /\ q[1] \in Thread
  BY <1>1
<1>4. Threads(r) = Threads(q) \ {Head(q)}
  <2>1. ASSUME NEW x \in Threads(r) PROVE x \in Threads(q) /\ x # Head(q)
    <3>1. PICK i \in 1..(Len(q) - 1) : x = r[i]
      BY <1>1 DEF Threads
    <3>2. i + 1 \in DOMAIN q /\ i + 1 # 1 /\ x = q[i + 1]
      BY <3>1, <1>1, <1>2
    <3> QED BY <3>2, <1>3 DEF Threads, NoDup
  <2>2. ASSUME NEW x \in Threads(q), x # Head(q) PROVE x \in Threads(r)
    <3>1. PICK i \in 1..Len(q) : x = q[i]
      BY <1>1 DEF Threads
    <3>2. i # 1
      BY <2>2, <3>1, <1>3
    <3>3. /\ i - 1 \in 1..(Len(q) - 1)
          /\ (i - 1) + 1 = i
      BY <3>1, <3>2, <1>1
    <3>4. r[i - 1] = x
      BY <3>1, <3>3, <1>2
    <3> QED BY <3>3, <3>4, <1>1 DEF Threads
  <2> QED BY <2>1, <2>2
<1>5. NoDup(r)
  <2>1. SUFFICES ASSUME NEW i \in 1..(Len(q) - 1), NEW j \in 1..(Len(q) - 1),
                        r[i] = r[j]
                 PROVE  i = j
    BY <1>1 DEF NoDup
  <2>2. /\ i + 1 \in DOMAIN q
        /\ j + 1 \in DOMAIN q
        /\ q[i + 1] = q[j + 1]
    BY <2>1, <1>1, <1>2
  <2>3. i + 1 = j + 1
    BY <2>2 DEF NoDup
  <2> QED BY <2>3
<1>6. Head(q) \in Threads(q)
  BY <1>3 DEF Threads
<1> QED BY <1>1, <1>3, <1>4, <1>5, <1>6

-----------------------------------------------------------------------------
(* list_find on the lists that the steps build.                             *)
LEMMA IdleListFacts ==
  /\ <<idle>> \in Seq(Thread)
  /\ <<idle>> # <<>>
  /\ Threads(<<idle>>) = {idle}
  /\ NoDup(<<idle>>)
BY ThreadAssumption DEF Threads, NoDup

(***************************************************************************)
(* schedule() never panics and re-establishes the invariant, whatever      *)
(* status its caller has given the running thread.                         *)
(***************************************************************************)
LEMMA ScheduleStep ==
  ASSUME NEW st, NEW q, NEW restore \in BOOLEAN,
         TypeOK, ~panicked,
         Consistent(st, q),
         \A t \in Thread : st[t] = "RUNNING" => t = cur,
         idlepc' \in {"loop", "wake", "hlt"},
         schedule(st, q, restore)
  PROVE  IInv'
<1> DEFINE preempted == st[cur] = "RUNNING"
           q1  == IF preempted THEN requeue(q, cur) ELSE q
           st1 == IF preempted THEN markPreempted(st) ELSE st
           q2  == wakeIdle(q1, st1)
           next == Head(q2)
<1>1. /\ cur \in Thread
      /\ st \in [Thread -> Status]
      /\ q \in Seq(Thread)
      /\ \A t \in Thread : t \in Threads(q) <=> st[t] = "READY"
      /\ NoDup(q)
  BY DEF TypeOK, Consistent, list_find
<1>2. preempted => cur \notin Threads(q)
  BY <1>1
<1>3. /\ q1 \in Seq(Thread)
      /\ Threads(q1) = IF preempted THEN Threads(q) \cup {cur} ELSE Threads(q)
      /\ NoDup(q1)
  <2>1. CASE preempted
    <3>1. q1 = Append(q, cur)
      BY <2>1 DEF requeue
    <3> QED BY <1>1, <1>2, <2>1, <3>1, AppendFacts DEF list_find
  <2>2. CASE ~preempted
    BY <1>1, <2>2
  <2> QED BY <2>1, <2>2
<1>4. /\ st1 \in [Thread -> Status]
      /\ \A t \in Thread : t \in Threads(q1) <=> st1[t] = "READY"
      /\ \A t \in Thread : st1[t] # "RUNNING"
      /\ \A t \in Thread : st1[t] = "NONE" <=> st[t] = "NONE"
  <2>1. CASE preempted
    <3>1. st1 = [st EXCEPT ![cur] = "READY"]
      BY <2>1 DEF markPreempted
    <3>2. "READY" \in Status
      BY DEF Status
    <3> QED BY <1>1, <1>3, <2>1, <3>1, <3>2
  <2>2. CASE ~preempted
    BY <1>1, <1>3, <2>2
  <2> QED BY <2>1, <2>2
<1>5. q1 = <<>> => st1[idle] \in Stopped
  <2>1. ASSUME q1 = <<>> PROVE st1[idle] \in Stopped
    <3>1. idle \notin Threads(q1)
      BY <2>1 DEF Threads
    <3>2. st1[idle] \in Status /\ st1[idle] \notin {"READY", "RUNNING", "NONE"}
      BY <1>4, <3>1, ThreadAssumption DEF Consistent
    <3> QED BY <3>2 DEF Status
  <2> QED BY <2>1
<1>6. /\ q2 \in Seq(Thread)
      /\ q2 # <<>>
      /\ NoDup(q2)
      /\ Threads(q2) = IF q1 = <<>> THEN {idle} ELSE Threads(q1)
  BY <1>3, IdleListFacts DEF wakeIdle
<1>7. /\ Tail(q2) \in Seq(Thread)
      /\ next \in Thread
      /\ Threads(Tail(q2)) = Threads(q2) \ {next}
      /\ NoDup(Tail(q2))
      /\ next \in Threads(q2)
  BY <1>6, PopFacts
<1>8. /\ ready' = Tail(q2)
      /\ status' = [st1 EXCEPT ![next] = "RUNNING"]
      /\ ticks' = IF preempted THEN [ticks EXCEPT ![cur] = priority[cur]]
                               ELSE ticks
      /\ saved' = [saved EXCEPT ![cur] = restore]
      /\ cur' = next
      /\ intr' = (IF next = cur THEN restore ELSE saved[next])
      /\ UNCHANGED <<all, panicked>>
  <2>1. ~(preempted /\ list_find(q, cur))
    BY <1>2 DEF list_find
  <2>2. ~(q1 = <<>> /\ st1[idle] \notin Stopped)
    BY <1>5
  <2> HIDE DEF q1, st1
  <2> QED BY <2>1, <2>2 DEF schedule, switch_to, q1, st1
<1> HIDE DEF preempted, q1, st1, q2, next
<1>9. TypeOK'
  <2>1. status' \in [Thread -> Status]
    <3>1. "RUNNING" \in Status
      BY DEF Status
    <3> QED BY <1>4, <1>7, <1>8, <3>1
  <2>2. ticks' \in [Thread -> 0..255]
    <3>1. priority[cur] \in 0..255
      BY <1>1, PriorityAssumption
    <3> QED BY <1>8, <3>1 DEF TypeOK
  <2>3. saved' \in [Thread -> BOOLEAN] /\ intr' \in BOOLEAN
    BY <1>7, <1>8 DEF TypeOK
  <2> QED BY <1>7, <1>8, <2>1, <2>2, <2>3 DEF TypeOK
<1>10. \A t \in Thread : status'[t] = IF t = next THEN "RUNNING" ELSE st1[t]
  BY <1>4, <1>7, <1>8
<1>11. OneRunning'
  BY <1>4, <1>8, <1>10 DEF OneRunning
<1>12. Consistent(status, ready)'
  <2>1. \A t \in Thread : t \in Threads(ready') <=> status'[t] = "READY"
    <3>1. CASE q1 = <<>>
      <4>1. Threads(q1) = {}
        BY <3>1 DEF Threads
      <4>2. next = idle /\ Threads(ready') = {}
        BY <1>6, <1>7, <1>8, <3>1
      <4> QED BY <1>4, <1>10, <4>1, <4>2
    <3>2. CASE q1 # <<>>
      BY <1>4, <1>6, <1>7, <1>8, <1>10, <3>2
    <3> QED BY <3>1, <3>2
  <2>2. \A t \in Thread : t \in all' <=> status'[t] # "NONE"
    <3>1. st1[next] # "NONE"
      <4>1. CASE q1 = <<>>
        BY <1>4, <1>6, <1>7, <4>1, ThreadAssumption DEF Consistent
      <4>2. CASE q1 # <<>>
        BY <1>4, <1>6, <1>7, <4>2
      <4> QED BY <4>1, <4>2
    <3> QED BY <1>4, <1>8, <1>10, <3>1 DEF Consistent
  <2>3. status'[idle] # "NONE"
    BY <1>4, <1>10, ThreadAssumption DEF Consistent
  <2> QED BY <1>7, <1>8, <1>9, <2>1, <2>2, <2>3 DEF Consistent, TypeOK, list_find
<1> QED BY <1>8, <1>9, <1>11, <1>12 DEF IInv

(***************************************************************************)
(* What schedule() does to the flags and to the blocked threads: the thread*)
(* it switches to was ready, or is idle.                                   *)
(***************************************************************************)
LEMMA Switched ==
  ASSUME NEW st, NEW q, NEW restore \in BOOLEAN,
         TypeOK, Consistent(st, q), schedule(st, q, restore), ~panicked'
  PROVE  /\ saved' = [saved EXCEPT ![cur] = restore]
         /\ intr' = IF cur' = cur THEN restore ELSE saved[cur']
         /\ \A t \in Thread \ {idle} : status'[t] = "BLOCKED" <=> st[t] = "BLOCKED"
<1> DEFINE preempted == st[cur] = "RUNNING"
           q1  == IF preempted THEN requeue(q, cur) ELSE q
           st1 == IF preempted THEN markPreempted(st) ELSE st
           q2  == wakeIdle(q1, st1)
           next == Head(q2)
<1>1. /\ status' = [st1 EXCEPT ![next] = "RUNNING"]
      /\ cur' = next
      /\ saved' = [saved EXCEPT ![cur] = restore]
      /\ intr' = IF next = cur THEN restore ELSE saved[next]
  BY DEF schedule, switch_to, panic
<1>2. /\ cur \in Thread /\ idle \in Thread
      /\ q \in Seq(Thread) /\ NoDup(q) /\ st \in [Thread -> Status]
      /\ \A t \in Thread : t \in Threads(q) <=> st[t] = "READY"
  BY ThreadAssumption DEF TypeOK, Consistent, list_find
<1>3. /\ st1 \in [Thread -> Status]
      /\ \A t \in Thread : st1[t] = "BLOCKED" <=> st[t] = "BLOCKED"
      /\ q1 \in Seq(Thread) /\ NoDup(q1)
      /\ \A t \in Threads(q1) : st[t] # "BLOCKED"
  <2>1. CASE preempted
    <3>1. cur \notin Threads(q) /\ "READY" \in Status
      BY <1>2, <2>1 DEF Status
    <3>2. q1 = Append(q, cur) /\ st1 = [st EXCEPT ![cur] = "READY"]
      BY <2>1 DEF requeue, markPreempted
    <3>3. /\ Append(q, cur) \in Seq(Thread)
          /\ Threads(Append(q, cur)) = Threads(q) \cup {cur}
          /\ NoDup(Append(q, cur))
      BY <1>2, <3>1, AppendFacts DEF list_find
    <3>4. \A t \in Threads(q) : t \in Thread
      BY <1>2 DEF Threads
    <3>5. \A t \in Threads(q) \cup {cur} : st[t] # "BLOCKED"
      BY <1>2, <2>1, <3>4
    <3> HIDE DEF q1, st1
    <3> QED BY <1>2, <2>1, <3>1, <3>2, <3>3, <3>5
  <2>2. CASE ~preempted
    <3>1. \A t \in Threads(q) : t \in Thread
      BY <1>2 DEF Threads
    <3> QED BY <1>2, <2>2, <3>1
  <2> QED BY <2>1, <2>2
<1> HIDE DEF q1, st1
<1>4. next = idle \/ (next \in Thread /\ st[next] # "BLOCKED")
  <2>1. CASE q1 = <<>>
    <3>1. q2 = <<idle>>
      BY <2>1 DEF wakeIdle
    <3> QED BY <3>1
  <2>2. CASE q1 # <<>>
    <3>1. q2 = q1
      BY <2>2 DEF wakeIdle
    <3>2. next \in Threads(q1) /\ next \in Thread
      BY <1>3, <2>2, <3>1, PopFacts
    <3> QED BY <1>3, <3>2
  <2> QED BY <2>1, <2>2
<1> HIDE DEF next
<1> QED BY <1>1, <1>3, <1>4

(* thread_unblock() of a stopped thread keeps the invariant.                *)
LEMMA UnblockStep ==
  ASSUME IInv, NEW t \in Thread, status[t] \in Stopped,
         idlepc' \in {"loop", "wake", "hlt"},
         thread_unblock(t)
  PROVE  IInv'
<1>1. /\ \A u \in Thread : u \in Threads(ready) <=> status[u] = "READY"
      /\ ready \in Seq(Thread) /\ NoDup(ready)
      /\ status \in [Thread -> Status]
  BY DEF IInv, Consistent, list_find
<1>2. status[t] \notin {"READY", "RUNNING", "NONE"}
  BY DEF Stopped
<1>3. ~list_find(ready, t)
  BY <1>1, <1>2 DEF list_find
<1>4. /\ ready' = <<t>> \o ready
      /\ status' = [status EXCEPT ![t] = "READY"]
      /\ UNCHANGED <<all, cur, ticks, intr, saved, panicked>>
  BY <1>3 DEF thread_unblock
<1>5. /\ ready' \in Seq(Thread)
      /\ Threads(ready') = Threads(ready) \cup {t}
      /\ NoDup(ready')
  BY <1>1, <1>3, <1>4, PushFacts
<1>6. "READY" \in Status
  BY DEF Status
<1>7. \A u \in Thread : status'[u] = IF u = t THEN "READY" ELSE status[u]
  BY <1>1, <1>4
<1>8. status' \in [Thread -> Status]
  BY <1>1, <1>4, <1>6
<1>9. TypeOK'
  BY <1>4, <1>5, <1>8 DEF IInv, TypeOK
<1>10. OneRunning'
  BY <1>2, <1>4, <1>7 DEF IInv, OneRunning
<1>11. Consistent(status, ready)'
  <2>1. \A u \in Thread : u \in Threads(ready') <=> status'[u] = "READY"
    BY <1>1, <1>5, <1>7
  <2>2. \A u \in Thread : u \in all' <=> status'[u] # "NONE"
    BY <1>2, <1>4, <1>7 DEF IInv, Consistent
  <2>3. status'[idle] # "NONE"
    BY <1>7, ThreadAssumption DEF IInv, Consistent
  <2> QED BY <1>5, <1>8, <2>1, <2>2, <2>3 DEF Consistent, list_find
<1> QED BY <1>4, <1>9, <1>10, <1>11 DEF IInv

(* The running thread may stop itself: the lists stay consistent.           *)
LEMMA StopConsistent ==
  ASSUME IInv, NEW stat \in Stopped
  PROVE  /\ Consistent([status EXCEPT ![cur] = stat], ready)
         /\ \A t \in Thread : [status EXCEPT ![cur] = stat][t] # "RUNNING"
<1> DEFINE st == [status EXCEPT ![cur] = stat]
<1>1. /\ cur \in Thread /\ status \in [Thread -> Status]
      /\ status[cur] = "RUNNING"
      /\ stat \in Status /\ stat \notin {"READY", "RUNNING", "NONE"}
  BY DEF IInv, TypeOK, OneRunning, Stopped, Status
<1>2. /\ st \in [Thread -> Status]
      /\ \A t \in Thread : st[t] = IF t = cur THEN stat ELSE status[t]
  BY <1>1
<1> HIDE DEF st
<1>3. \A t \in Thread : st[t] # "RUNNING"
  BY <1>1, <1>2 DEF IInv, OneRunning
<1>4. Consistent(st, ready)
  BY <1>1, <1>2, ThreadAssumption DEF IInv, Consistent
<1> QED BY <1>3, <1>4 DEF st

(* The running thread may append itself to the ready list as READY.         *)
LEMMA YieldConsistent ==
  ASSUME IInv
  PROVE  /\ ~list_find(ready, cur)
         /\ Consistent([status EXCEPT ![cur] = "READY"], Append(ready, cur))
         /\ \A t \in Thread : [status EXCEPT ![cur] = "READY"][t] # "RUNNING"
<1> DEFINE st == [status EXCEPT ![cur] = "READY"]
<1>1. /\ cur \in Thread /\ status \in [Thread -> Status]
      /\ status[cur] = "RUNNING"
      /\ "READY" \in Status
  BY DEF IInv, TypeOK, OneRunning, Status
<1>2. /\ st \in [Thread -> Status]
      /\ \A t \in Thread : st[t] = IF t = cur THEN "READY" ELSE status[t]
  BY <1>1
<1> HIDE DEF st
<1>3. \A t \in Thread : st[t] # "RUNNING"
  BY <1>1, <1>2 DEF IInv, OneRunning
<1>4. /\ ready \in Seq(Thread) /\ NoDup(ready)
      /\ \A t \in Thread : t \in Threads(ready) <=> status[t] = "READY"
  BY DEF IInv, Consistent, list_find
<1>5. ~list_find(ready, cur)
  BY <1>1, <1>4 DEF list_find
<1>6. /\ Append(ready, cur) \in Seq(Thread)
      /\ Threads(Append(ready, cur)) = Threads(ready) \cup {cur}
      /\ NoDup(Append(ready, cur))
  BY <1>1, <1>4, <1>5, AppendFacts
<1>7. Consistent(st, Append(ready, cur))
  BY <1>1, <1>2, <1>4, <1>6, ThreadAssumption DEF IInv, Consistent, list_find
<1> QED BY <1>3, <1>5, <1>7 DEF st

(* A new thread joins the end of the ready list and thread_list_all.        *)
LEMMA StartStep ==
  ASSUME IInv, NEW t \in Thread, thread_start(t)
  PROVE  IInv'
<1>1. /\ ready \in Seq(Thread) /\ NoDup(ready)
      /\ \A u \in Thread : u \in Threads(ready) <=> status[u] = "READY"
      /\ status \in [Thread -> Status]
      /\ \A u \in Thread : u \in all <=> status[u] # "NONE"
  BY DEF IInv, Consistent, list_find
<1>2. status[t] = "NONE"
  BY DEF thread_start
<1>3. ~list_find(ready, t) /\ t \notin all
  BY <1>1, <1>2 DEF list_find
<1>4. /\ status' = [status EXCEPT ![t] = "READY"]
      /\ ready' = Append(ready, t)
      /\ all' = all \cup {t}
      /\ ticks' = [ticks EXCEPT ![t] = priority[t]]
      /\ saved' = [saved EXCEPT ![t] = FALSE]
      /\ UNCHANGED <<cur, intr, idlepc, panicked>>
  BY <1>3 DEF thread_start
<1>5. /\ ready' \in Seq(Thread)
      /\ Threads(ready') = Threads(ready) \cup {t}
      /\ NoDup(ready')
  BY <1>1, <1>3, <1>4, AppendFacts
<1>6. "READY" \in Status /\ priority[t] \in 0..255
  BY PriorityAssumption DEF Status
<1>7. /\ status' \in [Thread -> Status]
      /\ \A u \in Thread : status'[u] = IF u = t THEN "READY" ELSE status[u]
  BY <1>1, <1>4, <1>6
<1>8. TypeOK'
  <2>1. ticks' \in [Thread -> 0..255]
    BY <1>4, <1>6 DEF IInv, TypeOK
  <2>2. saved' \in [Thread -> BOOLEAN]
    BY <1>4 DEF IInv, TypeOK
  <2> QED BY <1>4, <1>5, <1>7, <2>1, <2>2 DEF IInv, TypeOK
<1>9. OneRunning'
  BY <1>2, <1>4, <1>7 DEF IInv, OneRunning
<1>10. Consistent(status, ready)'
  BY <1>1, <1>2, <1>4, <1>5, <1>7, ThreadAssumption
  DEF IInv, Consistent, list_find
<1> QED BY <1>4, <1>8, <1>9, <1>10 DEF IInv

-----------------------------------------------------------------------------
(* The state that kthread_init() leaves satisfies the invariant.            *)
LEMMA InitIInv == Init => IInv
<1> SUFFICES ASSUME Init PROVE IInv
  OBVIOUS
<1>1. /\ status \in [Thread -> Status]
      /\ \A t \in Thread : status[t] = IF t = main THEN "RUNNING"
                                       ELSE IF t = idle THEN "READY" ELSE "NONE"
  BY ThreadAssumption DEF Init, Status
<1>2. ready \in Seq(Thread) /\ Threads(ready) = {idle} /\ NoDup(ready)
  BY IdleListFacts DEF Init
<1>3. ticks \in [Thread -> 0..255]
  BY PriorityAssumption DEF Init
<1>4. TypeOK
  BY <1>1, <1>2, <1>3, ThreadAssumption DEF Init, TypeOK
<1>5. OneRunning
  BY <1>1, ThreadAssumption DEF Init, OneRunning
<1>6. Consistent(status, ready)
  BY <1>1, <1>2, ThreadAssumption DEF Init, Consistent, list_find
<1> QED BY <1>4, <1>5, <1>6 DEF Init, IInv

(* Every step of the scheduler keeps the invariant.                         *)
LEMMA NextIInv == IInv /\ [Next]_vars => IInv'
<1> SUFFICES ASSUME IInv, [Next]_vars PROVE IInv'
  OBVIOUS
<1>0. TypeOK /\ ~panicked /\ intr \in BOOLEAN /\ Consistent(status, ready)
  BY DEF IInv, TypeOK
<1>1. CASE timer_intr_handler
  <2>1. idlepc' \in {"loop", "wake", "hlt"}
    BY <1>1 DEF timer_intr_handler, IInv, TypeOK
  <2>2. CASE slice_over
    <3>1. schedule(status, ready, TRUE)
      BY <1>1, <2>2 DEF timer_intr_handler
    <3>2. \A t \in Thread : status[t] = "RUNNING" => t = cur
      BY DEF IInv, OneRunning
    <3> QED BY <1>0, <2>1, <3>1, <3>2, ScheduleStep
  <2>3. CASE ~slice_over
    <3>1. /\ ticks' = [ticks EXCEPT ![cur] = @ - 1]
          /\ UNCHANGED <<status, ready, all, cur, intr, saved, panicked>>
      BY <1>1, <2>3 DEF timer_intr_handler
    <3>2. ticks' \in [Thread -> 0..255]
      <4>1. cur \in Thread /\ ticks[cur] \in 0..255 /\ ticks[cur] # 0
        BY <2>3 DEF IInv, TypeOK, slice_over
      <4>2. ticks[cur] - 1 \in 0..255
        BY <4>1
      <4> QED BY <3>1, <4>2 DEF IInv, TypeOK
    <3>3. TypeOK'
      BY <2>1, <3>1, <3>2 DEF IInv, TypeOK
    <3> QED BY <3>1, <3>3 DEF IInv, OneRunning, Consistent
  <2> QED BY <2>2, <2>3
<1>2. CASE block
  <2>1. PICK s \in BlockedAs : thread_block(s)
    BY <1>2 DEF block
  <2>2. s \in Stopped
    BY BlockedAsAssumption DEF Stopped
  <2>3. idlepc' \in {"loop", "wake", "hlt"}
    BY <1>2 DEF block, IInv, TypeOK
  <2> QED BY <1>0, <2>1, <2>2, <2>3, StopConsistent, ScheduleStep DEF thread_block
<1>3. CASE yield
  <2>1. idlepc' \in {"loop", "wake", "hlt"}
    BY <1>3 DEF yield, IInv, TypeOK
  <2>2. schedule([status EXCEPT ![cur] = "READY"], Append(ready, cur), intr)
    BY <1>3, YieldConsistent DEF yield, thread_yield
  <2> QED BY <1>0, <2>1, <2>2, YieldConsistent, ScheduleStep
<1>4. CASE unblock \/ device_intr
  <2>1. PICK t \in Waiting : thread_unblock(t)
    BY <1>4 DEF unblock, device_intr
  <2>2. idlepc' \in {"loop", "wake", "hlt"}
    BY <1>4 DEF unblock, device_intr, IInv, TypeOK
  <2> QED BY <2>1, <2>2, UnblockStep DEF Waiting
<1>5. CASE start
  BY <1>5, StartStep DEF start
<1>6. CASE intr_enable \/ intr_disable
  <2>1. /\ intr' \in BOOLEAN
        /\ UNCHANGED <<status, ready, all, cur, ticks, saved, idlepc, panicked>>
    BY <1>6 DEF intr_enable, intr_disable
  <2> QED BY <2>1 DEF IInv, TypeOK, OneRunning, Consistent
<1>7. CASE idle_block
  <2>1. "BLOCKED" \in Stopped
    BY DEF Stopped
  <2>2. idlepc' \in {"loop", "wake", "hlt"} /\ thread_block("BLOCKED")
    BY <1>7 DEF idle_block
  <2> QED BY <1>0, <2>1, <2>2, StopConsistent, ScheduleStep DEF thread_block
<1>8. CASE idle_hlt
  BY <1>8 DEF idle_hlt, IInv, TypeOK, OneRunning, Consistent
<1>9. CASE quiet_intr
  BY <1>9 DEF quiet_intr, IInv, TypeOK, OneRunning, Consistent
<1>10. CASE UNCHANGED vars
  BY <1>10 DEF vars, IInv, TypeOK, OneRunning, Consistent
<1> QED BY <1>1, <1>2, <1>3, <1>4, <1>5, <1>6, <1>7, <1>8, <1>9, <1>10 DEF Next

(* The inductive invariant holds throughout every behaviour.                *)
THEOREM Invariance == Spec => []IInv
BY InitIInv, NextIInv, PTL DEF Spec

(* Type correctness: no time slice ever leaves the range of uint8_t.        *)
THEOREM TypeCorrect == Spec => []TypeOK
<1>1. IInv => TypeOK
  BY DEF IInv
<1> QED BY <1>1, Invariance, PTL

(* The ready list of thread.c holds exactly the READY threads, once each.   *)
THEOREM ReadyListCorrect == Spec => []ReadyListSound
<1>1. IInv => ReadyListSound
  BY DEF IInv, Consistent, NoDup, ReadyListSound
<1> QED BY <1>1, Invariance, PTL

(* Exactly the thread on the processor is RUNNING.                          *)
THEOREM RunningUnique == Spec => []OneRunning
<1>1. IInv => OneRunning
  BY DEF IInv
<1> QED BY <1>1, Invariance, PTL

(* No assertion of thread.c fails, in any behaviour of any client threads.  *)
THEOREM AssertionsHold == Spec => []NoPanic
<1>1. IInv => NoPanic
  BY DEF IInv, NoPanic
<1> QED BY <1>1, Invariance, PTL

-----------------------------------------------------------------------------
(***************************************************************************)
(* schedule() called while idle is BLOCKED wakes idle only when it finds   *)
(* no ready thread, and then switches to it.                               *)
(***************************************************************************)
LEMMA ScheduleIdle ==
  ASSUME NEW st, NEW q, NEW restore \in BOOLEAN,
         TypeOK, Consistent(st, q), st[idle] = "BLOCKED",
         schedule(st, q, restore), ~panicked',
         status'[idle] # "BLOCKED"
  PROVE  cur' = idle /\ ready' = <<>>
<1> DEFINE preempted == st[cur] = "RUNNING"
           q1  == IF preempted THEN requeue(q, cur) ELSE q
           st1 == IF preempted THEN markPreempted(st) ELSE st
           q2  == wakeIdle(q1, st1)
           next == Head(q2)
<1>1. /\ ready' = Tail(q2)
      /\ status' = [st1 EXCEPT ![next] = "RUNNING"]
      /\ cur' = next
  BY DEF schedule, switch_to, panic
<1>2. /\ cur \in Thread /\ idle \in Thread
      /\ q \in Seq(Thread) /\ NoDup(q) /\ idle \notin Threads(q)
      /\ st \in [Thread -> Status]
  BY ThreadAssumption DEF TypeOK, Consistent, list_find
<1>3. /\ st1 \in [Thread -> Status]
      /\ st1[idle] = "BLOCKED"
      /\ q1 \in Seq(Thread) /\ idle \notin Threads(q1) /\ NoDup(q1)
  <2>1. CASE preempted
    <3>1. cur # idle /\ cur \notin Threads(q) /\ "READY" \in Status
      BY <1>2, <2>1 DEF Consistent, list_find, Status
    <3>2. q1 = Append(q, cur) /\ st1 = [st EXCEPT ![cur] = "READY"]
      BY <2>1 DEF requeue, markPreempted
    <3>3. st1 \in [Thread -> Status] /\ st1[idle] = "BLOCKED"
      BY <1>2, <3>1, <3>2
    <3>4. /\ Append(q, cur) \in Seq(Thread)
          /\ Threads(Append(q, cur)) = Threads(q) \cup {cur}
          /\ NoDup(Append(q, cur))
      BY <1>2, <3>1, AppendFacts DEF list_find
    <3> HIDE DEF q1, st1
    <3> QED BY <1>2, <3>1, <3>2, <3>3, <3>4
  <2>2. CASE ~preempted
    BY <1>2, <2>2
  <2> QED BY <2>1, <2>2
<1> HIDE DEF q1, st1
<1>4. CASE q1 = <<>>
  <2>1. q2 = <<idle>>
    BY <1>4 DEF wakeIdle
  <2> QED BY <1>1, <2>1
<1>5. CASE q1 # <<>>
  <2>1. q2 = q1
    BY <1>5 DEF wakeIdle
  <2>2. next \in Threads(q1) /\ next \in Thread
    BY <1>3, <1>5, <2>1, PopFacts
  <2>3. next # idle
    BY <1>3, <2>2
  <2> QED BY <1>1, <1>2, <1>3, <2>2, <2>3
<1> QED BY <1>4, <1>5

(***************************************************************************)
(* The blocked idle thread of thread.c runs again only when no other       *)
(* thread is ready.                                                        *)
(***************************************************************************)
THEOREM IdleCorrect == Spec => IdleIsLastResort
<1> DEFINE A == /\ \/ status[idle] = "BLOCKED"
                   \/ idlepc = "loop" /\ idlepc' = "wake"
                /\ status'[idle] # "BLOCKED"
                => cur' = idle /\ ready' = <<>>
<1>1. ASSUME IInv, [Next]_vars PROVE [A]_vars
  <2> SUFFICES ASSUME Next,
                      \/ status[idle] = "BLOCKED"
                      \/ idlepc = "loop" /\ idlepc' = "wake",
                      status'[idle] # "BLOCKED"
               PROVE  cur' = idle /\ ready' = <<>>
    BY <1>1
  <2>1. IInv' /\ ~panicked'
    BY <1>1, NextIInv DEF IInv
  <2>2. /\ TypeOK /\ intr \in BOOLEAN /\ Consistent(status, ready)
        /\ cur \in Thread /\ idle \in Thread
        /\ status \in [Thread -> Status] /\ status[cur] = "RUNNING"
    BY <1>1, ThreadAssumption DEF IInv, TypeOK, OneRunning
  <2>3. CASE timer_intr_handler
    <3>1. status[idle] = "BLOCKED"
      BY <2>3 DEF timer_intr_handler
    <3>2. slice_over
      BY <2>3, <3>1 DEF timer_intr_handler
    <3>3. schedule(status, ready, TRUE)
      BY <2>3, <3>2 DEF timer_intr_handler
    <3> QED BY <2>1, <2>2, <3>1, <3>3, ScheduleIdle
  <2>4. CASE block
    <3>1. status[idle] = "BLOCKED" /\ cur # idle
      BY <2>4 DEF block
    <3>2. PICK s \in BlockedAs : thread_block(s)
      BY <2>4 DEF block
    <3>3. s \in Stopped
      BY BlockedAsAssumption DEF Stopped
    <3>4. [status EXCEPT ![cur] = s][idle] = "BLOCKED"
      BY <2>2, <3>1
    <3> QED BY <1>1, <2>1, <2>2, <3>2, <3>3, <3>4, StopConsistent, ScheduleIdle
            DEF thread_block
  <2>5. CASE yield
    <3>1. status[idle] = "BLOCKED" /\ cur # idle
      BY <2>5 DEF yield
    <3>2. schedule([status EXCEPT ![cur] = "READY"], Append(ready, cur), intr)
      BY <1>1, <2>5, YieldConsistent DEF yield, thread_yield
    <3>3. [status EXCEPT ![cur] = "READY"][idle] = "BLOCKED"
      BY <2>2, <3>1
    <3> QED BY <1>1, <2>1, <2>2, <3>2, <3>3, YieldConsistent, ScheduleIdle
  <2>6. CASE unblock \/ device_intr
    <3>1. PICK t \in Waiting : thread_unblock(t)
      BY <2>6 DEF unblock, device_intr
    <3>2. t \in Thread /\ t # idle
      BY <3>1 DEF Waiting
    <3>3. status' = [status EXCEPT ![t] = "READY"]
      BY <2>1, <3>1 DEF thread_unblock, panic
    <3>4. status[idle] = "BLOCKED"
      BY <2>6 DEF unblock, device_intr
    <3> QED BY <2>2, <3>2, <3>3, <3>4
  <2>7. CASE start
    <3>1. PICK t \in Thread : thread_start(t)
      BY <2>7 DEF start
    <3>2. status[t] = "NONE" /\ status' = [status EXCEPT ![t] = "READY"]
      BY <2>1, <3>1 DEF thread_start, panic
    <3>3. status[idle] = "BLOCKED"
      BY <3>1 DEF thread_start
    <3> QED BY <2>2, <3>2, <3>3
  <2>8. CASE intr_enable \/ intr_disable
    BY <2>8 DEF intr_enable, intr_disable
  <2>9. CASE idle_block
    <3>1. cur = idle /\ thread_block("BLOCKED") /\ "BLOCKED" \in Stopped
      BY <2>9 DEF idle_block, Stopped
    <3>2. [status EXCEPT ![cur] = "BLOCKED"][idle] = "BLOCKED"
      BY <2>2, <3>1
    <3> QED BY <1>1, <2>1, <2>2, <3>1, <3>2, StopConsistent, ScheduleIdle
            DEF thread_block
  <2>10. CASE idle_hlt
    BY <2>10 DEF idle_hlt
  <2>11. CASE quiet_intr
    BY <2>11 DEF quiet_intr
  <2> QED BY <2>3, <2>4, <2>5, <2>6, <2>7, <2>8, <2>9, <2>10, <2>11 DEF Next
<1> QED BY <1>1, Invariance, PTL DEF Spec, IdleIsLastResort
=============================================================================
