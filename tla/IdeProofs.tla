------------------------------ MODULE IdeProofs ------------------------------
(***************************************************************************)
(* The disk driver of ide.c with one thread on the channel, as the code    *)
(* uses it: its asserts hold, it moves data and issues commands only when  *)
(* the device is ready for them, and its requests have the effect that Disk*)
(* describes; for any number of threads that do not use the disk, any      *)
(* number of chunks and sectors, any limit on polling, with or without     *)
(* device errors.                                                          *)
(*                                                                         *)
(* The asserts hold whatever the device does.  The rest holds until the    *)
(* device does what the driver does not look for (`unseen`).               *)
(*                                                                         *)
(* With a second thread on the channel the driver does panic (see          *)
(* AcquireWaits), so the theorems assume OneUser.                          *)
(***************************************************************************)
EXTENDS Ide, SchedulerProofs

OneUser == User = {main}

at      == pc[main]
request == op[main]
raised  == value[disk_done] = 1

Labels == {"out", "cmd", "down0", "down", "poll", "sleep", "xfer", "next", "err", "fail"}

OpType == [kind : {"none", "identify", "read", "write"}, i : Nat, n : Nat,
           last : 1..MaxSectors, moved : Nat, val : Data]

DevType == [st : {"idle", "busy", "drq", "reading", "writing", "err"},
            cmd : {"none", "identify", "read", "write"}, i : Nat,
            left : 1..MaxSectors, data : Data]

IdeTypes ==
  /\ pc \in [User -> Labels]
  /\ op \in [User -> OpType]
  /\ dev \in DevType
  /\ media \in [1..MaxChunks -> Data]
  /\ dev.cmd \in {"read", "write"} => dev.i \in 1..MaxChunks
  /\ irq \in BOOLEAN /\ expecting \in BOOLEAN /\ unseen \in BOOLEAN
  /\ value \in [Sema -> {0, 1}]
  /\ old \in [Thread -> BOOLEAN]

\* The lock is held during a request, but not by identify_disk().
RequestSound ==
  /\ at = "out" <=> request.kind = "none"
  /\ request.kind \in {"read", "write"} =>
       request.n \in 1..MaxChunks /\ request.i \in 1..request.n
  /\ request.kind = "identify" => at # "next" /\ request.moved = 0
  /\ locks = [l \in Lock |->
       IF request.kind \in {"read", "write"}
       THEN [locked |-> TRUE, holder |-> main, number |-> 1] ELSE Free]

\* A chunk is moved sector by sector, once DRQ has been seen.
MovedSound ==
  /\ at \in {"cmd", "poll", "sleep"} => request.moved = 0
  /\ at \in {"down0", "down"} =>
       request.moved = IF request.kind = "write" THEN secs(request) ELSE 0
  /\ at = "xfer" => request.moved < secs(request)

\* The flag is off while main holds the lock, and in sema_down().
Masked == at = "down" \/ (request.kind \in {"read", "write"} /\ at # "fail")

\* main waits in sema_down(), on the list of waiters.
WaitSound ==
  /\ Masked => IF cur = main THEN ~intr ELSE ~saved[main]
  /\ at = "down" /\ request.kind \in {"read", "write"} => ~old[main]
  /\ request.kind = "write" /\ at \in {"xfer", "down0"} => cur = main
  /\ waiters = [s \in Sema |-> IF status[main] = "BLOCKED" THEN <<main>> ELSE <<>>]
  /\ status[main] = "BLOCKED" => at = "down"

(***************************************************************************)
(* The handler raises the semaphore at most once for each command, and     *)
(* sema_down() has consumed that before the next command.                  *)
(***************************************************************************)
Settled ==
  \/ at \in {"out", "cmd", "next"}
  \/ request.kind # "write" /\ at \in {"poll", "sleep", "xfer", "err", "fail"}

Handshake ==
  /\ expecting => ~raised
  /\ Settled => ~expecting /\ ~raised

(***************************************************************************)
(* Where the device is in its protocol, seen from the driver.              *)
(***************************************************************************)
DeviceInStep ==
  /\ at \in {"out", "cmd", "next"} => dev.st = "idle"
  /\ at = "xfer" =>
       /\ dev.st \in {"drq", IF request.kind = "write" THEN "writing" ELSE "reading"}
       /\ request.moved = 0 => dev.st = "drq"
  /\ at \in {"poll", "sleep"} => dev.st \in {"busy", "drq", "err"}
  /\ at \in {"down0", "down"} =>
       dev.st \in (IF request.kind = "write" THEN {"writing", "idle"}
                                             ELSE {"busy", "drq", "err"})
  /\ at \in {"err", "fail"} => dev.st \notin {"reading", "writing"}

(***************************************************************************)
(* A write must not be completed by an interrupt that is not its last: when*)
(* its first sector is moved none is latched or counted, and those of the  *)
(* sectors that follow leave one latch when the device keeps pace.         *)
(***************************************************************************)
OwnInterrupt ==
  request.kind = "write" =>
    /\ at \in {"cmd", "next"} => ~irq
    /\ at = "xfer" => ~raised /\ (request.moved = 0 => ~irq)
    /\ at \in {"poll", "sleep"} /\ (irq \/ raised) => dev.st = "err"
    /\ at = "down0" => ~raised /\ (dev.st = "writing" /\ secs(request) = 1 => ~irq)
    /\ at = "down" => ~(irq /\ raised)
    /\ at = "down" /\ dev.st = "writing" => secs(request) = 1 /\ ~irq /\ ~raised

\* The command and the data in the device are those of the request.
OwnData ==
  /\ dev.st \notin {"idle", "err"} => dev.cmd = request.kind /\ dev.i = request.i
  /\ dev.st \in {"busy", "drq", "reading"} => dev.left = secs(request) - request.moved
  /\ dev.st = "writing" =>
       /\ dev.cmd = "write" /\ dev.data = request.val
       /\ dev.left = secs(request) - request.moved + 1
  /\ dev.st = "reading" => dev.cmd = "read"
  /\ dev.st \in {"drq", "reading"} /\ request.kind = "read" => dev.data = media[dev.i]

InStep == DeviceInStep /\ OwnInterrupt /\ OwnData

IdeInv ==
  /\ OneUser /\ IInv /\ ~iofail
  /\ IdeTypes /\ RequestSound /\ MovedSound /\ WaitSound
  /\ Handshake
  /\ ~unseen => InStep

GaveUp == panicked /\ iofail

-----------------------------------------------------------------------------
LEMMA Basics ==
  ASSUME IdeInv
  PROVE  /\ User = {main} /\ main \in Thread /\ idle \in Thread /\ main # idle
         /\ chan \in Lock /\ Lock = {chan} /\ disk_done \in Sema /\ Sema = {disk_done}
         /\ cur \in Thread /\ intr \in BOOLEAN /\ ~panicked
         /\ status \in [Thread -> Status] /\ saved \in [Thread -> BOOLEAN]
         /\ status[cur] = "RUNNING"
BY IdeAssumption, ThreadAssumption DEF IdeInv, OneUser, IInv, TypeOK, OneRunning

\* Inside the invariant every step of Scheduler keeps IInv.
LEMMA KeepsIInv == ASSUME IdeInv, [Next]_vars PROVE IInv'
BY NextIInv DEF IdeInv

\* What a step of the user leaves behind in its variables.
LEMMA AtMain ==
  ASSUME IdeInv, NEW l, At(l)
  PROVE  cur = main /\ at = l
BY Basics DEF At, at

LEMMA Goto ==
  ASSUME IdeInv, cur = main, NEW l \in Labels, goto(l)
  PROVE  at' = l /\ pc' \in [User -> Labels]
BY Basics DEF IdeInv, IdeTypes, goto, at

\* The request and what its chunk holds in sectors.
LEMMA RequestTypes ==
  ASSUME IdeInv
  PROVE  /\ request \in OpType /\ secs(request) \in 1..MaxSectors
         /\ MaxSectors \in Nat \ {0} /\ MaxChunks \in Nat \ {0}
         /\ at \in Labels /\ dev \in DevType
<1>1. request \in OpType /\ at \in Labels /\ dev \in DevType
  BY Basics DEF IdeInv, IdeTypes, request, at
<1> QED BY <1>1, IdeAssumption DEF secs, OpType

(***************************************************************************)
(* A step of main that does not block, and leaves the scheduler alone but  *)
(* for the flag, keeps what concerns the scheduler.                        *)
(***************************************************************************)
LEMMA UserKeeps ==
  ASSUME IdeInv, cur = main, [Next]_vars, UNCHANGED <<status, cur, saved, waiters>>,
         Masked' => ~intr',
         at' = "down" /\ request'.kind \in {"read", "write"} => ~old'[main]
  PROVE  IInv' /\ WaitSound'
<1>1. IInv' /\ status[main] = "RUNNING" /\ "RUNNING" # "BLOCKED"
  BY KeepsIInv, Basics
<1> QED BY <1>1 DEF IdeInv, WaitSound

\* Most of them leave the flag alone, too.
LEMMA UserQuiet ==
  ASSUME IdeInv, cur = main, UNCHANGED <<vars, syncVars>>, at' # "down", Masked' => Masked
  PROVE  [Next]_vars /\ raised' = raised /\ IInv' /\ WaitSound'
<1>1. [Next]_vars /\ raised' = raised /\ UNCHANGED <<status, cur, saved, waiters, intr>>
  BY DEF vars, syncVars, raised
<1>2. Masked' => ~intr'
  BY <1>1 DEF IdeInv, WaitSound
<1> QED BY <1>1, <1>2, UserKeeps

LEMMA CommandStep == ASSUME IdeInv, cmd_out PROVE IdeInv' /\ [Next]_vars
<1> DEFINE l == IF request.kind = "write" THEN "poll" ELSE "down0"
<1>1. cur = main /\ at = "cmd"
  BY AtMain DEF cmd_out
<1>2. /\ expecting' = TRUE /\ command /\ goto(l)
      /\ UNCHANGED <<vars, syncVars, op, media, irq, unseen, iofail>>
  BY <1>1 DEF cmd_out, request
<1>3. l \in Labels /\ request' = request
  BY <1>2 DEF Labels, request
<1>4. at' = l /\ pc' \in [User -> Labels]
  BY <1>1, <1>2, <1>3, Goto
<1>5. [Next]_vars /\ raised' = raised /\ IInv' /\ WaitSound'
  BY <1>1, <1>2, <1>3, <1>4, UserQuiet DEF Masked
<1>6. request.kind \in {"read", "write"} => request.i \in 1..MaxChunks
  BY RequestTypes DEF IdeInv, RequestSound
<1>7. \/ /\ dev' = [st |-> "busy", cmd |-> request.kind, i |-> request.i,
                    left |-> secs(request), data |-> Blank]
         /\ dev'.st = "busy" /\ dev'.cmd = request.kind /\ dev'.i = request.i
         /\ dev'.left = secs(request)
      \/ dev.st \in BSY /\ dev' = dev
  BY <1>1, <1>2 DEF command, request
<1>8. dev' \in DevType /\ (dev'.cmd \in {"read", "write"} => dev'.i \in 1..MaxChunks)
  BY <1>6, <1>7, RequestTypes, IdeAssumption DEF IdeInv, IdeTypes, OpType, DevType
<1>9. IdeTypes'
  BY <1>2, <1>4, <1>8 DEF IdeInv, IdeTypes, syncVars
<1>10. RequestSound' /\ MovedSound'
  BY <1>1, <1>2, <1>3, <1>4 DEF IdeInv, RequestSound, MovedSound, syncVars
<1>11. Handshake'
  BY <1>1, <1>2, <1>3, <1>4, <1>5 DEF IdeInv, Handshake, Settled
<1>12. ASSUME ~unseen' PROVE InStep'
  <2>1. InStep /\ dev.st = "idle" /\ request.moved = 0
    BY <1>1, <1>2, <1>12 DEF IdeInv, InStep, DeviceInStep, MovedSound
  <2>2. /\ dev'.st = "busy" /\ dev'.cmd = request.kind /\ dev'.i = request.i
        /\ dev'.left = secs(request) - request.moved
    BY <1>7, <2>1, RequestTypes DEF BSY
  <2>3. DeviceInStep'
    BY <1>1, <1>3, <1>4, <2>2 DEF DeviceInStep
  <2>4. OwnInterrupt'
    BY <1>1, <1>2, <1>3, <1>4, <1>5, <2>1, <2>2 DEF IdeInv, InStep, OwnInterrupt, Handshake, Settled
  <2>5. OwnData'
    BY <1>3, <2>2 DEF OwnData
  <2> QED BY <2>3, <2>4, <2>5 DEF InStep
<1> QED BY <1>2, <1>5, <1>9, <1>10, <1>11, <1>12, Basics DEF IdeInv, OneUser

LEMMA IdentifyStep == ASSUME IdeInv, identify_disk PROVE IdeInv' /\ [Next]_vars
<1>1. cur = main /\ at = "out"
  BY AtMain DEF identify_disk
<1>2. /\ ~irq
      /\ op' = [op EXCEPT ![main] = [NoOp EXCEPT !.kind = "identify"]]
      /\ goto("cmd")
      /\ UNCHANGED <<vars, syncVars, devVars, expecting, iofail>>
  BY <1>1 DEF identify_disk, At, Served
<1>3. op' \in [User -> OpType] /\ request'.kind = "identify" /\ request'.moved = 0
  <2> DEFINE o == [NoOp EXCEPT !.kind = "identify"]
  <2>1. o = [kind |-> "identify", i |-> 0, n |-> 0, last |-> 1, moved |-> 0, val |-> Blank]
    BY DEF NoOp
  <2>2. 1 \in 1..MaxSectors /\ Blank \in Data /\ MaxSectors \in Nat
    BY IdeAssumption
  <2>4. op' = [op EXCEPT ![main] = o]
    BY <1>2
  <2> HIDE DEF o
  <2>3. o \in OpType /\ o.kind = "identify" /\ o.moved = 0
    BY <2>1, <2>2 DEF OpType
  <2> QED BY <2>3, <2>4, Basics DEF IdeInv, IdeTypes, request
<1>4. at' = "cmd" /\ pc' \in [User -> Labels]
  BY <1>1, <1>2, Goto DEF Labels
<1>5. [Next]_vars /\ raised' = raised /\ IInv' /\ WaitSound'
  BY <1>1, <1>2, <1>3, <1>4, UserQuiet DEF Masked
<1>6. IdeTypes'
  BY <1>2, <1>3, <1>4 DEF IdeInv, IdeTypes, syncVars, devVars
<1>7. RequestSound' /\ MovedSound'
  BY <1>1, <1>2, <1>3, <1>4 DEF IdeInv, RequestSound, MovedSound, syncVars
<1>8. Handshake' /\ (~unseen' => InStep')
  BY <1>1, <1>2, <1>3, <1>4, <1>5
  DEF IdeInv, Handshake, Settled, InStep, DeviceInStep, OwnInterrupt, OwnData, devVars
<1> QED BY <1>2, <1>5, <1>6, <1>7, <1>8, Basics DEF IdeInv, OneUser

LEMMA IdentifiedStep == ASSUME IdeInv, identify_done PROVE IdeInv' /\ [Next]_vars
<1>1. cur = main /\ at = "xfer" /\ request.kind = "identify"
  BY AtMain DEF identify_done, request
<1>2. /\ dev' = [dev EXCEPT !.st = "idle"]
      /\ op' = [op EXCEPT ![main] = NoOp]
      /\ goto("out")
      /\ UNCHANGED <<vars, syncVars, media, irq, unseen, expecting, iofail>>
  BY <1>1 DEF identify_done
<1>3. op' \in [User -> OpType] /\ request'.kind = "none"
  BY <1>2, Basics, IdeAssumption DEF IdeInv, IdeTypes, OpType, request, NoOp
<1>4. at' = "out" /\ pc' \in [User -> Labels]
  BY <1>1, <1>2, Goto DEF Labels
<1>5. [Next]_vars /\ raised' = raised /\ IInv' /\ WaitSound'
  BY <1>1, <1>2, <1>3, <1>4, UserQuiet DEF Masked
<1>6. /\ dev' \in DevType /\ dev'.st = "idle"
      /\ dev'.cmd \in {"read", "write"} => dev'.i \in 1..MaxChunks
  BY <1>2 DEF IdeInv, IdeTypes, DevType
<1>7. IdeTypes'
  BY <1>2, <1>3, <1>4, <1>6 DEF IdeInv, IdeTypes, syncVars
<1>8. RequestSound' /\ MovedSound'
  BY <1>1, <1>2, <1>3, <1>4 DEF IdeInv, RequestSound, MovedSound, syncVars
<1>9. Handshake' /\ (~unseen' => InStep')
  BY <1>1, <1>2, <1>3, <1>4, <1>5, <1>6
  DEF IdeInv, Handshake, Settled, InStep, DeviceInStep, OwnInterrupt, OwnData
<1> QED BY <1>2, <1>5, <1>7, <1>8, <1>9, Basics DEF IdeInv, OneUser

\* The interrupt latched before the call is served before it.
LEMMA CallStep == ASSUME IdeInv, ide_call PROVE IdeInv' /\ [Next]_vars
<1>1. cur = main /\ at = "out" /\ intr /\ ~irq
  BY AtMain DEF ide_call, At, Served
<1>2. request.kind = "none" /\ locks = [l \in Lock |-> Free]
  BY <1>1 DEF IdeInv, RequestSound
<1>3. locks[chan].holder # main /\ ~locks[chan].locked /\ locks[chan].number = 0
  BY <1>2, Basics, SyncAssumption DEF Free
<1>4. /\ locks' = [locks EXCEPT ![chan] = [locked |-> TRUE, holder |-> main, number |-> 1]]
      /\ intr' = FALSE
      /\ UNCHANGED <<panicked, queues, value, waiters, old>>
  BY <1>1, <1>3 DEF ide_call, lock_acquire, spinlock_acquire
<1>5. PICK k \in {"read", "write"}, n \in 1..MaxChunks, s \in 1..MaxSectors, v \in Data :
        op' = [op EXCEPT ![main] =
                 [kind |-> k, i |-> 1, n |-> n, last |-> s, moved |-> 0, val |-> v]]
  BY <1>1 DEF ide_call
<1>6. goto("cmd") /\ UNCHANGED <<devVars, expecting, iofail>>
  BY DEF ide_call
<1>7. /\ op' \in [User -> OpType] /\ request'.kind \in {"read", "write"}
      /\ request'.n \in 1..MaxChunks /\ request'.i \in 1..request'.n
      /\ request'.moved = 0
  BY <1>5, Basics, IdeAssumption DEF IdeInv, IdeTypes, OpType, request
<1>8. at' = "cmd" /\ pc' \in [User -> Labels]
  BY <1>1, <1>6, Goto DEF Labels
<1>9. [Next]_vars /\ raised' = raised
  BY <1>1, <1>4, Basics, IdeAssumption DEF Next, intr_disable, queues, raised
<1>10. IInv' /\ WaitSound'
  BY <1>1, <1>4, <1>8, <1>9, UserKeeps DEF queues
<1>11. IdeTypes'
  BY <1>4, <1>6, <1>7, <1>8 DEF IdeInv, IdeTypes, devVars
<1>12. RequestSound' /\ MovedSound'
  BY <1>2, <1>4, <1>7, <1>8, Basics DEF RequestSound, MovedSound
<1>13. Handshake' /\ (~unseen' => InStep')
  BY <1>1, <1>6, <1>7, <1>8, <1>9
  DEF IdeInv, Handshake, Settled, InStep, DeviceInStep, OwnInterrupt, OwnData, devVars
<1> QED BY <1>6, <1>9, <1>10, <1>11, <1>12, <1>13, Basics DEF IdeInv, OneUser

-----------------------------------------------------------------------------
(* sema_down() of the driver, in its three steps.                           *)

DownCli  == At("down0") /\ sema_down_cli /\ goto("down")
DownWait == At("down") /\ sema_wait(disk_done) /\ UNCHANGED pc
DownTake ==
  /\ At("down") /\ sema_take(disk_done)
  /\ goto(IF request.kind = "write" THEN "next" ELSE "poll")

\* Behind is false but at the first of them.
DownKeeps ==
  /\ UNCHANGED <<op, dev, media, irq, expecting, iofail>>
  /\ unseen' = (unseen \/ Behind)

LEMMA DownTypes ==
  ASSUME IdeInv, DownKeeps, cur = main
  PROVE  /\ unseen' \in BOOLEAN /\ request' = request
         /\ ~unseen' => InStep
         /\ ~unseen' /\ secs(request) > 1 /\ request.moved > 0
              => dev.st \notin {"reading", "writing"}
<1>1. unseen \in BOOLEAN /\ request' = request
  BY DEF IdeInv, IdeTypes, DownKeeps, request
<1>2. Behind <=> /\ secs(request) > 1 /\ request.moved > 0
                 /\ dev.st \in {"reading", "writing"}
  BY DEF Behind, request
<1> QED BY <1>1, <1>2 DEF IdeInv, DownKeeps

LEMMA DownCliStep ==
  ASSUME IdeInv, DownCli, DownKeeps PROVE IdeInv' /\ [Next]_vars
<1>1. cur = main /\ at = "down0"
  BY AtMain DEF DownCli
<1>2. /\ old' = [old EXCEPT ![cur] = intr] /\ intr' = FALSE
      /\ UNCHANGED <<panicked, queues, locks, value, waiters>>
      /\ at' = "down" /\ pc' \in [User -> Labels]
  BY <1>1, Goto DEF DownCli, sema_down_cli, Labels
<1>3. [Next]_vars
  <2>1. CASE intr
    BY <1>1, <1>2, <2>1, Basics DEF Next, intr_disable, queues
  <2>2. CASE ~intr
    BY <1>2, <2>2, Basics DEF vars, queues
  <2> QED BY <2>1, <2>2
<1>4. /\ request' = request /\ raised' = raised /\ unseen' \in BOOLEAN
      /\ ~unseen' => InStep
      /\ ~unseen' /\ secs(request) > 1 /\ request.moved > 0
           => dev.st \notin {"reading", "writing"}
  BY <1>1, <1>2, DownTypes DEF raised
<1>5. old' \in [Thread -> BOOLEAN]
  BY <1>2, Basics DEF IdeInv, IdeTypes
<1>6. request.kind \in {"read", "write"} => ~old'[main]
  <2>1. request.kind \in {"read", "write"} => ~intr
    BY <1>1 DEF IdeInv, WaitSound, Masked
  <2> QED BY <1>1, <1>2, <2>1, Basics DEF IdeInv, IdeTypes
<1>7. IInv' /\ WaitSound'
  BY <1>1, <1>2, <1>3, <1>4, <1>6, UserKeeps DEF queues
<1>8. IdeTypes'
  BY <1>2, <1>4, <1>5 DEF IdeInv, IdeTypes, DownKeeps
<1>9. RequestSound' /\ MovedSound'
  BY <1>1, <1>2, <1>4 DEF IdeInv, RequestSound, MovedSound
<1>10. Handshake'
  BY <1>1, <1>2, <1>4 DEF IdeInv, Handshake, Settled, DownKeeps
<1>11. ASSUME ~unseen' PROVE InStep'
  <2>1. /\ secs(request) \in 1..MaxSectors /\ MaxSectors \in Nat
        /\ request.kind = "write" => request.moved = secs(request)
    BY <1>1, RequestTypes DEF IdeInv, MovedSound
  <2>2. request.kind = "write" /\ dev.st = "writing" => secs(request) = 1
    BY <1>4, <1>11, <2>1
  <2>3. /\ UNCHANGED <<dev, irq, media>> /\ InStep
        /\ request' = request /\ raised' = raised /\ at = "down0" /\ at' = "down"
    BY <1>1, <1>2, <1>4, <1>11 DEF DownKeeps
  <2>4. DeviceInStep'
    BY <2>2, <2>3 DEF InStep, DeviceInStep
  <2>5. OwnInterrupt'
    BY <2>2, <2>3 DEF InStep, OwnInterrupt
  <2>6. OwnData'
    BY <2>3 DEF InStep, OwnData
  <2> QED BY <2>4, <2>5, <2>6 DEF InStep
<1> QED BY <1>3, <1>7, <1>8, <1>9, <1>10, <1>11, Basics DEF IdeInv, OneUser, DownKeeps

\* main is not yet on the list of waiters, and blocks.
LEMMA DownWaitStep ==
  ASSUME IdeInv, DownWait, DownKeeps PROVE IdeInv' /\ [Next]_vars
<1> DEFINE st == [status EXCEPT ![main] = "BLOCKED"]
<1>1. cur = main /\ at = "down" /\ ~intr /\ status[main] = "RUNNING"
  BY AtMain, Basics DEF DownWait, IdeInv, WaitSound, Masked
<1>2. waiters = [s \in Sema |-> <<>>]
  BY <1>1 DEF IdeInv, WaitSound
<1>3. ~list_find(waiters[disk_done], cur)
  BY <1>2, Basics DEF list_find, Threads
<1>4. /\ waiters' = [waiters EXCEPT ![disk_done] = Append(@, main)]
      /\ thread_block("BLOCKED")
      /\ UNCHANGED <<idlepc, locks, value, old>> /\ pc' = pc
  BY <1>1, <1>3 DEF DownWait, sema_wait
<1>5. Next
  BY <1>1, <1>4, Basics, SyncAssumption DEF Next, block
<1>6. IInv'
  BY <1>5, KeepsIInv
<1>7. Consistent(st, ready)
  BY <1>1, StopConsistent DEF Stopped, IdeInv
<1>8. /\ saved' = [saved EXCEPT ![main] = intr]
      /\ intr' = (IF cur' = main THEN intr ELSE saved[cur'])
      /\ \A t \in Thread \ {idle} : status'[t] = "BLOCKED" <=> st[t] = "BLOCKED"
  <2>1. schedule(st, ready, intr) /\ TypeOK /\ ~panicked'
    BY <1>1, <1>4, <1>6 DEF thread_block, IdeInv, IInv
  <2> HIDE DEF st
  <2> QED BY <1>1, <1>7, <2>1, Basics, Switched
<1>9. status'[main] = "BLOCKED"
  BY <1>8, Basics
<1>10. waiters' = [s \in Sema |-> <<main>>]
  BY <1>2, <1>4, Basics
<1>11. saved'[main] = FALSE /\ (cur' = main => ~intr')
  BY <1>1, <1>8, Basics
<1>12. /\ at' = "down" /\ request' = request /\ raised' = raised
       /\ unseen' \in BOOLEAN /\ (~unseen' => InStep)
  BY <1>1, <1>4, DownTypes DEF at, raised
<1>13. WaitSound'
  BY <1>1, <1>4, <1>9, <1>10, <1>11, <1>12 DEF IdeInv, WaitSound
<1>14. IdeTypes'
  BY <1>4, <1>12 DEF IdeInv, IdeTypes, DownKeeps
<1>15. RequestSound' /\ MovedSound'
  BY <1>1, <1>4, <1>12 DEF IdeInv, RequestSound, MovedSound
<1>16. Handshake' /\ (~unseen' => InStep')
  BY <1>1, <1>12 DEF IdeInv, Handshake, Settled, InStep, DeviceInStep, OwnInterrupt,
                     OwnData, DownKeeps
<1> QED BY <1>5, <1>6, <1>13, <1>14, <1>15, <1>16, Basics
        DEF IdeInv, OneUser, DownKeeps

\* A write goes on, if the device kept pace, only when it has stored the chunk.
LEMMA DownTakeStep ==
  ASSUME IdeInv, DownTake, DownKeeps PROVE IdeInv' /\ [Next]_vars
<1> DEFINE l == IF request.kind = "write" THEN "next" ELSE "poll"
<1>1. cur = main /\ at = "down" /\ ~intr
  BY AtMain DEF DownTake, IdeInv, WaitSound, Masked
<1>2. value \in [Sema -> {0, 1}] /\ old[main] \in BOOLEAN
  BY Basics DEF IdeInv, IdeTypes
<1>3. /\ raised /\ value' = [value EXCEPT ![disk_done] = 0]
      /\ intr' = old[main]
      /\ UNCHANGED <<panicked, queues, locks, waiters, old>>
  BY <1>1, <1>2, Basics DEF DownTake, sema_take, raised
<1>4. l \in Labels
  BY DEF Labels
<1>5. at' = l /\ pc' \in [User -> Labels]
  BY <1>1, <1>4, Goto DEF DownTake
<1>6. [Next]_vars
  <2>1. CASE old[main]
    BY <1>1, <1>3, <2>1, Basics DEF Next, intr_enable, queues
  <2>2. CASE ~old[main]
    BY <1>1, <1>2, <1>3, <2>2, Basics DEF vars, queues
  <2> QED BY <2>1, <2>2
<1>7. /\ request' = request /\ ~raised' /\ value' \in [Sema -> {0, 1}]
      /\ unseen' \in BOOLEAN /\ (~unseen' => InStep)
  BY <1>1, <1>2, <1>3, Basics, DownTypes DEF raised
<1>8. at' # "down" /\ (Masked' => ~intr')
  BY <1>1, <1>3, <1>5, <1>7 DEF IdeInv, WaitSound, Masked
<1>9. IInv' /\ WaitSound'
  BY <1>1, <1>3, <1>6, <1>8, UserKeeps DEF queues
<1>10. IdeTypes'
  BY <1>3, <1>5, <1>7 DEF IdeInv, IdeTypes, DownKeeps
<1>11. RequestSound' /\ MovedSound'
  BY <1>1, <1>3, <1>5, <1>7 DEF IdeInv, RequestSound, MovedSound
<1>12. ~expecting
  BY <1>3 DEF IdeInv, Handshake
<1>13. Handshake' /\ (~unseen' => InStep')
  BY <1>1, <1>3, <1>5, <1>7, <1>12
  DEF IdeInv, Handshake, Settled, InStep, DeviceInStep, OwnInterrupt, OwnData, DownKeeps
<1> QED BY <1>6, <1>9, <1>10, <1>11, <1>13, Basics DEF IdeInv, OneUser, DownKeeps

LEMMA WaitIntrStep == ASSUME IdeInv, wait_intr PROVE IdeInv' /\ [Next]_vars
<1>1. DownKeeps /\ (DownCli \/ DownWait \/ DownTake)
  <2>1. DownKeeps
    BY DEF wait_intr, DownKeeps
  <2>2. \A l : At(l) => cur = main
    BY AtMain
  <2> QED BY <2>1, <2>2 DEF wait_intr, DownCli, DownWait, DownTake, request
<1> QED BY <1>1, DownCliStep, DownWaitStep, DownTakeStep

-----------------------------------------------------------------------------
LEMMA PollStep == ASSUME IdeInv, busy_wait PROVE IdeInv' /\ [Next]_vars
<1>1. cur = main /\ at = "poll"
  BY AtMain DEF busy_wait
<1>2. UNCHANGED <<vars, syncVars, op, devVars, expecting, iofail>>
  BY DEF busy_wait
<1>3. PICK l \in {"fail", "sleep", "xfer", "err", "poll"} :
        goto(l) /\ (l = "xfer" => dev.st = "drq")
  <2>1. dev.st \in {"idle", "busy", "drq", "reading", "writing", "err"}
    BY DEF IdeInv, IdeTypes, DevType
  <2>2. CASE polls'[cur] = 0
    BY <2>2 DEF busy_wait
  <2>3. CASE polls'[cur] # 0
    BY <2>1, <2>3 DEF busy_wait, BSY
  <2> QED BY <2>2, <2>3
<1>4. at' = l /\ pc' \in [User -> Labels] /\ request' = request
  BY <1>1, <1>2, <1>3, Goto DEF Labels, request
<1>5. [Next]_vars /\ raised' = raised /\ IInv' /\ WaitSound'
  BY <1>1, <1>2, <1>3, <1>4, UserQuiet DEF Masked
<1>6. IdeTypes'
  BY <1>2, <1>4 DEF IdeInv, IdeTypes, syncVars, devVars
<1>7. secs(request) > 0 /\ request.moved = 0
  BY <1>1, RequestTypes DEF IdeInv, MovedSound
<1>8. RequestSound' /\ MovedSound'
  BY <1>1, <1>2, <1>3, <1>4, <1>7 DEF IdeInv, RequestSound, MovedSound, syncVars
<1>9. Handshake' /\ (~unseen' => InStep')
  BY <1>1, <1>2, <1>3, <1>4, <1>5, <1>7
  DEF IdeInv, Handshake, Settled, InStep, DeviceInStep, OwnInterrupt, OwnData, devVars
<1> QED BY <1>2, <1>5, <1>6, <1>8, <1>9, Basics DEF IdeInv, OneUser

LEMMA SleepStep == ASSUME IdeInv, mtime_sleep PROVE IdeInv' /\ [Next]_vars
<1>1. cur = main /\ at = "sleep" /\ UNCHANGED <<syncVars, op, devVars, expecting, iofail>>
  BY AtMain DEF mtime_sleep
<1>2. request' = request /\ raised' = raised
  BY <1>1 DEF syncVars, request, raised
<1>3. CASE goto("poll") /\ UNCHANGED vars
  <2>1. at' = "poll" /\ pc' \in [User -> Labels]
    BY <1>1, <1>3, Goto DEF Labels
  <2>2. [Next]_vars /\ IInv' /\ WaitSound'
    BY <1>1, <1>2, <1>3, <2>1, UserQuiet DEF Masked
  <2>3. IdeTypes'
    BY <1>1, <2>1 DEF IdeInv, IdeTypes, syncVars, devVars
  <2>4. RequestSound' /\ MovedSound'
    BY <1>1, <1>2, <2>1 DEF IdeInv, RequestSound, MovedSound, syncVars
  <2>5. Handshake' /\ (~unseen' => InStep')
    BY <1>1, <1>2, <2>1
    DEF IdeInv, Handshake, Settled, InStep, DeviceInStep, OwnInterrupt, OwnData, devVars
  <2> QED BY <1>1, <2>2, <2>3, <2>4, <2>5, Basics DEF IdeInv, OneUser
<1>4. CASE thread_yield /\ UNCHANGED <<idlepc, pc>>
  <2> DEFINE st == [status EXCEPT ![cur] = "READY"]
             q == Append(ready, cur)
  <2>1. Next
    BY <1>1, <1>4, Basics DEF Next, yield
  <2>2. IInv'
    BY <2>1, KeepsIInv
  <2>3. schedule(st, q, intr) /\ TypeOK /\ ~panicked' /\ Consistent(st, q)
    BY <1>4, <2>2, YieldConsistent DEF thread_yield, IdeInv, IInv
  <2>4. st[main] = "READY"
    BY <1>1, Basics
  <2> HIDE DEF st, q
  <2>5. /\ status'[main] # "BLOCKED"
        /\ saved' = [saved EXCEPT ![main] = intr]
        /\ intr' = (IF cur' = main THEN intr ELSE saved[cur'])
    BY <1>1, <2>3, <2>4, Basics, Switched
  <2>6. at' = "sleep" /\ status[main] # "BLOCKED"
    BY <1>1, <1>4, Basics DEF at
  <2>7. Masked' => ~intr
    BY <1>1, <1>2, <2>6 DEF IdeInv, WaitSound, Masked
  <2>8. Masked' => IF cur' = main THEN ~intr' ELSE ~saved'[main]
    BY <2>5, <2>7, Basics
  <2>9. WaitSound'
    BY <1>1, <2>5, <2>6, <2>8 DEF IdeInv, WaitSound, syncVars
  <2>10. IdeTypes'
    BY <1>1, <1>4 DEF IdeInv, IdeTypes, syncVars, devVars
  <2>11. RequestSound' /\ MovedSound'
    BY <1>1, <1>2, <2>6 DEF IdeInv, RequestSound, MovedSound, syncVars
  <2>12. Handshake' /\ (~unseen' => InStep')
    BY <1>1, <1>2, <2>6
    DEF IdeInv, Handshake, Settled, InStep, DeviceInStep, OwnInterrupt, OwnData, devVars
  <2> QED BY <1>1, <2>1, <2>2, <2>9, <2>10, <2>11, <2>12, Basics DEF IdeInv, OneUser
<1> QED BY <1>3, <1>4 DEF mtime_sleep

\* What moving one sector does to the device.
LEMMA SectorMoves ==
  ASSUME IdeInv, cur = main, move_sector
  PROVE  /\ dev' \in DevType /\ dev'.cmd = dev.cmd /\ dev'.i = dev.i
         /\ \/ /\ dev.st = "drq" /\ dev.cmd = "write"
               /\ dev'.st = "writing" /\ dev'.left = dev.left /\ dev'.data = request.val
            \/ /\ dev.st = "drq" /\ dev.cmd # "write" /\ dev.left > 1
               /\ dev'.st = "reading" /\ dev'.left = dev.left - 1 /\ dev'.data = dev.data
            \/ /\ dev.st = "drq" /\ dev.cmd # "write" /\ dev.left = 1
               /\ dev'.st = "idle" /\ dev'.data = dev.data
            \/ dev.st # "drq" /\ dev' = dev
<1>1. /\ dev \in DevType /\ dev.left \in 1..MaxSectors /\ MaxSectors \in Nat
      /\ request.val \in Data
  BY RequestTypes DEF DevType, OpType
<1>2. CASE /\ dev.st = "drq" /\ dev.cmd = "write"
           /\ dev' = [dev EXCEPT !.st = "writing", !.data = request.val]
  BY <1>1, <1>2 DEF DevType
<1>3. CASE /\ dev.st = "drq" /\ dev.cmd # "write" /\ dev.left > 1
           /\ dev' = [dev EXCEPT !.st = "reading", !.left = @ - 1]
  <2>1. dev.left - 1 \in 1..MaxSectors
    BY <1>1, <1>3
  <2> QED BY <1>1, <1>3, <2>1 DEF DevType
<1>4. CASE /\ dev.st = "drq" /\ dev.cmd # "write" /\ dev.left = 1
           /\ dev' = [dev EXCEPT !.st = "idle"]
  BY <1>1, <1>4 DEF DevType
<1>5. CASE dev.st # "drq" /\ dev' = dev
  BY <1>1, <1>5
<1> QED BY <1>2, <1>3, <1>4, <1>5 DEF move_sector, request

LEMMA TransferStep == ASSUME IdeInv, transfer PROVE IdeInv' /\ [Next]_vars
<1> DEFINE n == secs(request)
           l == IF request.moved + 1 # n THEN "xfer"
                ELSE IF request.kind = "read" THEN "next" ELSE "down0"
<1>1. /\ cur = main /\ at = "xfer" /\ request.kind # "identify"
      /\ move_sector /\ unseen' = (unseen \/ Behind)
      /\ op' = [op EXCEPT ![main].moved = @ + 1]
      /\ UNCHANGED <<vars, syncVars, media, irq, expecting, iofail>>
  BY AtMain DEF transfer, request
<1>2. /\ n \in 1..MaxSectors /\ MaxSectors \in Nat /\ request.moved \in Nat
      /\ request.moved < n /\ request.kind \in {"read", "write"} /\ request \in OpType
  BY <1>1, RequestTypes DEF IdeInv, RequestSound, MovedSound, OpType
<1>3. /\ op' \in [User -> OpType] /\ request'.moved = request.moved + 1
      /\ request'.kind = request.kind /\ request'.i = request.i /\ request'.n = request.n
      /\ request'.val = request.val /\ secs(request') = n
  BY <1>1, <1>2, Basics DEF IdeInv, IdeTypes, OpType, request, secs
<1>4. at' = l /\ pc' \in [User -> Labels]
  <2>1. op'[cur].moved = request.moved + 1 /\ secs(op[cur]) = n
    BY <1>1, <1>3 DEF request
  <2>2. CASE request.moved + 1 = n
    BY <1>1, <2>1, <2>2, Goto DEF transfer, moved_all, Labels, request
  <2>3. CASE request.moved + 1 # n
    BY <1>1, <2>1, <2>3 DEF transfer, IdeInv, IdeTypes, at
  <2> QED BY <2>2, <2>3
<1>5. l \in {"xfer", "next", "down0"} /\ unseen' \in BOOLEAN
  BY <1>1 DEF IdeInv, IdeTypes
<1>6. [Next]_vars /\ raised' = raised /\ IInv' /\ WaitSound'
  BY <1>1, <1>3, <1>4, <1>5, UserQuiet DEF Masked
<1>7. IdeTypes'
  BY <1>1, <1>3, <1>4, <1>5, SectorMoves DEF IdeInv, IdeTypes, syncVars
<1>8. RequestSound'
  BY <1>1, <1>2, <1>3, <1>4, <1>5 DEF IdeInv, RequestSound, syncVars
<1>9. MovedSound'
  BY <1>2, <1>3, <1>4 DEF MovedSound
<1>10. Handshake'
  BY <1>1, <1>2, <1>3, <1>4, <1>5, <1>6 DEF IdeInv, Handshake, Settled
<1>11. ASSUME ~unseen' PROVE InStep'
  <2>1. InStep /\ ~(n > 1 /\ request.moved > 0 /\ dev.st \in {"reading", "writing"})
    BY <1>1, <1>11 DEF IdeInv, IdeTypes, Behind, request
  <2>2. dev.st = "drq"
    BY <1>1, <1>2, <2>1 DEF InStep, DeviceInStep
  <2>3. dev.cmd = request.kind /\ dev.i = request.i /\ dev.left = n - request.moved
    BY <2>1, <2>2 DEF InStep, OwnData
  <2>4. CASE request.kind = "write"
    <3>1. /\ dev'.st = "writing" /\ dev'.left = dev.left /\ dev'.data = request.val
          /\ dev'.cmd = dev.cmd /\ dev'.i = dev.i /\ l \in {"xfer", "down0"}
      BY <1>1, <2>2, <2>3, <2>4, SectorMoves
    <3>2. DeviceInStep'
      BY <1>2, <1>3, <1>4, <2>4, <3>1 DEF DeviceInStep
    <3>3. l = "down0" /\ n = 1 => request.moved = 0
      BY <1>2
    <3>4. OwnInterrupt'
      BY <1>1, <1>2, <1>3, <1>4, <1>6, <2>1, <2>4, <3>1, <3>3 DEF InStep, OwnInterrupt
    <3>5. dev'.left = n - (request.moved + 1) + 1
      BY <1>2, <2>3, <3>1
    <3>6. OwnData'
      BY <1>3, <2>3, <2>4, <3>1, <3>5 DEF OwnData
    <3> QED BY <3>2, <3>4, <3>6 DEF InStep
  <2>5. CASE request.kind = "read" /\ request.moved + 1 = n
    <3>1. dev.left = 1
      BY <1>2, <2>3, <2>5
    <3>2. dev'.st = "idle" /\ at' = "next"
      BY <1>1, <1>4, <2>2, <2>3, <2>5, <3>1, SectorMoves
    <3> QED BY <1>3, <2>5, <3>2 DEF InStep, DeviceInStep, OwnInterrupt, OwnData
  <2>6. CASE request.kind = "read" /\ request.moved + 1 # n
    <3>1. dev.left > 1
      BY <1>2, <2>3, <2>6
    <3>2. /\ dev'.st = "reading" /\ dev'.left = dev.left - 1 /\ dev'.data = dev.data
          /\ dev'.cmd = dev.cmd /\ dev'.i = dev.i /\ at' = "xfer"
      BY <1>1, <1>4, <2>2, <2>3, <2>6, <3>1, SectorMoves
    <3>3. dev'.left = n - (request.moved + 1) /\ dev.data = media[dev.i]
      BY <1>2, <2>1, <2>2, <2>3, <2>6, <3>2 DEF InStep, OwnData
    <3>4. OwnData'
      BY <1>1, <1>3, <2>3, <2>6, <3>2, <3>3 DEF OwnData
    <3>5. DeviceInStep' /\ OwnInterrupt'
      BY <1>2, <1>3, <2>6, <3>2 DEF DeviceInStep, OwnInterrupt
    <3> QED BY <3>4, <3>5 DEF InStep
  <2> QED BY <1>2, <2>4, <2>5, <2>6
<1> QED BY <1>1, <1>6, <1>7, <1>8, <1>9, <1>10, <1>11, Basics DEF IdeInv, OneUser

LEMMA NextChunkOp ==
  ASSUME NEW r \in OpType, NEW q, q = [[r EXCEPT !.i = @ + 1] EXCEPT !.moved = 0]
  PROVE  /\ q \in OpType /\ q.moved = 0 /\ q.kind = r.kind /\ q.n = r.n
         /\ q.val = r.val /\ q.i = r.i + 1
<1>1. q = [kind |-> r.kind, i |-> r.i + 1, n |-> r.n, last |-> r.last, moved |-> 0, val |-> r.val]
  BY DEF OpType
<1>2. r.i + 1 \in Nat
  BY DEF OpType
<1>3. q \in OpType
  BY <1>1, <1>2 DEF OpType
<1> QED BY <1>1, <1>3

\* The next chunk of the request.
LEMMA AdvanceStep ==
  ASSUME IdeInv, cur = main, at = "next", request.i < request.n,
         op' = [op EXCEPT ![main].i = @ + 1, ![main].moved = 0], goto("cmd"),
         UNCHANGED <<vars, syncVars, devVars, expecting, iofail>>
  PROVE  IdeInv' /\ [Next]_vars
<1>1. /\ request \in OpType /\ request.kind \in {"read", "write"}
      /\ request.n \in 1..MaxChunks /\ request.i \in 1..request.n
  BY Basics DEF IdeInv, IdeTypes, RequestSound, request, OpType
<1>2. at' = "cmd" /\ pc' \in [User -> Labels]
  BY Goto DEF Labels
<1>3. /\ op' \in [User -> OpType] /\ request'.moved = 0
      /\ request'.kind = request.kind /\ request'.n = request.n
      /\ request'.val = request.val /\ request'.i = request.i + 1
  <2> DEFINE r == request
             q == op'[main]
  <2>1. q = [[r EXCEPT !.i = @ + 1] EXCEPT !.moved = 0]
    BY Basics DEF IdeInv, IdeTypes, request
  <2>2. r \in OpType
    BY <1>1
  <2> HIDE DEF r, q
  <2>3. /\ q \in OpType /\ q.moved = 0 /\ q.kind = r.kind /\ q.n = r.n
        /\ q.val = r.val /\ q.i = r.i + 1
    BY <2>1, <2>2, NextChunkOp
  <2>4. op' \in [User -> OpType]
    BY <2>3, Basics DEF IdeInv, IdeTypes, q
  <2> QED BY <2>3, <2>4 DEF request, q, r
<1>4. [Next]_vars /\ raised' = raised /\ IInv' /\ WaitSound'
  BY <1>2, <1>3, UserQuiet DEF Masked
<1>5. IdeTypes'
  BY <1>2, <1>3 DEF IdeInv, IdeTypes, syncVars, devVars
<1>6. RequestSound' /\ MovedSound'
  <2>1. request'.n \in 1..MaxChunks /\ request'.i \in 1..request'.n
    BY <1>1, <1>3, IdeAssumption
  <2> QED BY <1>1, <1>2, <1>3, <2>1 DEF IdeInv, RequestSound, MovedSound, syncVars
<1>7. Handshake' /\ (~unseen' => InStep')
  BY <1>2, <1>3, <1>4
  DEF IdeInv, Handshake, Settled, InStep, DeviceInStep, OwnInterrupt, OwnData, devVars
<1> QED BY <1>4, <1>5, <1>6, <1>7, Basics DEF IdeInv, OneUser

\* The last chunk is done: lock_release(), which sets the flag.
LEMMA ReturnStep ==
  ASSUME IdeInv, cur = main, at = "next", lock_release(chan),
         op' = [op EXCEPT ![main] = NoOp], goto("out"),
         UNCHANGED <<devVars, expecting, iofail>>
  PROVE  IdeInv' /\ [Next]_vars
<1>1. request.kind \in {"read", "write"}
  BY Basics DEF IdeInv, IdeTypes, RequestSound, request, OpType
<1>2. locks[chan].holder = main /\ locks[chan].number = 1 /\ locks[chan].locked
  BY <1>1, Basics DEF IdeInv, RequestSound
<1>3. /\ locks' = [locks EXCEPT ![chan] = Free] /\ intr' = TRUE
      /\ UNCHANGED <<panicked, queues, value, waiters, old>>
  BY <1>2 DEF lock_release
<1>4. at' = "out" /\ pc' \in [User -> Labels]
  BY Goto DEF Labels
<1>5. op' \in [User -> OpType] /\ request'.kind = "none"
  BY Basics, IdeAssumption DEF IdeInv, IdeTypes, OpType, request, NoOp
<1>6. [Next]_vars
  <2>1. CASE intr
    BY <1>3, <2>1, Basics DEF vars, queues
  <2>2. CASE ~intr
    BY <1>3, <2>2, Basics DEF Next, intr_enable, queues
  <2> QED BY <2>1, <2>2, Basics
<1>7. IInv' /\ WaitSound'
  BY <1>3, <1>4, <1>5, <1>6, UserKeeps DEF queues, Masked
<1>8. IdeTypes'
  BY <1>3, <1>4, <1>5 DEF IdeInv, IdeTypes, devVars
<1>9. RequestSound' /\ MovedSound'
  BY <1>1, <1>3, <1>4, <1>5, Basics DEF IdeInv, RequestSound, MovedSound
<1>10. raised' = raised
  BY <1>3 DEF raised
<1>11. Handshake' /\ (~unseen' => InStep')
  BY <1>3, <1>4, <1>5, <1>10
  DEF IdeInv, Handshake, Settled, InStep, DeviceInStep, OwnInterrupt, OwnData, devVars
<1> QED BY <1>6, <1>7, <1>8, <1>9, <1>11, Basics DEF IdeInv, OneUser

LEMMA NextChunkStep == ASSUME IdeInv, next_chunk PROVE IdeInv' /\ [Next]_vars
<1>1. cur = main /\ at = "next" /\ UNCHANGED <<devVars, expecting, iofail>>
  BY AtMain DEF next_chunk
<1>2. \/ /\ request.i < request.n /\ op' = [op EXCEPT ![main].i = @ + 1, ![main].moved = 0]
         /\ goto("cmd") /\ UNCHANGED <<vars, syncVars>>
      \/ /\ lock_release(chan) /\ op' = [op EXCEPT ![main] = NoOp] /\ goto("out")
  BY <1>1 DEF next_chunk, request
<1> QED BY <1>1, <1>2, AdvanceStep, ReturnStep

LEMMA ErrorStep == ASSUME IdeInv, check_ide_error PROVE IdeInv' /\ [Next]_vars
<1>1. /\ cur = main /\ at = "err" /\ intr' = TRUE /\ goto("fail")
      /\ UNCHANGED <<queues, panicked, syncVars, op, devVars, expecting, iofail>>
  BY AtMain DEF check_ide_error
<1>2. at' = "fail" /\ pc' \in [User -> Labels]
  BY <1>1, Goto DEF Labels
<1>3. [Next]_vars
  <2>1. CASE intr
    BY <1>1, <2>1, Basics DEF vars, queues
  <2>2. CASE ~intr
    BY <1>1, <2>2, Basics DEF Next, intr_enable, queues
  <2> QED BY <2>1, <2>2, Basics
<1>4. IInv' /\ WaitSound'
  BY <1>1, <1>2, <1>3, UserKeeps DEF queues, syncVars, Masked
<1>5. request' = request /\ raised' = raised
  BY <1>1 DEF syncVars, request, raised
<1>6. IdeTypes'
  BY <1>1, <1>2 DEF IdeInv, IdeTypes, syncVars, devVars
<1>7. RequestSound' /\ MovedSound'
  BY <1>1, <1>2, <1>5 DEF IdeInv, RequestSound, MovedSound, syncVars
<1>8. Handshake' /\ (~unseen' => InStep')
  BY <1>1, <1>2, <1>5
  DEF IdeInv, Handshake, Settled, InStep, DeviceInStep, OwnInterrupt, OwnData, devVars
<1> QED BY <1>1, <1>3, <1>4, <1>6, <1>7, <1>8, Basics DEF IdeInv, OneUser

LEMMA GiveUpStep == ASSUME IdeInv, give_up PROVE GaveUp'
BY DEF give_up, sync_panic, GaveUp

-----------------------------------------------------------------------------
(* The device.                                                              *)

LEMMA ReadyStep == ASSUME IdeInv, device_ready PROVE IdeInv' /\ [Next]_vars
<1>1. /\ dev.st = "busy"
      /\ UNCHANGED <<vars, syncVars, userVars, media, unseen, expecting, iofail>>
  BY DEF device_ready
<1>2. /\ dev \in DevType /\ media \in [1..MaxChunks -> Data] /\ irq \in BOOLEAN
      /\ dev.cmd \in {"read", "write"} => dev.i \in 1..MaxChunks
  BY DEF IdeInv, IdeTypes
<1>3. /\ dev' \in DevType /\ dev'.cmd = dev.cmd /\ dev'.i = dev.i /\ dev'.left = dev.left
      /\ \/ /\ dev'.st = "drq" /\ (dev.cmd = "read" => dev'.data = media[dev.i])
            /\ irq' = (irq \/ dev.cmd # "write")
         \/ dev'.st = "err" /\ irq' = TRUE
  BY <1>1, <1>2 DEF device_ready, DevType
<1>4. at' = at /\ request' = request /\ raised' = raised /\ irq' \in BOOLEAN
  BY <1>1, <1>2, <1>3 DEF syncVars, userVars, at, request, raised
<1>5. [Next]_vars /\ IInv'
  BY <1>1, KeepsIInv
<1>6. IdeTypes' /\ RequestSound' /\ MovedSound' /\ WaitSound'
  BY <1>1, <1>2, <1>3, <1>4
  DEF IdeInv, IdeTypes, RequestSound, MovedSound, WaitSound, Masked, vars, syncVars, userVars
<1>7. Handshake'
  BY <1>1, <1>4 DEF IdeInv, Handshake, Settled
<1>8. ASSUME ~unseen' PROVE InStep'
  <2>1. InStep /\ dev.cmd = request.kind
    BY <1>1, <1>8 DEF IdeInv, InStep, OwnData
  <2>2. DeviceInStep' /\ OwnInterrupt'
    BY <1>1, <1>3, <1>4, <2>1 DEF InStep, DeviceInStep, OwnInterrupt
  <2>3. OwnData'
    BY <1>1, <1>3, <1>4, <2>1 DEF InStep, OwnData
  <2> QED BY <2>2, <2>3 DEF InStep
<1> QED BY <1>1, <1>5, <1>6, <1>7, <1>8, Basics DEF IdeInv, OneUser

LEMMA NextSectorStep == ASSUME IdeInv, device_next PROVE IdeInv' /\ [Next]_vars
<1> DEFINE stored == /\ dev.st = "writing" /\ dev.left = 1 /\ unseen' = unseen
                     /\ dev' = [dev EXCEPT !.st = "idle"]
           writes == /\ dev.st = "writing" /\ dev.left > 1 /\ unseen' = unseen
                     /\ dev' = [dev EXCEPT !.st = "drq", !.left = @ - 1]
                     /\ media' = media
           reads  == /\ dev.st = "reading" /\ unseen' = unseen
                     /\ dev' = [dev EXCEPT !.st = "drq"] /\ media' = media
<1>1. /\ dev.st \in {"reading", "writing"} /\ irq' = TRUE
      /\ UNCHANGED <<vars, syncVars, userVars, expecting, iofail>>
      /\ stored \/ writes \/ reads \/ unseen'
  BY DEF device_next
<1>2. /\ dev \in DevType /\ dev.left \in 1..MaxSectors /\ MaxSectors \in Nat
      /\ secs(request) \in 1..MaxSectors /\ request.moved \in Nat
  BY RequestTypes DEF DevType, OpType
<1>3. dev' \in DevType /\ dev'.cmd = dev.cmd /\ dev'.i = dev.i /\ unseen' \in BOOLEAN
  <2>1. dev.left > 1 => dev.left - 1 \in 1..MaxSectors
    BY <1>2
  <2> QED BY <1>2, <2>1 DEF device_next, DevType, IdeInv, IdeTypes
<1>4. media' \in [1..MaxChunks -> Data]
  BY DEF device_next, IdeInv, IdeTypes
<1>5. at' = at /\ request' = request /\ raised' = raised
  BY <1>1 DEF syncVars, userVars, at, request, raised
<1>6. [Next]_vars /\ IInv'
  BY <1>1, KeepsIInv
<1>7. IdeTypes' /\ RequestSound' /\ MovedSound' /\ WaitSound'
  BY <1>1, <1>3, <1>4, <1>5
  DEF IdeInv, IdeTypes, RequestSound, MovedSound, WaitSound, Masked, vars, syncVars, userVars
<1>8. Handshake'
  BY <1>1, <1>5 DEF IdeInv, Handshake, Settled
<1>9. ASSUME ~unseen' PROVE InStep'
  <2>1. InStep /\ (stored \/ writes \/ reads)
    BY <1>1, <1>9 DEF IdeInv
  <2>2. /\ dev.cmd = request.kind /\ dev.i = request.i
        /\ dev.st = "writing" <=> request.kind = "write"
    BY <1>1, <2>1 DEF InStep, OwnData
  <2>3. at \in {"xfer", "down0", "down"} /\ (request.kind # "write" => at = "xfer")
    BY <1>1, <2>1, <2>2, RequestTypes DEF InStep, DeviceInStep, Labels
  <2>4. at = "xfer" => request.moved < secs(request) /\ request.moved > 0
    BY <1>1, <1>2, <2>1 DEF IdeInv, MovedSound, InStep, DeviceInStep
  <2>5. CASE stored
    <3>1. dev'.st = "idle" /\ dev.st = "writing"
      BY <1>2, <2>5 DEF DevType
    <3>2. at # "xfer"
      BY <1>2, <2>1, <2>4, <2>5 DEF InStep, OwnData
    <3>3. DeviceInStep' /\ OwnData'
      BY <1>5, <2>2, <2>3, <3>1, <3>2 DEF DeviceInStep, OwnData
    <3>4. OwnInterrupt'
      BY <1>5, <2>1, <2>3, <3>1, <3>2 DEF InStep, OwnInterrupt
    <3> QED BY <3>3, <3>4 DEF InStep
  <2>6. CASE writes
    <3>1. /\ dev'.st = "drq" /\ dev.st = "writing" /\ dev'.left = dev.left - 1
          /\ request.kind = "write"
      BY <1>2, <2>2, <2>6 DEF DevType
    <3>2. dev.left = secs(request) - request.moved + 1
      BY <2>1, <3>1 DEF InStep, OwnData
    <3>3. at = "xfer"
      BY <1>2, <2>3, <2>6, <3>1, <3>2 DEF IdeInv, MovedSound
    <3>4. dev'.left = secs(request) - request.moved
      BY <1>2, <3>1, <3>2
    <3>5. OwnData'
      BY <1>3, <1>5, <2>2, <3>1, <3>4 DEF OwnData
    <3>6. DeviceInStep' /\ OwnInterrupt'
      BY <1>5, <2>1, <2>4, <3>1, <3>3 DEF InStep, DeviceInStep, OwnInterrupt
    <3> QED BY <3>5, <3>6 DEF InStep
  <2>7. CASE reads
    <3>1. /\ dev'.st = "drq" /\ dev.st = "reading" /\ dev'.left = dev.left
          /\ dev'.data = dev.data /\ request.kind # "write" /\ at = "xfer"
      BY <1>2, <2>2, <2>3, <2>7 DEF DevType
    <3>2. OwnData'
      BY <1>3, <1>5, <2>1, <2>2, <2>7, <3>1 DEF InStep, OwnData
    <3>3. DeviceInStep' /\ OwnInterrupt'
      BY <1>5, <2>4, <3>1 DEF DeviceInStep, OwnInterrupt
    <3> QED BY <3>2, <3>3 DEF InStep
  <2> QED BY <2>1, <2>5, <2>6, <2>7
<1> QED BY <1>1, <1>6, <1>7, <1>8, <1>9, Basics DEF IdeInv, OneUser

-----------------------------------------------------------------------------
(***************************************************************************)
(* Interrupts, and the steps of other threads: what they may do to main is *)
(* to preempt it or, if it is not in sema_down(), to set the flag.         *)
(***************************************************************************)
LEMMA QuietStep ==
  ASSUME IdeInv, Next,
         UNCHANGED <<pc, op, syncVars, dev, media, unseen, expecting, iofail>>,
         irq' \in {irq, FALSE},
         status'[main] = "BLOCKED" <=> status[main] = "BLOCKED",
         Masked => IF cur' = main THEN ~intr' ELSE ~saved'[main],
         at \in {"xfer", "down0"} /\ cur = main /\ Masked => cur' = main
  PROVE  IdeInv' /\ [Next]_vars
<1>1. at' = at /\ request' = request /\ raised' = raised /\ (Masked' <=> Masked)
  BY DEF syncVars, at, request, raised, Masked
<1>2. IInv'
  BY KeepsIInv
<1>3. WaitSound'
  BY <1>1 DEF IdeInv, WaitSound, Masked, syncVars
<1>4. IdeTypes' /\ RequestSound' /\ MovedSound'
  BY <1>1 DEF IdeInv, IdeTypes, RequestSound, MovedSound, syncVars
<1>5. Handshake'
  BY <1>1 DEF IdeInv, Handshake, Settled
<1>6. ~unseen' => InStep'
  <2>1. irq' => irq
    BY DEF IdeInv, IdeTypes
  <2> QED BY <1>1, <2>1 DEF IdeInv, InStep, DeviceInStep, OwnInterrupt, OwnData
<1> QED BY <1>2, <1>3, <1>4, <1>5, <1>6, Basics DEF IdeInv, OneUser

LEMMA EnableStep == ASSUME IdeInv, enable PROVE IdeInv' /\ [Next]_vars
<1>1. /\ Next /\ intr_enable
      /\ UNCHANGED <<pc, op, syncVars, dev, media, irq, unseen, expecting, iofail>>
  BY Basics DEF enable, Next, userVars, devVars
<1>2. UNCHANGED <<status, cur, saved>>
  BY <1>1 DEF intr_enable
<1>3. Masked => cur # main /\ ~saved[main]
  BY Basics DEF enable, at, IdeInv, WaitSound, Masked, RequestSound
<1> QED BY <1>1, <1>2, <1>3, QuietStep

LEMMA BootStep == ASSUME IdeInv, boot PROVE IdeInv' /\ [Next]_vars
<1>1. /\ Next /\ at = "out" /\ ~Masked
      /\ UNCHANGED <<pc, op, syncVars, dev, media, irq, unseen, expecting, iofail>>
  BY Basics DEF boot, Next, userVars, devVars, at, Masked, IdeInv, RequestSound
<1>2. PICK t \in Thread : thread_start(t)
  BY DEF boot, start
<1>3. t # main /\ status[main] = "RUNNING"
  BY <1>2, Basics DEF thread_start
<1>4. ~panicked'
  BY <1>1, KeepsIInv DEF IInv
<1>5. status' = [status EXCEPT ![t] = "READY"]
  BY <1>2, <1>4 DEF thread_start, panic
<1>6. status'[main] = "RUNNING" /\ "RUNNING" # "BLOCKED"
  BY <1>3, <1>5, Basics
<1> QED BY <1>1, <1>3, <1>6, QuietStep

\* A call of schedule() that does not come from main leaves its flag off.
LEMMA PreemptedKeeps ==
  ASSUME IdeInv, IInv', NEW st, NEW restore \in BOOLEAN,
         schedule(st, ready, restore), Consistent(st, ready),
         \A t \in Thread \ {idle} : st[t] = "BLOCKED" <=> status[t] = "BLOCKED",
         Masked => cur # main
  PROVE  /\ status'[main] = "BLOCKED" <=> status[main] = "BLOCKED"
         /\ Masked => IF cur' = main THEN ~intr' ELSE ~saved'[main]
<1>1. /\ saved' = [saved EXCEPT ![cur] = restore]
      /\ intr' = IF cur' = cur THEN restore ELSE saved[cur']
      /\ \A t \in Thread \ {idle} : status'[t] = "BLOCKED" <=> st[t] = "BLOCKED"
  <2>1. TypeOK /\ ~panicked'
    BY DEF IdeInv, IInv
  <2> QED BY <2>1, Switched
<1>2. Masked => ~saved[main]
  BY DEF IdeInv, WaitSound
<1> QED BY <1>1, <1>2, Basics

LEMMA TimerStep == ASSUME IdeInv, timer PROVE IdeInv' /\ [Next]_vars
<1>1. /\ Next /\ timer_intr_handler /\ intr
      /\ UNCHANGED <<pc, op, syncVars, dev, media, irq, unseen, expecting, iofail>>
  BY Basics DEF timer, Next, devVars, timer_intr_handler
<1>2. Masked => cur # main /\ ~saved[main]
  BY <1>1 DEF IdeInv, WaitSound
<1>3. IInv' /\ Consistent(status, ready)
  BY <1>1, KeepsIInv DEF IdeInv, IInv
<1>4. CASE slice_over
  <2>1. schedule(status, ready, TRUE)
    BY <1>1, <1>4 DEF timer_intr_handler
  <2> QED BY <1>1, <1>2, <1>3, <2>1, PreemptedKeeps, QuietStep
<1>5. CASE ~slice_over
  <2>1. UNCHANGED <<status, cur, saved>>
    BY <1>1, <1>5 DEF timer_intr_handler
  <2> QED BY <1>1, <1>2, <2>1, QuietStep
<1> QED BY <1>4, <1>5

LEMMA IdlerStep == ASSUME IdeInv, idler PROVE IdeInv' /\ [Next]_vars
<1>1. /\ Next /\ cur = idle /\ (idle_block \/ idle_hlt)
      /\ UNCHANGED <<pc, op, syncVars, dev, media, irq, unseen, expecting, iofail>>
  BY Basics DEF idler, Next, userVars, devVars, idle_block, idle_hlt
<1>2. Masked => cur # main /\ ~saved[main]
  BY <1>1, Basics DEF IdeInv, WaitSound
<1>3. IInv'
  BY <1>1, KeepsIInv
<1>4. CASE idle_block
  <2> DEFINE st == [status EXCEPT ![cur] = "BLOCKED"]
  <2>1. schedule(st, ready, intr)
    BY <1>4 DEF idle_block, thread_block
  <2>2. Consistent(st, ready)
    BY StopConsistent DEF Stopped, IdeInv
  <2>3. \A t \in Thread \ {idle} : st[t] = status[t]
    BY <1>1, Basics
  <2> HIDE DEF st
  <2> QED BY <1>1, <1>2, <1>3, <2>1, <2>2, <2>3, Basics, PreemptedKeeps, QuietStep
<1>5. CASE idle_hlt
  BY <1>1, <1>2, <1>5, QuietStep DEF idle_hlt
<1> QED BY <1>1, <1>4, <1>5

(***************************************************************************)
(* The interrupt of the channel: the semaphore is raised for the command it*)
(* was expected for, and main, if it waits, is made ready.                 *)
(***************************************************************************)
LEMMA RaiseStep ==
  ASSUME IdeInv, hd_intr_handler, expecting PROVE IdeInv' /\ [Next]_vars
<1>1. /\ intr /\ irq /\ irq' = FALSE /\ expecting' = FALSE /\ sema_up(disk_done)
      /\ idlepc' = (IF cur = idle /\ idlepc = "hlt" THEN "loop" ELSE idlepc)
      /\ UNCHANGED <<userVars, dev, media, unseen, iofail>>
  BY DEF hd_intr_handler
<1>2. ~raised /\ value \in [Sema -> {0, 1}] /\ value[disk_done] = 0
  BY Basics DEF IdeInv, IdeTypes, Handshake, raised
<1>3. /\ value' = [value EXCEPT ![disk_done] = 1] /\ UNCHANGED <<locks, old>>
      /\ IF waiters[disk_done] # <<>>
         THEN /\ waiters' = [waiters EXCEPT ![disk_done] = Tail(@)]
              /\ thread_unblock(Head(waiters[disk_done]))
         ELSE UNCHANGED <<waiters, status, ready, all, cur, ticks, intr, saved, panicked>>
  BY <1>1, <1>2 DEF sema_up
<1>4. at' = at /\ request' = request /\ raised' /\ value' \in [Sema -> {0, 1}]
  BY <1>1, <1>2, <1>3, Basics DEF userVars, at, request, raised
<1>5. Next /\ WaitSound'
  <2>1. CASE status[main] = "BLOCKED"
    <3>1. waiters = [s \in Sema |-> <<main>>]
      BY <2>1 DEF IdeInv, WaitSound
    <3>2. waiters[disk_done] = <<main>> /\ <<main>> # <<>> /\ Head(<<main>>) = main
      BY <3>1, Basics
    <3>3. thread_unblock(main) /\ waiters' = [waiters EXCEPT ![disk_done] = <<>>]
      BY <1>3, <3>2
    <3>4. Next
      BY <1>1, <2>1, <3>3, Basics DEF Next, device_intr, Waiting, Stopped
    <3>5. ~panicked'
      BY <3>4, KeepsIInv DEF IInv
    <3>6. status' = [status EXCEPT ![main] = "READY"] /\ UNCHANGED <<cur, intr, saved>>
      BY <3>3, <3>5 DEF thread_unblock, panic
    <3>7. status'[main] # "BLOCKED" /\ waiters' = [s \in Sema |-> <<>>]
      BY <3>1, <3>3, <3>6, Basics
    <3> QED BY <1>3, <1>4, <3>4, <3>6, <3>7 DEF IdeInv, WaitSound, Masked
  <2>2. CASE status[main] # "BLOCKED"
    <3>1. waiters[disk_done] = <<>>
      BY <2>2, Basics DEF IdeInv, WaitSound
    <3>2. UNCHANGED <<waiters, status, ready, all, cur, ticks, intr, saved, panicked>>
      BY <1>3, <3>1
    <3>3. Next
      BY <1>1, <3>2, Basics DEF Next, quiet_intr
    <3> QED BY <1>3, <1>4, <3>2, <3>3 DEF IdeInv, WaitSound, Masked
  <2> QED BY <2>1, <2>2
<1>6. IInv'
  BY <1>5, KeepsIInv
<1>7. IdeTypes' /\ RequestSound' /\ MovedSound'
  BY <1>1, <1>3, <1>4 DEF IdeInv, IdeTypes, RequestSound, MovedSound, userVars
<1>8. Handshake'
  BY <1>1, <1>4 DEF IdeInv, Handshake, Settled
<1>9. request.kind = "write" => at \notin {"xfer", "down0"}
  BY <1>1 DEF IdeInv, WaitSound, Masked
<1>10. ASSUME ~unseen' PROVE InStep'
  <2>1. InStep /\ UNCHANGED <<dev, media>>
    BY <1>1, <1>10 DEF IdeInv
  <2>2. DeviceInStep' /\ OwnData'
    BY <1>4, <2>1 DEF InStep, DeviceInStep, OwnData
  <2>3. OwnInterrupt'
    BY <1>1, <1>4, <1>9, <2>1 DEF InStep, OwnInterrupt
  <2> QED BY <2>2, <2>3 DEF InStep
<1> QED BY <1>1, <1>5, <1>6, <1>7, <1>8, <1>10, Basics DEF IdeInv, OneUser

LEMMA HandlerStep == ASSUME IdeInv, hd_intr_handler PROVE IdeInv' /\ [Next]_vars
<1>1. CASE ~expecting
  <2>1. /\ Next /\ irq' = FALSE
        /\ UNCHANGED <<pc, op, syncVars, dev, media, unseen, expecting, iofail>>
        /\ UNCHANGED <<status, cur, intr, saved>>
    BY <1>1, Basics DEF hd_intr_handler, Next, quiet_intr, userVars
  <2>2. Masked => IF cur = main THEN ~intr ELSE ~saved[main]
    BY DEF IdeInv, WaitSound
  <2> QED BY <2>1, <2>2, QuietStep
<1> QED BY <1>1, RaiseStep

-----------------------------------------------------------------------------
LEMMA InitIdeInv == ASSUME OneUser PROVE IdeInit => IdeInv
<1> SUFFICES ASSUME IdeInit PROVE IdeInv
  OBVIOUS
<1>1. /\ main \in Thread /\ main # idle /\ Sema = {disk_done}
      /\ SemaInit = [s \in Sema |-> 0]
  BY IdeAssumption, SyncAssumption, ThreadAssumption
<1>2. IInv /\ ~intr /\ cur = main /\ status[main] # "BLOCKED"
  BY <1>1, InitIInv DEF IdeInit, Init
<1>3. at = "out" /\ request = NoOp /\ ~raised
  BY <1>1 DEF IdeInit, lock_sema_init, at, request, raised, OneUser
<1>4. IdeTypes
  <2>1. 1 \in 1..MaxSectors
    BY IdeAssumption
  <2> QED BY <1>1, <2>1, IdeAssumption
          DEF IdeInit, lock_sema_init, IdeTypes, Labels, OpType, DevType, NoOp
<1>5. RequestSound /\ MovedSound /\ WaitSound
  BY <1>2, <1>3
  DEF IdeInit, lock_sema_init, RequestSound, MovedSound, WaitSound, Masked, NoOp
<1>6. Handshake /\ InStep
  BY <1>3 DEF IdeInit, Handshake, Settled, InStep, DeviceInStep, OwnInterrupt, OwnData, NoOp
<1> QED BY <1>2, <1>4, <1>5, <1>6 DEF IdeInv, IdeInit

\* Each step of the driver is one of Scheduler, or the driver gives up.
LEMMA IdeStep ==
  ASSUME IdeInv, [IdeNext]_ideVars PROVE (IdeInv' /\ [Next]_vars) \/ GaveUp'
<1>1. CASE UNCHANGED ideVars
  BY <1>1 DEF ideVars, vars, syncVars, userVars, devVars, IdeInv, OneUser, IInv, TypeOK,
     Consistent, OneRunning, IdeTypes, RequestSound, MovedSound, WaitSound, Masked,
     Handshake, Settled, InStep, DeviceInStep, OwnInterrupt, OwnData, at, request, raised
<1>2. CASE user_step
  BY <1>2, IdentifyStep, IdentifiedStep, CallStep, CommandStep, WaitIntrStep, PollStep,
     SleepStep, TransferStep, NextChunkStep, ErrorStep, GiveUpStep DEF user_step
<1> QED BY <1>1, <1>2, EnableStep, ReadyStep, NextSectorStep, HandlerStep, TimerStep, IdlerStep,
           BootStep DEF IdeNext

\* Nothing happens after a panic.
LEMMA GaveUpStays == GaveUp /\ [IdeNext]_ideVars => GaveUp'
BY DEF GaveUp, IdeNext, ideVars, vars

(***************************************************************************)
(* The driver, its device and its interrupt stay in step until the driver  *)
(* reports that the device failed.                                         *)
(***************************************************************************)
THEOREM IdeInvariance == ASSUME OneUser PROVE IdeSpec => [](IdeInv \/ GaveUp)
<1>1. (IdeInv \/ GaveUp) /\ [IdeNext]_ideVars => (IdeInv \/ GaveUp)'
  BY IdeStep, GaveUpStays
<1>2. IdeInit => IdeInv
  BY InitIdeInv
<1> QED BY <1>1, <1>2, PTL DEF IdeSpec

(***************************************************************************)
(* No assertion of ide.c, sync.c or thread.c fails under the one user of   *)
(* the channel, however late its interrupts come.                          *)
(***************************************************************************)
THEOREM NoDriverPanic == ASSUME OneUser PROVE IdeSpec => []DriverNoPanic
<1>1. IdeInv \/ GaveUp => DriverNoPanic
  BY DEF IdeInv, IInv, GaveUp, DriverNoPanic
<1> QED BY <1>1, IdeInvariance, PTL

\* What a step of the driver may assume: the theorems below look at one step.
LEMMA StepOrStop ==
  ASSUME IdeInv \/ GaveUp, IdeNext
  PROVE  IdeInv
BY DEF GaveUp, IdeNext

(***************************************************************************)
(* read_from_sector() and write_to_sector() move a sector only while the   *)
(* device requests it, as long as it is ready for the sectors behind the   *)
(* first of a chunk when their turn comes.                                 *)
(***************************************************************************)
THEOREM OnDrqOnly == ASSUME OneUser PROVE IdeSpec => TransferOnDrq
<1> DEFINE A == \A t \in User : pc[t] = "xfer" /\ <<pc[t], op[t]>>' # <<pc[t], op[t]>>
                                 => dev.st = "drq" \/ unseen'
<1>1. (IdeInv \/ GaveUp) /\ [IdeNext]_ideVars => [A]_ideVars
  <2> SUFFICES ASSUME IdeInv, IdeNext, at = "xfer",
                      <<at, request>>' # <<at, request>>, ~unseen'
               PROVE  dev.st = "drq"
    BY StepOrStop, Basics DEF at, request
  <2>1. CASE transfer
    <3>1. /\ cur = main /\ unseen' = (unseen \/ Behind) /\ IdeInv
          /\ secs(request) \in 1..MaxSectors /\ request.moved \in Nat /\ MaxSectors \in Nat
      BY <2>1, AtMain, RequestTypes DEF transfer, OpType
    <3>2. InStep /\ ~(/\ secs(request) > 1 /\ request.moved > 0
                     /\ dev.st \in {"reading", "writing"})
      BY <3>1 DEF IdeInv, IdeTypes, Behind, request
    <3>3. request.moved < secs(request)
      BY DEF IdeInv, MovedSound
    <3> QED BY <3>1, <3>2, <3>3 DEF InStep, DeviceInStep
  <2>2. CASE identify_done
    <3>1. ~unseen /\ request.kind = "identify"
      BY <2>2, AtMain DEF identify_done, request
    <3>2. request.moved = 0
      BY <3>1 DEF IdeInv, RequestSound
    <3> QED BY <3>1, <3>2 DEF IdeInv, InStep, DeviceInStep
  <2>3. ASSUME NEW l, At(l), l # "xfer" PROVE FALSE
    BY <2>3, AtMain
  <2>4. CASE user_step /\ ~transfer /\ ~identify_done
    BY <2>3, <2>4
    DEF user_step, identify_disk, ide_call, cmd_out, wait_intr, busy_wait, mtime_sleep,
        next_chunk, check_ide_error, give_up
  <2>5. CASE ~user_step
    BY <2>5 DEF IdeNext, enable, device_ready, device_next, hd_intr_handler, timer, idler,
                boot, userVars, at, request
  <2> QED BY <2>1, <2>2, <2>4, <2>5
<1> QED BY <1>1, IdeInvariance, PTL DEF IdeSpec, TransferOnDrq

(***************************************************************************)
(* cmd_out() starts a command only on a device that has finished the       *)
(* previous one, as long as it kept pace with the chunks of several sectors*)
(***************************************************************************)
THEOREM WhenIdleOnly == ASSUME OneUser PROVE IdeSpec => CommandWhenIdle
<1> DEFINE A == \A t \in User : pc[t] = "cmd" /\ pc'[t] # "cmd" => dev.st = "idle" \/ unseen
<1>1. (IdeInv \/ GaveUp) /\ [IdeNext]_ideVars => [A]_ideVars
  <2> SUFFICES ASSUME IdeInv \/ GaveUp, IdeNext PROVE A
    OBVIOUS
  <2> QED BY StepOrStop, Basics DEF IdeInv, InStep, DeviceInStep, at
<1> QED BY <1>1, IdeInvariance, PTL DEF IdeSpec, CommandWhenIdle

-----------------------------------------------------------------------------
(* The driver implements Disk.                                              *)

\* What the device has done unseen stays with it: the promise of Disk is void.
LEMMA UnseenStays ==
  ASSUME IdeInv, [IdeNext]_ideVars
  PROVE  unseen' \in BOOLEAN /\ (unseen => unseen')
<1>1. unseen \in BOOLEAN
  BY DEF IdeInv, IdeTypes
<1>2. \/ unseen' = unseen \/ unseen' = TRUE \/ unseen' = (unseen \/ Behind)
  BY DEF IdeNext, user_step, identify_disk, identify_done, ide_call, cmd_out, wait_intr,
         busy_wait, mtime_sleep, transfer, next_chunk, check_ide_error, give_up, enable,
         device_ready, device_next, hd_intr_handler, timer, idler, boot, ideVars, devVars
<1> QED BY <1>1, <1>2

\* What the mapping needs beyond IdeInv.
MapInv ==
  /\ buf \in [User -> Seq(Data)]
  /\ request.kind \in {"none", "identify"} => request.i = 0

\* The chunk of the request that the driver is at has taken effect.
Stored ==
  \/ at = "next"
  \/ request.kind = "write" /\ at \in {"down0", "down"} /\ dev.st = "idle"

Mapped ==
  /\ request.kind \in {"none", "identify"} => AbstractRequest = D!Idle
  /\ request.kind = "read" => AbstractRequest = [kind |-> "read", n |-> request.n]
  /\ request.kind = "write" =>
       AbstractRequest = [kind |-> "write", n |-> request.n, val |-> request.val]
  /\ AbstractDone = request.i - (IF Stored \/ request.i = 0 THEN 0 ELSE 1)

LEMMA UserIsMain == ASSUME OneUser PROVE TheUser = main
BY DEF OneUser, TheUser

LEMMA IsMapped == OneUser => Mapped
<1> SUFFICES ASSUME OneUser PROVE Mapped
  OBVIOUS
<1>1. op[TheUser] = request /\ pc[TheUser] = at
  BY UserIsMain DEF request, at
<1>2. AbstractDone = request.i - (IF Stored \/ request.i = 0 THEN 0 ELSE 1)
  BY <1>1 DEF AbstractDone, Stored
<1> QED BY <1>1, <1>2 DEF Mapped, AbstractRequest, D!Idle

LEMMA IsMappedNext == OneUser => Mapped'
<1>1. OneUser => OneUser'
  BY DEF OneUser
<1> QED BY <1>1, IsMapped, PTL

\* A step that leaves the request alone stutters, if no chunk takes effect.
LEMMA Stutters ==
  ASSUME IdeInv, UNCHANGED <<op, buf, media, unseen>>, Stored' <=> Stored
  PROVE  UNCHANGED D!diskVars
<1>1. OneUser /\ TheUser = main
  BY UserIsMain DEF IdeInv
<1>2. AbstractDone' = AbstractDone
  <2>1. request' = request
    BY DEF request
  <2> QED BY <1>1, <2>1, IsMapped, IsMappedNext DEF Mapped
<1>3. AbstractRequest' = AbstractRequest
  BY DEF AbstractRequest
<1> QED BY <1>2, <1>3 DEF D!diskVars

\* Most steps of main are between its transfers.
LEMMA ThreadQuiet ==
  ASSUME IdeInv, ~unseen, ~unseen',
                 \/ cmd_out \/ wait_intr \/ busy_wait \/ mtime_sleep
                 \/ check_ide_error \/ give_up
  PROVE  UNCHANGED <<op, buf, media>> /\ (Stored' <=> Stored)
<1>1. UNCHANGED <<op, buf, media>> /\ request' = request
  BY DEF cmd_out, wait_intr, busy_wait, mtime_sleep, check_ide_error, give_up,
         userVars, devVars, request
<1>2. CASE cmd_out
  <2>1. /\ at = "cmd" /\ at' \in {"poll", "down0"}
        /\ request.kind = "write" => at' = "poll"
    BY <1>2, AtMain, Goto DEF cmd_out, Labels, request
  <2> QED BY <1>1, <2>1 DEF Stored
<1>3. CASE wait_intr
  <2>1. dev' = dev
    BY <1>3 DEF wait_intr
  <2>2. CASE At("down0") /\ goto("down")
    BY <1>1, <2>1, <2>2, AtMain, Goto DEF Labels, Stored
  <2>3. CASE pc' = pc
    BY <1>1, <2>1, <2>3 DEF Stored, at
  <2>4. CASE /\ At("down") /\ sema_take(disk_done)
             /\ goto(IF op[cur].kind = "write" THEN "next" ELSE "poll")
    <3>1. cur = main /\ at = "down" /\ raised
      <4>1. value \in [Sema -> {0, 1}]
        BY DEF IdeInv, IdeTypes
      <4> QED BY <2>4, <4>1, AtMain, Basics DEF sema_take, raised
    <3>2. at' = IF request.kind = "write" THEN "next" ELSE "poll"
      <4>1. (IF request.kind = "write" THEN "next" ELSE "poll") \in Labels
        BY DEF Labels
      <4> QED BY <2>4, <3>1, <4>1, Goto DEF request
    <3>3. request.kind = "write" => dev.st = "idle"
      BY <3>1 DEF IdeInv, InStep, DeviceInStep, OwnInterrupt
    <3> QED BY <1>1, <3>1, <3>2, <3>3 DEF Stored
  <2> QED BY <1>3, <2>2, <2>3, <2>4 DEF wait_intr
<1>4. CASE busy_wait \/ check_ide_error \/ mtime_sleep
  <2>1. cur = main /\ at \in {"poll", "err", "sleep"}
    BY <1>4, AtMain DEF busy_wait, check_ide_error, mtime_sleep
  <2>2. at' \in {"poll", "err", "sleep", "fail", "xfer"}
    <3>1. CASE pc' = pc
      BY <2>1, <3>1 DEF at
    <3>2. CASE \E l \in {"poll", "err", "sleep", "fail", "xfer"} : goto(l)
      BY <2>1, <3>2, Goto DEF Labels
    <3>3. busy_wait => dev.st \in {"busy", "drq", "err"}
      BY AtMain DEF busy_wait, IdeInv, InStep, DeviceInStep
    <3>4. busy_wait => \E l \in {"poll", "err", "sleep", "fail", "xfer"} : goto(l)
      <4>1. SUFFICES ASSUME busy_wait
                     PROVE  \E l \in {"poll", "err", "sleep", "fail", "xfer"} : goto(l)
        OBVIOUS
      <4>2. CASE polls'[cur] = 0
        BY <4>1, <4>2 DEF busy_wait
      <4>3. CASE polls'[cur] # 0
        BY <3>3, <4>1, <4>3 DEF busy_wait, BSY
      <4> QED BY <4>2, <4>3
    <3> QED BY <1>4, <3>1, <3>2, <3>4 DEF check_ide_error, mtime_sleep
  <2> QED BY <1>1, <2>1, <2>2 DEF Stored
<1>5. CASE give_up
  BY <1>1, <1>5 DEF give_up, userVars, devVars, Stored, at
<1> QED BY <1>1, <1>2, <1>3, <1>4, <1>5

\* The other threads, the interrupts, and the device when it answers.
LEMMA OthersQuiet ==
  ASSUME IdeInv, enable \/ device_ready \/ hd_intr_handler \/ timer \/ idler \/ boot
  PROVE  UNCHANGED <<op, buf, media>> /\ (Stored' <=> Stored)
<1>1. UNCHANGED <<pc, op, buf, media>>
  BY DEF enable, device_ready, hd_intr_handler, timer, idler, boot, userVars, devVars
<1>2. at' = at /\ request' = request
  BY <1>1 DEF at, request
<1>3. CASE device_ready
  <2>1. dev.st = "busy" /\ dev'.st \in {"drq", "err"}
    BY <1>3 DEF device_ready, IdeInv, IdeTypes, DevType
  <2> QED BY <1>1, <1>2, <2>1 DEF Stored
<1>4. CASE ~device_ready
  <2>1. dev' = dev
    BY <1>4 DEF enable, hd_intr_handler, timer, idler, boot, devVars
  <2> QED BY <1>1, <1>2, <2>1 DEF Stored
<1> QED BY <1>3, <1>4

\* identify_disk() is not a request of Disk.
LEMMA IdentifyMaps ==
  ASSUME IdeInv, MapInv, identify_disk \/ identify_done
  PROVE  MapInv' /\ UNCHANGED D!diskVars
<1>1. /\ cur = main /\ UNCHANGED <<buf, media, unseen>>
      /\ op' \in {[op EXCEPT ![main] = [NoOp EXCEPT !.kind = "identify"]],
                  [op EXCEPT ![main] = NoOp]}
      /\ request.kind \in {"none", "identify"}
  <2>1. CASE identify_disk
    <3>1. cur = main /\ at = "out"
      BY <2>1, AtMain DEF identify_disk
    <3> QED BY <2>1, <3>1 DEF identify_disk, devVars, IdeInv, RequestSound
  <2>2. CASE identify_done
    <3>1. cur = main
      BY <2>2, AtMain DEF identify_done
    <3> QED BY <2>2, <3>1 DEF identify_done, request
  <2> QED BY <2>1, <2>2
<1>2. request.i = 0 /\ request'.i = 0 /\ request'.kind \in {"none", "identify"}
  BY <1>1, Basics DEF MapInv, NoOp, request, IdeInv, IdeTypes
<1>3. AbstractRequest' = AbstractRequest /\ AbstractDone' = AbstractDone
  BY <1>1, <1>2, IsMapped, IsMappedNext DEF Mapped, IdeInv, D!Idle
<1>4. TheUser = main
  BY UserIsMain DEF IdeInv
<1> QED BY <1>1, <1>2, <1>3 DEF MapInv, D!diskVars

LEMMA CallMaps == ASSUME IdeInv, MapInv, ide_call PROVE MapInv' /\ D!Call
<1>1. cur = main /\ at = "out" /\ buf' = [buf EXCEPT ![main] = <<>>] /\ media' = media
  BY AtMain DEF ide_call, devVars
<1>2. PICK k \in {"read", "write"}, n \in 1..MaxChunks, s \in 1..MaxSectors, v \in Data :
        op' = [op EXCEPT ![main] =
                 [kind |-> k, i |-> 1, n |-> n, last |-> s, moved |-> 0, val |-> v]]
  <2>1. \E k \in {"read", "write"}, n \in 1..MaxChunks, s \in 1..MaxSectors, v \in Data :
          op' = [op EXCEPT ![cur] =
                   [kind |-> k, i |-> 1, n |-> n, last |-> s, moved |-> 0, val |-> v]]
    BY DEF ide_call
  <2> QED BY <1>1, <2>1
<1>3. /\ request'.kind = k /\ request'.i = 1 /\ request'.n = n /\ request'.val = v
      /\ request.kind = "none"
  BY <1>1, <1>2, Basics DEF IdeInv, IdeTypes, RequestSound, request
<1>4. at' = "cmd"
  BY <1>1, Goto DEF ide_call, Labels
<1>5. ~Stored'
  BY <1>4 DEF Stored
<1>6. /\ AbstractRequest = D!Idle /\ AbstractDone' = 0
      /\ k = "read" => AbstractRequest' = [kind |-> "read", n |-> n]
      /\ k = "write" => AbstractRequest' = [kind |-> "write", n |-> n, val |-> v]
  BY <1>3, <1>5, IsMapped, IsMappedNext DEF Mapped, IdeInv
<1>7. AbstractRequest' \in D!Request
  BY <1>6 DEF D!Request
<1>8. buf' \in [User -> Seq(Data)] /\ buf'[main] = <<>>
  BY <1>1, Basics DEF MapInv
<1>9. TheUser = main
  BY UserIsMain DEF IdeInv
<1>10. MapInv'
  BY <1>3, <1>8 DEF MapInv
<1> QED BY <1>1, <1>6, <1>7, <1>8, <1>9, <1>10 DEF D!Call

\* The last sector of a chunk of a read.
ReadsChunk ==
  /\ request.kind = "read" /\ at' = "next" /\ op'[main].moved = secs(op[main])
  /\ \E v \in Data : /\ ~unseen' => v = dev.data
                     /\ buf' = [buf EXCEPT ![main] = Append(@, v)]

\* What a transfer leaves of the request, and of the buffer.
LEMMA TransferFacts ==
  ASSUME IdeInv, transfer
  PROVE  /\ cur = main /\ at = "xfer" /\ media' = media
         /\ request.kind \in {"read", "write"}
         /\ request'.kind = request.kind /\ request'.i = request.i
         /\ request'.n = request.n /\ request'.val = request.val
         /\ \/ buf' = buf
            \/ \E v \in Data : buf' = [buf EXCEPT ![main] = Append(@, v)]
         /\ \/ ReadsChunk
            \/ buf' = buf /\ at' = "xfer"
            \/ request.kind = "write" /\ buf' = buf /\ at' = "down0"
<1>1. cur = main /\ at = "xfer" /\ media' = media
  BY AtMain DEF transfer
<1>2. request.kind \in {"read", "write"} /\ request \in OpType
  BY <1>1, RequestTypes DEF transfer, request, OpType, IdeInv, RequestSound
<1>3. op' = [op EXCEPT ![main].moved = @ + 1] /\ op \in [User -> OpType]
  BY <1>1 DEF transfer, IdeInv, IdeTypes
<1>4. /\ request'.kind = request.kind /\ request'.i = request.i
      /\ request'.n = request.n /\ request'.val = request.val
  BY <1>3, Basics DEF request, OpType
<1>5. \/ moved_all /\ op'[main].moved = secs(op[main])
      \/ UNCHANGED <<pc, buf>>
  BY <1>1 DEF transfer
<1>6. CASE UNCHANGED <<pc, buf>>
  BY <1>1, <1>2, <1>4, <1>6 DEF at
<1>7. CASE moved_all /\ op'[main].moved = secs(op[main])
  <2>1. goto(IF request.kind = "read" THEN "next" ELSE "down0")
    BY <1>1, <1>7 DEF moved_all, request
  <2>2. at' = IF request.kind = "read" THEN "next" ELSE "down0"
    BY <1>1, <2>1, Goto DEF Labels
  <2>3. IF request.kind = "read"
        THEN \E v \in Data : /\ ~unseen' => v = dev.data
                            /\ buf' = [buf EXCEPT ![main] = Append(@, v)]
        ELSE buf' = buf
    BY <1>1, <1>7 DEF moved_all, request
  <2>4. CASE request.kind = "read"
    <3>1. ReadsChunk
      BY <1>7, <2>2, <2>3, <2>4 DEF ReadsChunk
    <3> QED BY <1>1, <1>2, <1>4, <2>3, <2>4, <3>1
  <2>5. CASE request.kind = "write"
    BY <1>1, <1>2, <1>4, <2>2, <2>3, <2>5
  <2> QED BY <1>2, <2>4, <2>5
<1> QED BY <1>5, <1>6, <1>7

\* The last sector of a chunk: one of a read has taken effect.
LEMMA TransferMaps ==
  ASSUME IdeInv, MapInv, transfer, ~unseen, ~unseen', unseen' = unseen
  PROVE  D!Read \/ UNCHANGED D!diskVars
<1>1. /\ cur = main /\ at = "xfer" /\ media' = media
      /\ request'.kind = request.kind /\ request'.i = request.i
      /\ request'.n = request.n /\ request'.val = request.val
      /\ request.kind \in {"read", "write"}
  BY TransferFacts
<1>2. TheUser = main /\ OneUser /\ OneUser'
  BY UserIsMain DEF IdeInv, OneUser
<1>3. ~Stored
  BY <1>1 DEF Stored
<1>4. AbstractRequest' = AbstractRequest
  BY <1>1, <1>2, IsMapped, IsMappedNext DEF Mapped
<1>5. IdeInv' /\ InStep
  BY TransferStep DEF IdeInv
<1>6. ASSUME ReadsChunk PROVE D!Read
  <2>0. /\ request.kind = "read" /\ at' = "next"
        /\ \E v \in Data : v = dev.data /\ buf' = [buf EXCEPT ![main] = Append(@, v)]
    BY <1>6 DEF ReadsChunk
  <2>1. request.n \in 1..MaxChunks /\ request.i \in 1..request.n /\ MaxChunks \in Nat
    BY <2>0, IdeAssumption DEF IdeInv, RequestSound
  <2>2. dev.st = "drq" \/ dev.st = "reading"
    BY <1>1, <1>5, <2>0 DEF InStep, DeviceInStep
  <2>3. dev.data = media[request.i] /\ dev.data \in Data
    BY <1>5, <2>0, <2>2 DEF InStep, OwnData
  <2>4. buf'[main] = Append(buf[main], media[request.i])
    BY <2>0, <2>3, Basics DEF MapInv
  <2>5. Stored'
    BY <2>0 DEF Stored
  <2>6. /\ AbstractRequest = [kind |-> "read", n |-> request.n]
        /\ AbstractDone = request.i - 1 /\ AbstractDone' = request.i
    BY <1>1, <1>2, <1>3, <2>0, <2>1, <2>5, IsMapped, IsMappedNext DEF Mapped
  <2>7. AbstractDone < request.n /\ AbstractDone + 1 = request.i
    BY <2>1, <2>6
  <2> QED BY <1>1, <1>2, <1>4, <2>4, <2>6, <2>7 DEF D!Read
<1>7. ASSUME buf' = buf, ~Stored' PROVE UNCHANGED D!diskVars
  <2>1. AbstractDone' = AbstractDone
    BY <1>1, <1>2, <1>3, <1>7, IsMapped, IsMappedNext DEF Mapped
  <2> QED BY <1>1, <1>2, <1>4, <1>7, <2>1 DEF D!diskVars
<1>8. ASSUME request.kind = "write", at' = "down0" PROVE ~Stored'
  <2>1. move_sector /\ ~Behind
    BY DEF transfer, IdeInv, IdeTypes
  <2>2. /\ secs(request) \in 1..MaxSectors /\ MaxSectors \in Nat
        /\ request.moved \in Nat /\ request.moved < secs(request)
    BY <1>1, RequestTypes DEF IdeInv, MovedSound, OpType
  <2>3. dev.st = "drq"
    BY <1>1, <1>5, <2>1, <2>2 DEF InStep, DeviceInStep, Behind, request
  <2>4. dev.cmd = "write"
    BY <1>5, <1>8, <2>3 DEF InStep, OwnData
  <2>5. dev'.st = "writing"
    BY <1>1, <2>1, <2>3, <2>4, SectorMoves
  <2> QED BY <1>8, <2>5 DEF Stored
<1>9. at' = "xfer" => ~Stored'
  BY DEF Stored
<1>10. \/ ReadsChunk
       \/ buf' = buf /\ at' = "xfer"
       \/ request.kind = "write" /\ buf' = buf /\ at' = "down0"
  BY TransferFacts
<1>11. ReadsChunk \/ (buf' = buf /\ ~Stored')
  BY <1>8, <1>9, <1>10
<1> QED BY <1>6, <1>7, <1>11

\* The device has stored a chunk, or goes on to a sector.
LEMMA NextSectorMaps ==
  ASSUME IdeInv, MapInv, device_next, ~unseen, ~unseen', unseen' = unseen
  PROVE  D!Write \/ UNCHANGED D!diskVars
<1>1. /\ dev.st \in {"reading", "writing"} /\ UNCHANGED <<pc, op, buf>> /\ dev \in DevType
  BY DEF device_next, userVars, IdeInv, IdeTypes
<1>2. at' = at /\ request' = request /\ TheUser = main /\ InStep
  BY <1>1, UserIsMain DEF at, request, IdeInv
<1>3. CASE /\ dev.st = "writing" /\ dev.left = 1
           /\ media' = [media EXCEPT ![dev.i] = dev.data]
           /\ dev' = [dev EXCEPT !.st = "idle"]
  <2>1. /\ request.kind = "write" /\ dev.i = request.i /\ dev.data = request.val
        /\ dev.left = secs(request) - request.moved + 1 /\ dev'.st = "idle"
    BY <1>1, <1>2, <1>3 DEF InStep, OwnData, DevType
  <2>2. secs(request) \in Nat /\ request.moved \in Nat
    BY RequestTypes DEF OpType
  <2>3. at \in {"down0", "down"}
    <3>1. at # "xfer"
      BY <1>3, <2>1, <2>2 DEF IdeInv, MovedSound
    <3> QED BY <1>2, <1>3, <3>1, RequestTypes DEF InStep, DeviceInStep, Labels
  <2>4. request.n \in 1..MaxChunks /\ request.i \in 1..request.n /\ MaxChunks \in Nat
    BY <2>1, IdeAssumption DEF IdeInv, RequestSound
  <2>5. ~Stored /\ Stored'
    BY <1>2, <1>3, <2>1, <2>3 DEF Stored
  <2>6. /\ AbstractRequest = [kind |-> "write", n |-> request.n, val |-> request.val]
        /\ AbstractRequest' = AbstractRequest
        /\ AbstractDone = request.i - 1 /\ AbstractDone' = request.i
    BY <1>2, <2>1, <2>4, <2>5, IsMapped, IsMappedNext DEF Mapped, IdeInv
  <2>7. AbstractDone < request.n /\ AbstractDone + 1 = request.i
    BY <2>4, <2>6
  <2> QED BY <1>1, <1>2, <1>3, <2>1, <2>6, <2>7 DEF D!Write
<1>4. CASE media' = media /\ dev' \in {[dev EXCEPT !.st = "drq", !.left = @ - 1],
                                      [dev EXCEPT !.st = "drq"]}
  <2>1. ~Stored /\ ~Stored'
    <3>1. dev'.st = "drq"
      BY <1>1, <1>4 DEF DevType
    <3>2. at # "next"
      BY <1>1, <1>2 DEF InStep, DeviceInStep
    <3> QED BY <1>1, <1>2, <3>1, <3>2 DEF Stored
  <2> QED BY <1>1, <1>4, <2>1, Stutters
<1> QED BY <1>3, <1>4 DEF device_next

\* The loop over the chunks goes on, or the call returns.
LEMMA NextChunkMaps ==
  ASSUME IdeInv, MapInv, next_chunk
  PROVE  MapInv' /\ (D!Return \/ UNCHANGED D!diskVars)
<1>1. cur = main /\ at = "next" /\ UNCHANGED <<buf, media, unseen>> /\ TheUser = main
  BY AtMain, UserIsMain DEF next_chunk, devVars, IdeInv
<1>2. /\ request \in OpType /\ request.kind \in {"read", "write"}
      /\ request.n \in 1..MaxChunks /\ request.i \in 1..request.n /\ MaxChunks \in Nat
  <2>1. request \in OpType
    BY Basics DEF IdeInv, IdeTypes, request
  <2>2. request.kind \in {"read", "write"}
    BY <1>1, <2>1 DEF IdeInv, RequestSound, OpType
  <2> QED BY <2>1, <2>2, IdeAssumption DEF IdeInv, RequestSound
<1>3. Stored
  BY <1>1 DEF Stored
<1>4. AbstractDone = request.i /\ AbstractRequest # D!Idle /\ AbstractRequest.n = request.n
  BY <1>2, <1>3, IsMapped DEF Mapped, IdeInv, D!Idle
<1>5. CASE op' = [op EXCEPT ![main].i = @ + 1, ![main].moved = 0] /\ goto("cmd")
  <2>1. /\ request'.kind = request.kind /\ request'.n = request.n
        /\ request'.val = request.val /\ request'.i = request.i + 1
    BY <1>2, <1>5, Basics DEF IdeInv, IdeTypes, request, OpType
  <2>2. ~Stored'
    BY <1>1, <1>5, Goto DEF Labels, Stored
  <2>3. AbstractDone' = (request.i + 1) - 1
    BY <1>2, <2>1, <2>2, IsMappedNext DEF Mapped, IdeInv
  <2>4. AbstractDone' = AbstractDone
    BY <1>2, <1>4, <2>3
  <2>5. AbstractRequest' = AbstractRequest
    BY <1>2, <2>1, IsMapped, IsMappedNext DEF Mapped, IdeInv
  <2>6. MapInv'
    BY <1>1, <1>2, <2>1 DEF MapInv
  <2> QED BY <1>1, <2>4, <2>5, <2>6 DEF D!diskVars
<1>6. CASE request.i = request.n /\ op' = [op EXCEPT ![main] = NoOp]
  <2>1. request'.kind = "none" /\ request'.i = 0
    BY <1>6, Basics DEF IdeInv, IdeTypes, request, NoOp
  <2>2. AbstractRequest' = D!Idle /\ AbstractDone' = 0
    BY <2>1, IsMappedNext DEF Mapped, IdeInv
  <2>3. MapInv'
    BY <1>1, <2>1 DEF MapInv
  <2> QED BY <1>1, <1>4, <1>6, <2>2, <2>3 DEF D!Return
<1> QED BY <1>1, <1>5, <1>6 DEF next_chunk, request

\* MapInv does not depend on what the device does.
LEMMA MapInvStep ==
  ASSUME IdeInv, MapInv, [IdeNext]_ideVars PROVE MapInv'
<1>1. CASE UNCHANGED <<op, buf>>
  BY <1>1 DEF MapInv, request
<1>2. CASE transfer
  <2>1. /\ request'.kind = request.kind /\ request'.i = request.i
        /\ buf' = buf \/ \E v \in Data : buf' = [buf EXCEPT ![main] = Append(@, v)]
    BY <1>2, TransferFacts
  <2> QED BY <2>1, Basics DEF MapInv
<1>3. CASE identify_disk \/ identify_done \/ ide_call \/ next_chunk
  BY <1>3, IdentifyMaps, CallMaps, NextChunkMaps
<1> QED BY <1>1, <1>2, <1>3
  DEF IdeNext, user_step, cmd_out, wait_intr, busy_wait, mtime_sleep, check_ide_error,
      give_up, enable, device_ready, device_next, hd_intr_handler, timer, idler, boot,
      ideVars, userVars

LEMMA MapStep ==
  ASSUME IdeInv, MapInv, [IdeNext]_ideVars
  PROVE  [D!DiskNext]_(D!diskVars)
<1>1. CASE unseen'
  BY <1>1 DEF D!DiskNext
<1>2. CASE ~unseen'
  <2>1. ~unseen /\ unseen' = unseen
    BY <1>2, UnseenStays DEF IdeInv, IdeTypes
  <2>2. ASSUME UNCHANGED <<op, buf, media>>, Stored' <=> Stored
        PROVE  UNCHANGED D!diskVars
    BY <2>1, <2>2, Stutters
  <2>3. CASE UNCHANGED ideVars
    BY <2>2, <2>3 DEF ideVars, userVars, devVars, Stored, at, request
  <2>4. CASE \/ cmd_out \/ wait_intr \/ busy_wait \/ mtime_sleep \/ check_ide_error
             \/ give_up \/ enable \/ device_ready \/ hd_intr_handler \/ timer \/ idler
             \/ boot
    BY <1>2, <2>1, <2>2, <2>4, ThreadQuiet, OthersQuiet
  <2>5. CASE \/ identify_disk \/ identify_done \/ ide_call \/ transfer \/ next_chunk
             \/ device_next
    BY <1>2, <2>1, <2>5, IdentifyMaps, CallMaps, TransferMaps, NextChunkMaps, NextSectorMaps
    DEF D!DiskNext
  <2> QED BY <2>3, <2>4, <2>5 DEF IdeNext, user_step
<1> QED BY <1>1, <1>2

(***************************************************************************)
(* A chunk of a read takes effect when read_from_sector() has transferred  *)
(* its last sector, one of a write when the device has stored it;          *)
(* ide_read() and ide_write() return when all chunks have, and no other    *)
(* step has an effect: until the device is late for a sector of a chunk of *)
(* several, or fails behind busy_wait(), and nothing is promised any more. *)
(***************************************************************************)
THEOREM DriverImplementsDisk == ASSUME OneUser PROVE IdeSpec => ImplementsDisk
<1>1. IdeInit => MapInv /\ D!DiskInit
  <2> SUFFICES ASSUME IdeInit PROVE MapInv /\ D!DiskInit
    OBVIOUS
  <2>1. TheUser = main /\ main \in User /\ OneUser
    BY UserIsMain, IdeAssumption
  <2>2. request = NoOp /\ buf \in [User -> Seq(Data)] /\ buf[main] = <<>>
    BY <2>1 DEF IdeInit, request
  <2>3. request.kind = "none" /\ request.i = 0
    BY <2>2 DEF NoOp
  <2>4. AbstractRequest = D!Idle /\ AbstractDone = 0
    BY <2>1, <2>3, IsMapped DEF Mapped
  <2> QED BY <2>1, <2>2, <2>3, <2>4 DEF MapInv, D!DiskInit, IdeInit
<1>2. /\ (IdeInv \/ GaveUp) /\ (MapInv \/ GaveUp) /\ [IdeNext]_ideVars
         => (MapInv \/ GaveUp)' /\ [D!DiskNext]_(D!diskVars)
  <2>1. ASSUME GaveUp, [IdeNext]_ideVars PROVE GaveUp' /\ UNCHANGED D!diskVars
    <3>1. UNCHANGED ideVars
      BY <2>1 DEF GaveUp, IdeNext
    <3>2. UNCHANGED <<pc, op, buf, dev, media, unseen>>
      BY <3>1 DEF ideVars, userVars, devVars
    <3> QED BY <2>1, <3>2, GaveUpStays DEF D!diskVars, AbstractRequest, AbstractDone
  <2> QED BY <2>1, MapStep, MapInvStep
<1> QED BY <1>1, <1>2, IdeInvariance, PTL DEF IdeSpec, ImplementsDisk, D!DiskSpec
=============================================================================
