--------------------------------- MODULE Ide ---------------------------------
(***************************************************************************)
(* The disk driver of os/kernel/ide.c: threads that call ide_read() and    *)
(* ide_write() on one channel, the device, its interrupt and the timer.    *)
(*                                                                         *)
(* The lock of the channel is taken with the interrupt flag cleared and    *)
(* kept while the thread blocks in sema_down() or yields in mtime_sleep(). *)
(* A request is a number of chunks, one command each: every chunk but the  *)
(* last has 256 sectors (MaxSectors).  A chunk's content is one value.     *)
(*                                                                         *)
(* The device asks for each sector of a chunk on its own, with DRQ and, but*)
(* for the first of a write, an interrupt.  The host looks at DRQ once for *)
(* a chunk and then moves all its sectors with one rep insw or rep outsw;  *)
(* nor does it look at the status when a write is over.  `unseen` records  *)
(* that the device has done what the driver does not look for.             *)
(***************************************************************************)
EXTENDS Sync

CONSTANTS
  chan, disk_done,  \* channel->lock and channel->disk_done
  User,             \* the threads that use the disk; the others spin
  MaxChunks,        \* bound: commands of one request
  MaxSectors,       \* sectors of one command, at most (256 in the code)
  Data, Blank,      \* what a chunk can hold; what it holds at first
  PollLimit,        \* time_limit of busy_wait() (30000 in the code)
  DeviceErrors      \* whether the device may report errors

ASSUME IdeAssumption ==
  /\ Lock = {chan} /\ Sema = {disk_done} /\ SemaInit[disk_done] = 0
  /\ User \subseteq Thread \ {idle} /\ main \in User
  /\ MaxChunks \in Nat \ {0} /\ MaxSectors \in Nat \ {0} /\ PollLimit \in Nat \ {0}
  /\ Blank \in Data /\ DeviceErrors \in BOOLEAN

VARIABLES
  pc,         \* user |-> where it is in ide_read() or ide_write()
  op,         \* user |-> its request, the chunk it is at, the sectors it has moved
  polls,      \* user |-> time_limit of its busy_wait()
  ticked,     \* user |-> ticks has advanced since mtime_sleep() read it
  buf,        \* user |-> what its read has transferred
  identified, \* dev_no of ide_init(): the devices main has identified
  expecting,  \* channel->expecting_intr
  dev,        \* the device: its state, command, chunk, sectors left and data
  media,      \* what is on the disk
  irq,        \* IRQ 14 is latched in the 8259
  unseen,     \* history: the device was late for a sector behind the first of
              \* a chunk, or failed behind the busy_wait() of the chunk
  iofail      \* the driver gave up with panic(error)

userVars == <<pc, op, polls, ticked, buf, identified>>
devVars  == <<dev, media, irq, unseen>>
ideVars  == <<vars, syncVars, userVars, devVars, expecting, iofail>>

NoOp == [kind |-> "none", i |-> 0, n |-> 0, last |-> 1, moved |-> 0, val |-> Blank]

\* secs_op: the sectors of the chunk a request is at.
secs(o) == IF o.i < o.n THEN MaxSectors ELSE o.last

IdeInit ==
  /\ Init
  /\ lock_sema_init
  /\ pc = [t \in User |-> "out"]
  /\ op = [t \in User |-> NoOp]
  /\ polls = [t \in User |-> PollLimit]
  /\ ticked = [t \in User |-> FALSE]
  /\ buf = [t \in User |-> <<>>]
  /\ identified = 0
  /\ expecting = FALSE
  /\ dev = [st |-> "idle", cmd |-> "none", i |-> 0, left |-> 1, data |-> Blank]
  /\ media = [i \in 1..MaxChunks |-> Blank]
  /\ irq = FALSE /\ unseen = FALSE
  /\ iofail = FALSE

\* A latched interrupt is served before the next instruction if IF is on.
Served == ~(intr /\ irq)

At(label) == cur \in User /\ pc[cur] = label /\ Served

goto(label) == pc' = [pc EXCEPT ![cur] = label]

-----------------------------------------------------------------------------
(* The device as the host finds it in its registers.                       *)

\* States with the BSY bit set: a command was accepted, or a sector was moved.
BSY == {"busy", "reading", "writing"}

\* A device that is not done with its last command may lose the next one.
command ==
  \/ dev' = [st |-> "busy", cmd |-> op[cur].kind, i |-> op[cur].i,
             left |-> secs(op[cur]), data |-> Blank]
  \/ dev.st \in BSY /\ UNCHANGED dev

\* A sector goes through the data register; without DRQ the device ignores it.
move_sector ==
  \/ /\ dev.st = "drq" /\ dev.cmd = "write"
     /\ dev' = [dev EXCEPT !.st = "writing", !.data = op[cur].val]
  \/ /\ dev.st = "drq" /\ dev.cmd # "write" /\ dev.left > 1
     /\ dev' = [dev EXCEPT !.st = "reading", !.left = @ - 1]
  \/ /\ dev.st = "drq" /\ dev.cmd # "write" /\ dev.left = 1
     /\ dev' = [dev EXCEPT !.st = "idle"]
  \/ dev.st # "drq" /\ UNCHANGED dev

\* A chunk of several sectors: the host goes on, the device is not done with the last one.
Behind == secs(op[cur]) > 1 /\ op[cur].moved > 0 /\ dev.st \in {"reading", "writing"}

-----------------------------------------------------------------------------
(* The calling thread.                                                     *)

(***************************************************************************)
(* identify_disk(), called by ide_init() for both devices before anything  *)
(* is read: the protocol of a read of one chunk, but without the lock and  *)
(* so with the interrupt flag on.                                          *)
(***************************************************************************)
identify_disk ==
  /\ At("out") /\ intr /\ cur = main /\ all = Thread /\ identified < 2
  /\ op' = [op EXCEPT ![cur] = [NoOp EXCEPT !.kind = "identify"]]
  /\ goto("cmd")
  /\ UNCHANGED <<vars, syncVars, polls, ticked, buf, devVars, expecting, identified, iofail>>

\* The rest of it: the answer is printed and dropped.
identify_done ==
  /\ At("xfer") /\ op[cur].kind = "identify"
  /\ dev' = [dev EXCEPT !.st = "idle"]
  /\ op' = [op EXCEPT ![cur] = NoOp]
  /\ identified' = identified + 1
  /\ goto("out")
  /\ UNCHANGED <<vars, syncVars, polls, ticked, buf, media, irq, unseen, expecting, iofail>>

\* ide_read() and ide_write() up to and including lock_acquire().
ide_call ==
  /\ At("out") /\ intr /\ identified = 2
  /\ lock_acquire(chan)
  /\ \E k \in {"read", "write"}, n \in 1..MaxChunks, s \in 1..MaxSectors, v \in Data :
       /\ k = "read" => v = Blank
       /\ op' = [op EXCEPT ![cur] =
                   [kind |-> k, i |-> 1, n |-> n, last |-> s, moved |-> 0, val |-> v]]
  /\ buf' = [buf EXCEPT ![cur] = <<>>]
  /\ goto("cmd")
  /\ UNCHANGED <<polls, ticked, devVars, expecting, identified, iofail>>

\* Mutant: the handler is not told to expect an interrupt.
cmd_out_unexpected ==
  /\ At("cmd")
  /\ command
  /\ goto(IF op[cur].kind = "write" THEN "poll" ELSE "down0")
  /\ polls' = [polls EXCEPT ![cur] = PollLimit]
  /\ UNCHANGED <<vars, syncVars, op, ticked, buf, media, irq, unseen, expecting, identified, iofail>>

\* select_sector() and cmd_out(), then on to sema_down() or busy_wait().
cmd_out ==
  /\ At("cmd")
  /\ expecting' = TRUE
  /\ command
  /\ goto(IF op[cur].kind = "write" THEN "poll" ELSE "down0")
  /\ polls' = [polls EXCEPT ![cur] = PollLimit]
  /\ UNCHANGED <<vars, syncVars, op, ticked, buf, media, irq, unseen, identified, iofail>>

wait_intr ==
  /\ \/ At("down0") /\ sema_down_cli /\ goto("down") /\ UNCHANGED polls
     \/ At("down") /\ sema_wait(disk_done) /\ UNCHANGED <<pc, polls>>
     \/ /\ At("down") /\ sema_take(disk_done)
        /\ goto(IF op[cur].kind = "write" THEN "next" ELSE "poll")
        /\ polls' = [polls EXCEPT ![cur] = PollLimit]
  /\ unseen' = (unseen \/ Behind)
  /\ UNCHANGED <<op, ticked, buf, dev, media, irq, expecting, identified, iofail>>

\* Mutant: a set BSY bit does not keep the host from transferring.
busy_wait_ignores_bsy ==
  /\ At("poll")
  /\ goto("xfer")
  /\ UNCHANGED <<vars, syncVars, op, polls, ticked, buf, devVars, expecting, identified, iofail>>

(***************************************************************************)
(* One pass of the loop of busy_wait().  "time_limit -= 10 > 0" takes one  *)
(* off the limit.                                                          *)
(***************************************************************************)
busy_wait ==
  /\ At("poll")
  /\ polls' = [polls EXCEPT ![cur] = @ - 1]
  /\ goto(IF polls'[cur] = 0 THEN "fail"
          ELSE CASE dev.st \in BSY   -> "sleep"
                 [] dev.st = "drq"  -> "xfer"
                 [] dev.st = "err"  -> "err"
                 [] dev.st = "idle" -> "poll")
  /\ ticked' = [ticked EXCEPT ![cur] = FALSE]
  /\ UNCHANGED <<vars, syncVars, op, buf, devVars, expecting, identified, iofail>>

\* mtime_sleep(10): yield until ticks has advanced by one.
mtime_sleep ==
  /\ At("sleep")
  /\ IF ticked[cur]
     THEN goto("poll") /\ UNCHANGED vars
     ELSE thread_yield /\ UNCHANGED <<idlepc, pc>>
  /\ UNCHANGED <<syncVars, op, polls, ticked, buf, devVars, expecting, identified, iofail>>

\* What is left when the last sector is moved; a late device has delivered anything.
moved_all ==
  /\ goto(IF op[cur].kind = "read" THEN "next" ELSE "down0")
  /\ IF op[cur].kind = "read"
     THEN \E v \in Data : /\ ~unseen' => v = dev.data
                         /\ buf' = [buf EXCEPT ![cur] = Append(@, v)]
     ELSE UNCHANGED buf

\* Mutant: 256 sectors, sec_cnt 0 of read_from_sector(), are taken for none.
transfer_zero ==
  /\ At("xfer") /\ op[cur].kind # "identify"
  /\ unseen' = (unseen \/ Behind)
  /\ IF op[cur].kind = "read" /\ secs(op[cur]) = MaxSectors
     THEN moved_all /\ UNCHANGED <<op, dev>>
     ELSE /\ op' = [op EXCEPT ![cur].moved = @ + 1]
          /\ move_sector
          /\ IF op'[cur].moved = secs(op[cur]) THEN moved_all ELSE UNCHANGED <<pc, buf>>
  /\ UNCHANGED <<vars, syncVars, polls, ticked, media, irq, expecting, identified, iofail>>

(***************************************************************************)
(* The next sector of rep insw in read_from_sector() or of rep outsw in    *)
(* write_to_sector(): DRQ is not looked at between the sectors.            *)
(***************************************************************************)
transfer ==
  /\ At("xfer") /\ op[cur].kind # "identify"
  /\ unseen' = (unseen \/ Behind)
  /\ op' = [op EXCEPT ![cur].moved = @ + 1]
  /\ move_sector
  /\ IF op'[cur].moved = secs(op[cur]) THEN moved_all ELSE UNCHANGED <<pc, buf>>
  /\ UNCHANGED <<vars, syncVars, polls, ticked, media, irq, expecting, identified, iofail>>

\* Mutant: the loop ends one chunk early.
next_chunk_short ==
  /\ At("next")
  /\ lock_release(chan)
  /\ op' = [op EXCEPT ![cur] = NoOp]
  /\ goto("out")
  /\ UNCHANGED <<polls, ticked, buf, devVars, expecting, identified, iofail>>

\* The next chunk, or lock_release() and return.
next_chunk ==
  /\ At("next")
  /\ \/ /\ op[cur].i < op[cur].n
        /\ op' = [op EXCEPT ![cur].i = @ + 1, ![cur].moved = 0]
        /\ goto("cmd")
        /\ UNCHANGED <<vars, syncVars>>
     \/ /\ op[cur].i = op[cur].n
        /\ lock_release(chan)
        /\ op' = [op EXCEPT ![cur] = NoOp]
        /\ goto("out")
  /\ UNCHANGED <<polls, ticked, buf, devVars, expecting, identified, iofail>>

(***************************************************************************)
(* An error: check_ide_error() prints with kprintf_lock(), whose release   *)
(* of the console lock sets the interrupt flag, then panic(error).         *)
(***************************************************************************)
check_ide_error ==
  /\ At("err")
  /\ intr' = TRUE
  /\ goto("fail")
  /\ UNCHANGED <<queues, panicked, syncVars, op, polls, ticked, buf, devVars, expecting, identified, iofail>>

give_up ==
  /\ At("fail")
  /\ iofail' = TRUE
  /\ sync_panic
  /\ UNCHANGED <<userVars, devVars, expecting>>

\* Every other thread, and a user before its first call, enables interrupts;
\* main does so when it has started all threads.
enable ==
  /\ cur \in User => pc[cur] = "out"
  /\ cur = main => all = Thread
  /\ intr_enable
  /\ UNCHANGED <<syncVars, userVars, devVars, expecting, iofail>>

-----------------------------------------------------------------------------
(* The device and the interrupts.                                          *)

\* The device finds its command good, and asks for the first sector or offers it.
device_ready ==
  /\ dev.st = "busy"
  /\ \/ /\ dev' = [dev EXCEPT !.st = "drq",
                              !.data = IF dev.cmd = "read" THEN media[dev.i] ELSE @]
        /\ irq' = (irq \/ dev.cmd # "write")
     \/ /\ DeviceErrors
        /\ dev' = [dev EXCEPT !.st = "err"]
        /\ irq' = TRUE
  /\ UNCHANGED <<vars, syncVars, userVars, media, unseen, expecting, iofail>>

(***************************************************************************)
(* It is done with a sector: it stores the chunk, or goes on to the next   *)
(* sector, each with an interrupt.  An error is one the driver does not    *)
(* look for: it has left busy_wait() behind.                               *)
(***************************************************************************)
device_next ==
  /\ dev.st \in {"reading", "writing"}
  /\ \/ /\ dev.st = "writing" /\ dev.left = 1
        /\ \E v \in Data : /\ ~unseen => v = dev.data
                           /\ media' = [media EXCEPT ![dev.i] = v]
        /\ dev' = [dev EXCEPT !.st = "idle"]
        /\ UNCHANGED unseen
     \/ /\ dev.st = "writing" /\ dev.left > 1
        /\ dev' = [dev EXCEPT !.st = "drq", !.left = @ - 1]
        /\ UNCHANGED <<media, unseen>>
     \/ /\ dev.st = "reading"
        /\ dev' = [dev EXCEPT !.st = "drq"]
        /\ UNCHANGED <<media, unseen>>
     \/ /\ DeviceErrors
        /\ dev' = [dev EXCEPT !.st = "err"]
        /\ unseen' = TRUE
        /\ UNCHANGED media
  /\ irq' = TRUE
  /\ UNCHANGED <<vars, syncVars, userVars, expecting, iofail>>

\* Mutant: every interrupt of the channel counts as a completion.
hd_intr_handler_always ==
  /\ intr /\ irq
  /\ irq' = FALSE
  /\ idlepc' = IF cur = idle /\ idlepc = "hlt" THEN "loop" ELSE idlepc
  /\ expecting' = FALSE
  /\ sema_up(disk_done)
  /\ UNCHANGED <<userVars, dev, media, unseen, iofail>>

hd_intr_handler ==
  /\ intr /\ irq
  /\ irq' = FALSE
  /\ idlepc' = IF cur = idle /\ idlepc = "hlt" THEN "loop" ELSE idlepc
  /\ IF expecting
     THEN expecting' = FALSE /\ sema_up(disk_done)
     ELSE UNCHANGED <<expecting, status, ready, all, cur, ticks, intr, saved, panicked, syncVars>>
  /\ UNCHANGED <<userVars, dev, media, unseen, iofail>>

timer ==
  /\ timer_intr_handler
  /\ ticked' = [t \in User |-> TRUE]
  /\ UNCHANGED <<syncVars, pc, op, polls, buf, devVars, expecting, identified, iofail>>

idler ==
  /\ Served
  /\ idle_block \/ idle_hlt
  /\ UNCHANGED <<syncVars, userVars, devVars, expecting, iofail>>

boot ==
  /\ main \in User => pc[main] = "out"
  /\ start
  /\ UNCHANGED <<syncVars, userVars, devVars, expecting, iofail>>

user_step ==
  \/ identify_disk \/ identify_done
  \/ ide_call \/ cmd_out \/ wait_intr \/ busy_wait \/ mtime_sleep
  \/ transfer \/ next_chunk \/ check_ide_error \/ give_up

IdeNext ==
  /\ ~panicked
  /\ \/ user_step
     \/ enable
     \/ device_ready \/ device_next
     \/ hd_intr_handler
     \/ timer
     \/ idler
     \/ boot

(***************************************************************************)
(* The device answers, latched interrupts are served when the flag allows, *)
(* and a thread in a call goes on whenever it has the processor.           *)
(***************************************************************************)
IdeFairness ==
  /\ WF_ideVars(~panicked /\ (device_ready \/ device_next))
  /\ SF_ideVars(~panicked /\ hd_intr_handler)
  /\ SF_ideVars(~panicked /\ timer)
  /\ WF_ideVars(~panicked /\ enable)
  /\ WF_ideVars(~panicked /\ idler)
  /\ \A t \in User : SF_ideVars(~panicked /\ cur = t /\ pc[t] # "out" /\ user_step)

IdeSpec == IdeInit /\ [][IdeNext]_ideVars

IdeFairSpec == IdeSpec /\ IdeFairness

-----------------------------------------------------------------------------
(***************************************************************************)
(* With one thread on the channel no assertion and no panic("acquire") is  *)
(* reached, whatever interrupts come late: the semaphore is never raised   *)
(* twice.  The driver stops only because the device failed or timed out.   *)
(***************************************************************************)
DriverNoPanic == panicked => iofail

(***************************************************************************)
(* The host moves a sector only while the device requests it (DRQ),        *)
(* although a late interrupt of the previous chunk may have ended          *)
(* sema_down() early.  For the first sector of a chunk the driver sees to  *)
(* that; for the others it relies on a device that is ready for the next   *)
(* sector before the host moves another word, as the disk of Bochs is.     *)
(***************************************************************************)
TransferOnDrq ==
  [][\A t \in User : pc[t] = "xfer" /\ <<pc[t], op[t]>>' # <<pc[t], op[t]>>
                       => dev.st = "drq" \/ unseen']_ideVars

(***************************************************************************)
(* A command is issued only to a device that has finished the previous one:*)
(* always after chunks of one sector, and after longer ones if the device  *)
(* has kept pace with the host.                                            *)
(***************************************************************************)
CommandWhenIdle ==
  [][\A t \in User : pc[t] = "cmd" /\ pc'[t] # "cmd" => dev.st = "idle" \/ unseen]_ideVars

(***************************************************************************)
(* Every call returns, or the driver reports that the device failed.  This *)
(* needs another thread that is ready: mtime_sleep() yields with the flag  *)
(* off, so only another thread lets the timer tick.                        *)
(***************************************************************************)
IoCompletes == \A t \in User : pc[t] # "out" ~> pc[t] = "out" \/ iofail

(***************************************************************************)
(* A thread that asks for a lock another one holds waits for it: spinlock.c*)
(* says of spinlock_acquire() that it "Loops (spins) until the lock is     *)
(* acquired".                                                              *)
(***************************************************************************)
AcquireWaits == ~(panicked /\ locks[chan].locked /\ locks[chan].holder # cur)

(***************************************************************************)
(* The refinement mapping to Disk, for one user.                           *)
(***************************************************************************)
TheUser == CHOOSE t \in User : TRUE

AbstractRequest ==
  LET o == op[TheUser]
  IN CASE o.kind \in {"none", "identify"} -> [kind |-> "none"]
       [] o.kind = "read"  -> [kind |-> "read", n |-> o.n]
       [] o.kind = "write" -> [kind |-> "write", n |-> o.n, val |-> o.val]

\* The chunks of the request that have taken effect.
AbstractDone ==
  LET o == op[TheUser]
      here == \/ pc[TheUser] = "next"
              \/ o.kind = "write" /\ pc[TheUser] \in {"down0", "down"} /\ dev.st = "idle"
  IN o.i - (IF here \/ o.i = 0 THEN 0 ELSE 1)

D == INSTANCE Disk WITH
       req <- AbstractRequest, done <- AbstractDone, got <- buf[TheUser], void <- unseen

(***************************************************************************)
(* The driver implements the abstract disk for its one user: a chunk of a  *)
(* read takes effect when its last sector is transferred, one of a write   *)
(* when the device has stored it.  The promise ends when the device does   *)
(* what the driver does not look for: a request of one sector that the     *)
(* device carries out is kept whatever time it takes, a longer one only    *)
(* with a device that keeps pace.                                          *)
(***************************************************************************)
ImplementsDisk == D!DiskSpec
=============================================================================
