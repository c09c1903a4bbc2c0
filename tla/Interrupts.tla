----------------------------- MODULE Interrupts -----------------------------
(***************************************************************************)
(* From the interrupt lines to the handlers: the two 8259s as pic_init()   *)
(* of os/kernel/interrupt.c programs them, the entry stubs and intr_exit   *)
(* of os/kernel/kernel.S, and general_intr_handler(), on top of the        *)
(* threads of Scheduler.                                                   *)
(*                                                                         *)
(* The gates are interrupt gates: the flag is clear from the acknowledge   *)
(* cycle until iret, or until schedule() has switched to a thread that     *)
(* sets it.  What happens in between is one step.                          *)
(***************************************************************************)
EXTENDS Scheduler, FiniteSetsExt

CONSTANTS Timer, Keyboard, Disk    \* the lines in use: 0, 1 and 14

ASSUME LineAssumption == Timer = 0 /\ Keyboard = 1 /\ Disk = 14

VARIABLES
  irr,         \* the lines whose edge the 8259s have latched
  gone,        \* those of them that the device has withdrawn since
  isr          \* the interrupts in service; 2 is the cascade

picVars == <<irr, gone, isr>>

allVars == <<vars, picVars>>

Line == {Timer, Keyboard, Disk}

cascade == 2

Master == 0..7

Slave == 8..15

-----------------------------------------------------------------------------
\* The last OCW1 that pic_init() writes to the master and to the slave.
imr == [m |-> 248, s |-> 191]

unmasked(i) ==
  LET mask == IF i \in Master THEN imr.m ELSE imr.s
  IN (mask \div 2 ^ (i % 8)) % 2 = 0

\* ICW2 of the master is 0x20, of the slave 0x28.
vector(i) == IF i \in Master THEN 32 + i ELSE 40 + i - 8

\* ICW4 selects neither automatic EOI nor the special nested mode: an
\* interrupt in service holds back those of the same chip behind it.
grants(requests) ==
  {i \in requests : unmasked(i) /\ \A j \in isr : (j \in Master <=> i \in Master) => i < j}

slave_int == grants(irr \cap Slave)

master_int == grants((irr \cap Master) \cup (IF slave_int = {} THEN {} ELSE {cascade}))

\* INTR: the processor takes an interrupt before the next instruction.
pending == intr /\ master_int # {}

-----------------------------------------------------------------------------
(***************************************************************************)
(* The acknowledge cycle, as the set of vector, requests and interrupts in *)
(* service it may leave.  A request that is withdrawn in the last moment   *)
(* is answered with line 7 of the slave, or of the master if the slave has *)
(* withdrawn its own request too; line 7 is then not in service.           *)
(***************************************************************************)
acknowledge ==
  LET i == IF Min(master_int) = cascade THEN Min(slave_int) ELSE Min(master_int)
      chain == IF i \in Slave THEN {cascade} ELSE {}
  IN IF i \notin gone
     THEN {[vec |-> vector(i), irr |-> irr \ {i}, isr |-> isr \cup {i} \cup chain]}
     ELSE {[vec |-> vector(7), irr |-> irr \ {i}, isr |-> isr]}
          \cup {[vec |-> vector(15), irr |-> irr \ {i}, isr |-> isr \cup chain] : x \in chain}

first(s) == IF s = {} THEN {} ELSE {Min(s)}

\* Mutant: the slave is not told.
end_of_interrupt_master(s) == s \ first(s \cap Master)

\* Mutant: the master is not told.
end_of_interrupt_slave(s) == s \ first(s \cap Slave)

\* Every stub writes 0x20, the non-specific EOI, to 0xa0 and to 0x20, before
\* it calls the handler.
end_of_interrupt(s) == (s \ first(s \cap Slave)) \ first(s \cap Master)

hd_intr_handler(vec) ==
  IF vec = vector(Disk) THEN device_intr \/ quiet_intr ELSE panic /\ UNCHANGED idlepc

keyboard_intr_handler == quiet_intr

\* Mutant: the two spurious vectors are not recognised.
general_intr_handler_all(vec) ==
  \/ vec = 32 /\ timer_intr_handler
  \/ vec \in {46, 47} /\ hd_intr_handler(vec)
  \/ vec = 33 /\ keyboard_intr_handler
  \/ vec \notin {32, 33, 46, 47} /\ quiet_intr

\* The first vectors, of exceptions, do not occur here.
general_intr_handler(vec) ==
  \/ vec \in {39, 47} /\ quiet_intr
  \/ vec = 32 /\ timer_intr_handler
  \/ vec = 46 /\ hd_intr_handler(vec)
  \/ vec = 33 /\ keyboard_intr_handler

interrupt ==
  /\ pending
  /\ \E a \in acknowledge :
       /\ irr' = a.irr /\ gone' = gone \cap a.irr
       /\ isr' = end_of_interrupt(a.isr)
       /\ general_intr_handler(a.vec)

-----------------------------------------------------------------------------
(***************************************************************************)
(* A device raises its line; a request that waits already is not doubled.  *)
(* The handlers are shorter than the time between two edges: a request is  *)
(* not overtaken by one of higher priority that comes later.               *)
(***************************************************************************)
raise(i) ==
  /\ \A j \in irr : j <= i
  /\ irr' = irr \cup {i} /\ gone' = gone \ {i}
  /\ UNCHANGED <<vars, isr>>

\* A thread reads the status register of the disk (busy_wait() and others)
\* before the processor has taken the interrupt.
read_status ==
  /\ ~pending /\ cur # idle
  /\ gone' = gone \cup ({Disk} \cap irr)
  /\ UNCHANGED <<vars, irr, isr>>

between_interrupts(step) == ~panicked /\ ~pending /\ step /\ UNCHANGED picVars

thread_step ==
  between_interrupts(block \/ yield \/ unblock \/ start
                     \/ intr_enable \/ intr_disable \/ idle_block \/ idle_hlt)

\* idt_init() has run, the interrupt flag is still clear.
IntrInit == Init /\ irr = {} /\ gone = {} /\ isr = {}

IntrNext ==
  /\ ~panicked
  /\ \/ interrupt
     \/ \E i \in Line : raise(i)
     \/ read_status
     \/ thread_step

(***************************************************************************)
(* Fairness.  The processor takes an interrupt that stays pending; the     *)
(* 8253 goes on counting, whatever the other devices do; of the threads    *)
(* what Scheduler assumes, where idle gets on between two interrupts.      *)
(***************************************************************************)
IntrFairness ==
  /\ WF_allVars(~panicked /\ interrupt)
  /\ SF_allVars(~panicked /\ raise(Timer))
  /\ WF_allVars(between_interrupts(intr_enable))
  /\ SF_allVars(between_interrupts(idle_block))
  /\ SF_allVars(between_interrupts(idle_hlt))

IntrSpec == IntrInit /\ [][IntrNext]_allVars /\ IntrFairness

-----------------------------------------------------------------------------
(***************************************************************************)
(* Every request of a device is answered: no interrupt stays in service    *)
(* and holds back the others, through preemption in the timer's handler,   *)
(* through both 8259s and through requests that are withdrawn.             *)
(***************************************************************************)
RequestsServed == \A i \in Line : i \in irr ~> i \notin irr

Sched == INSTANCE Scheduler

(***************************************************************************)
(* Scheduler assumes that the timer is served whenever it can be again and *)
(* again (strong fairness).  The 8259s and the stubs provide that: with    *)
(* them every behaviour is one of the scheduler's.                         *)
(***************************************************************************)
ImplementsFairScheduler == Sched!FairSpec
=============================================================================
