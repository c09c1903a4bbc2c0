--------------------------- MODULE ProcessorProofs ---------------------------
(***************************************************************************)
(* The processor under Scheduler, for any threads, processes and time      *)
(* slices: how it takes interrupts (Interrupts), and whose memory and      *)
(* stack it works on (AddrSpace); and what its string instructions make of *)
(* an area of memory (StringClients).  Each is a specification of its own; *)
(* the theorems name the one they are about.                               *)
(***************************************************************************)
EXTENDS Interrupts, AddrSpace, StringClients, SchedulerProofs, WellFoundedInduction

(***************************************************************************)
(* What holds of the interrupt path: no interrupt is ever left in service, *)
(* and every step is one of Scheduler, so the theorems about Scheduler     *)
(* hold under the 8259s too.                                               *)
(***************************************************************************)
PicTypes == irr \subseteq Line /\ gone \subseteq Line /\ isr = {}

\* The least element of a set of one number.
LEMMA MinOfOne == ASSUME NEW i \in Nat PROVE Min({i}) = i
BY DEF Min

\* The master grants the timer, the keyboard or the cascade.
LEMMA MinOfMaster ==
  ASSUME NEW S \in SUBSET {0, 1, 2}, S # {}
  PROVE  Min(S) \in S
<1>1. CASE 0 \in S
  <2>1. \A x \in S : 0 <= x
    OBVIOUS
  <2> QED BY <1>1, <2>1 DEF Min
<1>2. CASE 0 \notin S /\ 1 \in S
  <2>1. \A x \in S : 1 <= x
    BY <1>2
  <2> QED BY <1>2, <2>1 DEF Min
<1>3. CASE 0 \notin S /\ 1 \notin S
  <2>1. S = {2}
    BY <1>3
  <2> QED BY <2>1, MinOfOne
<1> QED BY <1>1, <1>2, <1>3

(***************************************************************************)
(* The acknowledge cycle and the EOI of the stub leave no interrupt in     *)
(* service, and the vector is that of a device or a spurious one.          *)
(***************************************************************************)
LEMMA Acknowledged ==
  ASSUME PicTypes, master_int # {}, NEW a \in acknowledge
  PROVE  /\ a.irr \subseteq Line
         /\ end_of_interrupt(a.isr) = {}
         /\ a.vec \in {32, 33, 39, 46, 47}
<1>1. Line = {0, 1, 14} /\ Disk = 14
  BY LineAssumption DEF Line
<1>2. slave_int \subseteq {14}
  BY <1>1 DEF slave_int, grants, PicTypes, Slave
<1>3. master_int \subseteq {0, 1, 2}
  BY <1>1 DEF master_int, grants, PicTypes, Master, cascade
<1>4. 2 \in master_int => slave_int = {14}
  <2>1. master_int \subseteq (irr \cap Master) \cup (IF slave_int = {} THEN {} ELSE {cascade})
    BY DEF master_int, grants
  <2>2. 2 \notin irr
    BY <1>1 DEF PicTypes
  <2>3. 2 \in master_int => slave_int # {}
    BY <2>1, <2>2
  <2> QED BY <2>3, <1>2
<1> DEFINE i == IF Min(master_int) = cascade THEN Min(slave_int) ELSE Min(master_int)
           chain == IF i \in Slave THEN {cascade} ELSE {}
<1>5. i \in {0, 1, 14}
  <2>1. Min(master_int) \in master_int
    BY <1>3, MinOfMaster
  <2>2. CASE Min(master_int) = cascade
    BY <2>1, <2>2, <1>4, MinOfOne DEF cascade
  <2>3. CASE Min(master_int) # cascade
    BY <2>1, <2>3, <1>3 DEF cascade
  <2> QED BY <2>2, <2>3
<1>6. chain = IF i = 14 THEN {2} ELSE {}
  BY <1>5 DEF Slave, cascade
<1>7. end_of_interrupt({}) = {}
  BY DEF end_of_interrupt, first
<1>8. \A j \in {0, 1, 2} : end_of_interrupt({j}) = {}
  <2> SUFFICES ASSUME NEW j \in {0, 1, 2} PROVE end_of_interrupt({j}) = {}
    OBVIOUS
  <2>1. j \notin Slave /\ j \in Master
    BY DEF Slave, Master
  <2>2. {j} \cap Slave = {} /\ {j} \cap Master = {j} /\ {j} \ {} = {j} /\ {j} \ {j} = {}
    BY <2>1
  <2> QED BY <2>2, MinOfOne DEF end_of_interrupt, first
<1>9. end_of_interrupt({14} \cup {2}) = {}
  <2>1. ({14} \cup {2}) \cap Slave = {14} /\ ({14} \cup {2}) \cap Master = {2}
    BY DEF Slave, Master
  <2>2. first({14}) = {14} /\ first({2}) = {2}
    BY MinOfOne DEF first
  <2> QED BY <2>1, <2>2 DEF end_of_interrupt
<1>10. \A j \in {0, 1} : vector(j) = 32 + j
  BY DEF vector, Master
<1>11. vector(14) = 46 /\ vector(7) = 39 /\ vector(15) = 47
  BY DEF vector, Master
<1>12. CASE i \notin gone
  <2>1. a = [vec |-> vector(i), irr |-> irr \ {i}, isr |-> isr \cup {i} \cup chain]
    BY <1>12 DEF acknowledge
  <2>2. a.vec = vector(i) /\ a.irr = irr \ {i} /\ a.isr = {i} \cup chain
    BY <2>1 DEF PicTypes
  <2> HIDE DEF i, chain
  <2>3. end_of_interrupt(a.isr) = {}
    BY <2>2, <1>5, <1>6, <1>8, <1>9
  <2> QED BY <2>2, <2>3, <1>5, <1>10, <1>11 DEF PicTypes
<1>13. CASE i \in gone
  <2>1. \/ a = [vec |-> vector(7), irr |-> irr \ {i}, isr |-> isr]
        \/ a = [vec |-> vector(15), irr |-> irr \ {i}, isr |-> isr \cup chain]
    BY <1>13 DEF acknowledge
  <2>2. /\ a.vec \in {vector(7), vector(15)} /\ a.irr = irr \ {i}
        /\ a.isr = {} \/ a.isr = chain
    BY <2>1 DEF PicTypes
  <2> HIDE DEF i, chain
  <2>3. end_of_interrupt(a.isr) = {}
    BY <2>2, <1>6, <1>7, <1>8
  <2> QED BY <2>2, <2>3, <1>11 DEF PicTypes
<1> QED BY <1>12, <1>13

\* An interrupt is, for the threads, one of the three of Scheduler.
LEMMA HandlerStep ==
  ASSUME NEW vec \in {32, 33, 39, 46, 47}, ~panicked, general_intr_handler(vec)
  PROVE  Next
<1>1. vector(Disk) = 46
  BY LineAssumption DEF vector, Master
<1>2. timer_intr_handler \/ device_intr \/ quiet_intr
  BY <1>1 DEF general_intr_handler, hd_intr_handler, keyboard_intr_handler
<1> QED BY <1>2 DEF Next

\* Every step keeps PicTypes and is a step of Scheduler or leaves it alone.
LEMMA IntrStep == PicTypes /\ [IntrNext]_allVars => PicTypes' /\ [Next]_vars
<1> SUFFICES ASSUME PicTypes, [IntrNext]_allVars PROVE PicTypes' /\ [Next]_vars
  OBVIOUS
<1>1. CASE ~panicked /\ interrupt
  <2>1. master_int # {}
    BY <1>1 DEF interrupt, pending
  <2>2. PICK a \in acknowledge :
          /\ irr' = a.irr /\ gone' = gone \cap a.irr
          /\ isr' = end_of_interrupt(a.isr)
          /\ general_intr_handler(a.vec)
    BY <1>1 DEF interrupt
  <2>3. /\ a.irr \subseteq Line /\ end_of_interrupt(a.isr) = {}
        /\ a.vec \in {32, 33, 39, 46, 47}
    BY <2>1, Acknowledged
  <2>4. PicTypes'
    BY <2>2, <2>3 DEF PicTypes
  <2>5. Next
    BY <1>1, <2>2, <2>3, HandlerStep
  <2> QED BY <2>4, <2>5
<1>2. CASE \E i \in Line : raise(i)
  BY <1>2 DEF raise, PicTypes
<1>3. CASE read_status
  BY <1>3 DEF read_status, PicTypes, Line
<1>4. CASE thread_step
  <2>1. Next
    BY <1>4 DEF thread_step, between_interrupts, Next
  <2>2. UNCHANGED picVars
    BY <1>4 DEF thread_step, between_interrupts
  <2> QED BY <2>1, <2>2 DEF PicTypes, picVars
<1>5. CASE UNCHANGED allVars
  BY <1>5 DEF allVars, picVars, PicTypes
<1> QED BY <1>1, <1>2, <1>3, <1>4, <1>5 DEF IntrNext

(***************************************************************************)
(* Outside the stubs no interrupt is in service: none of the three lines   *)
(* can be held back by an earlier one (kernel.S:455).                      *)
(***************************************************************************)
THEOREM NoneInService == IntrSpec => [](isr = {})
<1>1. IntrInit => PicTypes
  BY DEF IntrInit, PicTypes
<1>2. PicTypes => isr = {}
  BY DEF PicTypes
<1> QED BY <1>1, <1>2, IntrStep, PTL DEF IntrSpec

(***************************************************************************)
(* Under the 8259s, with spurious and withdrawn requests, the threads do   *)
(* what Scheduler allows.                                                  *)
(***************************************************************************)
THEOREM InterruptsRefine == IntrSpec => Spec
<1>1. IntrInit => PicTypes /\ Init
  BY DEF IntrInit, PicTypes
<1> QED BY <1>1, IntrStep, PTL DEF IntrSpec, Spec

(***************************************************************************)
(* No assertion of thread.c fails and no vector reaches a handler that     *)
(* asserts it does not get it (ide.c:366).                                 *)
(***************************************************************************)
THEOREM InterruptsAssertionsHold == IntrSpec => []NoPanic
BY InterruptsRefine, AssertionsHold

-----------------------------------------------------------------------------
(***************************************************************************)
(* The process that runs has its own page directory and its own kernel     *)
(* stack.  The invariant says what process_activate() relies on, that a    *)
(* process which schedule() can choose has its pgdir, and that tss.esp0 is *)
(* right before user mode is entered.                                      *)
(***************************************************************************)
Created == \A t \in Process : t \in all => pgdir[t] = t

AddrInv ==
  /\ IInv
  /\ pgdir \in [Thread -> Thread \cup {NULL, Wild}]
  /\ user \subseteq Process
  /\ Created
  /\ cur \in Process => cr3 = cur /\ esp0 = cur

-----------------------------------------------------------------------------
\* The steps of the threads that switch between them or wake them.
Switching ==
  \/ block \/ yield \/ unblock \/ idle_block \/ idle_hlt
  \/ timer_intr_handler \/ device_intr \/ quiet_intr \/ intr_enable \/ intr_disable

\* No thread is created by a switch.
LEMMA SwitchingKeepsAll == Switching => all' = all
BY DEF Switching, block, yield, unblock, idle_block, idle_hlt, timer_intr_handler,
       device_intr, quiet_intr, intr_enable, intr_disable, thread_block, thread_yield,
       thread_unblock, schedule, switch_to, panic

(***************************************************************************)
(* Whichever thread a step switches to, process_activate() gives it its    *)
(* directory and its stack.                                                *)
(***************************************************************************)
LEMMA ActivateStep ==
  ASSUME AddrInv, Switching, activate, UNCHANGED <<pgdir, user>>
  PROVE  AddrInv' /\ Next
<1>1. Next
  BY DEF Switching, Next, AddrInv, IInv
<1>2. IInv'
  BY <1>1, NextIInv DEF AddrInv
<1>3. all' = all
  BY SwitchingKeepsAll
<1>4. Created'
  BY <1>3 DEF Created, AddrInv
<1>5. ASSUME cur' \in Process PROVE cr3' = cur' /\ esp0' = cur'
  <2>1. CASE cur' = cur
    BY <1>5, <2>1 DEF activate, AddrInv
  <2>2. CASE cur' # cur
    <3>1. cur' \in Thread /\ cur' \in all'
      BY <1>2 DEF IInv, Consistent, OneRunning, TypeOK
    <3>2. pgdir[cur'] = cur'
      BY <1>3, <1>5, <3>1 DEF AddrInv, Created
    <3>3. cur' # NULL /\ cur' # Wild
      BY <3>1, ProcessAssumption
    <3>4. cr3' = page_dir_activate(cur') /\ esp0' = cur'
      BY <2>2, <3>2, <3>3 DEF activate, process_activate, update_tss_esp
    <3> QED BY <3>2, <3>3, <3>4 DEF page_dir_activate
  <2> QED BY <2>1, <2>2
<1> QED BY <1>1, <1>2, <1>4, <1>5 DEF AddrInv

LEMMA CreateStep == ASSUME AddrInv, create PROVE AddrInv' /\ Next
<1>1. PICK t \in Thread : thread_start(t) /\ pgdir' = [pgdir EXCEPT ![t] = created(t)]
  BY DEF create
<1>2. UNCHANGED <<cr3, esp0, user>>
  BY DEF create
<1>3. Next
  BY <1>1 DEF Next, start, AddrInv, IInv
<1>4. IInv'
  BY <1>3, NextIInv DEF AddrInv
<1>5. cur' = cur /\ all' = all \cup {t}
  BY <1>1, <1>4 DEF thread_start, panic, IInv
<1>6. created(t) \in Thread \cup {NULL, Wild} /\ (t \in Process => created(t) = t)
  BY DEF created, Thread_init
<1>7. pgdir' \in [Thread -> Thread \cup {NULL, Wild}]
  BY <1>1, <1>6 DEF AddrInv
<1>8. Created'
  <2>1. \A u \in Thread : pgdir'[u] = IF u = t THEN created(t) ELSE pgdir[u]
    BY <1>1 DEF AddrInv
  <2>2. Process \subseteq Thread
    BY ProcessAssumption
  <2> QED BY <1>5, <1>6, <2>1, <2>2 DEF Created, AddrInv
<1> QED BY <1>2, <1>3, <1>4, <1>5, <1>7, <1>8 DEF AddrInv

LEMMA GetAPageStep == ASSUME AddrInv, get_a_page PROVE AddrInv' /\ Next
<1>1. (intr_enable \/ intr_disable) /\ UNCHANGED addrVars
  BY DEF get_a_page
<1>2. Next
  BY <1>1 DEF Next, AddrInv, IInv
<1>3. IInv'
  BY <1>2, NextIInv DEF AddrInv
<1>4. UNCHANGED <<all, cur>>
  BY <1>1 DEF intr_enable, intr_disable
<1> QED BY <1>1, <1>2, <1>3, <1>4 DEF AddrInv, Created, addrVars

LEMMA EnterUserStep == ASSUME AddrInv, enter_user PROVE AddrInv' /\ [Next]_vars
<1>1. /\ cur \in Process /\ user' = user \cup {cur} /\ intr' = TRUE
      /\ UNCHANGED <<status, ready, all, cur, ticks, saved, idlepc, panicked, pgdir, cr3, esp0>>
  BY DEF enter_user, intr_exit
<1>2. cur # idle /\ intr \in BOOLEAN
  BY <1>1, ProcessAssumption DEF AddrInv, IInv, TypeOK
<1>3. [Next]_vars
  <2>1. CASE ~intr
    BY <1>1, <1>2, <2>1 DEF Next, intr_enable, AddrInv, IInv
  <2>2. CASE intr
    BY <1>1, <1>2, <2>2 DEF vars
  <2> QED BY <2>1, <2>2
<1>4. IInv'
  BY <1>3, NextIInv DEF AddrInv
<1> QED BY <1>1, <1>3, <1>4 DEF AddrInv, Created

-----------------------------------------------------------------------------
LEMMA InitAddrInv == AddrInit => AddrInv
<1> SUFFICES ASSUME AddrInit PROVE AddrInv
  OBVIOUS
<1>1. IInv /\ cur = main /\ all = {main, idle}
  BY InitIInv DEF AddrInit, Init
<1>2. pgdir \in [Thread -> Thread \cup {NULL, Wild}]
  <2>1. created(main) \in Thread \cup {NULL, Wild} /\ created(idle) \in Thread \cup {NULL, Wild}
    BY ThreadAssumption DEF created, Thread_init
  <2> QED BY <2>1 DEF AddrInit
<1>3. main \notin Process /\ idle \notin Process
  BY ProcessAssumption
<1> QED BY <1>1, <1>2, <1>3 DEF AddrInv, AddrInit, Created

LEMMA AddrStep == AddrInv /\ [AddrNext]_spaceVars => AddrInv' /\ [Next]_vars
<1> SUFFICES ASSUME AddrInv, [AddrNext]_spaceVars PROVE AddrInv' /\ [Next]_vars
  OBVIOUS
<1>1. CASE create
  BY <1>1, CreateStep
<1>2. CASE kernel_code
  BY <1>2, ActivateStep DEF kernel_code, Switching
<1>3. CASE get_a_page
  BY <1>3, GetAPageStep
<1>4. CASE enter_user
  BY <1>4, EnterUserStep
<1>5. CASE take_interrupt
  BY <1>5, ActivateStep DEF take_interrupt, Switching
<1>6. CASE UNCHANGED spaceVars
  <2>1. UNCHANGED vars /\ UNCHANGED addrVars
    BY <1>6 DEF spaceVars
  <2>2. IInv'
    BY <2>1, NextIInv DEF AddrInv
  <2> QED BY <2>1, <2>2 DEF AddrInv, Created, vars, addrVars
<1> QED BY <1>1, <1>2, <1>3, <1>4, <1>5, <1>6 DEF AddrNext

THEOREM AddrInvariance == AddrSpec => []AddrInv
BY InitAddrInv, AddrStep, PTL DEF AddrSpec

(***************************************************************************)
(* A process that runs uses its own page directory, whichever path of      *)
(* schedule() gave it the processor.                                       *)
(***************************************************************************)
THEOREM ProcessesRunInOwnSpace == AddrSpec => []RunsInOwnSpace
<1>1. AddrInv => RunsInOwnSpace
  BY DEF AddrInv, RunsInOwnSpace
<1> QED BY <1>1, AddrInvariance, PTL

(***************************************************************************)
(* An interrupt in user mode starts on the stack of the process it         *)
(* interrupts, so running_thread() is that process.                        *)
(***************************************************************************)
THEOREM UserStackIsOwn == AddrSpec => []StackIsOwn
<1>1. AddrInv => StackIsOwn
  BY DEF AddrInv, StackIsOwn
<1> QED BY <1>1, AddrInvariance, PTL
-----------------------------------------------------------------------------
(***************************************************************************)
(* string.c and the instructions it is made of.  Copies of any number of   *)
(* words and bytes are one move, overlapping ones of memmove() included;   *)
(* comparisons read two strings up to the place where they part.           *)
(***************************************************************************)
LEMMA Least ==
  ASSUME NEW S \in SUBSET Nat, S # {}
  PROVE  \E x \in S : \A y \in S : x <= y
<1>1. \E x \in S : \A y \in S : ~(<<y, x>> \in OpToRel(<, Nat))
  BY NatLessThanWellFounded, WFMin
<1>2. PICK x \in S : \A y \in S : ~(<<y, x>> \in OpToRel(<, Nat))
  BY <1>1
<1>3. ASSUME NEW y \in S PROVE x <= y
  <2>1. <<y, x>> \in Nat \X Nat /\ ~(y < x)
    BY <1>2 DEF OpToRel
  <2> QED BY <2>1
<1> QED BY <1>3

LEMMA MinIs ==
  ASSUME NEW S \in SUBSET Nat, S # {}
  PROVE  Min(S) \in S /\ \A y \in S : Min(S) <= y
BY Least DEF Min

LEMMA MinOfTwo ==
  ASSUME NEW i \in Nat, NEW j \in Nat
  PROVE  Min({i, j}) = IF i <= j THEN i ELSE j
<1>1. Min({i, j}) \in {i, j} /\ \A y \in {i, j} : Min({i, j}) <= y
  BY MinIs
<1> QED BY <1>1

-----------------------------------------------------------------------------
(* Copies.                                                                  *)

\* The recursion of moves().
Moving(m, d, s, Ws, h) ==
  h = [i \in 0..Len(Ws) |-> IF i = 0 THEN m ELSE move(h[i - 1], d, s, Ws[i])]

\* Moves none of which reads what an earlier one has written are one move.
LEMMA MovesAreOne ==
  ASSUME NEW D \in SUBSET Int, NEW m \in [D -> Int], NEW d \in Int, NEW s \in Int,
         NEW Ws \in Seq(SUBSET Int),
         NEW V, \A x : x \in V <=> \E k \in 1..Len(Ws) : x \in Ws[k],
         \A k \in 1..Len(Ws) : \A x \in Ws[k] : s + x \in D,
         \A l \in 1..Len(Ws) : \A k \in 1..(l - 1) : \A x \in Ws[k], y \in Ws[l] : d + x # s + y
  PROVE  moves(m, d, s, Ws) = move(m, d, s, V)
<1> DEFINE n == Len(Ws)
           U(i) == UNION {Ws[k] : k \in 1..i}
           f == CHOOSE h : Moving(m, d, s, Ws, h)
           g == [i \in 0..n |-> move(m, d, s, U(i))]
           B == {i \in Nat : i <= n => f[i] = g[i]}
<1>1. moves(m, d, s, Ws) = f[n]
  BY DEF moves, Moving
<1>2. n \in Nat /\ \A k \in 1..n : Ws[k] \in SUBSET Int
  OBVIOUS
<1>3. move(m, d, s, U(0)) = m
  <2>1. U(0) = {}
    OBVIOUS
  <2> HIDE DEF U
  <2> QED BY <2>1 DEF move
<1>4. ASSUME NEW i \in 1..n
      PROVE  move(m, d, s, U(i)) = move(move(m, d, s, U(i - 1)), d, s, Ws[i])
  <2> DEFINE p == move(m, d, s, U(i - 1))
  <2>1. \A x : x \in U(i) <=> x \in U(i - 1) \/ x \in Ws[i]
    BY <1>2, <1>4
  <2>2. \A x \in U(i - 1), y \in Ws[i] : d + x # s + y
    BY <1>2, <1>4
  <2>3. U(i - 1) \subseteq Int /\ Ws[i] \subseteq Int /\ \A y \in Ws[i] : s + y \in D
    BY <1>2, <1>4
  <2> HIDE DEF U
  <2>4. p = [a \in D |-> IF a - d \in U(i - 1) THEN m[s + (a - d)] ELSE m[a]]
    BY DEF move
  <2>5. ASSUME NEW y \in Ws[i] PROVE p[s + y] = m[s + y]
    <3>1. s + y \in D /\ y \in Int
      BY <2>3
    <3>2. (s + y) - d \notin U(i - 1)
      <4>1. SUFFICES ASSUME (s + y) - d \in U(i - 1) PROVE FALSE
        OBVIOUS
      <4>2. d + ((s + y) - d) # s + y
        BY <2>2, <4>1
      <4> QED BY <3>1, <4>2
    <3> QED BY <2>4, <3>1, <3>2
  <2> HIDE DEF p
  <2>6. \A a \in D : a - d \in Ws[i] => p[s + (a - d)] = m[s + (a - d)]
    BY <2>5
  <2>7. move(p, d, s, Ws[i]) = [a \in D |-> IF a - d \in Ws[i] THEN p[s + (a - d)] ELSE p[a]]
    BY <2>4 DEF move
  <2>8. move(m, d, s, U(i)) = [a \in D |-> IF a - d \in U(i) THEN m[s + (a - d)] ELSE m[a]]
    BY DEF move
  <2>9. ASSUME NEW a \in D
        PROVE  (IF a - d \in U(i) THEN m[s + (a - d)] ELSE m[a])
               = IF a - d \in Ws[i] THEN p[s + (a - d)] ELSE p[a]
    BY <2>1, <2>4, <2>6
  <2> QED BY <2>7, <2>8, <2>9 DEF p
<1> HIDE DEF U
<1>5. Moving(m, d, s, Ws, g)
  <2>1. ASSUME NEW i \in 0..n
        PROVE  g[i] = IF i = 0 THEN m ELSE move(g[i - 1], d, s, Ws[i])
    <3>1. CASE i = 0
      BY <1>2, <1>3, <3>1
    <3>2. CASE i # 0
      <4>1. i \in 1..n /\ i - 1 \in 0..n
        BY <1>2, <3>2
      <4>2. g[i] = move(m, d, s, U(i)) /\ g[i - 1] = move(m, d, s, U(i - 1))
        BY <4>1
      <4> HIDE DEF g
      <4> QED BY <1>4, <3>2, <4>1, <4>2
    <3> QED BY <3>1, <3>2
  <2>2. g = [i \in 0..n |-> g[i]]
    OBVIOUS
  <2> HIDE DEF g
  <2>3. g = [i \in 0..n |-> IF i = 0 THEN m ELSE move(g[i - 1], d, s, Ws[i])]
    BY <2>1, <2>2
  <2> QED BY <2>3 DEF Moving
<1>6. Moving(m, d, s, Ws, f)
  BY <1>5
<1> HIDE DEF f
<1>7. /\ f[0] = m /\ g[0] = m
      /\ \A i \in 1..n : f[i] = move(f[i - 1], d, s, Ws[i]) /\ g[i] = move(g[i - 1], d, s, Ws[i])
  <2>1. ASSUME NEW h, Moving(m, d, s, Ws, h)
        PROVE  h[0] = m /\ \A i \in 1..n : h[i] = move(h[i - 1], d, s, Ws[i])
    <3>1. \A i \in 0..n : h[i] = IF i = 0 THEN m ELSE move(h[i - 1], d, s, Ws[i])
      BY <2>1 DEF Moving
    <3>2. 0 \in 0..n /\ \A i \in 1..n : i \in 0..n /\ i # 0
      BY <1>2
    <3> QED BY <3>1, <3>2
  <2> HIDE DEF g
  <2> QED BY <1>5, <1>6, <2>1
<1> HIDE DEF g
<1>8. B = Nat
  <2>1. SUFFICES ASSUME Nat \ B # {} PROVE FALSE
    OBVIOUS
  <2>2. PICK i \in Nat \ B : \A j \in Nat \ B : i <= j
    BY <2>1, Least
  <2>3. i # 0 /\ i <= n /\ i \in 1..n
    BY <1>2, <1>7, <2>2
  <2>4. i - 1 \in Nat /\ i - 1 \in B /\ i - 1 <= n
    BY <1>2, <2>2, <2>3
  <2> QED BY <1>7, <2>2, <2>3, <2>4
<1>9. f[n] = g[n]
  BY <1>2, <1>8
<1>10. U(n) = V
  BY <1>2 DEF U
<1> QED BY <1>1, <1>2, <1>9, <1>10 DEF g

LEMMA Times ==
  ASSUME NEW i \in Nat, NEW j \in Nat, i <= j
  PROVE  Word * i \in Nat /\ Word * j \in Nat /\ Word * i <= Word * j /\ Word * (i + 1) = Word * i + Word
<1>1. Word \in Nat
  BY StringsAssumption
<1>2. j - i \in Nat /\ j = i + (j - i)
  OBVIOUS
<1>3. ASSUME NEW k \in Nat PROVE Word * i <= Word * (i + k)
  <2>1. Word * (i + k) = Word * i + Word * k /\ Word * k \in Nat /\ Word * i \in Nat
    BY <1>1
  <2> QED BY <2>1
<1> QED BY <1>1, <1>2, <1>3

\* The offsets that memcpy() moves, one instruction after the other.
Words(n) ==
  LET q == n \div Word
  IN [i \in 1..(q + (n % Word)) |->
       IF i <= q THEN Word * (i - 1)..(Word * i - 1) ELSE {Word * q + (i - q) - 1}]

LEMMA WordsCover ==
  ASSUME NEW n \in Nat
  PROVE  /\ Words(n) \in Seq(SUBSET Int)
         /\ \A x : x \in 0..(n - 1) <=> \E k \in 1..Len(Words(n)) : x \in Words(n)[k]
         /\ \A l \in 1..Len(Words(n)) : \A k \in 1..(l - 1) :
              \A x \in Words(n)[k], y \in Words(n)[l] : x < y
<1> DEFINE q == n \div Word
           r == n % Word
           W == Words(n)
<1>1. q \in Nat /\ r \in Nat /\ Word \in Nat \ {0} /\ n = Word * q + r
  <2>1. Word \in Nat \ {0}
    BY StringsAssumption
  <2> QED BY <2>1
<1>2. W = [i \in 1..(q + r) |-> IF i <= q THEN Word * (i - 1)..(Word * i - 1) ELSE {Word * q + (i - q) - 1}]
  BY DEF Words
<1> HIDE DEF q, r, W
<1>3. Word * q \in Nat
  BY <1>1, Times
<1>4. ASSUME NEW i \in 1..q
      PROVE  /\ Word * (i - 1) \in Nat /\ Word * i \in Nat /\ Word * i = Word * (i - 1) + Word
             /\ Word * i <= Word * q
             /\ W[i] = Word * (i - 1)..(Word * i - 1)
  <2>1. i - 1 \in Nat /\ i \in Nat /\ i - 1 <= i /\ (i - 1) + 1 = i /\ i <= q /\ i \in 1..(q + r)
    BY <1>1
  <2>2. Word * (i - 1) \in Nat /\ Word * ((i - 1) + 1) = Word * (i - 1) + Word
    BY <2>1, Times
  <2>3. Word * i \in Nat /\ Word * i <= Word * q
    BY <1>1, <2>1, Times
  <2> QED BY <1>2, <2>1, <2>2, <2>3
<1>5. ASSUME NEW i \in (q + 1)..(q + r) PROVE W[i] = {Word * q + (i - q) - 1}
  <2>1. i \in 1..(q + r) /\ ~(i <= q)
    BY <1>1
  <2> QED BY <1>2, <2>1
<1>6. \A i \in 1..(q + r) : i \in 1..q \/ i \in (q + 1)..(q + r)
  BY <1>1
<1>7. W \in Seq(SUBSET Int) /\ Len(W) = q + r
  <2>1. \A i \in 1..(q + r) : W[i] \in SUBSET Int
    <3> TAKE i \in 1..(q + r)
    <3>1. CASE i \in 1..q
      BY <1>4, <3>1
    <3>2. CASE i \in (q + 1)..(q + r)
      BY <1>1, <1>3, <1>5, <3>2
    <3> QED BY <1>6, <3>1, <3>2
  <2>2. W \in [1..(q + r) -> SUBSET Int]
    BY <1>2, <2>1
  <2> QED BY <1>1, <2>2
<1>8. ASSUME NEW i \in 1..(q + r), NEW x \in W[i] PROVE x \in 0..(n - 1)
  <2>1. CASE i \in 1..q
    <3>1. W[i] = Word * (i - 1)..(Word * i - 1) /\ Word * (i - 1) \in Nat
          /\ Word * i \in Nat /\ Word * i <= Word * q
      BY <1>4, <2>1
    <3>2. x \in Word * (i - 1)..(Word * i - 1)
      BY <1>8, <3>1
    <3> QED BY <1>1, <1>3, <3>1, <3>2
  <2>2. CASE i \in (q + 1)..(q + r)
    <3>1. x = Word * q + (i - q) - 1
      BY <1>5, <1>8, <2>2
    <3> QED BY <1>1, <1>3, <2>2, <3>1
  <2> QED BY <1>6, <2>1, <2>2
<1>9. ASSUME NEW x \in 0..(n - 1) PROVE \E i \in 1..(q + r) : x \in W[i]
  <2>1. CASE x < Word * q
    <3> DEFINE j == x \div Word
    <3>1. j \in Nat /\ Word * j <= x /\ x < Word * j + Word
      BY <1>1
    <3> HIDE DEF j
    <3>2. j + 1 \in 1..q
      <4>1. CASE q <= j
        <5>1. Word * q <= Word * j /\ Word * j \in Nat
          BY <1>1, <3>1, <4>1, Times
        <5> QED BY <1>3, <2>1, <3>1, <5>1
      <4> QED BY <1>1, <3>1, <4>1
    <3>3. (j + 1) - 1 = j /\ j + 1 \in 1..(q + r)
      BY <1>1, <3>1, <3>2
    <3>4. W[j + 1] = Word * j..(Word * (j + 1) - 1) /\ Word * (j + 1) = Word * j + Word
          /\ Word * j \in Nat
      BY <1>4, <3>2, <3>3
    <3>5. x \in W[j + 1]
      BY <1>1, <3>1, <3>4
    <3> QED BY <3>3, <3>5
  <2>2. CASE ~(x < Word * q)
    <3> DEFINE i == (x - Word * q) + 1 + q
    <3>1. i \in (q + 1)..(q + r) /\ Word * q + (i - q) - 1 = x /\ i \in 1..(q + r)
      BY <1>1, <1>3, <2>2
    <3> HIDE DEF i
    <3> QED BY <1>5, <3>1
  <2> QED BY <2>1, <2>2
<1>10. \A x : x \in 0..(n - 1) <=> \E k \in 1..Len(W) : x \in W[k]
  BY <1>7, <1>8, <1>9
<1>11. ASSUME NEW l \in 1..(q + r), NEW k \in 1..(l - 1), NEW x \in W[k], NEW y \in W[l]
       PROVE  x < y
  <2>1. CASE l <= q
    <3>1. l \in 1..q /\ k \in 1..q /\ k \in Nat /\ l - 1 \in Nat /\ k <= l - 1
      BY <1>1, <2>1
    <3>2. Word * k <= Word * (l - 1) /\ Word * k \in Nat /\ Word * (l - 1) \in Nat
      BY <3>1, Times
    <3>3. W[k] = Word * (k - 1)..(Word * k - 1) /\ W[l] = Word * (l - 1)..(Word * l - 1)
      BY <1>4, <3>1
    <3>4. Word * (k - 1) \in Nat /\ Word * l \in Nat
      BY <1>4, <3>1
    <3> QED BY <1>11, <3>2, <3>3, <3>4
  <2>2. CASE ~(l <= q) /\ k <= q
    <3>1. l \in (q + 1)..(q + r) /\ k \in 1..q
      BY <1>1, <2>2
    <3>2. y = Word * q + (l - q) - 1 /\ W[k] = Word * (k - 1)..(Word * k - 1)
      BY <1>4, <1>5, <1>11, <3>1
    <3>3. Word * (k - 1) \in Nat /\ Word * k \in Nat /\ Word * k <= Word * q
      BY <1>4, <3>1
    <3> QED BY <1>1, <1>3, <1>11, <3>1, <3>2, <3>3
  <2>3. CASE ~(l <= q) /\ ~(k <= q)
    <3>1. l \in (q + 1)..(q + r) /\ k \in (q + 1)..(q + r)
      BY <1>1, <2>3
    <3>2. y = Word * q + (l - q) - 1 /\ x = Word * q + (k - q) - 1
      BY <1>5, <1>11, <3>1
    <3> QED BY <1>1, <1>3, <3>1, <3>2
  <2> QED BY <2>1, <2>2, <2>3
<1> QED BY <1>7, <1>10, <1>11 DEF W

(***************************************************************************)
(* memcpy() is one move when no byte it writes is read later, and so is    *)
(* the copy from the last byte to the first when no byte is read earlier.  *)
(***************************************************************************)
LEMMA MemcpyIs ==
  ASSUME NEW D \in SUBSET Int, NEW m \in [D -> Int], NEW d \in Int, NEW s \in Int, NEW n \in Nat,
         \A x \in 0..(n - 1) : s + x \in D,
         \A x, y \in 0..(n - 1) : x < y => d + x # s + y
  PROVE  memcpy(m, d, s, n) = move(m, d, s, 0..(n - 1))
<1> DEFINE W == Words(n)
<1>1. memcpy(m, d, s, n) = moves(m, d, s, W)
  BY DEF memcpy, Words
<1>2. /\ W \in Seq(SUBSET Int) /\ \A x : x \in 0..(n - 1) <=> \E k \in 1..Len(W) : x \in W[k]
      /\ \A l \in 1..Len(W) : \A k \in 1..(l - 1) : \A x \in W[k], y \in W[l] : x < y
  BY WordsCover
<1> HIDE DEF W
<1>3. \A k \in 1..Len(W) : W[k] \subseteq 0..(n - 1)
  BY <1>2
<1>4. \A k \in 1..Len(W) : \A x \in W[k] : s + x \in D
  BY <1>3
<1>5. ASSUME NEW l \in 1..Len(W), NEW k \in 1..(l - 1), NEW x \in W[k], NEW y \in W[l]
      PROVE  d + x # s + y
  <2>1. k \in 1..Len(W) /\ x < y
    BY <1>2, <1>5
  <2> QED BY <1>3, <2>1
<1>6. \A l \in 1..Len(W) : \A k \in 1..(l - 1) : \A x \in W[k], y \in W[l] : d + x # s + y
  BY <1>5
<1> DEFINE V == 0..(n - 1)
<1>7. \A x : x \in V <=> \E k \in 1..Len(W) : x \in W[k]
  BY <1>2
<1> HIDE DEF V
<1>8. moves(m, d, s, W) = move(m, d, s, V)
  BY <1>2, <1>4, <1>6, <1>7, MovesAreOne
<1> QED BY <1>1, <1>8 DEF V

\* Single bytes, in order or from the last one on.
LEMMA BytesAreOne ==
  ASSUME NEW D \in SUBSET Int, NEW m \in [D -> Int], NEW d \in Int, NEW s \in Int, NEW n \in Nat,
         \A x \in 0..(n - 1) : s + x \in D
  PROVE  /\ (\A x, y \in 0..(n - 1) : x < y => d + x # s + y) =>
              moves(m, d, s, [i \in 1..n |-> {i - 1}]) = move(m, d, s, 0..(n - 1))
         /\ (\A x, y \in 0..(n - 1) : x < y => d + y # s + x) =>
              moves(m, d, s, [i \in 1..n |-> {n - i}]) = move(m, d, s, 0..(n - 1))
<1> DEFINE F == [i \in 1..n |-> {i - 1}]
           G == [i \in 1..n |-> {n - i}]
           V == 0..(n - 1)
<1>1. /\ F \in Seq(SUBSET Int) /\ Len(F) = n /\ \A k \in 1..n : F[k] = {k - 1}
      /\ G \in Seq(SUBSET Int) /\ Len(G) = n /\ \A k \in 1..n : G[k] = {n - k}
  <2>1. F \in [1..n -> SUBSET Int] /\ G \in [1..n -> SUBSET Int]
    OBVIOUS
  <2> QED BY <2>1
<1> HIDE DEF F, G, V
<1>2. \A k \in 1..n : (\A x \in F[k] : s + x \in D) /\ (\A x \in G[k] : s + x \in D)
  <2> TAKE k \in 1..n
  <2>1. k - 1 \in 0..(n - 1) /\ n - k \in 0..(n - 1) /\ F[k] = {k - 1} /\ G[k] = {n - k}
    BY <1>1
  <2> QED BY <2>1
<1>3. \A x : x \in 0..(n - 1) <=> \E k \in 1..n : x \in F[k]
  <2>1. \A k \in 1..n : k - 1 \in 0..(n - 1)
    OBVIOUS
  <2>2. \A x \in 0..(n - 1) : x + 1 \in 1..n /\ x \in {(x + 1) - 1}
    OBVIOUS
  <2>3. \A x \in 0..(n - 1) : \E k \in 1..n : x \in F[k]
    BY <1>1, <2>2
  <2> QED BY <1>1, <2>1, <2>3
<1>4. \A x : x \in 0..(n - 1) <=> \E k \in 1..n : x \in G[k]
  <2>1. \A k \in 1..n : n - k \in 0..(n - 1)
    OBVIOUS
  <2>2. \A x \in 0..(n - 1) : n - x \in 1..n /\ x \in {n - (n - x)}
    OBVIOUS
  <2>3. \A x \in 0..(n - 1) : \E k \in 1..n : x \in G[k]
    BY <1>1, <2>2
  <2> QED BY <1>1, <2>1, <2>3
<1>5. ASSUME \A x, y \in 0..(n - 1) : x < y => d + x # s + y
      PROVE  moves(m, d, s, F) = move(m, d, s, 0..(n - 1))
  <2>1. ASSUME NEW l \in 1..n, NEW k \in 1..(l - 1), NEW x \in F[k], NEW y \in F[l]
        PROVE  d + x # s + y
    <3>1. k \in 1..n /\ x = k - 1 /\ y = l - 1
      BY <1>1, <2>1
    <3>2. x \in 0..(n - 1) /\ y \in 0..(n - 1) /\ x < y
      BY <3>1
    <3> QED BY <1>5, <3>2
  <2>2. \A l \in 1..Len(F) : \A k \in 1..(l - 1) : \A x \in F[k], y \in F[l] : d + x # s + y
    BY <1>1, <2>1
  <2>3. \A x : x \in V <=> \E k \in 1..Len(F) : x \in F[k]
    BY <1>1, <1>3 DEF V
  <2>4. F \in Seq(SUBSET Int) /\ \A k \in 1..Len(F) : \A x \in F[k] : s + x \in D
    BY <1>1, <1>2
  <2>5. moves(m, d, s, F) = move(m, d, s, V)
    BY <2>2, <2>3, <2>4, MovesAreOne
  <2> QED BY <2>5 DEF V
<1>6. ASSUME \A x, y \in 0..(n - 1) : x < y => d + y # s + x
      PROVE  moves(m, d, s, G) = move(m, d, s, 0..(n - 1))
  <2>1. ASSUME NEW l \in 1..n, NEW k \in 1..(l - 1), NEW x \in G[k], NEW y \in G[l]
        PROVE  d + x # s + y
    <3>1. k \in 1..n /\ x = n - k /\ y = n - l
      BY <1>1, <2>1
    <3>2. x \in 0..(n - 1) /\ y \in 0..(n - 1) /\ y < x
      BY <3>1
    <3> QED BY <1>6, <3>2
  <2>2. \A l \in 1..Len(G) : \A k \in 1..(l - 1) : \A x \in G[k], y \in G[l] : d + x # s + y
    BY <1>1, <2>1
  <2>3. \A x : x \in V <=> \E k \in 1..Len(G) : x \in G[k]
    BY <1>1, <1>4 DEF V
  <2>4. G \in Seq(SUBSET Int) /\ \A k \in 1..Len(G) : \A x \in G[k] : s + x \in D
    BY <1>1, <1>2
  <2>5. moves(m, d, s, G) = move(m, d, s, V)
    BY <2>2, <2>3, <2>4, MovesAreOne
  <2> QED BY <2>5 DEF V
<1> QED BY <1>5, <1>6 DEF F, G

\* memmove() is one move, whatever the overlap.
LEMMA MemmoveIs ==
  ASSUME NEW D \in SUBSET Int, NEW m \in [D -> Int], NEW d \in Int, NEW s \in Int, NEW n \in Nat,
         \A x \in 0..(n - 1) : s + x \in D
  PROVE  memmove(m, d, s, n) = move(m, d, s, 0..(n - 1))
<1>1. CASE d < s
  <2>1. \A x, y \in 0..(n - 1) : x < y => d + x # s + y
    BY <1>1
  <2> QED BY <1>1, <2>1, MemcpyIs DEF memmove
<1>2. CASE ~(d < s)
  <2>1. \A x, y \in 0..(n - 1) : x < y => d + y # s + x
    BY <1>2
  <2> QED BY <1>2, <2>1, BytesAreOne DEF memmove, backwards
<1> QED BY <1>1, <1>2

-----------------------------------------------------------------------------
(* Strings in the area.                                                     *)

Char == 0..255

IsString(m, s) == s \in Area /\ \E a \in s..(AreaLen - 1) : m[a] = 0

LEMMA StrlenIs ==
  ASSUME NEW m \in [Area -> Char], NEW s, IsString(m, s)
  PROVE  /\ s \in Nat /\ strlen(m, s) \in Nat
         /\ s + strlen(m, s) \in Area /\ m[s + strlen(m, s)] = 0
         /\ \A j \in 0..(strlen(m, s) - 1) : s + j \in Area /\ m[s + j] # 0
<1> DEFINE S == {a \in DOMAIN m : a >= s /\ m[a] = 0}
           e == Min(S)
<1>1. AreaLen \in Nat /\ DOMAIN m = Area /\ s \in Nat
  BY AreaAssumption DEF IsString, Area
<1>2. S \in SUBSET Nat /\ S # {}
  BY <1>1 DEF IsString, Area
<1>3. e \in S /\ \A y \in S : e <= y
  <2> HIDE DEF S
  <2> QED BY <1>2, MinIs
<1>4. strlen(m, s) = e - s
  BY DEF strlen
<1> HIDE DEF e
<1>5. e \in Area /\ e >= s /\ m[e] = 0 /\ e \in Nat /\ e < AreaLen
  BY <1>1, <1>3 DEF Area
<1>6. s + (e - s) = e /\ e - s \in Nat
  BY <1>1, <1>5
<1>7. ASSUME NEW j \in 0..((e - s) - 1) PROVE s + j \in Area /\ m[s + j] # 0
  <2>1. s + j \in Area /\ s + j >= s /\ s + j < e
    BY <1>1, <1>5 DEF Area
  <2>2. s + j \notin S
    BY <1>1, <1>3, <1>5, <2>1
  <2> QED BY <1>1, <2>1, <2>2
<1> QED BY <1>1, <1>4, <1>5, <1>6, <1>7

\* A loop up to n that stops at the members of B ends.
LEMMA FirstStop ==
  ASSUME NEW n \in Nat, NEW B
  PROVE  \E i \in 0..n : (i = n \/ i \in B) /\ \A j \in 0..(i - 1) : ~(j \in B)
<1> DEFINE S == {i \in 0..n : i = n \/ i \in B}
<1>1. S \in SUBSET Nat /\ n \in S
  OBVIOUS
<1>2. PICK i \in S : \A y \in S : i <= y
  <2> HIDE DEF S
  <2> QED BY <1>1, Least
<1>3. i \in 0..n /\ (i = n \/ i \in B)
  BY <1>2
<1>4. ASSUME NEW j \in 0..(i - 1), j \in B PROVE FALSE
  <2>1. j \in 0..n /\ ~(i <= j)
    BY <1>3
  <2> QED BY <1>2, <1>4, <2>1
<1> QED BY <1>3, <1>4

(***************************************************************************)
(* Two strings are read up to k, the first place where they differ, or     *)
(* where both end.                                                         *)
(***************************************************************************)
Parted(m, s, t, k) ==
  /\ k \in Nat /\ s + k \in Area /\ t + k \in Area
  /\ \A j \in 0..(k - 1) : s + j \in Area /\ m[s + j] = m[t + j] /\ m[s + j] # 0
  /\ m[s + k] # m[t + k] \/ m[s + k] = 0

order(a, b) == IF a = b THEN 0 ELSE IF a < b THEN -1 ELSE 1

LEMMA PartSomewhere ==
  ASSUME NEW m \in [Area -> Char], NEW s, NEW t, IsString(m, s), IsString(m, t)
  PROVE  \E k : Parted(m, s, t, k) /\ k <= strlen(m, s) /\ k <= strlen(m, t)
<1> DEFINE l == strlen(m, s)
           r == strlen(m, t)
           n == IF l <= r THEN l ELSE r
           B == {i \in 0..n : m[s + i] # m[t + i]}
<1>1. /\ l \in Nat /\ s + l \in Area /\ m[s + l] = 0
      /\ \A j \in 0..(l - 1) : s + j \in Area /\ m[s + j] # 0
      /\ r \in Nat /\ t + r \in Area /\ m[t + r] = 0
      /\ \A j \in 0..(r - 1) : t + j \in Area /\ m[t + j] # 0
      /\ s \in Nat /\ t \in Nat
  BY StrlenIs
<1> HIDE DEF l, r
<1>2. n \in Nat /\ n <= l /\ n <= r /\ (n = l \/ n = r)
  BY <1>1
<1> HIDE DEF n
<1>3. PICK k \in 0..n : (k = n \/ k \in B) /\ \A j \in 0..(k - 1) : ~(j \in B)
  <2> HIDE DEF B
  <2> QED BY <1>2, FirstStop
<1>4. \A j \in 0..n : s + j \in Area /\ t + j \in Area
  <2> TAKE j \in 0..n
  <2>1. j \in 0..(l - 1) \/ j = l
    BY <1>1, <1>2
  <2>2. j \in 0..(r - 1) \/ j = r
    BY <1>1, <1>2
  <2> QED BY <1>1, <2>1, <2>2
<1>5. \A j \in 0..(k - 1) : j \in 0..n /\ j \in 0..(l - 1)
  BY <1>1, <1>2
<1>6. \A j \in 0..(k - 1) : s + j \in Area /\ m[s + j] = m[t + j] /\ m[s + j] # 0
  BY <1>1, <1>3, <1>5
<1>7. m[s + k] # m[t + k] \/ m[s + k] = 0
  <2>1. CASE k \in B
    BY <2>1
  <2>2. CASE k = n
    BY <1>1, <1>2, <2>2
  <2> QED BY <1>3, <2>1, <2>2
<1>8. k \in Nat /\ k <= l /\ k <= r /\ s + k \in Area /\ t + k \in Area
  BY <1>1, <1>2, <1>4
<1> QED BY <1>6, <1>7, <1>8 DEF Parted, l, r

LEMMA StrcmpIs ==
  ASSUME NEW m \in [Area -> Char], NEW s, NEW t, IsString(m, s), NEW k0, Parted(m, s, t, k0)
  PROVE  strcmp(m, s, t) = order(m[s + k0], m[t + k0])
<1> DEFINE l == strlen(m, s)
           k == upTo(l, LAMBDA i : m[s + i] # m[t + i])
           B == {i \in 0..l : m[s + i] # m[t + i]}
<1>1. /\ l \in Nat /\ m[s + l] = 0
      /\ \A j \in 0..(l - 1) : m[s + j] # 0
  BY StrlenIs
<1> HIDE DEF l
<1>2. /\ k \in 0..l /\ (k = l \/ m[s + k] # m[t + k])
      /\ \A j \in 0..(k - 1) : ~(m[s + j] # m[t + j])
  <2>1. PICK i \in 0..l : (i = l \/ i \in B) /\ \A j \in 0..(i - 1) : ~(j \in B)
    <3> HIDE DEF B
    <3> QED BY <1>1, FirstStop
  <2>2. \A j \in 0..(i - 1) : j \in 0..l
    BY <1>1
  <2>3. \A j \in 0..(i - 1) : ~(m[s + j] # m[t + j])
    BY <2>1, <2>2
  <2>4. i = l \/ m[s + i] # m[t + i]
    BY <2>1
  <2> QED BY <2>3, <2>4 DEF upTo
<1>3. strcmp(m, s, t) = IF m[s + k] = m[t + k] THEN 0 ELSE IF m[s + k] < m[t + k] THEN -1 ELSE 1
  BY DEF strcmp, l
<1> HIDE DEF k
<1>4. /\ k0 \in Nat
      /\ \A j \in 0..(k0 - 1) : m[s + j] = m[t + j] /\ m[s + j] # 0
      /\ m[s + k0] # m[t + k0] \/ m[s + k0] = 0
  BY DEF Parted
<1>5. ~(k < k0)
  <2>1. SUFFICES ASSUME k < k0 PROVE FALSE
    OBVIOUS
  <2>2. k \in 0..(k0 - 1)
    BY <1>1, <1>2, <1>4, <2>1
  <2> QED BY <1>1, <1>2, <1>4, <2>2
<1>6. ~(k0 < k)
  <2>1. SUFFICES ASSUME k0 < k PROVE FALSE
    OBVIOUS
  <2>2. k0 \in 0..(k - 1) /\ k0 \in 0..(l - 1)
    BY <1>1, <1>2, <1>4, <2>1
  <2> QED BY <1>1, <1>2, <1>4, <2>2
<1>7. k = k0
  BY <1>1, <1>2, <1>4, <1>5, <1>6
<1> QED BY <1>3, <1>7 DEF order

LEMMA StrncmpIs ==
  ASSUME NEW m \in [Area -> Char], NEW s, NEW t, NEW k0, Parted(m, s, t, k0), NEW n \in Nat
  PROVE  strncmp(m, s, t, n) = IF n <= k0 THEN 0 ELSE m[s + k0] - m[t + k0]
<1> DEFINE k == upTo(n, LAMBDA i : m[s + i] = 0 \/ m[s + i] # m[t + i])
           B == {i \in 0..n : m[s + i] = 0 \/ m[s + i] # m[t + i]}
<1>1. /\ k \in 0..n /\ (k = n \/ m[s + k] = 0 \/ m[s + k] # m[t + k])
      /\ \A j \in 0..(k - 1) : ~(m[s + j] = 0 \/ m[s + j] # m[t + j])
  <2>1. PICK i \in 0..n : (i = n \/ i \in B) /\ \A j \in 0..(i - 1) : ~(j \in B)
    <3> HIDE DEF B
    <3> QED BY FirstStop
  <2>2. \A j \in 0..(i - 1) : j \in 0..n
    OBVIOUS
  <2>3. \A j \in 0..(i - 1) : ~(m[s + j] = 0 \/ m[s + j] # m[t + j])
    BY <2>1, <2>2
  <2>4. i = n \/ (m[s + i] = 0 \/ m[s + i] # m[t + i])
    BY <2>1
  <2> QED BY <2>3, <2>4 DEF upTo
<1>2. strncmp(m, s, t, n) = IF k = n THEN 0 ELSE m[s + k] - m[t + k]
  BY DEF strncmp
<1> HIDE DEF k
<1>3. /\ k0 \in Nat
      /\ \A j \in 0..(k0 - 1) : m[s + j] = m[t + j] /\ m[s + j] # 0
      /\ m[s + k0] # m[t + k0] \/ m[s + k0] = 0
  BY DEF Parted
<1>4. ~(k0 < k)
  <2>1. SUFFICES ASSUME k0 < k PROVE FALSE
    OBVIOUS
  <2>2. k0 \in 0..(k - 1)
    BY <1>1, <1>3, <2>1
  <2> QED BY <1>1, <1>3, <2>2
<1>5. k < k0 => k = n
  <2>1. SUFFICES ASSUME k < k0 PROVE k = n
    OBVIOUS
  <2>2. k \in 0..(k0 - 1)
    BY <1>1, <1>3, <2>1
  <2> QED BY <1>1, <1>3, <2>2
<1>6. CASE n <= k0
  <2>1. k = n
    BY <1>1, <1>3, <1>4, <1>5, <1>6
  <2> QED BY <1>2, <1>6, <2>1
<1>7. CASE ~(n <= k0)
  <2>1. k = k0 /\ k # n
    BY <1>1, <1>3, <1>4, <1>5, <1>7
  <2> QED BY <1>2, <1>7, <2>1
<1> QED BY <1>6, <1>7

LEMMA MemcmpIs ==
  ASSUME NEW m \in [Area -> Char], NEW s, NEW t, NEW k0, Parted(m, s, t, k0), NEW n \in Nat,
         k0 < n, m[s + k0] = m[t + k0] => n = k0 + 1
  PROVE  memcmp(m, s, t, n) = m[s + k0] - m[t + k0]
<1> DEFINE k == upTo(n, LAMBDA i : m[s + i] # m[t + i])
           B == {i \in 0..n : m[s + i] # m[t + i]}
<1>1. /\ k \in 0..n /\ (k = n \/ m[s + k] # m[t + k])
      /\ \A j \in 0..(k - 1) : ~(m[s + j] # m[t + j])
  <2>1. PICK i \in 0..n : (i = n \/ i \in B) /\ \A j \in 0..(i - 1) : ~(j \in B)
    <3> HIDE DEF B
    <3> QED BY FirstStop
  <2>2. \A j \in 0..(i - 1) : j \in 0..n
    OBVIOUS
  <2>3. \A j \in 0..(i - 1) : ~(m[s + j] # m[t + j])
    BY <2>1, <2>2
  <2>4. i = n \/ m[s + i] # m[t + i]
    BY <2>1
  <2> QED BY <2>3, <2>4 DEF upTo
<1>2. memcmp(m, s, t, n) = IF k = n THEN 0 ELSE m[s + k] - m[t + k]
  BY DEF memcmp
<1> HIDE DEF k
<1>3. /\ k0 \in Nat /\ s + k0 \in Area /\ m[s + k0] \in Int
      /\ \A j \in 0..(k0 - 1) : m[s + j] = m[t + j]
  BY DEF Parted, Char
<1>4. ~(k < k0)
  <2>1. SUFFICES ASSUME k < k0 PROVE FALSE
    OBVIOUS
  <2>2. k \in 0..(k0 - 1) /\ k # n
    BY <1>1, <1>3, <2>1
  <2> QED BY <1>1, <1>3, <2>2
<1>5. CASE m[s + k0] = m[t + k0]
  <2>1. k # k0
    BY <1>1, <1>5
  <2>2. k = n
    BY <1>1, <1>3, <1>4, <1>5, <2>1
  <2> QED BY <1>2, <1>3, <1>5, <2>2
<1>6. CASE m[s + k0] # m[t + k0]
  <2>1. ~(k0 < k)
    <3>1. SUFFICES ASSUME k0 < k PROVE FALSE
      OBVIOUS
    <3>2. k0 \in 0..(k - 1)
      BY <1>1, <1>3, <3>1
    <3> QED BY <1>1, <1>6, <3>2
  <2>2. k = k0 /\ k # n
    BY <1>1, <1>3, <1>4, <2>1
  <2> QED BY <1>2, <2>2
<1> QED BY <1>5, <1>6

LEMMA StrnlenIs ==
  ASSUME NEW m \in [Area -> Char], NEW s, IsString(m, s), NEW n \in Nat
  PROVE  strnlen(m, s, n) = Min({n, strlen(m, s)})
<1> DEFINE l == strlen(m, s)
           k == upTo(n, LAMBDA i : m[s + i] = 0)
           B == {i \in 0..n : m[s + i] = 0}
<1>1. /\ l \in Nat /\ m[s + l] = 0
      /\ \A j \in 0..(l - 1) : m[s + j] # 0
  BY StrlenIs
<1> HIDE DEF l
<1>2. /\ k \in 0..n /\ (k = n \/ m[s + k] = 0)
      /\ \A j \in 0..(k - 1) : ~(m[s + j] = 0)
  <2>1. PICK i \in 0..n : (i = n \/ i \in B) /\ \A j \in 0..(i - 1) : ~(j \in B)
    <3> HIDE DEF B
    <3> QED BY FirstStop
  <2>2. \A j \in 0..(i - 1) : j \in 0..n
    OBVIOUS
  <2>3. \A j \in 0..(i - 1) : ~(m[s + j] = 0)
    BY <2>1, <2>2
  <2>4. i = n \/ m[s + i] = 0
    BY <2>1
  <2> QED BY <2>3, <2>4 DEF upTo
<1>3. strnlen(m, s, n) = k
  BY DEF strnlen
<1> HIDE DEF k
<1>4. ~(l < k)
  <2>1. SUFFICES ASSUME l < k PROVE FALSE
    OBVIOUS
  <2>2. l \in 0..(k - 1)
    BY <1>1, <1>2, <2>1
  <2> QED BY <1>1, <1>2, <2>2
<1>5. k < l => k = n
  <2>1. SUFFICES ASSUME k < l PROVE k = n
    OBVIOUS
  <2>2. k \in 0..(l - 1)
    BY <1>1, <1>2, <2>1
  <2> QED BY <1>1, <1>2, <2>2
<1>6. Min({n, l}) = IF n <= l THEN n ELSE l
  BY <1>1, MinOfTwo
<1>7. k = IF n <= l THEN n ELSE l
  BY <1>1, <1>2, <1>4, <1>5
<1> QED BY <1>3, <1>6, <1>7 DEF l

\* A char that is not 0 is found where its byte occurs first.
LEMMA StrfindIs ==
  ASSUME NEW m \in [Area -> Char], NEW s, IsString(m, s), NEW c \in Char \ {0}
  PROVE  LET at == {a \in s..(s + strlen(m, s) - 1) : m[a] = c}
         IN  /\ strfind(m, s, schar(c)) = IF at = {} THEN s + strlen(m, s) ELSE Min(at)
             /\ strchr(m, s, schar(c)) = IF at = {} THEN -1 ELSE Min(at)
<1> DEFINE l == strlen(m, s)
           at == {a \in s..(s + l - 1) : m[a] = c}
           k == upTo(l, LAMBDA i : schar(m[s + i]) = schar(c))
           B == {i \in 0..l : schar(m[s + i]) = schar(c)}
<1>1. /\ l \in Nat /\ s \in Nat /\ s + l \in Area /\ m[s + l] = 0
      /\ \A j \in 0..(l - 1) : s + j \in Area /\ m[s + j] # 0
  BY StrlenIs
<1> HIDE DEF l
<1>2. /\ k \in 0..l /\ (k = l \/ schar(m[s + k]) = schar(c))
      /\ \A j \in 0..(k - 1) : ~(schar(m[s + j]) = schar(c))
  <2>1. PICK i \in 0..l : (i = l \/ i \in B) /\ \A j \in 0..(i - 1) : ~(j \in B)
    <3> HIDE DEF B
    <3> QED BY <1>1, FirstStop
  <2>2. \A j \in 0..(i - 1) : j \in 0..l
    BY <1>1
  <2>3. \A j \in 0..(i - 1) : ~(schar(m[s + j]) = schar(c))
    BY <2>1, <2>2
  <2>4. i = l \/ schar(m[s + i]) = schar(c)
    BY <2>1
  <2> QED BY <2>3, <2>4 DEF upTo
<1>3. strfind(m, s, schar(c)) = s + k
  BY DEF strfind, l
<1> HIDE DEF k
<1>4. \A b \in Char : schar(b) = schar(c) <=> b = c
  BY DEF schar, Char
<1>5. ASSUME NEW j \in 0..(l - 1)
      PROVE  s + j \in s..(s + l - 1) /\ (schar(m[s + j]) = schar(c) <=> m[s + j] = c)
  <2>1. m[s + j] \in Char
    BY <1>1
  <2> QED BY <1>1, <1>4, <2>1
<1>6. CASE at = {}
  <2>1. k = l
    <3>1. SUFFICES ASSUME k # l PROVE FALSE
      OBVIOUS
    <3>2. k \in 0..(l - 1)
      BY <1>1, <1>2, <3>1
    <3>3. s + k \in at
      BY <1>2, <1>5, <3>1, <3>2
    <3> QED BY <1>6, <3>3
  <2>2. m[strfind(m, s, schar(c))] = 0
    BY <1>1, <1>3, <2>1
  <2> QED BY <1>3, <1>6, <2>1, <2>2 DEF strchr, l
<1>7. CASE at # {}
  <2>1. at \in SUBSET Nat
    BY <1>1
  <2>2. Min(at) \in at /\ \A y \in at : Min(at) <= y
    <3> HIDE DEF at
    <3> QED BY <1>7, <2>1, MinIs
  <2> DEFINE j == Min(at) - s
  <2>3. j \in 0..(l - 1) /\ s + j = Min(at) /\ m[s + j] = c
    <3>1. Min(at) \in s..(s + l - 1) /\ m[Min(at)] = c
      BY <2>2
    <3> HIDE DEF at
    <3>2. Min(at) \in Int /\ s + j = Min(at) /\ j \in 0..(l - 1)
      BY <1>1, <3>1
    <3> QED BY <3>1, <3>2
  <2> HIDE DEF at, j
  <2>4. ~(j < k)
    <3>1. SUFFICES ASSUME j < k PROVE FALSE
      OBVIOUS
    <3>2. j \in 0..(k - 1)
      BY <1>1, <1>2, <2>3, <3>1
    <3> QED BY <1>2, <1>5, <2>3, <3>2
  <2>5. k \in 0..(l - 1)
    BY <1>1, <1>2, <2>3, <2>4
  <2>6. s + k \in at
    <3>1. m[s + k] = c /\ s + k \in s..(s + l - 1)
      BY <1>1, <1>2, <1>5, <2>5
    <3> QED BY <3>1 DEF at
  <2>7. s + j <= s + k
    BY <2>2, <2>3, <2>6
  <2>8. k = j
    BY <1>1, <2>3, <2>4, <2>5, <2>7
  <2>9. strfind(m, s, schar(c)) = Min(at) /\ m[Min(at)] = c
    BY <1>3, <2>3, <2>8
  <2>10. strchr(m, s, schar(c)) = Min(at)
    BY <2>9 DEF strchr
  <2> QED BY <1>7, <2>9, <2>10 DEF at, l
<1> QED BY <1>6, <1>7

(***************************************************************************)
(* The contents of two strings that part at k: the first n chars are the   *)
(* same up to k, and beyond it only if both strings end there.             *)
(***************************************************************************)
LEMMA ContentsPart ==
  ASSUME area \in [Area -> Char], NEW s, NEW t, IsString(area, s), IsString(area, t),
         NEW k, Parted(area, s, t, k), k <= strlen(area, s), k <= strlen(area, t)
  PROVE  /\ Len(content(s)) = strlen(area, s) /\ Len(content(t)) = strlen(area, t)
         /\ content(s) = content(t) <=> area[s + k] = area[t + k]
         /\ area[s + k] = area[t + k] => k = strlen(area, s) /\ k = strlen(area, t)
         /\ \A n \in Nat :
              SubSeq(content(s), 1, Min({n, Len(content(s))}))
                = SubSeq(content(t), 1, Min({n, Len(content(t))}))
              <=> n <= k \/ area[s + k] = area[t + k]
<1> DEFINE x == content(s)
           y == content(t)
           l == strlen(area, s)
           r == strlen(area, t)
<1>1. /\ l \in Nat /\ s + l \in Area /\ area[s + l] = 0
      /\ \A j \in 0..(l - 1) : s + j \in Area /\ area[s + j] # 0
      /\ r \in Nat /\ t + r \in Area /\ area[t + r] = 0
      /\ \A j \in 0..(r - 1) : t + j \in Area /\ area[t + j] # 0
      /\ s \in Nat /\ t \in Nat
  BY StrlenIs
<1>2. /\ k \in Nat /\ k <= l /\ k <= r
      /\ \A j \in 0..(k - 1) : area[s + j] = area[t + j]
      /\ area[s + k] # area[t + k] \/ area[s + k] = 0
  BY DEF Parted
<1>3. /\ x = [i \in 1..l |-> area[s + i - 1]]
      /\ y = [i \in 1..r |-> area[t + i - 1]]
  BY DEF content
<1> HIDE DEF x, y, l, r
<1>4. /\ x \in Seq(Char) /\ Len(x) = l /\ \A i \in 1..l : x[i] = area[s + i - 1]
      /\ y \in Seq(Char) /\ Len(y) = r /\ \A i \in 1..r : y[i] = area[t + i - 1]
  <2>1. \A i \in 1..l : area[s + i - 1] \in Char
    <3> TAKE i \in 1..l
    <3>1. i - 1 \in 0..(l - 1) /\ s + i - 1 = s + (i - 1)
      BY <1>1
    <3> QED BY <1>1, <3>1
  <2>2. \A i \in 1..r : area[t + i - 1] \in Char
    <3> TAKE i \in 1..r
    <3>1. i - 1 \in 0..(r - 1) /\ t + i - 1 = t + (i - 1)
      BY <1>1
    <3> QED BY <1>1, <3>1
  <2> QED BY <1>1, <1>3, <2>1, <2>2
<1>5. /\ \A i \in 1..k : x[i] = y[i]
      /\ k < l => k + 1 \in 1..l /\ x[k + 1] = area[s + k]
      /\ k < r => k + 1 \in 1..r /\ y[k + 1] = area[t + k]
  <2>1. ASSUME NEW i \in 1..k PROVE x[i] = y[i]
    <3>1. i \in 1..l /\ i \in 1..r /\ i - 1 \in 0..(k - 1)
          /\ s + i - 1 = s + (i - 1) /\ t + i - 1 = t + (i - 1)
      BY <1>1, <1>2
    <3> QED BY <1>2, <1>4, <3>1
  <2>2. s + (k + 1) - 1 = s + k /\ t + (k + 1) - 1 = t + k
    BY <1>1, <1>2
  <2>3. /\ k < l => k + 1 \in 1..l
        /\ k < r => k + 1 \in 1..r
    BY <1>1, <1>2
  <2> QED BY <1>4, <2>1, <2>2, <2>3
<1>6. ASSUME area[s + k] = area[t + k]
      PROVE  k = l /\ k = r /\ x = y
  <2>1. area[s + k] = 0 /\ area[t + k] = 0
    BY <1>2, <1>6
  <2>2. k = l
    <3>1. k \in 0..(l - 1) \/ k = l
      BY <1>1, <1>2
    <3> QED BY <1>1, <2>1, <3>1
  <2>3. k = r
    <3>1. k \in 0..(r - 1) \/ k = r
      BY <1>1, <1>2
    <3> QED BY <1>1, <2>1, <3>1
  <2> QED BY <1>4, <1>5, <2>2, <2>3
<1>7. ASSUME area[s + k] # area[t + k]
      PROVE  k < l \/ k < r
  <2>1. CASE k = l /\ k = r
    BY <1>1, <1>7, <2>1
  <2> QED BY <1>1, <1>2, <2>1
\* The first n chars.
<1>8. ASSUME NEW n \in Nat
      PROVE  LET p == SubSeq(x, 1, Min({n, l}))
                 q == SubSeq(y, 1, Min({n, r}))
             IN  p = q <=> n <= k \/ area[s + k] = area[t + k]
  <2> DEFINE a == IF n <= l THEN n ELSE l
             b == IF n <= r THEN n ELSE r
             p == SubSeq(x, 1, a)
             q == SubSeq(y, 1, b)
  <2>1. Min({n, l}) = a /\ Min({n, r}) = b
    BY <1>1, MinOfTwo
  <2>2. a \in Nat /\ b \in Nat /\ a <= l /\ b <= r
    BY <1>1
  <2>3. CASE n <= k
    <3>1. a = n /\ b = n
      BY <1>1, <1>2, <2>3
    <3> HIDE DEF a, b
    <3>2. Len(p) = n /\ Len(q) = n /\ p \in Seq(Char) /\ q \in Seq(Char)
          /\ \A i \in 1..n : p[i] = x[i] /\ q[i] = y[i]
      BY <1>1, <1>2, <1>4, <2>2, <3>1
    <3>3. \A i \in 1..n : i \in 1..k
      BY <1>2, <2>3
    <3> HIDE DEF p, q
    <3>4. p = q
      BY <1>5, <3>2, <3>3
    <3> QED BY <2>1, <2>3, <3>4 DEF p, q
  <2>4. CASE area[s + k] = area[t + k]
    <3>1. x = y /\ l = r
      BY <1>6, <2>4
    <3> QED BY <2>4, <3>1
  <2>5. CASE ~(n <= k) /\ area[s + k] # area[t + k]
    <3> HIDE DEF a, b
    <3>1. /\ Len(p) = a /\ \A i \in 1..a : p[i] = x[i]
          /\ Len(q) = b /\ \A i \in 1..b : q[i] = y[i]
      BY <1>1, <1>4, <2>2
    <3> HIDE DEF p, q
    <3>2. (k < l <=> k + 1 <= a) /\ (k < r <=> k + 1 <= b)
      BY <1>1, <1>2, <2>5 DEF a, b
    <3>3. p # q
      <4>1. CASE k < l /\ k < r
        <5>1. k + 1 \in 1..a /\ k + 1 \in 1..b
          BY <1>2, <2>2, <3>2, <4>1
        <5>2. p[k + 1] = area[s + k] /\ q[k + 1] = area[t + k]
          BY <1>5, <3>1, <4>1, <5>1
        <5> QED BY <2>5, <5>2
      <4>2. CASE ~(k < l /\ k < r)
        <5>1. a # b
          BY <1>2, <1>7, <2>2, <2>5, <3>2, <4>2
        <5> QED BY <3>1, <5>1
      <4> QED BY <4>1, <4>2
    <3> QED BY <2>1, <2>5, <3>3 DEF p, q
  <2> QED BY <2>3, <2>4, <2>5
<1>9. x = y => area[s + k] = area[t + k]
  <2>1. SUFFICES ASSUME x = y, area[s + k] # area[t + k] PROVE FALSE
    OBVIOUS
  <2>2. l = r
    BY <1>4, <2>1
  <2>3. k < l /\ k < r
    BY <1>7, <2>1, <2>2
  <2> QED BY <1>5, <2>1, <2>3
<1> QED BY <1>4, <1>6, <1>8, <1>9 DEF x, y, l, r

-----------------------------------------------------------------------------
AreaInv == area \in [Area -> Char] /\ expected = area

LEMMA Moved ==
  ASSUME area \in [Area -> Char], NEW d \in Area, NEW s \in Area, NEW n \in Nat,
         \A x \in 0..(n - 1) : s + x \in Area
  PROVE  move(area, d, s, 0..(n - 1)) \in [Area -> Char]
<1> DEFINE g == [a \in Area |-> IF a - d \in 0..(n - 1) THEN area[s + (a - d)] ELSE area[a]]
<1>1. \A a \in Area : a - d \in 0..(n - 1) => area[s + (a - d)] \in Char
  OBVIOUS
<1>2. g \in [Area -> Char]
  BY <1>1
<1>3. move(area, d, s, 0..(n - 1)) = g
  BY DEF move
<1> QED BY <1>2, <1>3

LEMMA Integral == area \in [Area -> Char] => Area \in SUBSET Int /\ area \in [Area -> Int]
<1>1. Area \subseteq Int /\ Char \subseteq Int
  BY DEF Area, Char
<1> QED BY <1>1

LEMMA MemmoveKeeps ==
  ASSUME AreaInv, NEW d \in Area, NEW s \in Area, use_memmove(d, s) PROVE AreaInv'
<1>1. PICK n \in 0..(AreaLen - (IF d < s THEN s ELSE d)) :
        copies(d, s, n, memmove(area, d, s, n))
  BY DEF use_memmove
<1>2. n \in Nat /\ d \in Int /\ s \in Int /\ \A x \in 0..(n - 1) : s + x \in Area
  BY AreaAssumption DEF Area
<1>3. Area \in SUBSET Int /\ area \in [Area -> Int]
  BY Integral DEF AreaInv
<1>4. memmove(area, d, s, n) = move(area, d, s, 0..(n - 1))
  BY <1>2, <1>3, MemmoveIs
<1>5. move(area, d, s, 0..(n - 1)) \in [Area -> Char]
  BY <1>2, Moved DEF AreaInv
<1> QED BY <1>1, <1>4, <1>5 DEF AreaInv, copies

LEMMA MemcpyKeeps ==
  ASSUME AreaInv, NEW d \in Area, NEW s \in Area, use_memcpy(d, s) PROVE AreaInv'
<1>1. PICK n \in 0..(AreaLen - (IF d < s THEN s ELSE d)) :
        Disjoint(d, n, s, n) /\ copies(d, s, n, memcpy(area, d, s, n))
  BY DEF use_memcpy
<1>2. n \in Nat /\ d \in Int /\ s \in Int /\ \A x \in 0..(n - 1) : s + x \in Area
  BY AreaAssumption DEF Area
<1>3. \A x, y \in 0..(n - 1) : x < y => d + x # s + y
  BY <1>1, <1>2 DEF Disjoint
<1>4. Area \in SUBSET Int /\ area \in [Area -> Int]
  BY Integral DEF AreaInv
<1>5. memcpy(area, d, s, n) = move(area, d, s, 0..(n - 1))
  BY <1>2, <1>3, <1>4, MemcpyIs
<1>6. move(area, d, s, 0..(n - 1)) \in [Area -> Char]
  BY <1>2, Moved DEF AreaInv
<1> QED BY <1>1, <1>5, <1>6 DEF AreaInv, copies

LEMMA StrcpyKeeps ==
  ASSUME AreaInv, NEW d \in Area, NEW s \in Area, use_strcpy(d, s) PROVE AreaInv'
<1> DEFINE l == strlen(area, s)
           n == l + 1
<1>1. Terminated(s) /\ Disjoint(d, n, s, n) /\ copies(d, s, n, strcpy(area, d, s))
  BY DEF use_strcpy
<1>2. /\ l \in Nat /\ s + l \in Area /\ area[s + l] = 0
      /\ \A j \in 0..(l - 1) : s + j \in Area /\ area[s + j] # 0
  BY <1>1, StrlenIs DEF AreaInv, IsString, Terminated
<1>3. strcpy(area, d, s) = moves(area, d, s, [i \in 1..n |-> {i - 1}])
  BY DEF strcpy
<1> HIDE DEF l
<1>4. n \in Nat /\ d \in Int /\ s \in Int /\ \A x \in 0..(n - 1) : s + x \in Area
  <2>1. \A x \in 0..(n - 1) : x \in 0..(l - 1) \/ x = l
    BY <1>2
  <2>2. d \in Int /\ s \in Int
    BY DEF Area
  <2> QED BY <1>2, <2>1, <2>2
<1>5. \A x, y \in 0..(n - 1) : x < y => d + x # s + y
  BY <1>1, <1>4 DEF Disjoint
<1> HIDE DEF n
<1>6. Area \in SUBSET Int /\ area \in [Area -> Int]
  BY Integral DEF AreaInv
<1>7. strcpy(area, d, s) = move(area, d, s, 0..(n - 1))
  BY <1>3, <1>4, <1>5, <1>6, BytesAreOne
<1>8. move(area, d, s, 0..(n - 1)) \in [Area -> Char]
  BY <1>4, Moved DEF AreaInv
<1> QED BY <1>1, <1>7, <1>8 DEF AreaInv, copies, n

LEMMA StrncpyKeeps ==
  ASSUME AreaInv, NEW d \in Area, NEW s \in Area, use_strncpy(d, s) PROVE AreaInv'
<1> DEFINE l == strlen(area, s)
<1>1. PICK n \in 0..(AreaLen - d) :
        /\ Disjoint(d, n, s, Min({n, l + 1}))
        /\ area' = strncpy(area, d, s, n)
        /\ expected' = [a \in Area |->
             IF a \in d..(d + n - 1) THEN IF a < d + Min({n, l + 1}) THEN area[s + (a - d)] ELSE 0
                                     ELSE area[a]]
  BY DEF use_strncpy
<1> DEFINE k == IF l < n THEN l ELSE n
           p == moves(area, d, s, [i \in 1..k |-> {i - 1}])
           g == IF n <= l THEN n ELSE l + 1
<1>2. /\ l \in Nat /\ s + l \in Area /\ area[s + l] = 0
      /\ \A j \in 0..(l - 1) : s + j \in Area /\ area[s + j] # 0
  BY StrlenIs DEF AreaInv, IsString, Terminated, use_strncpy
<1>3. area' = memset(p, d + l, 0, n - l)
  BY <1>1 DEF strncpy
<1> HIDE DEF l
<1>4. n \in Nat /\ d \in Int /\ s \in Int /\ AreaLen \in Nat /\ Area \subseteq Int
  BY AreaAssumption DEF Area
<1>5. Min({n, l + 1}) = g
  <2>1. Min({n, l + 1}) = IF n <= l + 1 THEN n ELSE l + 1
    BY <1>2, <1>4, MinOfTwo
  <2> QED BY <1>2, <1>4, <2>1
<1>6. k \in Nat /\ \A x \in 0..(k - 1) : s + x \in Area
  BY <1>2, <1>4
<1>7. \A x, y \in 0..(k - 1) : x < y => d + x # s + y
  BY <1>1, <1>2, <1>4, <1>5 DEF Disjoint
<1>8. p = move(area, d, s, 0..(k - 1))
  <2> HIDE DEF k
  <2>1. Area \in SUBSET Int /\ area \in [Area -> Int]
    BY Integral DEF AreaInv
  <2>2. d \in Int /\ s \in Int
    BY <1>4
  <2> QED BY <1>6, <1>7, <2>1, <2>2, BytesAreOne
<1> HIDE DEF p
<1>9. p = [a \in Area |-> IF a - d \in 0..(k - 1) THEN area[s + (a - d)] ELSE area[a]]
  BY <1>8 DEF move, AreaInv
<1>10. area' = [a \in Area |-> IF a - (d + l) \in 0..((n - l) - 1) THEN 0 ELSE p[a]]
  BY <1>3, <1>9 DEF memset
<1>11. expected' = [a \in Area |->
         IF a \in d..(d + n - 1) THEN IF a < d + g THEN area[s + (a - d)] ELSE 0 ELSE area[a]]
  BY <1>1, <1>5
<1>12. ASSUME NEW a \in Area
       PROVE  (IF a - (d + l) \in 0..((n - l) - 1) THEN 0 ELSE p[a])
              = (IF a \in d..(d + n - 1) THEN IF a < d + g THEN area[s + (a - d)] ELSE 0
                                         ELSE area[a])
  <2>1. a \in Int
    BY <1>4
  <2>2. p[a] = IF a - d \in 0..(k - 1) THEN area[s + (a - d)] ELSE area[a]
    BY <1>9
  <2>3. CASE ~(a \in d..(d + n - 1))
    <3>1. ~(a - (d + l) \in 0..((n - l) - 1)) /\ ~(a - d \in 0..(k - 1))
      BY <1>2, <1>4, <2>1, <2>3
    <3> QED BY <2>2, <2>3, <3>1
  <2>4. CASE a \in d..(d + n - 1) /\ a < d + l
    <3>1. ~(a - (d + l) \in 0..((n - l) - 1)) /\ a - d \in 0..(k - 1) /\ a < d + g
      BY <1>2, <1>4, <2>1, <2>4
    <3> QED BY <2>2, <2>4, <3>1
  <2>5. CASE a \in d..(d + n - 1) /\ a = d + l
    <3>1. a - (d + l) \in 0..((n - l) - 1) /\ a < d + g /\ s + (a - d) = s + l
      BY <1>2, <1>4, <2>1, <2>5
    <3> QED BY <1>2, <2>5, <3>1
  <2>6. CASE a \in d..(d + n - 1) /\ a > d + l
    <3>1. a - (d + l) \in 0..((n - l) - 1) /\ ~(a < d + g)
      BY <1>2, <1>4, <2>1, <2>6
    <3> QED BY <2>6, <3>1
  <2> QED BY <1>2, <1>4, <2>1, <2>3, <2>4, <2>5, <2>6
<1> HIDE DEF k, g
<1>13. expected' = area'
  BY <1>10, <1>11, <1>12
<1>14. ASSUME NEW a \in Area
       PROVE  (IF a - (d + l) \in 0..((n - l) - 1) THEN 0 ELSE p[a]) \in Char
  <2>1. p \in [Area -> Char]
    BY <1>4, <1>6, <1>8, Moved DEF AreaInv
  <2> QED BY <2>1 DEF Char
<1>15. area' \in [Area -> Char]
  BY <1>10, <1>14
<1> QED BY <1>13, <1>15 DEF AreaInv

\* What the functions return, in any area.
LEMMA AreaStringsAgree == AreaInv => StringsAgree
<1> SUFFICES ASSUME AreaInv PROVE StringsAgree
  OBVIOUS
<1> DEFINE Starts == {s \in Area : Terminated(s)}
<1>1. area \in [Area -> Char] /\ area = expected /\ AreaLen \in Nat
  BY AreaAssumption DEF AreaInv
<1>2. \A s \in Starts : IsString(area, s)
  BY DEF Terminated, IsString
<1> HIDE DEF Starts
<1>3. ASSUME NEW s \in Starts, NEW t \in Starts
      PROVE  LET c == strcmp(area, s, t)
                 x == content(s)
                 y == content(t)
             IN /\ c = -strcmp(area, t, s) /\ (c = 0 <=> x = y)
                /\ sign(strncmp(area, s, t, AreaLen)) = c
                /\ sign(memcmp(area, s, t, Min({Len(x), Len(y)}) + 1)) = c
                /\ \A n \in 0..AreaLen :
                     (strncmp(area, s, t, n) = 0) <=>
                       (SubSeq(x, 1, Min({n, Len(x)})) = SubSeq(y, 1, Min({n, Len(y)})))
  <2> DEFINE l == strlen(area, s)
             r == strlen(area, t)
             n == Min({l, r}) + 1
  <2>1. IsString(area, s) /\ IsString(area, t)
    BY <1>2
  <2>2. PICK k : Parted(area, s, t, k) /\ k <= l /\ k <= r
    BY <1>1, <2>1, PartSomewhere
  <2> DEFINE a == area[s + k]
             b == area[t + k]
  <2>3. Parted(area, t, s, k)
    <3>1. /\ k \in Nat /\ s + k \in Area /\ t + k \in Area
          /\ \A j \in 0..(k - 1) : s + j \in Area /\ area[s + j] = area[t + j] /\ area[s + j] # 0
          /\ area[s + k] # area[t + k] \/ area[s + k] = 0
      BY <2>2 DEF Parted
    <3>2. t \in Nat /\ r \in Nat /\ \A j \in 0..(r - 1) : t + j \in Area
      BY <1>1, <2>1, StrlenIs
    <3> HIDE DEF r
    <3>3. \A j \in 0..(k - 1) : j \in 0..(r - 1)
      BY <2>2, <3>1, <3>2
    <3> QED BY <3>1, <3>2, <3>3 DEF Parted
  <2>4. /\ k \in Nat /\ a \in Int /\ b \in Int /\ k < AreaLen /\ l \in Nat /\ r \in Nat
    <3>1. k \in Nat /\ s + k \in Area /\ t + k \in Area
      BY <2>2 DEF Parted
    <3>2. s \in Nat /\ l \in Nat /\ r \in Nat
      BY <1>1, <2>1, StrlenIs
    <3>3. s + k < AreaLen
      BY <1>1, <3>1, <3>2 DEF Area
    <3> QED BY <1>1, <3>1, <3>2, <3>3 DEF Char
  <2>5. strcmp(area, s, t) = order(a, b) /\ strcmp(area, t, s) = order(b, a)
    BY <1>1, <2>1, <2>2, <2>3, StrcmpIs
  <2>6. \A i \in Nat : strncmp(area, s, t, i) = IF i <= k THEN 0 ELSE a - b
    BY <1>1, <2>2, StrncmpIs
  <2>7. /\ Len(content(s)) = l /\ Len(content(t)) = r
        /\ content(s) = content(t) <=> a = b
        /\ a = b => k = l /\ k = r
        /\ \A i \in Nat :
             SubSeq(content(s), 1, Min({i, Len(content(s))}))
               = SubSeq(content(t), 1, Min({i, Len(content(t))}))
             <=> i <= k \/ a = b
    <3>1. area \in [Area -> Char]
      BY <1>1
    <3>2. Parted(area, s, t, k) /\ k <= strlen(area, s) /\ k <= strlen(area, t)
      BY <2>2
    <3> HIDE DEF n
    <3> QED BY <2>1, <3>1, <3>2, ContentsPart
  <2> HIDE DEF l, r, a, b
  <2>8. n \in Nat /\ k < n /\ (a = b => n = k + 1)
    <3>1. Min({l, r}) = IF l <= r THEN l ELSE r
      BY <2>4, MinOfTwo
    <3> QED BY <2>2, <2>4, <2>7, <3>1
  <2> HIDE DEF n
  <2>9. memcmp(area, s, t, n) = a - b
    BY <1>1, <2>2, <2>8, MemcmpIs DEF a, b
  <2>10. /\ order(a, b) = -order(b, a) /\ (order(a, b) = 0 <=> a = b)
         /\ sign(a - b) = order(a, b)
    BY <2>4 DEF order, sign
  <2>11. sign(strncmp(area, s, t, AreaLen)) = order(a, b)
    BY <1>1, <2>4, <2>6, <2>10
  <2>12. ASSUME NEW i \in 0..AreaLen
         PROVE  strncmp(area, s, t, i) = 0 <=> i <= k \/ a = b
    BY <1>1, <2>4, <2>6
  <2>13. \A i \in 0..AreaLen : i \in Nat
    BY <1>1
  <2> QED BY <2>5, <2>7, <2>9, <2>10, <2>11, <2>12, <2>13 DEF n
<1>4. ASSUME NEW s \in Starts, NEW c \in Bytes \ {0}
      PROVE  LET at == {a \in s..(s + strlen(area, s) - 1) : area[a] = c}
             IN /\ strchr(area, s, schar(c)) = IF at = {} THEN -1 ELSE Min(at)
                /\ strfind(area, s, schar(c)) =
                     IF at = {} THEN s + strlen(area, s) ELSE Min(at)
  <2>1. IsString(area, s) /\ c \in Char \ {0}
    BY <1>2, AreaAssumption DEF Char
  <2> QED BY <1>1, <2>1, StrfindIs
<1>5. ASSUME NEW s \in Starts, NEW n \in 0..(AreaLen - s)
      PROVE  strnlen(area, s, n) = Min({n, strlen(area, s)})
  <2>1. IsString(area, s) /\ n \in Nat
    BY <1>2
  <2> QED BY <1>1, <2>1, StrnlenIs
<1> QED BY <1>1, <1>3, <1>4, <1>5 DEF StringsAgree, Starts

(***************************************************************************)
(* StringsAgree, for areas of any length and contents and words of any     *)
(* size, after any calls of memmove(), memcpy(), strcpy() and strncpy()    *)
(* that keep the contract of string.c.                                     *)
(***************************************************************************)
THEOREM StringFunctionsAgree == StringSpec => []StringsAgree
<1>1. StringInit([Area -> Bytes]) => AreaInv
  BY AreaAssumption DEF StringInit, AreaInv, Char
<1>2. AreaInv /\ [StringNext]_areaVars => AreaInv'
  <2> SUFFICES ASSUME AreaInv, [StringNext]_areaVars PROVE AreaInv'
    OBVIOUS
  <2>1. CASE UNCHANGED areaVars
    BY <2>1 DEF areaVars, AreaInv
  <2>2. CASE StringNext
    BY <2>2, MemmoveKeeps, MemcpyKeeps, StrcpyKeeps, StrncpyKeeps DEF StringNext
  <2> QED BY <2>1, <2>2
<1> QED BY <1>1, <1>2, AreaStringsAgree, PTL DEF StringSpec
==============================================================================
