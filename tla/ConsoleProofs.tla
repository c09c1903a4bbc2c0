---------------------------- MODULE ConsoleProofs ----------------------------
(***************************************************************************)
(* The console of console.c: what is printed under console_lock stays in   *)
(* one piece and vga_putc() is as good as one step, for any threads, any   *)
(* size of the screen and any characters; and the race that main() runs by *)
(* printing without the lock does not drive the position off the screen.   *)
(* The second half is vprintfmt() of printfmt.c, which prints through the  *)
(* console and into the buffers of snprintf(): it keeps to the buffer, and *)
(* the numbers it prints read back with strtol(), for any width of an int. *)
(***************************************************************************)
EXTENDS Console, Printfmt, SchedulerProofs, FiniteSetTheorems, SequenceTheorems

Labels == {"out", "in", "store", "test", "roll", "lower"}

Printing == {"store", "test", "roll", "lower"}

Held == locks[console_lock].locked

ConsoleTypes ==
  /\ pc \in [Thread -> Labels] /\ pc[idle] = "out"
  /\ wrote \in [Thread -> Nat] /\ raced \in BOOLEAN
  /\ reg = [t \in Thread |-> reg[t]] /\ chr = [t \in Thread |-> chr[t]]

(***************************************************************************)
(* The lock is held by the running thread, with the flag off: a holder is  *)
(* neither preempted nor interrupted, and it does not block.               *)
(***************************************************************************)
LockSound ==
  /\ locks = [l \in Lock |-> IF Held THEN [locked |-> TRUE, holder |-> cur, number |-> 1]
                                     ELSE Free]
  /\ Held => ~intr /\ pc[cur] # "out"
  /\ \A t \in Thread : pc[t] = "in" => Held /\ t = cur
  /\ \A t \in Thread : wrote[t] > 0 => Held /\ t = cur /\ last = t

\* Without a race the only thread inside vga_putc() is the running one.
Alone == ~raced => \A t \in Thread : pc[t] \in Printing => t = cur /\ ~intr

IsScreen(s) == s = [pos |-> s.pos, buf |-> s.buf]

\* The screen in the middle of the vga_putc() of t.
Midway(t) ==
  LET p == put(shown, shown.pos, chr[t])
  IN /\ pc[t] = "store" => screen = shown /\ reg[t] = crt_pos
     /\ pc[t] \in {"test", "roll"} => screen = p
     /\ pc[t] \in {"roll", "lower"} => full(p)
     /\ pc[t] = "lower" => crt_pos = p.pos /\ reg[t] = p.pos /\ crt_buf = roll(p.buf)

InStep ==
  ~raced =>
    /\ (\A t \in Thread : pc[t] \notin Printing) => screen = shown
    /\ \A t \in Thread : Midway(t)

ConsoleInv ==
  IInv /\ ConsoleTypes /\ LockSound /\ Alone /\ IsScreen(shown) /\ InStep

-----------------------------------------------------------------------------
LEMMA Basics ==
  ASSUME ConsoleInv
  PROVE  /\ cur \in Thread /\ idle \in Thread /\ main \in Thread /\ intr \in BOOLEAN
         /\ console_lock \in Lock /\ Lock = {console_lock} /\ NULL \notin Thread
         /\ ~panicked /\ pc[cur] \in Labels
BY ConsoleAssumption, SyncAssumption, ThreadAssumption
DEF ConsoleInv, IInv, TypeOK, ConsoleTypes

LEMMA KeepsIInv == ASSUME ConsoleInv, [Next]_vars PROVE IInv'
BY NextIInv DEF ConsoleInv

\* The screen stays a screen.
LEMMA PutScreen == ASSUME NEW s, NEW r, NEW c, IsScreen(s) PROVE IsScreen(put(s, r, c))
<1>1. CASE c = "bs"
  BY <1>1 DEF put, IsScreen
<1>2. CASE c = "nl"
  BY <1>2 DEF put, IsScreen
<1>3. CASE c = "cr"
  BY <1>3 DEF put, IsScreen
<1>4. CASE c \notin {"bs", "nl", "cr"}
  <2>1. put(s, r, c) = [pos |-> r + 1, buf |-> [s.buf EXCEPT ![r] = c]]
    BY <1>4 DEF put
  <2> QED BY <2>1 DEF IsScreen
<1> QED BY <1>1, <1>2, <1>3, <1>4

LEMMA PutcScreen == ASSUME NEW s, NEW c, IsScreen(s) PROVE IsScreen(vga_putc(s, c))
<1> DEFINE p == put(s, s.pos, c)
<1>1. IsScreen(p)
  BY PutScreen
<1>2. vga_putc(s, c) = IF full(p) THEN [pos |-> lower(p.pos), buf |-> roll(p.buf)] ELSE p
  BY DEF vga_putc
<1> HIDE DEF p
<1> QED BY <1>1, <1>2 DEF IsScreen

LEMMA SetScreen == ASSUME NEW s, IsScreen(s), setScreen(s) PROVE screen' = s
BY DEF IsScreen, setScreen, screen

\* The lock belongs to the running thread, or to nobody.
LEMMA Lock1 ==
  ASSUME ConsoleInv
  PROVE  /\ HasLock <=> Held
         /\ Held => locks[console_lock] = [locked |-> TRUE, holder |-> cur, number |-> 1]
         /\ ~Held => locks[console_lock] = Free /\ Free.holder # cur
         /\ pc[cur] = "out" => ~Held
         /\ pc[cur] = "in" => Held
BY Basics DEF ConsoleInv, LockSound, HasLock, Free

-----------------------------------------------------------------------------
LEMMA AcquireStep == ASSUME ConsoleInv, acquire PROVE ConsoleInv' /\ [Next]_vars
<1>1. /\ cur # idle /\ pc[cur] = "out" /\ pc' = [pc EXCEPT ![cur] = "in"]
      /\ UNCHANGED <<crt_pos, crt_buf, reg, chr, wrote, shown, last, raced>>
  BY ConsoleAssumption DEF acquire, goto
<1>2. ~Held /\ locks[console_lock].holder # cur /\ locks[console_lock] = Free
  BY <1>1, Lock1
<1>3. /\ locks' = [locks EXCEPT ![console_lock] =
                     [locked |-> TRUE, holder |-> cur, number |-> 1]]
      /\ intr' = FALSE /\ UNCHANGED <<panicked, queues>>
  BY <1>2 DEF acquire, lock_acquire, spinlock_acquire, Free
<1>4. Next \/ UNCHANGED vars
  BY <1>1, <1>3, Basics DEF Next, intr_disable, vars, queues
<1>5. IInv' /\ cur' = cur
  BY <1>3, <1>4, KeepsIInv DEF queues
<1>6. ConsoleTypes'
  BY <1>1, Basics DEF ConsoleInv, ConsoleTypes, Labels
<1>7. \A t \in Thread : ~(wrote[t] > 0)
  BY <1>2 DEF ConsoleInv, LockSound
<1>8. Held' /\ locks' = [l \in Lock |-> [locked |-> TRUE, holder |-> cur, number |-> 1]]
  BY <1>3, Basics DEF Held, ConsoleInv, LockSound
<1>9. LockSound'
  BY <1>1, <1>2, <1>3, <1>5, <1>7, <1>8, Basics DEF ConsoleInv, LockSound, ConsoleTypes
<1>10. \A t \in Thread : pc'[t] \in Printing <=> pc[t] \in Printing
  BY <1>1 DEF ConsoleInv, ConsoleTypes, Printing
<1>11. Alone'
  BY <1>1, <1>3, <1>5, <1>10 DEF ConsoleInv, Alone
<1>12. \A t \in Thread : Midway(t) => Midway(t)'
  BY <1>1 DEF ConsoleInv, ConsoleTypes, Midway, screen
<1>13. InStep' /\ IsScreen(shown)'
  BY <1>1, <1>10, <1>12 DEF ConsoleInv, InStep, IsScreen, screen
<1> QED BY <1>4, <1>5, <1>6, <1>9, <1>11, <1>13 DEF ConsoleInv

(***************************************************************************)
(* The running thread goes on in a call of the console.                    *)
(***************************************************************************)
LEMMA CurMoves ==
  ASSUME ConsoleInv, NEW l \in Labels, goto(l), UNCHANGED <<vars, syncVars>>,
         cur # idle, l = "in" => Held, Held => l # "out",
         raced' \in BOOLEAN, raced => raced', ~raced' /\ l \in Printing => ~intr,
         reg' = [t \in Thread |-> reg'[t]], chr' = [t \in Thread |-> chr'[t]],
         \/ wrote' = wrote /\ (last' = last \/ last' = cur)
         \/ Held /\ wrote' = [wrote EXCEPT ![cur] = @ + 1] /\ last' = cur
  PROVE  IInv' /\ [Next]_vars /\ ConsoleTypes' /\ LockSound' /\ Alone'
<1>1. /\ Held' = Held /\ UNCHANGED <<cur, intr, locks>> /\ pc' = [pc EXCEPT ![cur] = l]
      /\ pc \in [Thread -> Labels] /\ wrote \in [Thread -> Nat]
  BY DEF vars, syncVars, Held, goto, ConsoleInv, ConsoleTypes
<1>2. IInv'
  BY KeepsIInv
<1>3. wrote' \in [Thread -> Nat]
  BY <1>1
<1>4. ConsoleTypes'
  BY <1>1, <1>3, Basics DEF ConsoleInv, ConsoleTypes
<1>5. \A t \in Thread : pc'[t] = IF t = cur THEN l ELSE pc[t]
  BY <1>1
<1>6. \A t \in Thread : wrote'[t] > 0 => Held /\ t = cur /\ last' = t
  <2>1. CASE wrote' = wrote
    BY <2>1 DEF ConsoleInv, LockSound
  <2>2. CASE Held /\ wrote' = [wrote EXCEPT ![cur] = @ + 1] /\ last' = cur
    <3>1. \A t \in Thread \ {cur} : wrote'[t] = wrote[t]
      BY <1>1, <2>2
    <3> QED BY <2>2, <3>1 DEF ConsoleInv, LockSound
  <2> QED BY <2>1, <2>2
<1>7. LockSound'
  BY <1>1, <1>5, <1>6, Basics DEF ConsoleInv, LockSound
<1>8. Alone'
  BY <1>1, <1>5 DEF ConsoleInv, Alone
<1> QED BY <1>2, <1>4, <1>7, <1>8

\* The others are not inside vga_putc(): the screen follows that of cur.
LEMMA CurInStep ==
  ASSUME ConsoleInv, NEW l \in Labels, goto(l), cur' = cur, raced => raced',
         ~raced' => (l \notin Printing => screen' = shown') /\ Midway(cur)'
  PROVE  InStep'
<1>1. /\ pc' = [pc EXCEPT ![cur] = l] /\ pc \in [Thread -> Labels] /\ cur \in Thread
  BY Basics DEF goto, ConsoleInv, ConsoleTypes
<1>2. \A t \in Thread : pc'[t] = IF t = cur THEN l ELSE pc[t]
  BY <1>1
<1>3. SUFFICES ASSUME ~raced'
               PROVE  /\ (\A t \in Thread : pc'[t] \notin Printing) => screen' = shown'
                      /\ \A t \in Thread : Midway(t)'
  BY DEF InStep
<1>4. ASSUME NEW t \in Thread, t # cur PROVE Midway(t)'
  <2>1. pc'[t] \notin Printing
    BY <1>2, <1>3, <1>4 DEF ConsoleInv, Alone
  <2> QED BY <2>1 DEF Midway, Printing
<1>5. \A t \in Thread : Midway(t)'
  <2>1. ASSUME NEW t \in Thread, t = cur PROVE Midway(t)'
    BY <1>3, <2>1
  <2> QED BY <1>4, <2>1
<1> QED BY <1>1, <1>2, <1>3, <1>5

\* Where a thread stands that is not idle.
LEMMA NotIdle == ASSUME ConsoleInv, pc[cur] # "out" PROVE cur # idle
BY DEF ConsoleInv, ConsoleTypes

LEMMA CallStep ==
  ASSUME ConsoleInv, NEW c \in Char, call(c) PROVE ConsoleInv' /\ [Next]_vars
<1>1. /\ cur # idle /\ goto("store") /\ UNCHANGED <<vars, syncVars>>
      /\ UNCHANGED <<crt_pos, crt_buf, wrote, shown, last>>
      /\ chr' = [chr EXCEPT ![cur] = c] /\ reg' = [reg EXCEPT ![cur] = crt_pos]
  BY NotIdle, ConsoleAssumption DEF call
<1>2. /\ pc[cur] \in {"out", "in"} /\ raced' \in BOOLEAN /\ (raced => raced')
      /\ ~raced' => ~intr
  <2>1. raced \in BOOLEAN /\ intr \in BOOLEAN /\ (pc[cur] = "in" => ~intr)
    BY Basics, Lock1 DEF ConsoleInv, ConsoleTypes, LockSound
  <2> QED BY <2>1 DEF call
<1>3. /\ reg' = [t \in Thread |-> reg'[t]] /\ chr' = [t \in Thread |-> chr'[t]]
      /\ reg'[cur] = crt_pos
  BY <1>1, Basics DEF ConsoleInv, ConsoleTypes
<1>4. "store" \in Labels
  BY DEF Labels
<1>5. IInv' /\ [Next]_vars /\ ConsoleTypes' /\ LockSound' /\ Alone'
  BY <1>1, <1>2, <1>3, <1>4, CurMoves
<1>6. cur' = cur /\ pc'[cur] = "store"
  BY <1>1, Basics DEF vars, goto, ConsoleInv, ConsoleTypes
<1>7. ~raced' => screen = shown
  BY <1>2 DEF ConsoleInv, Alone, InStep, Printing
<1>8. ~raced' => Midway(cur)'
  BY <1>1, <1>3, <1>6, <1>7 DEF Midway, screen
<1>9. InStep'
  BY <1>1, <1>2, <1>4, <1>6, <1>8, CurInStep DEF Printing
<1> QED BY <1>1, <1>5, <1>9 DEF ConsoleInv, IsScreen

LEMMA StoreStep == ASSUME ConsoleInv, store PROVE ConsoleInv' /\ [Next]_vars
<1>1. /\ pc[cur] = "store" /\ goto("test") /\ UNCHANGED <<vars, syncVars>>
      /\ setScreen(put(screen, reg[cur], chr[cur]))
      /\ UNCHANGED <<reg, chr, wrote, shown, last, raced>>
  BY DEF store
<1>2. "test" \in Labels /\ "test" \in Printing
  BY DEF Labels, Printing
<1>3. ~raced => ~intr /\ Midway(cur)
  BY <1>1, Basics DEF ConsoleInv, Alone, InStep, Printing
<1>4. IInv' /\ [Next]_vars /\ ConsoleTypes' /\ LockSound' /\ Alone'
  BY <1>1, <1>2, <1>3, NotIdle, CurMoves DEF ConsoleInv, ConsoleTypes
<1>5. cur' = cur /\ pc'[cur] = "test"
  BY <1>1, Basics DEF vars, goto, ConsoleInv, ConsoleTypes
<1>6. screen' = put(screen, reg[cur], chr[cur])
  <2>1. IsScreen(screen)
    BY DEF IsScreen, screen
  <2> QED BY <1>1, <2>1, PutScreen, SetScreen
<1>7. ~raced => screen = shown /\ reg[cur] = shown.pos
  BY <1>1, <1>3 DEF Midway, screen
<1>8. ~raced' => Midway(cur)'
  BY <1>1, <1>5, <1>6, <1>7 DEF Midway
<1>9. InStep'
  BY <1>1, <1>2, <1>5, <1>8, CurInStep
<1> QED BY <1>1, <1>4, <1>9 DEF ConsoleInv, IsScreen

\* vga_putc() returns, and the screen is as if it had been one step.
LEMMA ReturnStep ==
  ASSUME ConsoleInv, return, pc[cur] \in Printing, UNCHANGED <<vars, syncVars, reg, chr, raced>>,
         ~raced => screen' = vga_putc(shown, chr[cur])
  PROVE  ConsoleInv' /\ [Next]_vars
<1> DEFINE l == IF Held THEN "in" ELSE "out"
<1>1. /\ goto(l) /\ l \in Labels /\ l \notin Printing /\ cur # idle
      /\ wrote' = [wrote EXCEPT ![cur] = IF Held THEN @ + 1 ELSE @]
      /\ shown' = vga_putc(shown, chr[cur]) /\ last' = cur
  BY Lock1, NotIdle DEF return, Labels, Printing
<1>2. \/ wrote' = wrote /\ last' = cur
      \/ Held /\ wrote' = [wrote EXCEPT ![cur] = @ + 1] /\ last' = cur
  BY <1>1, Basics DEF ConsoleInv, ConsoleTypes
<1>3. l = "in" <=> Held
  OBVIOUS
<1> HIDE DEF l
<1>4. IInv' /\ [Next]_vars /\ ConsoleTypes' /\ LockSound' /\ Alone'
  <2>1. l \in {"in", "out"}
    BY DEF l
  <2>2. Held => l # "out"
    BY <1>3
  <2> QED BY <1>1, <1>2, <1>3, <2>2, CurMoves DEF ConsoleInv, ConsoleTypes
<1>5. cur' = cur /\ pc'[cur] = l
  BY <1>1, Basics DEF vars, goto, ConsoleInv, ConsoleTypes
<1>6. Midway(cur)'
  BY <1>1, <1>5 DEF Midway, Printing
<1>7. InStep'
  BY <1>1, <1>5, <1>6, CurInStep
<1>8. IsScreen(shown)'
  BY <1>1, PutcScreen DEF ConsoleInv, IsScreen
<1> QED BY <1>4, <1>7, <1>8 DEF ConsoleInv

LEMMA TestStep == ASSUME ConsoleInv, test PROVE ConsoleInv' /\ [Next]_vars
<1>1. /\ pc[cur] = "test" /\ UNCHANGED <<vars, syncVars, crt_pos, crt_buf, reg, chr, raced>>
      /\ screen' = screen
  BY DEF test, screen
<1>2. ~raced => ~intr /\ screen = put(shown, shown.pos, chr[cur])
  BY <1>1, Basics DEF ConsoleInv, Alone, InStep, Midway, Printing
<1>3. CASE full(screen)
  <2>1. goto("roll") /\ UNCHANGED <<wrote, shown, last>>
    BY <1>3 DEF test
  <2>2. "roll" \in Labels /\ "roll" \in Printing
    BY DEF Labels, Printing
  <2>3. IInv' /\ [Next]_vars /\ ConsoleTypes' /\ LockSound' /\ Alone'
    BY <1>1, <1>2, <2>1, <2>2, NotIdle, CurMoves DEF ConsoleInv, ConsoleTypes
  <2>4. cur' = cur /\ pc'[cur] = "roll"
    BY <1>1, <2>1, Basics DEF vars, goto, ConsoleInv, ConsoleTypes
  <2>5. ~raced' => Midway(cur)'
    BY <1>1, <1>2, <1>3, <2>1, <2>4 DEF Midway, full
  <2>6. InStep'
    BY <1>1, <2>1, <2>2, <2>4, <2>5, CurInStep
  <2> QED BY <2>1, <2>3, <2>6 DEF ConsoleInv, IsScreen
<1>4. CASE ~full(screen)
  <2>1. return
    BY <1>4 DEF test
  <2>2. ~raced => screen' = vga_putc(shown, chr[cur])
    BY <1>1, <1>2, <1>4 DEF vga_putc
  <2> QED BY <1>1, <2>1, <2>2, ReturnStep DEF Printing
<1> QED BY <1>3, <1>4

LEMMA RollStep == ASSUME ConsoleInv, rollup PROVE ConsoleInv' /\ [Next]_vars
<1>1. /\ pc[cur] = "roll" /\ goto("lower") /\ UNCHANGED <<vars, syncVars>>
      /\ crt_buf' = roll(crt_buf) /\ reg' = [reg EXCEPT ![cur] = crt_pos]
      /\ UNCHANGED <<crt_pos, chr, wrote, shown, last, raced>>
  BY DEF rollup
<1>2. "lower" \in Labels /\ "lower" \in Printing
  BY DEF Labels, Printing
<1>3. /\ ~raced => ~intr /\ Midway(cur)
      /\ reg' = [t \in Thread |-> reg'[t]] /\ reg'[cur] = crt_pos
  BY <1>1, Basics DEF ConsoleInv, Alone, InStep, Printing, ConsoleTypes
<1>4. IInv' /\ [Next]_vars /\ ConsoleTypes' /\ LockSound' /\ Alone'
  BY <1>1, <1>2, <1>3, NotIdle, CurMoves DEF ConsoleInv, ConsoleTypes
<1>5. cur' = cur /\ pc'[cur] = "lower"
  BY <1>1, Basics DEF vars, goto, ConsoleInv, ConsoleTypes
<1> DEFINE p == put(shown, shown.pos, chr[cur])
<1>6. ~raced => screen = p /\ full(p)
  BY <1>1, <1>3 DEF Midway
<1>7. ~raced => crt_pos = p.pos /\ crt_buf = p.buf
  BY <1>6 DEF screen
<1> HIDE DEF p
<1>8. ~raced' => Midway(cur)'
  BY <1>1, <1>3, <1>5, <1>6, <1>7 DEF Midway, p
<1>9. InStep'
  BY <1>1, <1>2, <1>5, <1>8, CurInStep
<1> QED BY <1>1, <1>4, <1>9 DEF ConsoleInv, IsScreen

LEMMA LowerStep == ASSUME ConsoleInv, lowered PROVE ConsoleInv' /\ [Next]_vars
<1>1. /\ pc[cur] = "lower" /\ crt_pos' = lower(reg[cur]) /\ return
      /\ UNCHANGED <<vars, syncVars, crt_buf, reg, chr, raced>>
  BY DEF lowered
<1> DEFINE p == put(shown, shown.pos, chr[cur])
<1>2. ~raced => full(p) /\ reg[cur] = p.pos /\ crt_buf = roll(p.buf)
  BY <1>1, Basics DEF ConsoleInv, InStep, Midway
<1>3. ~raced => screen' = [pos |-> lower(p.pos), buf |-> roll(p.buf)]
  BY <1>1, <1>2 DEF screen
<1>4. vga_putc(shown, chr[cur]) = IF full(p) THEN [pos |-> lower(p.pos), buf |-> roll(p.buf)] ELSE p
  BY DEF vga_putc
<1> HIDE DEF p
<1>5. ~raced => screen' = vga_putc(shown, chr[cur])
  BY <1>2, <1>3, <1>4
<1> QED BY <1>1, <1>5, ReturnStep DEF Printing

LEMMA ReleaseStep == ASSUME ConsoleInv, release PROVE ConsoleInv' /\ [Next]_vars
<1>1. /\ pc[cur] = "in" /\ pc' = [pc EXCEPT ![cur] = "out"]
      /\ wrote' = [wrote EXCEPT ![cur] = 0] /\ lock_release(console_lock)
      /\ UNCHANGED <<crt_pos, crt_buf, reg, chr, shown, last, raced>>
  BY DEF release, goto
<1>2. Held /\ locks[console_lock] = [locked |-> TRUE, holder |-> cur, number |-> 1]
  BY <1>1, Lock1
<1>3. /\ locks' = [locks EXCEPT ![console_lock] = Free] /\ intr' = TRUE
      /\ UNCHANGED <<panicked, queues>>
  BY <1>1, <1>2 DEF lock_release
<1>4. ~intr /\ cur # idle
  BY <1>1, <1>2, NotIdle DEF ConsoleInv, LockSound
<1>5. Next /\ cur' = cur
  BY <1>3, <1>4, Basics DEF Next, intr_enable, queues
<1>6. IInv'
  BY <1>5, KeepsIInv
<1>7. /\ wrote \in [Thread -> Nat] /\ pc \in [Thread -> Labels] /\ cur \in Thread
      /\ locks = [l \in Lock |-> locks[l]] /\ Lock = {console_lock}
  BY Basics DEF ConsoleInv, ConsoleTypes, LockSound
<1>8. ConsoleTypes'
  BY <1>1, <1>4, <1>7 DEF ConsoleInv, ConsoleTypes, Labels
<1>9. ~Held' /\ locks' = [l \in Lock |-> Free]
  BY <1>3, <1>7 DEF Held, Free
<1>10. \A t \in Thread : pc'[t] # "in" /\ ~(wrote'[t] > 0)
  BY <1>1, <1>7 DEF ConsoleInv, LockSound
<1>11. LockSound'
  BY <1>9, <1>10 DEF LockSound
<1>12. ~raced => \A t \in Thread : pc[t] \notin Printing /\ pc'[t] \notin Printing
  BY <1>1, <1>7 DEF ConsoleInv, Alone, Printing
<1>13. Alone'
  BY <1>1, <1>12 DEF Alone
<1>14. \A t \in Thread : pc'[t] \notin Printing => Midway(t)'
  BY DEF Midway, Printing
<1>15. InStep' /\ IsScreen(shown)'
  BY <1>1, <1>12, <1>14 DEF ConsoleInv, InStep, IsScreen, screen
<1> QED BY <1>5, <1>6, <1>8, <1>11, <1>13, <1>15 DEF ConsoleInv

(***************************************************************************)
(* A step that another thread or an interrupt may take: only when the lock *)
(* is free and, unless there was a race, nobody is inside vga_putc().      *)
(***************************************************************************)
LEMMA QuietStep ==
  ASSUME ConsoleInv, Next, ~Held, ~raced => \A t \in Thread : pc[t] \notin Printing,
         UNCHANGED <<syncVars, pc, reg, chr, wrote, raced>>, IsScreen(shown)',
         ~raced => screen' = shown'
  PROVE  ConsoleInv' /\ [Next]_vars
<1>1. IInv' /\ ConsoleTypes'
  BY KeepsIInv DEF ConsoleInv, ConsoleTypes
<1>2. ~Held' /\ locks' = locks
  BY DEF Held, syncVars
<1>3. LockSound'
  BY <1>2 DEF ConsoleInv, LockSound
<1>4. Alone'
  BY DEF Alone
<1>5. \A t \in Thread : pc[t] \notin Printing => Midway(t)'
  BY DEF Midway, Printing
<1>6. InStep'
  BY <1>5 DEF InStep
<1> QED BY <1>1, <1>3, <1>4, <1>6 DEF ConsoleInv

\* When the running thread is outside, or may be interrupted, all others may act.
LEMMA NobodyPrints ==
  ASSUME ConsoleInv, intr \/ pc[cur] = "out"
  PROVE  /\ ~Held
         /\ ~raced => (\A t \in Thread : pc[t] \notin Printing) /\ screen = shown
<1>1. ~raced => \A t \in Thread : pc[t] \notin Printing
  BY DEF ConsoleInv, Alone, Printing
<1> QED BY <1>1 DEF ConsoleInv, LockSound, InStep

LEMMA OthersStep ==
  ASSUME ConsoleInv, enable \/ boot \/ timer \/ idler
  PROVE  ConsoleInv' /\ [Next]_vars
<1>1. /\ UNCHANGED <<syncVars, crt_pos, crt_buf, pc, reg, chr, wrote, shown, raced>>
      /\ intr_enable \/ start \/ timer_intr_handler \/ idle_block \/ idle_hlt
  BY DEF enable, boot, timer, idler, consoleVars
<1>2. Next
  BY <1>1, Basics DEF Next
<1>3. intr \/ pc[cur] = "out"
  <2>1. idler => cur = idle
    BY DEF idler, idle_block, idle_hlt
  <2>2. boot => cur = main /\ pc[main] = "out"
    BY DEF boot, start, thread_start
  <2> QED BY <2>1, <2>2 DEF enable, timer, timer_intr_handler, ConsoleInv, ConsoleTypes
<1>4. screen' = screen /\ IsScreen(shown)'
  BY <1>1 DEF screen, ConsoleInv, IsScreen
<1> QED BY <1>1, <1>2, <1>3, <1>4, NobodyPrints, QuietStep

\* The keyboard's handler does what it does to the screen in one step.
LEMMA KeyPressed == ASSUME NEW s, IsScreen(s) PROVE IsScreen(key_pressed(s))
BY PutcScreen DEF key_pressed

LEMMA KeyboardStep ==
  ASSUME ConsoleInv, keyboard_intr_handler PROVE ConsoleInv' /\ [Next]_vars
<1>1. /\ intr /\ setScreen(key_pressed(screen)) /\ shown' = key_pressed(shown)
      /\ UNCHANGED <<syncVars, pc, reg, chr, wrote, raced>>
  BY DEF keyboard_intr_handler
<1>2. Next
  BY Basics DEF Next, quiet_intr, keyboard_intr_handler
<1>3. screen' = key_pressed(screen)
  <2>1. IsScreen(screen)
    BY DEF IsScreen, screen
  <2> QED BY <1>1, <2>1, KeyPressed, SetScreen
<1>4. IsScreen(shown)'
  <2>1. IsScreen(shown')
    BY <1>1, KeyPressed DEF ConsoleInv
  <2> QED BY <2>1 DEF IsScreen
<1> QED BY <1>1, <1>2, <1>3, <1>4, NobodyPrints, QuietStep

-----------------------------------------------------------------------------
LEMMA InitConsoleInv == ConsoleInit => ConsoleInv
<1> SUFFICES ASSUME ConsoleInit PROVE ConsoleInv
  OBVIOUS
<1>1. IInv
  BY InitIInv DEF ConsoleInit
<1>2. /\ pc = [t \in Thread |-> "out"] /\ wrote = [t \in Thread |-> 0] /\ raced = FALSE
      /\ reg = [t \in Thread |-> 0] /\ chr = [t \in Thread |-> "x"] /\ shown = screen
      /\ locks = [l \in Lock |-> Free]
  BY DEF ConsoleInit, lock_sema_init
<1>3. ConsoleTypes
  BY <1>2, ThreadAssumption DEF ConsoleTypes, Labels
<1>4. ~Held
  BY <1>2, ConsoleAssumption DEF Held, Free
<1>5. LockSound /\ Alone
  BY <1>2, <1>4 DEF LockSound, Alone, Printing
<1>6. InStep /\ IsScreen(shown)
  BY <1>2 DEF InStep, Midway, IsScreen, screen
<1> QED BY <1>1, <1>3, <1>5, <1>6 DEF ConsoleInv

LEMMA ConsoleStep ==
  ASSUME ConsoleInv, [ConsoleNext]_allVars PROVE ConsoleInv' /\ [Next]_vars
<1>1. CASE UNCHANGED allVars
  BY <1>1 DEF allVars, vars, syncVars, consoleVars, ConsoleInv, IInv, TypeOK, Consistent,
     OneRunning, ConsoleTypes, LockSound, Held, Alone, InStep, Midway, IsScreen, screen
<1> QED BY <1>1, AcquireStep, ReleaseStep, CallStep, StoreStep, TestStep, RollStep,
           LowerStep, OthersStep, KeyboardStep DEF ConsoleNext

\* No assertion fails under the console either: IInv is part of the invariant.
THEOREM ConsoleInvariance == ConsoleSpec => []ConsoleInv
BY InitConsoleInv, ConsoleStep, PTL DEF ConsoleSpec

(***************************************************************************)
(* Without a race vga_putc() is as good as one step, although the handler  *)
(* of the keyboard prints without console_lock.                            *)
(***************************************************************************)
THEOREM ScreenAtomic == ConsoleSpec => []ScreenIsAtomic
<1>1. ConsoleInv => ScreenIsAtomic
  BY DEF ConsoleInv, InStep, Printing, ScreenIsAtomic
<1> QED BY <1>1, ConsoleInvariance, PTL

(***************************************************************************)
(* What is printed under one lock comes in one piece, even while main()    *)
(* prints without the lock: a line of kputs_lock(), and each character of  *)
(* kprintf_lock().                                                         *)
(***************************************************************************)
THEOREM LinesWhole == ConsoleSpec => []LinesIntact
<1>1. ConsoleInv => LinesIntact
  BY DEF ConsoleInv, LockSound, LinesIntact
<1> QED BY <1>1, ConsoleInvariance, PTL

-----------------------------------------------------------------------------
(***************************************************************************)
(* How far the race can drive the position.  As in the code, main() is the *)
(* only thread that prints without the lock, and nobody prints '\b'.       *)
(***************************************************************************)
OnePrinter == Plain \subseteq {main} /\ "bs" \notin Char

\* main is inside vga_putc() without the lock: others may print meanwhile.
Loose == pc[main] \in Printing /\ locks[console_lock].holder # main

\* Between what bounds the position is when no holder of the lock is inside.
High == IF Loose /\ pc[main] # "store" THEN CRT_SIZE ELSE CRT_SIZE - 1

Low == IF Loose /\ pc[main] = "roll" THEN CRT_SIZE - CRT_COLS ELSE 0

\* How far a character that a holder prints from there can take it.
Overrun == IF High = CRT_SIZE THEN CRT_SIZE + CRT_COLS ELSE CRT_SIZE

Inside == Held /\ pc[cur] \in Printing

PosInv ==
  /\ crt_pos \in Nat /\ reg \in [Thread -> Nat] /\ chr \in [Thread -> Char \cup {"x"}]
  /\ \A t \in Thread : pc[t] \in Printing => t = main \/ (Held /\ t = cur)
  /\ ~Inside => crt_pos \in Low..High
  /\ Inside =>
       /\ pc[cur] = "store" => reg[cur] = crt_pos /\ crt_pos \in Low..High
       /\ pc[cur] # "store" => crt_pos \in Low..Overrun
       /\ pc[cur] \in {"roll", "lower"} => crt_pos >= CRT_SIZE
       /\ pc[cur] = "lower" => reg[cur] = crt_pos
  /\ Loose =>
       /\ chr[main] = "x"
       /\ pc[main] = "store" => reg[main] \in 0..(CRT_SIZE - 1)
       /\ pc[main] = "lower" => reg[main] \in (CRT_SIZE - CRT_COLS)..CRT_SIZE

LEMMA Size ==
  /\ CRT_SIZE \in Nat /\ CRT_COLS \in Nat /\ CRT_COLS > 0 /\ CRT_ROWS \in Nat /\ CRT_ROWS > 1
  /\ CRT_SIZE = CRT_COLS * CRT_ROWS
  /\ CRT_SIZE = CRT_COLS * (CRT_ROWS - 1) + CRT_COLS
  /\ CRT_SIZE >= CRT_COLS + CRT_COLS
  /\ CRT_SIZE + CRT_COLS < 2^16
<1>1. /\ CRT_COLS \in Nat /\ CRT_COLS > 0 /\ CRT_ROWS \in Nat /\ CRT_ROWS > 1
      /\ CRT_ROWS * CRT_COLS + CRT_COLS < 2^16
  BY ConsoleAssumption
<1>2. CRT_SIZE = CRT_COLS * CRT_ROWS /\ CRT_SIZE + CRT_COLS < 2^16
  BY <1>1 DEF CRT_SIZE
<1>3. PICK r \in Nat : CRT_ROWS = r + 2
  <2>1. CRT_ROWS - 2 \in Nat /\ CRT_ROWS = (CRT_ROWS - 2) + 2
    BY <1>1
  <2> QED BY <2>1
<1>4. /\ CRT_COLS * (r + 2) = CRT_COLS * r + CRT_COLS + CRT_COLS
      /\ CRT_COLS * (r + 1) = CRT_COLS * r + CRT_COLS
      /\ CRT_COLS * r \in Nat /\ CRT_ROWS - 1 = r + 1
  BY <1>1, <1>3
<1> QED BY <1>1, <1>2, <1>3, <1>4

\* The first cell of a row, of a position in or behind the rows up to m.
LEMMA RowBounds ==
  ASSUME NEW r \in Nat, NEW m \in Nat
  PROVE  /\ row(r) \in 0..r
         /\ r >= CRT_COLS * m => row(r) >= CRT_COLS * m
         /\ r < CRT_COLS * m + CRT_COLS => row(r) <= CRT_COLS * m
<1> DEFINE k == r \div CRT_COLS
<1>1. CRT_COLS \in Nat /\ CRT_COLS > 0
  BY Size
<1>2. k \in Nat /\ r = CRT_COLS * k + (r % CRT_COLS) /\ r % CRT_COLS \in 0..(CRT_COLS - 1)
  BY <1>1
<1>3. CRT_COLS * k \in Nat /\ CRT_COLS * m \in Nat
  BY <1>1, <1>2
<1> HIDE DEF k
<1>4. row(r) = CRT_COLS * k
  BY <1>1, <1>2, <1>3 DEF row
<1>5. ASSUME NEW i \in Nat, NEW j \in Nat, i < j
      PROVE  CRT_COLS * i + CRT_COLS <= CRT_COLS * j
  <2>1. PICK d \in Nat : j = i + 1 + d
    <3>1. j - i - 1 \in Nat /\ j = i + 1 + (j - i - 1)
      BY <1>5
    <3> QED BY <3>1
  <2>2. CRT_COLS * (i + 1 + d) = CRT_COLS * i + CRT_COLS + CRT_COLS * d
    BY <1>1
  <2>3. CRT_COLS * i \in Nat /\ CRT_COLS * d \in Nat
    BY <1>1
  <2>4. CRT_COLS * j = CRT_COLS * i + CRT_COLS + CRT_COLS * d
    BY <2>1, <2>2
  <2> QED BY <1>1, <2>3, <2>4
<1>6. CASE k < m
  <2>1. CRT_COLS * k + CRT_COLS <= CRT_COLS * m
    BY <1>2, <1>5, <1>6
  <2> QED BY <1>1, <1>2, <1>3, <1>4, <2>1
<1>7. CASE m < k
  <2>1. CRT_COLS * m + CRT_COLS <= CRT_COLS * k
    BY <1>2, <1>5, <1>7
  <2> QED BY <1>1, <1>2, <1>3, <1>4, <2>1
<1>8. CASE k = m
  BY <1>1, <1>2, <1>3, <1>4, <1>8
<1> QED BY <1>2, <1>6, <1>7, <1>8

\* One character, printed from between the bounds, and the roll after it.
LEMMA PutPos ==
  ASSUME NEW s, IsScreen(s), NEW c, c # "bs",
         NEW lo \in {0, CRT_SIZE - CRT_COLS}, NEW hi \in {CRT_SIZE - 1, CRT_SIZE},
         NEW r \in lo..hi
  PROVE  put(s, r, c).pos \in lo..(IF hi = CRT_SIZE THEN CRT_SIZE + CRT_COLS ELSE CRT_SIZE)
<1> DEFINE up == IF hi = CRT_SIZE THEN CRT_SIZE + CRT_COLS ELSE CRT_SIZE
<1>1. /\ CRT_SIZE \in Nat /\ CRT_COLS \in Nat /\ CRT_COLS > 0 /\ CRT_ROWS \in Nat
      /\ CRT_ROWS > 1 /\ CRT_SIZE = CRT_COLS * CRT_ROWS
      /\ CRT_SIZE = CRT_COLS * (CRT_ROWS - 1) + CRT_COLS /\ CRT_SIZE >= CRT_COLS + CRT_COLS
  BY Size
<1>2. /\ CRT_ROWS - 1 \in Nat /\ r \in Nat /\ r + CRT_COLS \in Nat
      /\ CRT_COLS * (CRT_ROWS - 1) = CRT_SIZE - CRT_COLS
      /\ CRT_COLS * (CRT_ROWS - 1) \in Nat
  BY <1>1
<1>3. row(r) \in lo..up
  <2>1. row(r) \in 0..r /\ (r >= CRT_SIZE - CRT_COLS => row(r) >= CRT_SIZE - CRT_COLS)
    BY <1>2, RowBounds
  <2> QED BY <1>1, <1>2, <2>1
<1>4. row(r + CRT_COLS) \in lo..up
  <2> DEFINE q == r + CRT_COLS
  <2> HIDE DEF q
  <2>1. q \in Nat /\ q = r + CRT_COLS
    BY <1>2 DEF q
  <2>2. /\ row(q) \in 0..q
        /\ q >= CRT_SIZE - CRT_COLS => row(q) >= CRT_SIZE - CRT_COLS
        /\ q < CRT_SIZE + CRT_COLS => row(q) <= CRT_SIZE
    <3>1. q >= CRT_COLS * (CRT_ROWS - 1) => row(q) >= CRT_COLS * (CRT_ROWS - 1)
      BY <1>2, <2>1, RowBounds
    <3>2. row(q) \in 0..q /\ (q < CRT_COLS * CRT_ROWS + CRT_COLS => row(q) <= CRT_COLS * CRT_ROWS)
      BY <1>1, <2>1, RowBounds
    <3> QED BY <1>1, <1>2, <3>1, <3>2
  <2> QED BY <1>1, <1>2, <2>1, <2>2 DEF q
<1>5. r + 1 \in lo..up
  BY <1>1, <1>2
<1>6. put(s, r, c).pos \in {row(r), row(r + CRT_COLS), r + 1}
  <2>1. CASE c = "nl"
    BY <2>1 DEF put, IsScreen
  <2>2. CASE c = "cr"
    BY <2>2 DEF put, IsScreen
  <2>3. CASE c \notin {"nl", "cr"}
    <3>1. put(s, r, c) = [pos |-> r + 1, buf |-> [s.buf EXCEPT ![r] = c]]
      BY <2>3 DEF put
    <3> QED BY <3>1
  <2> QED BY <2>1, <2>2, <2>3
<1> QED BY <1>3, <1>4, <1>5, <1>6

LEMMA LowerPos ==
  ASSUME NEW x \in (CRT_SIZE - CRT_COLS)..(CRT_SIZE + CRT_COLS)
  PROVE  lower(x) = x - CRT_COLS /\ x - CRT_COLS \in Nat
<1>1. 2^16 \in Nat /\ x - CRT_COLS \in Nat /\ x - CRT_COLS < 2^16
  BY Size
<1> QED BY <1>1 DEF lower

LEMMA PutcPos ==
  ASSUME NEW s, IsScreen(s), NEW c, c # "bs",
         NEW lo \in {0, CRT_SIZE - CRT_COLS}, NEW hi \in {CRT_SIZE - 1, CRT_SIZE},
         s.pos \in lo..hi
  PROVE  vga_putc(s, c).pos \in lo..hi
<1> DEFINE p == put(s, s.pos, c)
<1>1. p.pos \in lo..(IF hi = CRT_SIZE THEN CRT_SIZE + CRT_COLS ELSE CRT_SIZE)
  BY PutPos
<1>2. /\ ~full(p) => vga_putc(s, c) = p /\ p.pos < CRT_SIZE
      /\ full(p) => vga_putc(s, c).pos = lower(p.pos) /\ p.pos >= CRT_SIZE
  BY <1>1, Size DEF vga_putc, full
<1> HIDE DEF p
<1>3. p.pos \in Nat /\ CRT_SIZE \in Nat /\ CRT_COLS \in Nat /\ CRT_COLS > 0
      /\ CRT_SIZE >= CRT_COLS + CRT_COLS
  BY <1>1, Size
<1>4. CASE full(p)
  <2>1. lower(p.pos) = p.pos - CRT_COLS
    BY <1>1, <1>2, <1>3, <1>4, LowerPos
  <2> QED BY <1>1, <1>2, <1>3, <1>4, <2>1
<1> QED BY <1>1, <1>2, <1>3, <1>4

(***************************************************************************)
(* A holder of the lock prints: the bounds stay, and so does main, if it is*)
(* somewhere inside without the lock.                                      *)
(***************************************************************************)
LEMMA HeldMoves ==
  ASSUME ConsoleInv, PosInv, Held, NEW l \in Labels, goto(l),
         UNCHANGED <<vars, syncVars>>, crt_pos' \in Nat,
         reg' \in [Thread -> Nat], chr' \in [Thread -> Char \cup {"x"}],
         \A t \in Thread \ {cur} : reg'[t] = reg[t] /\ chr'[t] = chr[t],
         l \notin Printing \/ l = "store" => crt_pos' \in Low..High,
         l \in Printing /\ l # "store" => crt_pos' \in Low..Overrun,
         l \in {"roll", "lower"} => crt_pos' >= CRT_SIZE,
         l \in {"store", "lower"} => reg'[cur] = crt_pos'
  PROVE  PosInv'
<1>1. /\ locks' = locks /\ cur' = cur /\ Held' /\ locks[console_lock].holder = cur
      /\ cur \in Thread /\ main \in Thread
      /\ \A t \in Thread : pc'[t] = IF t = cur THEN l ELSE pc[t]
  BY Basics, Lock1 DEF vars, syncVars, Held, goto, ConsoleInv, ConsoleTypes
<1>2. /\ Loose' <=> Loose
      /\ Loose => cur # main /\ pc'[main] = pc[main]
  BY <1>1 DEF Loose
<1>3. Low' = Low /\ High' = High
  BY <1>2 DEF Low, High
<1>4. Overrun' = Overrun
  BY <1>3 DEF Overrun
<1>5. Inside' <=> l \in Printing
  BY <1>1 DEF Inside
<1>6. \A t \in Thread : pc'[t] \in Printing => t = main \/ (Held' /\ t = cur')
  BY <1>1 DEF PosInv
<1>7. Loose' => /\ chr'[main] = "x"
                /\ pc'[main] = "store" => reg'[main] \in 0..(CRT_SIZE - 1)
                /\ pc'[main] = "lower" => reg'[main] \in (CRT_SIZE - CRT_COLS)..CRT_SIZE
  BY <1>1, <1>2 DEF PosInv
<1>8. ~Inside' => crt_pos' \in Low'..High'
  BY <1>3, <1>5
<1>9. Inside' =>
        /\ pc'[cur'] = "store" => reg'[cur'] = crt_pos' /\ crt_pos' \in Low'..High'
        /\ pc'[cur'] # "store" => crt_pos' \in Low'..Overrun'
        /\ pc'[cur'] \in {"roll", "lower"} => crt_pos' >= CRT_SIZE
        /\ pc'[cur'] = "lower" => reg'[cur'] = crt_pos'
  BY <1>1, <1>3, <1>4, <1>5
<1> QED BY <1>6, <1>7, <1>8, <1>9 DEF PosInv

\* main prints without the lock, and nobody holds it now.
LEMMA LooseMoves ==
  ASSUME ConsoleInv, PosInv, ~Held, cur = main, NEW l \in Labels, goto(l),
         UNCHANGED <<vars, syncVars>>,
         reg' \in [Thread -> Nat], chr' \in [Thread -> Char \cup {"x"}], chr'[main] = "x",
         l \in {"out", "store"} => crt_pos' \in 0..(CRT_SIZE - 1),
         l \in {"test", "lower"} => crt_pos' \in 0..CRT_SIZE,
         l = "roll" => crt_pos' \in (CRT_SIZE - CRT_COLS)..CRT_SIZE,
         l = "store" => reg'[main] \in 0..(CRT_SIZE - 1),
         l = "lower" => reg'[main] \in (CRT_SIZE - CRT_COLS)..CRT_SIZE,
         l # "in"
  PROVE  PosInv'
<1>1. /\ locks' = locks /\ cur' = cur /\ ~Held' /\ locks[console_lock].holder # main
      /\ main \in Thread
      /\ \A t \in Thread : pc'[t] = IF t = main THEN l ELSE pc[t]
  BY Basics, Lock1 DEF vars, syncVars, Held, goto, ConsoleInv, ConsoleTypes
<1>2. ~Inside' /\ (Loose' <=> l \in Printing) /\ pc'[main] = l
  BY <1>1 DEF Inside, Loose
<1>3. CRT_SIZE \in Nat /\ CRT_COLS \in Nat /\ CRT_SIZE >= CRT_COLS + CRT_COLS
  BY Size
<1>4. crt_pos' \in Low'..High' /\ crt_pos' \in Nat
  BY <1>2, <1>3 DEF Low, High, Labels, Printing
<1>5. \A t \in Thread : pc'[t] \in Printing => t = main
  BY <1>1 DEF PosInv
<1> QED BY <1>2, <1>4, <1>5 DEF PosInv

\* Where a printing thread stands: it holds the lock, or it is main.
LEMMA Printer ==
  ASSUME ConsoleInv, PosInv, pc[cur] \in Printing
  PROVE  /\ Held => Inside
         /\ ~Held => /\ cur = main /\ Loose /\ ~Inside /\ chr[main] = "x"
                     /\ crt_pos \in Low..High
<1>1. ~Held => cur = main
  BY Basics DEF PosInv
<1>2. ~Held /\ cur = main => Loose
  BY Lock1 DEF Loose, HasLock
<1> QED BY <1>1, <1>2 DEF PosInv, Inside

LEMMA CallPos ==
  ASSUME ConsoleInv, PosInv, OnePrinter, NEW c \in Char, call(c) PROVE PosInv'
<1>1. /\ goto("store") /\ UNCHANGED <<vars, syncVars, crt_pos>>
      /\ chr' = [chr EXCEPT ![cur] = c] /\ reg' = [reg EXCEPT ![cur] = crt_pos]
      /\ \/ cur = main /\ pc[cur] = "out" /\ c = "x"
         \/ pc[cur] = "in"
  BY DEF call, OnePrinter
<1>2. /\ crt_pos \in Nat /\ reg \in [Thread -> Nat] /\ chr \in [Thread -> Char \cup {"x"}]
      /\ cur \in Thread
  BY Basics DEF PosInv
<1>3. /\ reg' \in [Thread -> Nat] /\ chr' \in [Thread -> Char \cup {"x"}]
      /\ reg'[cur] = crt_pos /\ chr'[cur] = c
      /\ \A t \in Thread \ {cur} : reg'[t] = reg[t] /\ chr'[t] = chr[t]
  BY <1>1, <1>2
<1>4. ~Inside /\ crt_pos \in Low..High
  BY <1>1 DEF PosInv, Inside, Printing
<1>5. "store" \in Labels /\ "store" \in Printing
  BY DEF Labels, Printing
<1>6. CASE pc[cur] = "in"
  <2>1. Held
    BY <1>6, Lock1
  <2> QED BY <1>1, <1>2, <1>3, <1>4, <1>5, <2>1, HeldMoves
<1>7. CASE cur = main /\ pc[cur] = "out" /\ c = "x"
  <2>1. ~Held /\ ~Loose
    BY <1>7, Lock1 DEF Loose, Printing
  <2>2. crt_pos \in 0..(CRT_SIZE - 1)
    BY <1>4, <2>1 DEF Low, High
  <2> QED BY <1>1, <1>3, <1>5, <1>7, <2>1, <2>2, LooseMoves
<1> QED BY <1>1, <1>6, <1>7

LEMMA StorePos ==
  ASSUME ConsoleInv, PosInv, OnePrinter, store PROVE PosInv'
<1>1. /\ pc[cur] = "store" /\ goto("test") /\ UNCHANGED <<vars, syncVars, reg, chr>>
      /\ crt_pos' = put(screen, reg[cur], chr[cur]).pos
  BY DEF store, setScreen
<1>2. "test" \in Labels /\ "test" \in Printing /\ pc[cur] \in Printing /\ IsScreen(screen)
  BY <1>1 DEF Labels, Printing, IsScreen, screen
<1>3. /\ reg \in [Thread -> Nat] /\ chr \in [Thread -> Char \cup {"x"}] /\ cur \in Thread
      /\ chr[cur] # "bs"
      /\ CRT_SIZE \in Nat /\ CRT_COLS \in Nat /\ CRT_SIZE >= CRT_COLS + CRT_COLS
  BY Basics, Size DEF PosInv, OnePrinter
<1>4. CASE Held
  <2>1. reg[cur] = crt_pos /\ crt_pos \in Low..High
    BY <1>1, <1>2, <1>4, Printer DEF PosInv
  <2>2. Low \in {0, CRT_SIZE - CRT_COLS} /\ High \in {CRT_SIZE - 1, CRT_SIZE}
    BY DEF Low, High
  <2>3. crt_pos' \in Low..Overrun
    BY <1>1, <1>2, <1>3, <2>1, <2>2, PutPos DEF Overrun
  <2>4. crt_pos' \in Nat
    BY <1>3, <2>2, <2>3 DEF Overrun
  <2> QED BY <1>1, <1>2, <1>3, <1>4, <2>3, <2>4, HeldMoves
<1>5. CASE ~Held
  <2>1. cur = main /\ chr[main] = "x" /\ reg[main] \in 0..(CRT_SIZE - 1)
    BY <1>1, <1>2, <1>5, Printer DEF PosInv
  <2>2. put(screen, reg[cur], chr[cur]).pos = reg[main] + 1
    <3>1. put(screen, reg[cur], "x") =
            [pos |-> reg[cur] + 1, buf |-> [screen.buf EXCEPT ![reg[cur]] = "x"]]
      BY DEF put
    <3> QED BY <2>1, <3>1
  <2>3. crt_pos' \in 0..CRT_SIZE
    BY <1>1, <1>3, <2>1, <2>2
  <2> QED BY <1>1, <1>2, <1>3, <1>5, <2>1, <2>3, LooseMoves
<1> QED BY <1>4, <1>5

LEMMA TestPos ==
  ASSUME ConsoleInv, PosInv, test PROVE PosInv'
<1>1. /\ pc[cur] = "test" /\ UNCHANGED <<vars, syncVars, crt_pos, reg, chr>>
      /\ crt_pos >= CRT_SIZE => goto("roll")
      /\ ~(crt_pos >= CRT_SIZE) => goto(IF HasLock THEN "in" ELSE "out")
  BY DEF test, return, full, screen
<1>2. /\ {"in", "out", "roll"} \subseteq Labels /\ pc[cur] \in Printing
      /\ "roll" \in Printing /\ "in" \notin Printing
  BY <1>1 DEF Labels, Printing
<1>3. /\ reg \in [Thread -> Nat] /\ chr \in [Thread -> Char \cup {"x"}] /\ crt_pos \in Nat
      /\ CRT_SIZE \in Nat /\ CRT_COLS \in Nat
  BY Size DEF PosInv
<1>4. CASE Held
  <2>1. crt_pos \in Low..Overrun /\ HasLock
    BY <1>1, <1>2, <1>4, Printer, Lock1 DEF PosInv
  <2>2. CASE crt_pos >= CRT_SIZE
    BY <1>1, <1>2, <1>3, <1>4, <2>1, <2>2, HeldMoves
  <2>3. CASE ~(crt_pos >= CRT_SIZE)
    <3>1. crt_pos \in Low..High
      BY <1>3, <2>1, <2>3 DEF Low, High
    <3> QED BY <1>1, <1>2, <1>3, <1>4, <2>1, <2>3, <3>1, HeldMoves
  <2> QED BY <2>2, <2>3
<1>5. CASE ~Held
  <2>1. cur = main /\ chr[main] = "x" /\ crt_pos \in 0..CRT_SIZE /\ ~HasLock
    BY <1>1, <1>2, <1>3, <1>5, Printer, Lock1 DEF Low, High
  <2>2. CASE crt_pos >= CRT_SIZE
    BY <1>1, <1>2, <1>3, <1>5, <2>1, <2>2, LooseMoves
  <2>3. CASE ~(crt_pos >= CRT_SIZE)
    BY <1>1, <1>2, <1>3, <1>5, <2>1, <2>3, LooseMoves
  <2> QED BY <2>2, <2>3
<1> QED BY <1>4, <1>5

LEMMA RollPos ==
  ASSUME ConsoleInv, PosInv, rollup PROVE PosInv'
<1>1. /\ pc[cur] = "roll" /\ goto("lower") /\ UNCHANGED <<vars, syncVars, crt_pos, chr>>
      /\ reg' = [reg EXCEPT ![cur] = crt_pos]
  BY DEF rollup
<1>2. "lower" \in Labels /\ "lower" \in Printing /\ pc[cur] \in Printing
  BY <1>1 DEF Labels, Printing
<1>3. /\ reg \in [Thread -> Nat] /\ chr \in [Thread -> Char \cup {"x"}] /\ crt_pos \in Nat
      /\ CRT_SIZE \in Nat /\ CRT_COLS \in Nat /\ cur \in Thread
  BY Basics, Size DEF PosInv
<1>4. /\ reg' \in [Thread -> Nat] /\ chr' \in [Thread -> Char \cup {"x"}]
      /\ reg'[cur] = crt_pos
      /\ \A t \in Thread \ {cur} : reg'[t] = reg[t] /\ chr'[t] = chr[t]
  BY <1>1, <1>3
<1>5. CASE Held
  <2>1. crt_pos \in Low..Overrun /\ crt_pos >= CRT_SIZE
    BY <1>1, <1>2, <1>5, Printer DEF PosInv
  <2> QED BY <1>1, <1>2, <1>3, <1>4, <1>5, <2>1, HeldMoves
<1>6. CASE ~Held
  <2>1. cur = main /\ chr[main] = "x" /\ crt_pos \in (CRT_SIZE - CRT_COLS)..CRT_SIZE
    BY <1>1, <1>2, <1>3, <1>6, Printer DEF Low, High
  <2>2. crt_pos \in 0..CRT_SIZE
    BY <1>3, <2>1
  <2> QED BY <1>1, <1>2, <1>3, <1>4, <1>6, <2>1, <2>2, LooseMoves
<1> QED BY <1>5, <1>6

LEMMA LoweredPos ==
  ASSUME ConsoleInv, PosInv, lowered PROVE PosInv'
<1>1. /\ pc[cur] = "lower" /\ UNCHANGED <<vars, syncVars, reg, chr>>
      /\ crt_pos' = lower(reg[cur]) /\ goto(IF HasLock THEN "in" ELSE "out")
  BY DEF lowered, return
<1>2. /\ {"in", "out"} \subseteq Labels /\ pc[cur] \in Printing /\ "in" \notin Printing
  BY <1>1 DEF Labels, Printing
<1>3. /\ reg \in [Thread -> Nat] /\ chr \in [Thread -> Char \cup {"x"}] /\ crt_pos \in Nat
      /\ CRT_SIZE \in Nat /\ CRT_COLS \in Nat /\ CRT_COLS > 0
      /\ CRT_SIZE >= CRT_COLS + CRT_COLS
  BY Size DEF PosInv
<1>4. CASE Held
  <2>1. reg[cur] \in CRT_SIZE..Overrun /\ HasLock /\ reg[cur] \in Nat /\ Overrun \in Nat
    BY <1>1, <1>2, <1>3, <1>4, Printer, Lock1 DEF PosInv, Overrun
  <2>2. reg[cur] \in (CRT_SIZE - CRT_COLS)..(CRT_SIZE + CRT_COLS)
    BY <1>3, <2>1 DEF Overrun
  <2>3. crt_pos' = reg[cur] - CRT_COLS /\ crt_pos' \in Nat
    BY <1>1, <2>2, LowerPos
  <2>4. crt_pos' \in Low..High
    BY <1>3, <2>1, <2>3 DEF Low, High, Overrun
  <2> QED BY <1>1, <1>2, <1>3, <1>4, <2>1, <2>3, <2>4, HeldMoves
<1>5. CASE ~Held
  <2>1. /\ cur = main /\ chr[main] = "x" /\ ~HasLock
        /\ reg[main] \in (CRT_SIZE - CRT_COLS)..CRT_SIZE
    BY <1>1, <1>2, <1>5, Printer, Lock1 DEF PosInv
  <2>2. reg[main] \in (CRT_SIZE - CRT_COLS)..(CRT_SIZE + CRT_COLS)
    BY <1>3, <2>1
  <2>3. crt_pos' = reg[main] - CRT_COLS /\ crt_pos' \in 0..(CRT_SIZE - 1)
    BY <1>1, <1>3, <2>1, <2>2, LowerPos
  <2> QED BY <1>1, <1>2, <1>3, <1>5, <2>1, <2>3, LooseMoves
<1> QED BY <1>4, <1>5

LEMMA AcquirePos ==
  ASSUME ConsoleInv, PosInv, acquire PROVE PosInv'
<1>1. /\ pc[cur] = "out" /\ pc' = [pc EXCEPT ![cur] = "in"]
      /\ UNCHANGED <<crt_pos, reg, chr>>
  BY DEF acquire, goto
<1>2. ~Held /\ locks[console_lock] = Free /\ cur \in Thread /\ main \in Thread
      /\ console_lock \in Lock /\ pc \in [Thread -> Labels] /\ NULL \notin Thread
  BY <1>1, Lock1, Basics DEF ConsoleInv, ConsoleTypes
<1>3. /\ locks' = [locks EXCEPT ![console_lock] =
                     [locked |-> TRUE, holder |-> cur, number |-> 1]]
      /\ cur' = cur /\ locks = [l \in Lock |-> locks[l]]
  BY <1>2 DEF acquire, lock_acquire, spinlock_acquire, queues, Free, ConsoleInv, LockSound
<1>4. locks'[console_lock].holder = cur /\ locks[console_lock].holder # main
  BY <1>2, <1>3 DEF Free
<1>5. /\ \A t \in Thread : (pc'[t] \in Printing <=> pc[t] \in Printing)
                           /\ (pc[t] \in Printing => pc'[t] = pc[t] /\ t # cur)
      /\ ~Inside' /\ ~Inside
  BY <1>1, <1>2, <1>3 DEF Printing, Inside
<1>6. Loose' <=> Loose
  BY <1>2, <1>4, <1>5 DEF Loose
<1>7. Loose => pc'[main] = pc[main]
  BY <1>2, <1>5 DEF Loose
<1>8. Low' = Low /\ High' = High
  BY <1>6, <1>7 DEF Low, High
<1>9. \A t \in Thread : pc'[t] \in Printing => t = main
  BY <1>2, <1>5 DEF PosInv
<1> QED BY <1>1, <1>5, <1>6, <1>7, <1>8, <1>9 DEF PosInv

LEMMA ReleasePos ==
  ASSUME ConsoleInv, PosInv, release PROVE PosInv'
<1>1. /\ pc[cur] = "in" /\ pc' = [pc EXCEPT ![cur] = "out"] /\ lock_release(console_lock)
      /\ UNCHANGED <<crt_pos, reg, chr>>
  BY DEF release, goto
<1>2. /\ locks[console_lock] = [locked |-> TRUE, holder |-> cur, number |-> 1]
      /\ cur \in Thread /\ main \in Thread /\ NULL \notin Thread
      /\ console_lock \in Lock /\ pc \in [Thread -> Labels]
  BY <1>1, Lock1, Basics DEF ConsoleInv, ConsoleTypes
<1>3. locks' = [locks EXCEPT ![console_lock] = Free] /\ locks = [l \in Lock |-> locks[l]]
  <2>1. locks' = [locks EXCEPT ![console_lock] = Free]
    BY <1>1, <1>2 DEF lock_release
  <2>2. locks = [l \in Lock |-> locks[l]]
    BY DEF ConsoleInv, LockSound
  <2> QED BY <2>1, <2>2
<1>4. ~Held' /\ locks'[console_lock].holder = NULL
  BY <1>2, <1>3 DEF Held, Free
<1>5. /\ \A t \in Thread : (pc'[t] \in Printing <=> pc[t] \in Printing)
                           /\ (pc[t] \in Printing => pc'[t] = pc[t] /\ t # cur)
      /\ ~Inside' /\ ~Inside
  BY <1>1, <1>2, <1>4 DEF Printing, Inside
<1>6. Loose' <=> Loose
  BY <1>2, <1>4, <1>5 DEF Loose
<1>7. Loose => pc'[main] = pc[main]
  BY <1>2, <1>5 DEF Loose
<1>8. Low' = Low /\ High' = High
  BY <1>6, <1>7 DEF Low, High
<1>9. \A t \in Thread : pc'[t] \in Printing => t = main
  BY <1>2, <1>5 DEF PosInv
<1> QED BY <1>1, <1>5, <1>6, <1>7, <1>8, <1>9 DEF PosInv

\* Whatever others do while the lock is free: the position stays in its bounds.
LEMMA QuietPos ==
  ASSUME ConsoleInv, PosInv, ~Held, UNCHANGED <<syncVars, pc, reg, chr>>,
         crt_pos \in Low..High => crt_pos' \in Low..High
  PROVE  PosInv'
<1>1. ~Inside /\ ~Inside' /\ (Loose' <=> Loose)
  BY DEF Inside, Held, Loose, syncVars
<1>2. Low' = Low /\ High' = High
  BY <1>1 DEF Low, High
<1>3. crt_pos' \in Low..High
  BY <1>1 DEF PosInv
<1>4. crt_pos' \in Nat
  <2>1. Low \in Nat
    BY Size DEF Low
  <2> QED BY <1>3, <2>1, Size DEF High
<1>5. \A t \in Thread : pc[t] \in Printing => t = main
  BY DEF PosInv
<1> QED BY <1>1, <1>2, <1>3, <1>4, <1>5 DEF PosInv

LEMMA OthersPos ==
  ASSUME ConsoleInv, PosInv, enable \/ boot \/ timer \/ idler PROVE PosInv'
<1>1. UNCHANGED <<syncVars, crt_pos, pc, reg, chr>>
  BY DEF enable, boot, timer, idler, consoleVars
<1>2. intr \/ pc[cur] = "out"
  <2>1. idler => cur = idle
    BY DEF idler, idle_block, idle_hlt
  <2>2. boot => cur = main /\ pc[main] = "out"
    BY DEF boot, start, thread_start
  <2> QED BY <2>1, <2>2 DEF enable, timer, timer_intr_handler, ConsoleInv, ConsoleTypes
<1> QED BY <1>1, <1>2, NobodyPrints, QuietPos

\* The handler prints between any two steps of main: from bounds into bounds.
LEMMA KeyboardPos ==
  ASSUME ConsoleInv, PosInv, keyboard_intr_handler PROVE PosInv'
<1>1. /\ intr /\ crt_pos' = key_pressed(screen).pos
      /\ UNCHANGED <<syncVars, pc, reg, chr>>
  BY DEF keyboard_intr_handler, setScreen
<1>2. Low \in {0, CRT_SIZE - CRT_COLS} /\ High \in {CRT_SIZE - 1, CRT_SIZE}
  BY DEF Low, High
<1>3. ASSUME crt_pos \in Low..High PROVE crt_pos' \in Low..High
  <2> DEFINE a == vga_putc(screen, "k")
             c == vga_putc(a, "nl")
  <2>1. IsScreen(screen) /\ screen.pos \in Low..High
    BY <1>3 DEF IsScreen, screen
  <2>2. IsScreen(a) /\ a.pos \in Low..High
    BY <1>2, <2>1, PutcScreen, PutcPos
  <2> HIDE DEF a
  <2>3. IsScreen(c) /\ c.pos \in Low..High
    BY <1>2, <2>2, PutcScreen, PutcPos
  <2> HIDE DEF c
  <2>4. vga_putc(c, "k").pos \in Low..High
    BY <1>2, <2>3, PutcPos
  <2> QED BY <1>1, <2>4 DEF key_pressed, a, c
<1> QED BY <1>1, <1>3, NobodyPrints, QuietPos

LEMMA InitPosInv == ASSUME OnePrinter, ConsoleInit PROVE PosInv
<1>1. /\ pc = [t \in Thread |-> "out"] /\ reg = [t \in Thread |-> 0]
      /\ chr = [t \in Thread |-> "x"] /\ crt_pos = 0
  BY DEF ConsoleInit
<1>2. cur \in Thread /\ main \in Thread
  BY InitConsoleInv, Basics
<1>3. ~Inside /\ ~Loose
  BY <1>1, <1>2 DEF Inside, Loose, Printing
<1>4. Low = 0 /\ High = CRT_SIZE - 1
  BY <1>3 DEF Low, High
<1>5. crt_pos \in Low..High
  BY <1>1, <1>4, Size
<1> QED BY <1>1, <1>3, <1>5 DEF PosInv, Printing

LEMMA PosStep ==
  ASSUME OnePrinter, ConsoleInv, PosInv, [ConsoleNext]_allVars PROVE PosInv'
<1>1. CASE UNCHANGED allVars
  BY <1>1 DEF allVars, vars, syncVars, consoleVars, PosInv, Held, Inside, Loose, Low, High,
     Overrun
<1> QED BY <1>1, AcquirePos, ReleasePos, CallPos, StorePos, TestPos, RollPos, LoweredPos,
           OthersPos, KeyboardPos DEF ConsoleNext

(***************************************************************************)
(* main(), which prints without the lock, can be interrupted by the timer  *)
(* and the keyboard anywhere in vga_putc(), and others print there; still  *)
(* no character is stored behind the first cell after the screen: a thread *)
(* that is interrupted before it rolls leaves the position at CRT_SIZE at  *)
(* most, from which the others roll themselves.                            *)
(***************************************************************************)
THEOREM StoresNear == ASSUME OnePrinter PROVE ConsoleSpec => []StoresNearScreen
<1>1. ConsoleInit => ConsoleInv /\ PosInv
  BY InitConsoleInv, InitPosInv
<1>2. ConsoleInv /\ PosInv /\ [ConsoleNext]_allVars => ConsoleInv' /\ PosInv'
  BY ConsoleStep, PosStep
<1>3. ConsoleInv /\ PosInv => StoresNearScreen
  <2> SUFFICES ASSUME ConsoleInv, PosInv PROVE StoresNearScreen
    OBVIOUS
  <2>1. CRT_SIZE \in Nat /\ CRT_COLS \in Nat /\ Low \in Nat /\ High \in Nat /\ High <= CRT_SIZE
    BY Size DEF Low, High
  <2>2. intr => crt_pos <= CRT_SIZE
    <3>1. intr => crt_pos \in Low..High
      BY DEF ConsoleInv, LockSound, PosInv, Inside
    <3> QED BY <2>1, <3>1
  <2>3. ASSUME NEW t \in Thread, pc[t] = "store" PROVE reg[t] <= CRT_SIZE
    <3>1. pc[t] \in Printing
      BY <2>3 DEF Printing
    <3>2. CASE Held /\ t = cur
      <4>1. reg[t] \in Low..High
        BY <2>3, <3>1, <3>2 DEF PosInv, Inside
      <4> QED BY <2>1, <4>1
    <3>3. CASE ~(Held /\ t = cur)
      <4>1. t = main
        BY <3>1, <3>3 DEF PosInv
      <4>2. locks[console_lock].holder # main
        BY <3>3, <4>1, Lock1, Basics DEF HasLock, Free
      <4>3. reg[t] \in 0..(CRT_SIZE - 1)
        BY <2>3, <3>1, <4>1, <4>2 DEF PosInv, Loose
      <4> QED BY <2>1, <4>3
    <3> QED BY <3>2, <3>3
  <2> QED BY <2>2, <2>3 DEF StoresNearScreen
<1> QED BY <1>1, <1>2, <1>3, PTL DEF ConsoleSpec

-----------------------------------------------------------------------------
(***************************************************************************)
(* The digits of printnum().  What a recursive function computes is found  *)
(* by taking the least number where it would not.                          *)
(***************************************************************************)
LEMMA Least ==
  ASSUME NEW S \in SUBSET Nat, S # {}
  PROVE  \E x \in S : \A y \in S : x <= y
<1>1. \E x \in S : \A y \in S : ~(<<y, x>> \in OpToRel(<, Nat))
  BY NatLessThanWellFounded, WFMin
<1>2. PICK x \in S : \A y \in S : ~(<<y, x>> \in OpToRel(<, Nat))
  BY <1>1
<1>3. ASSUME NEW y \in S PROVE x <= y
  <2>1. <<y, x>> \in Nat \X Nat /\ ~(y < x)
    BY <1>2 DEF OpToRel
  <2> QED BY <2>1
<1> QED BY <1>3

\* A set of numbers with 0 and the successors of its members is all of Nat.
LEMMA Induction ==
  ASSUME NEW B \in SUBSET Nat, 0 \in B, \A n \in Nat : n \in B => n + 1 \in B
  PROVE  B = Nat
<1> SUFFICES ASSUME Nat \ B # {} PROVE FALSE
  OBVIOUS
<1>1. PICK n \in Nat \ B : \A y \in Nat \ B : n <= y
  BY Least
<1>2. n - 1 \in Nat /\ (n - 1) + 1 = n /\ ~(n <= n - 1)
  BY <1>1
<1> QED BY <1>1, <1>2

\* Quotient and remainder are the only ones.
LEMMA Quotient ==
  ASSUME NEW n \in Int, NEW m \in Nat \ {0}
  PROVE  n \div m \in Int /\ n % m \in 0..(m - 1) /\ n = m * (n \div m) + (n % m)
OBVIOUS

\* A quotient and a remainder below m are the ones of \div and %.
LEMMA Remainder ==
  ASSUME NEW m \in Nat \ {0}, NEW q \in Int, NEW r \in 0..(m - 1), NEW n \in Int,
         n = m * q + r
  PROVE  n \div m = q /\ n % m = r
<1> DEFINE a == n \div m  s == n % m
<1>1. a \in Int /\ s \in 0..(m - 1) /\ n = m * a + s
  BY Quotient
<1> HIDE DEF a, s
<1>2. m * (a - q) = r - s
  <2>1. m * (a - q) = m * a - m * q
    BY <1>1
  <2> QED BY <1>1, <2>1
<1>3. ~(a - q >= 1)
  <2> SUFFICES ASSUME a - q >= 1 PROVE FALSE
    OBVIOUS
  <2>1. m * (a - q) >= m
    BY <1>1
  <2> QED BY <1>1, <1>2, <2>1
<1>4. ~(a - q <= -1)
  <2> SUFFICES ASSUME a - q <= -1 PROVE FALSE
    OBVIOUS
  <2>1. m * (a - q) <= -m
    BY <1>1
  <2> QED BY <1>1, <1>2, <2>1
<1>5. a = q
  BY <1>1, <1>3, <1>4
<1>6. s = r
  BY <1>1, <1>5
<1> QED BY <1>5, <1>6 DEF a, s

\* The two divl of do_div() divide the whole long long.
LEMMA DoDiv ==
  ASSUME NEW n \in Nat, NEW base \in {8, 10, 16}
  PROVE  do_div(n, base) = [n |-> n \div base, mod |-> n % base]
<1> DEFINE high == n \div Ints  l == n % Ints
           low == (high % base) * Ints + l
           hq == high \div base  hr == high % base
           lq == low \div base  lr == low % base
<1>1. Ints \in Nat \ {0} /\ base \in Nat \ {0}
  BY PrintfmtAssumption
<1>2. high \in Int /\ l \in 0..(Ints - 1) /\ n = Ints * high + l
  BY <1>1, Quotient
<1>3. hq \in Int /\ hr \in 0..(base - 1) /\ high = base * hq + hr
  <2> HIDE DEF high
  <2> QED BY <1>1, <1>2, Quotient
<1>4. low \in Int /\ low = hr * Ints + l
  <2> HIDE DEF high, l
  <2>1. hr \in Int /\ l \in Int
    BY <1>2, <1>3
  <2> HIDE DEF hr
  <2>2. low = hr * Ints + l
    BY DEF hr
  <2> HIDE DEF low
  <2> QED BY <1>1, <2>1, <2>2
<1>5. lq \in Int /\ lr \in 0..(base - 1) /\ low = base * lq + lr
  <2> HIDE DEF low
  <2> QED BY <1>1, <1>4, Quotient
<1>6. do_div(n, base) = [n |-> hq * Ints + lq, mod |-> lr]
  BY DEF do_div
<1> HIDE DEF high, l, low, hq, hr, lq, lr
<1>7. Ints * high = Ints * (base * hq) + Ints * hr
  BY <1>1, <1>2, <1>3
<1>8. Ints * (base * hq) = base * (hq * Ints) /\ Ints * hr = hr * Ints /\ hq * Ints \in Int
  <2>1. Ints * (base * hq) = base * (hq * Ints)
    BY <1>1, <1>3
  <2>2. Ints * hr = hr * Ints
    BY <1>1, <1>3
  <2> QED BY <1>1, <1>3, <2>1, <2>2
<1>9. n = base * (hq * Ints) + base * lq + lr
  <2> DEFINE x == Ints * high  y == Ints * hr  z == base * (hq * Ints)  u == base * lq
  <2>1. x \in Int /\ y \in Int /\ z \in Int /\ u \in Int
    BY <1>1, <1>2, <1>3, <1>5, <1>8
  <2>4. l \in Int /\ lr \in Int
    BY <1>1, <1>2, <1>5
  <2>5. Ints * hr = hr * Ints
    BY <1>8
  <2>2. /\ x = z + y /\ n = x + l /\ low = y + l /\ low = u + lr
    <3>1. x = z + y
      BY <1>7, <1>8, Zenon
    <3>2. n = x + l
      BY <1>2, Zenon
    <3>3. low = y + l
      BY <1>4, <2>5, Zenon
    <3>4. low = u + lr
      BY <1>5, Zenon
    <3> QED BY <3>1, <3>2, <3>3, <3>4
  <2> HIDE DEF x, y, z, u
  <2>3. n = z + u + lr
    BY <2>1, <2>2, <2>4
  <2> QED BY <2>3 DEF z, u
<1>10. hq * Ints + lq \in Int /\ n = base * (hq * Ints + lq) + lr
  BY <1>1, <1>3, <1>5, <1>8, <1>9
<1>11. n \div base = hq * Ints + lq /\ n % base = lr
  <2> DEFINE q == hq * Ints + lq
  <2>1. q \in Int /\ n \in Int /\ n = base * q + lr
    BY <1>10
  <2> HIDE DEF q
  <2>2. n \div base = q /\ n % base = lr
    BY <1>1, <1>5, <2>1, Remainder
  <2> QED BY <2>2 DEF q
<1> QED BY <1>6, <1>11

-----------------------------------------------------------------------------
\* What printnum() prints before the digit of n: the rest of the number, from base on.
Rest(n, base, f) == IF n >= base THEN f[n \div base] ELSE <<>>

LastDigit(n, base) == Digits[(n % base) + 1]

\* f has the digits of the numbers below N.
HasDigits(N, base, f) ==
  f = [n \in 0..(N - 1) |-> Rest(n, base, f) \o <<LastDigit(n, base)>>]

\* A number that is not one digit gets smaller when its last digit is taken off.
LEMMA Smaller ==
  ASSUME NEW n \in Nat, NEW base \in {8, 10, 16}
  PROVE  /\ n \div base \in Nat /\ n % base \in 0..(base - 1)
         /\ n = base * (n \div base) + (n % base)
         /\ n >= base => n \div base < n
OBVIOUS

\* The recursion of printnum() has a solution.
LEMMA DigitsExist ==
  ASSUME NEW base \in {8, 10, 16}
  PROVE  \A N \in Nat : \E f : HasDigits(N, base, f)
<1> DEFINE B == {N \in Nat : \E f : HasDigits(N, base, f)}
<1>1. 0 \in B
  <2> DEFINE f == [n \in 0..(0 - 1) |-> <<>>]
  <2>1. 0..(0 - 1) = {}
    OBVIOUS
  <2>2. HasDigits(0, base, f)
    BY <2>1 DEF HasDigits
  <2> HIDE DEF f
  <2> QED BY <2>2
<1>2. ASSUME NEW N \in Nat, N \in B PROVE N + 1 \in B
  <2>1. PICK g : HasDigits(N, base, g)
    BY <1>2
  <2> DEFINE final == Rest(N, base, g) \o <<LastDigit(N, base)>>
             h == [n \in 0..((N + 1) - 1) |-> IF n = N THEN final ELSE g[n]]
  <2> HIDE DEF final
  <2>2. /\ \A n \in 0..(N - 1) : n \in 0..((N + 1) - 1) /\ n # N
        /\ N \in 0..((N + 1) - 1)
        /\ \A n \in 0..((N + 1) - 1) : n # N => n \in 0..(N - 1)
    OBVIOUS
  <2>3. (\A n \in 0..(N - 1) : h[n] = g[n]) /\ h[N] = final
    BY <2>2
  <2>4. ASSUME NEW n \in 0..((N + 1) - 1)
        PROVE  Rest(n, base, h) = Rest(n, base, g)
    <3>1. CASE n >= base
      <4>1. n \div base \in 0..(N - 1)
        <5>1. n \in Nat /\ n \div base \in Nat /\ n \div base < n
          BY <3>1, Smaller
        <5> HIDE DEF h
        <5> QED BY <5>1
      <4>2. h[n \div base] = g[n \div base]
        BY <2>3, <4>1
      <4> HIDE DEF h
      <4> QED BY <4>2 DEF Rest
    <3> HIDE DEF h
    <3>2. CASE ~(n >= base)
      BY <3>2 DEF Rest
    <3> QED BY <3>1, <3>2
  <2>5. ASSUME NEW n \in 0..((N + 1) - 1)
        PROVE  h[n] = Rest(n, base, h) \o <<LastDigit(n, base)>>
    <3>1. CASE n = N
      <4> HIDE DEF h
      <4> QED BY <2>3, <2>4, <3>1 DEF final
    <3>2. CASE n # N
      <4>1. n \in 0..(N - 1)
        BY <2>2, <3>2
      <4>2. g[n] = Rest(n, base, g) \o <<LastDigit(n, base)>>
        BY <2>1, <4>1 DEF HasDigits
      <4> HIDE DEF h
      <4> QED BY <2>3, <2>4, <4>1, <4>2
    <3> QED BY <3>1, <3>2
  <2>6. h = [n \in 0..((N + 1) - 1) |-> h[n]]
    OBVIOUS
  <2> HIDE DEF h
  <2>7. HasDigits(N + 1, base, h)
    BY <2>5, <2>6 DEF HasDigits
  <2> QED BY <2>7
<1>3. B = Nat
  <2> HIDE DEF B
  <2>1. B \in SUBSET Nat
    BY DEF B
  <2> QED BY <1>1, <1>2, <2>1, Induction
<1> QED BY <1>3

\* The recursion of printnum().
Recursion(base, digits) ==
  digits = [n \in 0..(LongLongs - 1) |->
              LET r == do_div(n, base)
              IN (IF n >= base THEN digits[r.n] ELSE <<>>) \o <<Digits[r.mod + 1]>>]

\* printnum() pads and prints the digits.
LEMMA PrintnumIs ==
  ASSUME NEW base \in {8, 10, 16}
  PROVE  \E f : /\ HasDigits(LongLongs, base, f)
                /\ \A num, width, padc :
                     printnum(num, base, width, padc) =
                       padding(width - Len(f[num]), padc) \o f[num]
<1> DEFINE f == CHOOSE g : Recursion(base, g)
<1>1. LongLongs \in Nat
  BY PrintfmtAssumption DEF LongLongs
<1>2. \E g : HasDigits(LongLongs, base, g)
  BY <1>1, DigitsExist
<1>3. ASSUME NEW n \in 0..(LongLongs - 1)
      PROVE  do_div(n, base).n = n \div base /\ do_div(n, base).mod = n % base
  <2>1. n \in Nat
    BY <1>1
  <2>2. do_div(n, base) = [n |-> n \div base, mod |-> n % base]
    BY <2>1, DoDiv
  <2> QED BY <2>2
<1>4. ASSUME NEW g PROVE Recursion(base, g) <=> HasDigits(LongLongs, base, g)
  <2>1. ASSUME NEW n \in 0..(LongLongs - 1)
        PROVE  (LET r == do_div(n, base)
                IN (IF n >= base THEN g[r.n] ELSE <<>>) \o <<Digits[r.mod + 1]>>)
               = Rest(n, base, g) \o <<LastDigit(n, base)>>
    <3>1. do_div(n, base).n = n \div base /\ do_div(n, base).mod = n % base
      BY <1>3
    <3> QED BY <3>1, Zenon DEF Rest, LastDigit
  <2> DEFINE A(n) == LET r == do_div(n, base)
                     IN (IF n >= base THEN g[r.n] ELSE <<>>) \o <<Digits[r.mod + 1]>>
             C(n) == Rest(n, base, g) \o <<LastDigit(n, base)>>
  <2>2. /\ Recursion(base, g) <=> g = [n \in 0..(LongLongs - 1) |-> A(n)]
        /\ HasDigits(LongLongs, base, g) <=> g = [n \in 0..(LongLongs - 1) |-> C(n)]
    BY Zenon DEF HasDigits, Recursion
  <2>3. \A n \in 0..(LongLongs - 1) : A(n) = C(n)
    BY <2>1
  <2> HIDE DEF A, C
  <2>4. [n \in 0..(LongLongs - 1) |-> A(n)] = [n \in 0..(LongLongs - 1) |-> C(n)]
    BY <2>3
  <2> QED BY <2>2, <2>4
<1>5. Recursion(base, f)
  BY <1>2, <1>4
<1>6. ASSUME NEW num, NEW width, NEW padc
      PROVE  printnum(num, base, width, padc) =
               padding(width - Len(f[num]), padc) \o f[num]
  BY Zenon DEF printnum, Recursion
<1> HIDE DEF f
<1> QED BY <1>4, <1>5, <1>6

\* Sequences over more characters.
LEMMA SeqMonotone ==
  ASSUME NEW S, NEW T, S \subseteq T PROVE Seq(S) \subseteq Seq(T)
OBVIOUS

\* A number has at least one digit, all of the base.
LEMMA DigitsAre ==
  ASSUME NEW base \in {8, 10, 16}, NEW f, HasDigits(LongLongs, base, f)
  PROVE  \A n \in 0..(LongLongs - 1) :
           f[n] \in Seq({Digits[d] : d \in 1..base}) /\ Len(f[n]) \in Nat \ {0}
<1> DEFINE D == {Digits[d] : d \in 1..base}
           Good(n) == f[n] \in Seq(D) /\ Len(f[n]) \in Nat \ {0}
           Bad == {n \in 0..(LongLongs - 1) : ~Good(n)}
<1>1. LongLongs \in Nat
  BY PrintfmtAssumption DEF LongLongs
<1>2. ASSUME Bad # {} PROVE FALSE
  <2>1. Bad \in SUBSET Nat
    BY <1>1
  <2>2. PICK n \in Bad : \A y \in Bad : n <= y
    <3> HIDE DEF Bad
    <3> QED BY <1>2, <2>1, Least
  <2>3. n \in Nat /\ n \in 0..(LongLongs - 1) /\ ~Good(n)
    BY <1>1
  <2>4. f[n] = Rest(n, base, f) \o <<LastDigit(n, base)>>
    BY <2>3 DEF HasDigits
  <2>5. LastDigit(n, base) \in D
    <3>1. n % base \in 0..(base - 1)
      BY <2>3, Smaller
    <3>2. (n % base) + 1 \in 1..base
      BY <3>1
    <3> QED BY <3>2 DEF LastDigit
  <2>6. Rest(n, base, f) \in Seq(D)
    <3>1. CASE n >= base
      <4>1. n \div base \in Nat /\ n \div base < n
        BY <2>3, <3>1, Smaller
      <4>2. n \div base \in 0..(LongLongs - 1) /\ ~(n <= n \div base)
        BY <1>1, <2>3, <4>1
      <4>3. Good(n \div base)
        BY <2>2, <4>2
      <4> QED BY <3>1, <4>3 DEF Rest
    <3>2. CASE ~(n >= base)
      BY <3>2 DEF Rest
    <3> QED BY <3>1, <3>2
  <2> HIDE DEF D
  <2>7. Good(n)
    BY <2>4, <2>5, <2>6
  <2> QED BY <2>3, <2>7
<1> QED BY <1>2

\* The digits by their place.
LEMMA DigitIs ==
  /\ Digits[1] = "0" /\ Digits[2] = "1" /\ Digits[3] = "2" /\ Digits[4] = "3"
  /\ Digits[5] = "4" /\ Digits[6] = "5" /\ Digits[7] = "6" /\ Digits[8] = "7"
  /\ Digits[9] = "8" /\ Digits[10] = "9" /\ Digits[11] = "a" /\ Digits[12] = "b"
  /\ Digits[13] = "c" /\ Digits[14] = "d" /\ Digits[15] = "e" /\ Digits[16] = "f"
BY DEF Digits

\* The places of Digits, one by one.
LEMMA DigitRange ==
  \A d \in 1..16 : d \in {1, 2, 3, 4, 5, 6, 7, 8, 9, 10, 11, 12, 13, 14, 15, 16}
OBVIOUS

\* No digit occurs twice.
LEMMA DigitsDiffer ==
  ASSUME NEW d \in 1..16, NEW e \in 1..16, Digits[d] = Digits[e] PROVE d = e
<1>1. d \in 1..8 \/ d \in 9..16
  OBVIOUS
<1>2. CASE d \in 1..8
  <2>1. d \in {1, 2, 3, 4, 5, 6, 7, 8}
    BY <1>2
  <2> QED BY <2>1, DigitIs, DigitRange, SMTT(60)
<1>3. CASE d \in 9..16
  <2>1. d \in {9, 10, 11, 12, 13, 14, 15, 16}
    BY <1>3
  <2> QED BY <2>1, DigitIs, DigitRange, SMTT(60)
<1> QED BY <1>1, <1>2, <1>3

FormatChar == NotDigit \cup {Digits[d] : d \in 1..10}

Literals ==
  {"%", "?", " ", "-", "0", "x", "e", "r", "o", "message", "(", "n", "u", "l", ")"}

StrChars == UNION {{s[i] : i \in DOMAIN s} : s \in StrArg}

\* What is printed.
OutChar == (FormatChar \ {NUL}) \cup {Digits[d] : d \in 1..16} \cup StrChars \cup Literals

\* The smaller of two numbers.
LEMMA MinOfTwo ==
  ASSUME NEW x \in Nat, NEW y \in Nat PROVE Min({x, y}) = IF x < y THEN x ELSE y
<1> DEFINE m == IF x < y THEN x ELSE y
           p == Min({x, y})
<1>1. m \in {x, y} /\ \A z \in {x, y} : m <= z
  OBVIOUS
<1>2. p \in {x, y} /\ \A z \in {x, y} : p <= z
  <2> HIDE DEF m
  <2> QED BY <1>1, Zenon DEF Min
<1> HIDE DEF m, p
<1>3. m = p
  BY <1>1, <1>2
<1> QED BY <1>3 DEF m, p

\* The loop of printnum() over the width.
LEMMA PaddingIs ==
  ASSUME NEW n \in Int, NEW c
  PROVE  /\ padding(n, c) = [i \in 1..(IF n > 0 THEN n ELSE 0) |-> c]
         /\ padding(n, c) \in Seq({c})
<1>1. Max({0, n}) = IF n > 0 THEN n ELSE 0
  BY DEF Max
<1>2. padding(n, c) = [i \in 1..(IF n > 0 THEN n ELSE 0) |-> c]
  BY <1>1, Zenon DEF padding
<1> QED BY <1>2

\* printnum() gives characters to putch().
LEMMA PrintnumChars ==
  ASSUME NEW base \in {8, 10, 16}, NEW num \in 0..(LongLongs - 1), NEW width \in Int,
         NEW padc \in OutChar
  PROVE  printnum(num, base, width, padc) \in Seq(OutChar)
<1>1. PICK f : /\ HasDigits(LongLongs, base, f)
               /\ printnum(num, base, width, padc) = padding(width - Len(f[num]), padc) \o f[num]
  <2>1. PICK f : /\ HasDigits(LongLongs, base, f)
                 /\ \A n, w, p : printnum(n, base, w, p) = padding(w - Len(f[n]), p) \o f[n]
    BY PrintnumIs
  <2> QED BY <2>1, Zenon
<1>2. f[num] \in Seq({Digits[d] : d \in 1..base}) /\ Len(f[num]) \in Nat
  BY <1>1, DigitsAre
<1>3. {Digits[d] : d \in 1..base} \subseteq OutChar
  <2>1. 1..base \subseteq 1..16
    OBVIOUS
  <2> QED BY <2>1 DEF OutChar
<1>4. f[num] \in Seq(OutChar)
  BY <1>2, <1>3
<1>5. padding(width - Len(f[num]), padc) \in Seq(OutChar)
  <2>1. padding(width - Len(f[num]), padc) \in Seq({padc})
    <3>1. width - Len(f[num]) \in Int
      BY <1>2
    <3> QED BY <3>1, PaddingIs
  <2>2. {padc} \subseteq OutChar
    OBVIOUS
  <2> QED BY <2>1, <2>2, SeqMonotone
<1>6. \A p, q \in Seq(OutChar) : p \o q \in Seq(OutChar)
  OBVIOUS
<1> QED BY <1>1, <1>4, <1>5, <1>6, Zenon

-----------------------------------------------------------------------------
(***************************************************************************)
(* What the buffer r of sprintputch() holds after the characters o.        *)
(***************************************************************************)
Kept(r, o) ==
  /\ r = [buf |-> r.buf, ebuf |-> r.ebuf, cnt |-> Len(o), mem |-> r.mem]
  /\ r.ebuf \in Int /\ r.ebuf >= -1
  /\ r.mem = [a \in 0..(r.ebuf + 1) |-> r.mem[a]]
  /\ r.buf = IF r.ebuf < 0 THEN 0 ELSE IF Len(o) < r.ebuf THEN Len(o) ELSE r.ebuf
  /\ r.mem[r.ebuf + 1] = "old"
  /\ \A i \in 1..r.buf : r.mem[i - 1] = o[i]

\* sprintputch() stores one more character, or counts it when there is no room.
LEMMA PutKeeps ==
  ASSUME NEW r, NEW o \in Seq(OutChar), Kept(r, o), NEW c \in OutChar
  PROVE  Kept(sprintputch(r, c), Append(o, c))
<1> DEFINE p == Append(o, c)  t == sprintputch(r, c)
<1>1. Len(o) \in Nat /\ Len(p) = Len(o) + 1 /\ p[Len(o) + 1] = c
      /\ \A i \in 1..Len(o) : p[i] = o[i]
  OBVIOUS
<1>2. r.ebuf \in Int /\ r.ebuf >= -1 /\ r.buf \in Nat /\ r.buf <= Len(o) /\ r.cnt = Len(o)
  BY <1>1 DEF Kept
<1>3. CASE r.buf < r.ebuf
  <2> DEFINE m == [r.mem EXCEPT ![r.buf] = c]
  <2>1. t = [buf |-> r.buf + 1, ebuf |-> r.ebuf, cnt |-> Len(o) + 1, mem |-> m]
    BY <1>2, <1>3 DEF sprintputch, Kept
  <2>2. r.buf = Len(o)
    BY <1>1, <1>3 DEF Kept
  <2>3. DOMAIN r.mem = 0..(r.ebuf + 1) /\ r.mem[r.ebuf + 1] = "old"
    BY DEF Kept
  <2>4. /\ m = [a \in 0..(r.ebuf + 1) |-> m[a]]
        /\ m[r.buf] = c
        /\ \A a \in 0..(r.ebuf + 1) : a # r.buf => m[a] = r.mem[a]
    <3> DEFINE M == r.mem  e == r.ebuf + 1  k == r.buf
    <3>1. k \in 0..e /\ M = [a \in 0..e |-> M[a]]
      BY <1>2, <1>3 DEF Kept
    <3>2. m = [M EXCEPT ![k] = c]
      OBVIOUS
    <3> HIDE DEF M, e, k, m
    <3>3. /\ m = [a \in 0..e |-> m[a]] /\ m[k] = c
          /\ \A a \in 0..e : a # k => m[a] = M[a]
      BY <3>1, <3>2
    <3> QED BY <3>3 DEF M, e, k
  <2> HIDE DEF m
  <2>5. m[r.ebuf + 1] = "old"
    <3>1. r.ebuf + 1 \in 0..(r.ebuf + 1) /\ r.ebuf + 1 # r.buf
      BY <1>2, <1>3
    <3> QED BY <2>3, <2>4, <3>1
  <2>6. ASSUME NEW i \in 1..(r.buf + 1) PROVE m[i - 1] = p[i]
    <3>1. CASE i = r.buf + 1
      <4>1. i - 1 = r.buf
        BY <1>2, <3>1
      <4> QED BY <1>1, <2>2, <2>4, <3>1, <4>1
    <3>2. CASE i # r.buf + 1
      <4>1. i \in 1..r.buf /\ i - 1 \in 0..(r.ebuf + 1) /\ i - 1 # r.buf
        BY <1>2, <1>3, <3>2
      <4>2. r.mem[i - 1] = o[i]
        BY <4>1 DEF Kept
      <4> QED BY <1>1, <2>2, <2>4, <4>1, <4>2
    <3> QED BY <3>1, <3>2
  <2> HIDE DEF p, t
  <2>7. r.buf + 1 = IF r.ebuf < 0 THEN 0 ELSE IF Len(p) < r.ebuf THEN Len(p) ELSE r.ebuf
    BY <1>1, <1>2, <1>3, <2>2
  <2>8. /\ t.buf = r.buf + 1 /\ t.ebuf = r.ebuf /\ t.cnt = Len(p) /\ t.mem = m
        /\ t = [buf |-> t.buf, ebuf |-> t.ebuf, cnt |-> Len(p), mem |-> t.mem]
    BY <1>1, <2>1
  <2>9. Kept(t, p)
    BY <1>2, <2>4, <2>5, <2>6, <2>7, <2>8 DEF Kept
  <2> QED BY <2>9 DEF t, p
<1>4. CASE ~(r.buf < r.ebuf)
  <2>1. t = [buf |-> r.buf, ebuf |-> r.ebuf, cnt |-> Len(o) + 1, mem |-> r.mem]
    BY <1>2, <1>4 DEF sprintputch, Kept
  <2> HIDE DEF p, t
  <2>2. /\ t.buf = r.buf /\ t.ebuf = r.ebuf /\ t.cnt = Len(p) /\ t.mem = r.mem
        /\ t = [buf |-> t.buf, ebuf |-> t.ebuf, cnt |-> Len(p), mem |-> t.mem]
    BY <1>1, <2>1
  <2>3. r.buf = IF r.ebuf < 0 THEN 0 ELSE IF Len(p) < r.ebuf THEN Len(p) ELSE r.ebuf
    BY <1>1, <1>2, <1>4 DEF Kept
  <2>4. \A i \in 1..r.buf : r.mem[i - 1] = p[i]
    <3>1. \A i \in 1..r.buf : i \in 1..Len(o)
      BY <1>1, <1>2
    <3>2. \A i \in 1..r.buf : r.mem[i - 1] = o[i]
      BY DEF Kept
    <3> QED BY <1>1, <3>1, <3>2
  <2>5. r.mem = [a \in 0..(r.ebuf + 1) |-> r.mem[a]] /\ r.mem[r.ebuf + 1] = "old"
    BY DEF Kept
  <2>6. Kept(t, p)
    BY <1>2, <2>2, <2>3, <2>4, <2>5 DEF Kept
  <2> QED BY <2>6 DEF t, p
<1> QED BY <1>3, <1>4

Storing(sb, chars, N, h) ==
  h = [n \in 0..N |-> IF n = 0 THEN sb ELSE sprintputch(h[n - 1], chars[n])]

\* The recursion of sprintall() has a solution.
LEMMA StoringExists == \A sb, chars : \A N \in Nat : \E h : Storing(sb, chars, N, h)
<1> SUFFICES ASSUME NEW sb, NEW chars PROVE \A N \in Nat : \E h : Storing(sb, chars, N, h)
  OBVIOUS
<1> DEFINE B == {N \in Nat : \E h : Storing(sb, chars, N, h)}
<1>1. 0 \in B
  <2> DEFINE h == [n \in 0..0 |-> sb]
  <2>1. Storing(sb, chars, 0, h)
    BY DEF Storing
  <2> HIDE DEF h
  <2> QED BY <2>1
<1>2. ASSUME NEW N \in Nat, N \in B PROVE N + 1 \in B
  <2>1. PICK g : Storing(sb, chars, N, g)
    BY <1>2
  <2> DEFINE final == sprintputch(g[N], chars[N + 1])
             h == [n \in 0..(N + 1) |-> IF n = N + 1 THEN final ELSE g[n]]
  <2> HIDE DEF final
  <2>2. (\A n \in 0..N : h[n] = g[n]) /\ h[N + 1] = final
    OBVIOUS
  <2>3. ASSUME NEW n \in 0..(N + 1)
        PROVE  h[n] = IF n = 0 THEN sb ELSE sprintputch(h[n - 1], chars[n])
    <3>1. CASE n = N + 1
      <4>1. h[N] = g[N] /\ N + 1 # 0 /\ (N + 1) - 1 = N
        BY <2>2
      <4> HIDE DEF h
      <4> QED BY <2>2, <3>1, <4>1 DEF final
    <3>2. CASE n # N + 1
      <4>1. n \in 0..N /\ (n # 0 => n - 1 \in 0..N)
        BY <3>2
      <4>2. g[n] = IF n = 0 THEN sb ELSE sprintputch(g[n - 1], chars[n])
        BY <2>1, <4>1 DEF Storing
      <4> HIDE DEF h
      <4> QED BY <2>2, <4>1, <4>2
    <3> QED BY <3>1, <3>2
  <2>4. h = [n \in 0..(N + 1) |-> h[n]]
    OBVIOUS
  <2> HIDE DEF h
  <2>5. Storing(sb, chars, N + 1, h)
    BY <2>3, <2>4 DEF Storing
  <2> QED BY <2>5
<1>3. B = Nat
  <2> HIDE DEF B
  <2>1. B \in SUBSET Nat
    BY DEF B
  <2> QED BY <1>1, <1>2, <2>1, Induction
<1> QED BY <1>3

\* The next character of q behind o and those before it.
LEMMA Onwards ==
  ASSUME NEW o \in Seq(OutChar), NEW q \in Seq(OutChar), NEW n \in 0..(Len(q) - 1)
  PROVE  /\ q[n + 1] \in OutChar /\ o \o SubSeq(q, 1, n) \in Seq(OutChar)
         /\ Append(o \o SubSeq(q, 1, n), q[n + 1]) = o \o SubSeq(q, 1, n + 1)
<1>1. n \in Nat /\ n + 1 \in 1..Len(q) /\ n + 1 \in Nat
  OBVIOUS
<1>2. /\ SubSeq(q, 1, n) \in Seq(OutChar) /\ SubSeq(q, 1, n + 1) \in Seq(OutChar)
      /\ q[n + 1] \in OutChar
  BY <1>1
<1>3. Append(SubSeq(q, 1, n), q[n + 1]) = SubSeq(q, 1, n + 1)
  BY <1>1
<1> DEFINE y == SubSeq(q, 1, n)  c == q[n + 1]
<1> HIDE DEF y, c
<1>4. y \in Seq(OutChar) /\ c \in OutChar /\ <<c>> \in Seq(OutChar) /\ o \o y \in Seq(OutChar)
  BY <1>2, ConcatProperties DEF y, c
<1>5. Append(o \o y, c) = (o \o y) \o <<c>> /\ Append(y, c) = y \o <<c>>
  BY <1>4, AppendIsConcat
<1>6. (o \o y) \o <<c>> = o \o (y \o <<c>>)
  BY <1>4, ConcatAssociative
<1> QED BY <1>3, <1>4, <1>5, <1>6 DEF y, c

\* sprintputch() for one character after the other.
LEMMA AllKept ==
  ASSUME NEW sb, NEW o \in Seq(OutChar), Kept(sb, o), NEW q \in Seq(OutChar)
  PROVE  Kept(sprintall(sb, q), o \o q)
<1> DEFINE f == CHOOSE h : Storing(sb, q, Len(q), h)
           B == {n \in Nat : n <= Len(q) => Kept(f[n], o \o SubSeq(q, 1, n))}
<1>1. Len(q) \in Nat
  OBVIOUS
<1>2. Storing(sb, q, Len(q), f)
  BY <1>1, StoringExists
<1>3. sprintall(sb, q) = f[Len(q)]
  BY Zenon DEF sprintall, Storing
<1> HIDE DEF f
<1>4. 0 \in B
  <2>1. o \o SubSeq(q, 1, 0) = o
    OBVIOUS
  <2>2. f[0] = sb
    BY <1>1, <1>2 DEF Storing
  <2> QED BY <2>1, <2>2
<1>5. ASSUME NEW n \in Nat, n \in B PROVE n + 1 \in B
  <2> SUFFICES ASSUME n + 1 <= Len(q) PROVE Kept(f[n + 1], o \o SubSeq(q, 1, n + 1))
    OBVIOUS
  <2>1. n \in 0..(Len(q) - 1) /\ n + 1 \in 0..Len(q) /\ (n + 1) - 1 = n /\ n + 1 # 0
    BY <1>1
  <2>2. f[n + 1] = sprintputch(f[n], q[n + 1])
    BY <1>2, <2>1 DEF Storing
  <2>3. Kept(f[n], o \o SubSeq(q, 1, n))
    BY <1>1, <1>5, <2>1
  <2> HIDE DEF B
  <2>4. Kept(sprintputch(f[n], q[n + 1]), Append(o \o SubSeq(q, 1, n), q[n + 1]))
    BY <2>1, <2>3, Onwards, PutKeeps
  <2> QED BY <2>1, <2>2, <2>4, Onwards
<1>6. B = Nat
  <2> HIDE DEF B
  <2>1. B \in SUBSET Nat
    BY DEF B
  <2> QED BY <1>4, <1>5, <2>1, Induction
<1>7. SubSeq(q, 1, Len(q)) = q
  OBVIOUS
<1>8. Kept(f[Len(q)], o \o SubSeq(q, 1, Len(q)))
  BY <1>1, <1>6
<1> QED BY <1>3, <1>7, <1>8

-----------------------------------------------------------------------------
FormatInv ==
  /\ fmt \in Seq(FormatChar) /\ pos \in 1..(Len(fmt) + 1) /\ ret \in Int \cup {NONE}
  /\ \A i \in 1..Len(fmt) : fmt[i] = NUL => i = Len(fmt) /\ (ret = NONE => pos <= i)

Escape == [padc: {" ", "-", "0"}, width: Int, precision: Int, lflag: Nat,
           altflag: BOOLEAN, inNumber: BOOLEAN]

\* What an unknown escape goes back to lies before the place.
EscapeInv == esc # NONE => esc \in Escape /\ \E i \in 2..pos : fmt[i - 1] = "%"

BufInv ==
  /\ out \in Seq(OutChar) /\ Kept(b, out)
  /\ ret # NONE /\ b.ebuf >= 0 => ret = Len(out) /\ b.mem[b.buf] = NUL

PrintInv == FormatInv /\ EscapeInv /\ BufInv

\* The character at pos is the one that was read there before, or a new one.
LEMMA Sees ==
  ASSUME FormatInv, NEW c, sees(c), pos > Len(fmt) => c \in FormatChar
  PROVE  /\ fmt' \in Seq(FormatChar) /\ pos \in 1..Len(fmt') /\ fmt'[pos] = c
         /\ Len(fmt) <= Len(fmt') /\ \A i \in 1..Len(fmt) : fmt'[i] = fmt[i]
         /\ \A i \in 1..Len(fmt') : fmt'[i] = NUL => i = Len(fmt') /\ pos <= i
         /\ ret = NONE /\ b.buf <= b.ebuf
<1>1. /\ ret = NONE /\ b.buf <= b.ebuf /\ fmt \in Seq(FormatChar)
      /\ pos \in 1..(Len(fmt) + 1) /\ Len(fmt) \in Nat
      /\ \A i \in 1..Len(fmt) : fmt[i] = NUL => i = Len(fmt) /\ pos <= i
  BY DEF FormatInv, sees
<1>2. CASE pos <= Len(fmt)
  <2>1. fmt' = fmt /\ fmt[pos] = c
    BY <1>2 DEF sees
  <2> QED BY <1>1, <1>2, <2>1
<1>3. CASE ~(pos <= Len(fmt))
  <2>1. fmt' = Append(fmt, c) /\ c \in FormatChar /\ pos = Len(fmt) + 1
    BY <1>1, <1>3 DEF sees
  <2>2. /\ Append(fmt, c) \in Seq(FormatChar) /\ Len(Append(fmt, c)) = Len(fmt) + 1
        /\ Append(fmt, c)[Len(fmt) + 1] = c
        /\ \A i \in 1..Len(fmt) : Append(fmt, c)[i] = fmt[i]
    BY <1>1, <2>1, AppendProperties
  <2>3. \A i \in 1..(Len(fmt) + 1) : i \in 1..Len(fmt) \/ i = Len(fmt) + 1
    BY <1>1
  <2>4. \A i \in 1..Len(fmt) : fmt[i] # NUL
    BY <1>1, <2>1
  <2> QED BY <1>1, <2>1, <2>2, <2>3, <2>4
<1> QED BY <1>2, <1>3

\* The character is stepped over, and is not the 0 of the format.
LEMMA Reads ==
  ASSUME FormatInv, NEW c, read(c), pos > Len(fmt) => c \in FormatChar, c # NUL,
         ret' \in Int \cup {NONE}
  PROVE  /\ FormatInv' /\ ret = NONE /\ pos' \in Nat /\ fmt'[pos' - 1] = c
         /\ pos' \in 2..(Len(fmt') + 1)
         /\ (\E i \in 2..pos : fmt[i - 1] = "%") => \E i \in 2..pos' : fmt'[i - 1] = "%"
<1>1. sees(c) /\ pos' = pos + 1
  BY DEF read
<1>2. /\ fmt' \in Seq(FormatChar) /\ pos \in 1..Len(fmt') /\ fmt'[pos] = c
      /\ Len(fmt) <= Len(fmt') /\ \A i \in 1..Len(fmt) : fmt'[i] = fmt[i]
      /\ \A i \in 1..Len(fmt') : fmt'[i] = NUL => i = Len(fmt') /\ pos <= i
      /\ ret = NONE
  BY <1>1, Sees
<1>3. Len(fmt) \in Nat /\ Len(fmt') \in Nat /\ pos \in 1..(Len(fmt) + 1)
  BY <1>2 DEF FormatInv
<1>4. pos' \in 1..(Len(fmt') + 1) /\ pos' - 1 = pos /\ pos' \in 2..(Len(fmt') + 1)
  BY <1>1, <1>2, <1>3
<1>5. ASSUME NEW i \in 1..Len(fmt'), fmt'[i] = NUL PROVE i = Len(fmt') /\ pos' <= i
  <2>1. i = Len(fmt') /\ pos <= i /\ pos # i
    BY <1>2, <1>5
  <2> QED BY <1>1, <1>3, <2>1
<1>6. ASSUME NEW i \in 2..pos, fmt[i - 1] = "%" PROVE i \in 2..pos' /\ fmt'[i - 1] = "%"
  <2>1. i - 1 \in 1..Len(fmt) /\ i \in 2..pos'
    BY <1>1, <1>3
  <2> QED BY <1>2, <1>6, <2>1
<1>7. FormatInv'
  <2>1. \A i \in 1..Len(fmt') : fmt'[i] = NUL => i = Len(fmt') /\ (ret' = NONE => pos' <= i)
    BY <1>5
  <2> QED BY <1>2, <1>4, <2>1 DEF FormatInv
<1>8. (\E i \in 2..pos : fmt[i - 1] = "%") => \E i \in 2..pos' : fmt'[i - 1] = "%"
  BY <1>6, Zenon
<1>9. pos' \in Nat /\ fmt'[pos' - 1] = c
  <2>1. pos \in Nat /\ pos' = pos + 1
    BY <1>1, <1>3
  <2>2. pos' - 1 = pos
    BY <2>1
  <2> QED BY <1>2, <2>1, <2>2
<1> QED BY <1>2, <1>4, <1>7, <1>8, <1>9

\* The character is not stepped over.
LEMMA LooksAt ==
  ASSUME FormatInv, NEW c \in FormatChar, sees(c), pos' \in 1..pos, ret' = ret
  PROVE  /\ FormatInv' /\ \A i \in 2..pos : fmt'[i - 1] = fmt[i - 1]
<1>1. /\ fmt' \in Seq(FormatChar) /\ pos \in 1..Len(fmt')
      /\ Len(fmt) <= Len(fmt') /\ \A i \in 1..Len(fmt) : fmt'[i] = fmt[i]
      /\ \A i \in 1..Len(fmt') : fmt'[i] = NUL => i = Len(fmt') /\ pos <= i
      /\ ret = NONE
  BY Sees
<1>2. Len(fmt) \in Nat /\ Len(fmt') \in Nat /\ pos \in 1..(Len(fmt) + 1)
  BY <1>1 DEF FormatInv
<1>3. pos' \in 1..(Len(fmt') + 1) /\ \A i \in 1..Len(fmt') : pos <= i => pos' <= i
  BY <1>1, <1>2
<1>4. FormatInv'
  BY <1>1, <1>3 DEF FormatInv
<1>5. ASSUME NEW i \in 2..pos PROVE i - 1 \in 1..Len(fmt)
  BY <1>2
<1> QED BY <1>1, <1>4, <1>5

\* putch() keeps the buffer and the output together.
LEMMA Puts ==
  ASSUME BufInv, NEW q \in Seq(OutChar), putch(q), ret = NONE, ret' = ret
  PROVE  BufInv'
<1>1. Kept(b', out') /\ out' \in Seq(OutChar)
  BY AllKept, ConcatProperties DEF BufInv, putch
<1> QED BY <1>1 DEF BufInv

\* The characters of formats, messages and string arguments can be printed.
LEMMA CharOf ==
  Literals \subseteq OutChar /\ TextChar \subseteq OutChar /\ \A s \in StrArg : s \in Seq(OutChar)
<1>1. TextChar \subseteq OutChar
  BY CharAssumption DEF OutChar, FormatChar, NotDigit
<1>2. ASSUME NEW s \in StrArg PROVE s \in Seq(OutChar)
  <2> DEFINE S == {s[i] : i \in DOMAIN s}
  <2>1. s \in Seq(S)
    BY ArgAssumption
  <2> HIDE DEF S
  <2>2. S \subseteq StrChars
    BY Zenon DEF StrChars, S
  <2>3. S \subseteq OutChar
    BY <2>2 DEF OutChar
  <2> QED BY <2>1, <2>3, SeqMonotone
<1> QED BY <1>1, <1>2 DEF OutChar

\* The characters vprintfmt() compares with can be in a format.
LEMMA FormatChars ==
  /\ TextChar \subseteq FormatChar /\ NUL \in FormatChar /\ WidthDigit \subseteq FormatChar
  /\ {"c", "e", "s", "d", "u", "o", "p", "x", "%", "-", "0", ".", "#", "l", "*"}
       \subseteq FormatChar \ {NUL}
  /\ NUL \notin TextChar \cup WidthDigit
<1>1. "0" = Digits[1] /\ 1 \in 1..10 /\ 1 \in 1..16
  BY DigitIs
<1>2. "0" \in FormatChar /\ "0" # NUL
  BY <1>1, CharAssumption DEF FormatChar
<1>3. NUL \notin WidthDigit
  <2>1. \A d \in 1..10 : d \in 1..16
    OBVIOUS
  <2> QED BY <2>1, CharAssumption
<1> QED BY <1>2, <1>3, CharAssumption DEF FormatChar, NotDigit, Conversions

\* A step of the loop that prints q and ends the escape, or is outside of one.
LEMMA Prints ==
  ASSUME PrintInv, NEW c, read(c), pos > Len(fmt) => c \in FormatChar, c # NUL,
         NEW q \in Seq(OutChar), putch(q), esc' = NONE, ret' = ret
  PROVE  PrintInv'
<1>1. FormatInv /\ ret' \in Int \cup {NONE}
  BY DEF PrintInv, FormatInv
<1>2. FormatInv' /\ ret = NONE
  BY <1>1, Reads
<1>3. BufInv'
  BY <1>2, Puts DEF PrintInv
<1> QED BY <1>2, <1>3 DEF PrintInv, EscapeInv

\* A step that changes the escape.
LEMMA Escaping ==
  ASSUME PrintInv, NEW c, read(c), pos > Len(fmt) => c \in FormatChar, c # NUL,
         esc # NONE, esc' \in Escape, UNCHANGED <<b, out, ret>>
  PROVE  PrintInv'
<1>1. FormatInv /\ ret' \in Int \cup {NONE}
  BY DEF PrintInv, FormatInv
<1>2. FormatInv' /\ \E i \in 2..pos' : fmt'[i - 1] = "%"
  BY <1>1, Reads DEF PrintInv, EscapeInv
<1>3. BufInv'
  BY DEF PrintInv, BufInv
<1> QED BY <1>2, <1>3 DEF PrintInv, EscapeInv

\* A size of 0 prints nothing.
LEMMA InvalidStep == ASSUME PrintInv, vsnprintf_invalid PROVE PrintInv'
<1>1. b.buf > b.ebuf /\ ret = NONE /\ ret' = -3 /\ UNCHANGED <<fmt, pos, esc, b, out>>
  BY DEF vsnprintf_invalid
<1>2. FormatInv'
  BY <1>1 DEF PrintInv, FormatInv
<1>3. b.ebuf \in Int /\ Len(out) \in Nat /\ ~(b.ebuf >= 0)
  BY <1>1 DEF PrintInv, BufInv, Kept
<1>4. BufInv'
  BY <1>1, <1>3 DEF PrintInv, BufInv
<1> QED BY <1>1, <1>2, <1>4 DEF PrintInv, EscapeInv

\* A character outside an escape is printed.
LEMMA TextStep == ASSUME PrintInv, text PROVE PrintInv'
<1>1. PICK c \in IF pos <= Len(fmt) THEN {fmt[pos]} \ {"%", NUL} ELSE TextChar :
        read(c) /\ putch(<<c>>)
  BY DEF text
<1>2. esc' = NONE /\ ret' = ret
  BY DEF text
<1>3. (pos > Len(fmt) => c \in FormatChar) /\ c # NUL
  <2>1. pos \in Nat /\ Len(fmt) \in Nat
    BY DEF PrintInv, FormatInv
  <2> QED BY <1>1, <2>1, FormatChars
<1>4. c \in FormatChar
  <2>1. pos \in 1..(Len(fmt) + 1) /\ fmt \in Seq(FormatChar)
    BY DEF PrintInv, FormatInv
  <2>2. CASE pos <= Len(fmt)
    <3>1. pos \in 1..Len(fmt) /\ c = fmt[pos]
      BY <1>1, <2>1, <2>2
    <3> QED BY <2>1, <3>1
  <2> QED BY <1>3, <2>1, <2>2
<1>5. <<c>> \in Seq(OutChar)
  <2>1. c \in OutChar
    BY <1>3, <1>4 DEF OutChar
  <2> QED BY <2>1
<1> QED BY <1>1, <1>2, <1>3, <1>5, Prints

\* The terminating 0 goes to where the next character would go.
LEMMA FinishStep == ASSUME PrintInv, finish PROVE PrintInv'
<1>1. /\ sees(NUL) /\ pos' = pos + 1 /\ ret' = b.cnt /\ b' = [b EXCEPT !.mem[b.buf] = NUL]
      /\ esc = NONE /\ UNCHANGED <<esc, out>>
  BY DEF finish, read
<1>2. /\ fmt' \in Seq(FormatChar) /\ pos \in 1..Len(fmt') /\ fmt'[pos] = NUL
      /\ \A i \in 1..Len(fmt') : fmt'[i] = NUL => i = Len(fmt')
      /\ b.buf <= b.ebuf
  BY <1>1, FormatChars, Sees DEF PrintInv
<1>3. Kept(b, out) /\ out \in Seq(OutChar) /\ Len(out) \in Nat
  BY DEF PrintInv, BufInv
<1>4. ret' = Len(out) /\ ret' # NONE
  <2>1. ret' = Len(out)
    BY <1>1, <1>3 DEF Kept
  <2> QED BY <1>3, <2>1, ArgAssumption
<1>5. FormatInv'
  <2>1. pos' \in 1..(Len(fmt') + 1)
    BY <1>1, <1>2
  <2>2. \A i \in 1..Len(fmt') : fmt'[i] = NUL => i = Len(fmt') /\ (ret' = NONE => pos' <= i)
    BY <1>2, <1>4
  <2> QED BY <1>2, <1>3, <1>4, <2>1, <2>2 DEF FormatInv
<1>6. /\ b.ebuf \in Int /\ b.buf \in Nat /\ b.ebuf >= 0
      /\ b.buf = IF b.ebuf < 0 THEN 0 ELSE IF Len(out) < b.ebuf THEN Len(out) ELSE b.ebuf
  <2>1. b.ebuf \in Int /\ b.ebuf >= -1
    BY <1>3 DEF Kept
  <2>2. b.buf = IF b.ebuf < 0 THEN 0 ELSE IF Len(out) < b.ebuf THEN Len(out) ELSE b.ebuf
    BY <1>3 DEF Kept
  <2> QED BY <1>2, <1>3, <2>1, <2>2
<1> DEFINE M == b.mem  e == b.ebuf + 1  k == b.buf
           m == [M EXCEPT ![k] = NUL]
<1>7. k \in 0..e /\ k # e /\ M = [a \in 0..e |-> M[a]] /\ M[e] = "old"
      /\ \A i \in 1..k : M[i - 1] = out[i]
  BY <1>2, <1>3, <1>6 DEF Kept
<1>8. b' = [buf |-> k, ebuf |-> b.ebuf, cnt |-> Len(out), mem |-> m]
  <2>1. b = [buf |-> b.buf, ebuf |-> b.ebuf, cnt |-> Len(out), mem |-> b.mem]
    BY <1>3 DEF Kept
  <2>2. b' = [b EXCEPT !.mem = m]
    BY <1>1, <2>1
  <2> HIDE DEF m
  <2> QED BY <2>1, <2>2
<1> HIDE DEF M, e, k
<1>9. /\ m = [a \in 0..e |-> m[a]] /\ m[k] = NUL
      /\ \A a \in 0..e : a # k => m[a] = M[a]
  BY <1>7
<1> HIDE DEF m
<1>10. m[e] = "old" /\ \A i \in 1..k : m[i - 1] = out[i]
  <2>1. k \in Nat /\ e \in Nat
    BY <1>6, <1>7 DEF k, e
  <2>2. e \in 0..e /\ \A i \in 1..k : i - 1 \in 0..e /\ i - 1 # k
    BY <1>7, <2>1
  <2> QED BY <1>7, <1>9, <2>2
<1>11. b'.buf = b.buf /\ b'.ebuf = b.ebuf /\ b'.cnt = Len(out) /\ b'.mem = m
  BY <1>8 DEF k
<1>12. Kept(b', out')
  <2>1. b' = [buf |-> b'.buf, ebuf |-> b'.ebuf, cnt |-> Len(out'), mem |-> b'.mem]
    BY <1>1, <1>8, <1>11 DEF k
  <2>2. m = [a \in 0..(b.ebuf + 1) |-> m[a]] /\ m[b.ebuf + 1] = "old"
        /\ \A i \in 1..b.buf : m[i - 1] = out[i]
    BY <1>9, <1>10 DEF e, k
  <2>3. b'.mem = [a \in 0..(b'.ebuf + 1) |-> b'.mem[a]] /\ b'.mem[b'.ebuf + 1] = "old"
        /\ \A i \in 1..b'.buf : b'.mem[i - 1] = out'[i]
    BY <1>1, <1>11, <2>2
  <2>4. /\ b'.ebuf \in Int /\ b'.ebuf >= -1
        /\ b'.buf = IF b'.ebuf < 0 THEN 0
                    ELSE IF Len(out') < b'.ebuf THEN Len(out') ELSE b'.ebuf
    BY <1>1, <1>6, <1>11
  <2> QED BY <2>1, <2>3, <2>4 DEF Kept
<1>13. BufInv'
  <2>1. b'.mem[b'.buf] = NUL
    BY <1>9, <1>11 DEF k
  <2> QED BY <1>1, <1>3, <1>4, <1>12, <2>1 DEF BufInv
<1> QED BY <1>1, <1>5, <1>13 DEF PrintInv, EscapeInv

\* A '%' starts an escape.
LEMMA PercentStep == ASSUME PrintInv, percent PROVE PrintInv'
<1>1. read("%") /\ UNCHANGED <<b, ret, out>> /\ esc' \in Escape
  <2>1. [padc |-> " ", width |-> -1, precision |-> -1, lflag |-> 0, altflag |-> FALSE,
         inNumber |-> FALSE] \in Escape
    BY DEF Escape
  <2> QED BY <2>1, Zenon DEF percent
<1>2. FormatInv /\ ret' \in Int \cup {NONE}
  BY <1>1 DEF PrintInv, FormatInv
<1>3. FormatInv' /\ pos' \in 2..(Len(fmt') + 1) /\ fmt'[pos' - 1] = "%"
  BY <1>1, <1>2, FormatChars, Reads
<1>4. \E i \in 2..pos' : fmt'[i - 1] = "%"
  <2>1. pos' \in 2..pos'
    BY <1>3
  <2> QED BY <1>3, <2>1
<1>5. BufInv'
  BY <1>1 DEF PrintInv, BufInv
<1> QED BY <1>1, <1>3, <1>4, <1>5 DEF PrintInv, EscapeInv

\* What flags and widths do to an escape leaves it one.
LEMMA EscapeFields ==
  ASSUME NEW e \in Escape
  PROVE  /\ \A c \in {" ", "-", "0"} : [e EXCEPT !.padc = c] \in Escape
         /\ \A n \in Int : /\ [e EXCEPT !.width = n] \in Escape
                           /\ [e EXCEPT !.precision = n] \in Escape
         /\ \A n \in Nat : [e EXCEPT !.lflag = n] \in Escape
         /\ \A x \in BOOLEAN : /\ [e EXCEPT !.altflag = x] \in Escape
                               /\ [e EXCEPT !.inNumber = x] \in Escape
         /\ process_precision(e) \in Escape
<1>1. process_precision(e) \in Escape
  <2>1. ASSUME NEW n \in Int, NEW k \in Int
        PROVE  [e EXCEPT !.width = n, !.precision = k] \in Escape
    <3> DEFINE x == [e EXCEPT !.width = n]
    <3>1. x \in Escape
      BY DEF Escape
    <3>2. [e EXCEPT !.width = n, !.precision = k] = [x EXCEPT !.precision = k]
      OBVIOUS
    <3> HIDE DEF x
    <3>3. [x EXCEPT !.precision = k] \in Escape
      BY <3>1 DEF Escape
    <3> QED BY <3>2, <3>3
  <2>2. e.precision \in Int
    BY DEF Escape
  <2>3. [e EXCEPT !.width = e.precision, !.precision = -1] \in Escape
    <3> DEFINE m == -1
    <3>1. m \in Int
      OBVIOUS
    <3> HIDE DEF m
    <3>2. [e EXCEPT !.width = e.precision, !.precision = m] \in Escape
      BY <2>1, <2>2, <3>1
    <3> QED BY <3>2 DEF m
  <2> QED BY <2>3 DEF process_precision
<1> QED BY <1>1 DEF Escape

\* The fields of the escape being read.
LEMMA InEscapes ==
  ASSUME PrintInv, esc # NONE
  PROVE  /\ esc \in Escape /\ esc.padc \in {" ", "-", "0"} /\ esc.width \in Int
         /\ esc.precision \in Int /\ esc.lflag \in Nat
<1>1. esc \in Escape
  BY DEF PrintInv, EscapeInv
<1> QED BY <1>1 DEF Escape

\* The flags, the precision after '.', and '*'.
LEMMA FlagStep == ASSUME PrintInv, flag PROVE PrintInv'
<1>1. esc # NONE /\ esc \in Escape /\ UNCHANGED <<b, ret, out>>
  BY InEscapes DEF flag, InEscape
<1>2. CASE \E c \in {"-", "0"} : read(c) /\ esc' = [esc EXCEPT !.padc = c]
  <2>1. PICK c \in {"-", "0"} : read(c) /\ esc' = [esc EXCEPT !.padc = c]
    BY <1>2
  <2>2. esc' \in Escape
    BY <1>1, <2>1, EscapeFields
  <2> QED BY <1>1, <2>1, <2>2, FormatChars, Escaping
<1>3. CASE read(".") /\ esc' = [esc EXCEPT !.width = IF @ < 0 THEN 0 ELSE @]
  <2>1. (IF esc.width < 0 THEN 0 ELSE esc.width) \in Int
    <3>1. esc.width \in Int
      BY <1>1, InEscapes
    <3> QED BY <3>1
  <2>2. esc' \in Escape
    BY <1>1, <1>3, <2>1, EscapeFields
  <2> QED BY <1>1, <1>3, <2>2, FormatChars, Escaping
<1>4. CASE read("#") /\ esc' = [esc EXCEPT !.altflag = TRUE]
  <2>1. esc' \in Escape
    BY <1>1, <1>4, EscapeFields
  <2> QED BY <1>1, <1>4, <2>1, FormatChars, Escaping
<1>5. CASE read("l") /\ esc' = [esc EXCEPT !.lflag = @ + 1]
  <2>1. esc.lflag + 1 \in Nat
    <3>1. esc.lflag \in Nat
      BY <1>1, InEscapes
    <3> QED BY <3>1
  <2>2. esc' \in Escape
    BY <1>1, <1>5, <2>1, EscapeFields
  <2> QED BY <1>1, <1>5, <2>2, FormatChars, Escaping
<1>6. CASE /\ read("*")
           /\ \E n \in StarArg : esc' = process_precision([esc EXCEPT !.precision = n])
  <2>1. PICK n \in StarArg : esc' = process_precision([esc EXCEPT !.precision = n])
    BY <1>6
  <2>2. [esc EXCEPT !.precision = n] \in Escape
    BY <1>1, ArgAssumption, EscapeFields
  <2>3. esc' \in Escape
    BY <2>1, <2>2, EscapeFields
  <2> QED BY <1>1, <1>6, <2>3, FormatChars, Escaping
<1> QED BY <1>2, <1>3, <1>4, <1>5, <1>6 DEF flag

\* The value of a digit of a width.
LEMMA DigitValue == ASSUME NEW c \in WidthDigit PROVE digitValue(c) \in Int
<1>1. PICK d \in 1..10 : c = Digits[d]
  BY CharAssumption
<1>2. d - 1 \in 0..15 /\ (d - 1) + 1 = d
  OBVIOUS
<1>3. \E e \in 0..15 : Digits[e + 1] = c
  BY <1>1, <1>2
<1> DEFINE v == CHOOSE e \in 0..15 : Digits[e + 1] = c
<1>4. v \in 0..15
  BY <1>3
<1>5. digitValue(c) = v
  BY Zenon DEF digitValue
<1> HIDE DEF v
<1> QED BY <1>4, <1>5

\* The digits of a width or a precision.
LEMMA WidthStep == ASSUME PrintInv, width_first \/ width_more PROVE PrintInv'
<1>1. esc # NONE /\ esc \in Escape /\ UNCHANGED <<b, ret, out>>
  BY InEscapes DEF width_first, width_more, InEscape
<1>2. CASE width_first
  <2>1. PICK c \in WidthDigit :
          read(c) /\ esc' = [esc EXCEPT !.precision = digitValue(c), !.inNumber = TRUE]
    BY <1>2 DEF width_first
  <2>2. [esc EXCEPT !.precision = digitValue(c)] \in Escape
    BY <1>1, DigitValue, EscapeFields
  <2>3. esc' \in Escape
    BY <1>1, <2>1, DigitValue DEF Escape
  <2> QED BY <1>1, <2>1, <2>3, FormatChars, Escaping
<1>3. CASE width_more
  <2>1. PICK c \in WidthDigit :
          read(c) /\ esc' = [esc EXCEPT !.precision = @ * 10 + digitValue(c)]
    BY <1>3 DEF width_more
  <2>2. esc.precision * 10 + digitValue(c) \in Int
    <3>1. esc.precision \in Int /\ digitValue(c) \in Int
      BY <1>1, <2>1, DigitValue, InEscapes
    <3> QED BY <3>1
  <2>3. esc' \in Escape
    BY <1>1, <2>1, <2>2, EscapeFields
  <2> QED BY <1>1, <2>1, <2>3, FormatChars, Escaping
<1> QED BY <1>2, <1>3

\* The character behind the digits is not stepped over.
LEMMA WidthEnd == ASSUME PrintInv, width_end PROVE PrintInv'
<1>1. PICK c \in NotDigit : sees(c)
  BY DEF width_end
<1>2. /\ esc # NONE /\ esc \in Escape /\ UNCHANGED <<pos, b, ret, out>>
      /\ esc' = process_precision([esc EXCEPT !.inNumber = FALSE])
  BY InEscapes DEF width_end
<1>3. esc' \in Escape
  <2>1. [esc EXCEPT !.inNumber = FALSE] \in Escape
    BY <1>2, EscapeFields
  <2> QED BY <1>2, <2>1, EscapeFields
<1>4. c \in FormatChar /\ pos' \in 1..pos
  BY <1>2 DEF FormatChar, PrintInv, FormatInv
<1>5. FormatInv' /\ \A i \in 2..pos : fmt'[i - 1] = fmt[i - 1]
  BY <1>1, <1>2, <1>4, LooksAt DEF PrintInv
<1>6. \E i \in 2..pos' : fmt'[i - 1] = "%"
  BY <1>2, <1>5 DEF PrintInv, EscapeInv
<1>7. BufInv'
  BY <1>2 DEF PrintInv, BufInv
<1> QED BY <1>3, <1>5, <1>6, <1>7 DEF PrintInv, EscapeInv

\* An unknown escape goes back to behind its '%'.
LEMMA UnknownStep == ASSUME PrintInv, unknown PROVE PrintInv'
<1>1. PICK c \in TextChar \cup {NUL} : sees(c)
  BY DEF unknown
<1> DEFINE P == {i \in 2..pos : fmt[i - 1] = "%"}
<1>2. esc # NONE /\ pos' = Max(P) /\ putch(<<"%">>) /\ esc' = NONE /\ ret' = ret
  BY DEF unknown, converts, InEscape
<1>3. P # {} /\ pos \in Nat
  <2>1. \E i \in 2..pos : fmt[i - 1] = "%"
    BY <1>2 DEF PrintInv, EscapeInv
  <2>2. pos \in Nat
    BY DEF PrintInv, FormatInv
  <2> QED BY <2>1, <2>2
<1>4. pos' \in P
  <2>1. \E x \in P : \A y \in P : x >= y
    <3> DEFINE S == {pos - x : x \in P}
    <3>1. S \in SUBSET Nat /\ S # {}
      BY <1>3
    <3>2. PICK m \in S : \A y \in S : m <= y
      <4> HIDE DEF S
      <4> QED BY <3>1, Least
    <3>3. PICK x \in P : m = pos - x
      OBVIOUS
    <3>4. \A y \in P : pos - x <= pos - y
      BY <3>2, <3>3
    <3>5. \A y \in P : y \in Int /\ (pos - x <= pos - y => x >= y)
      BY <1>3
    <3> HIDE DEF P, S
    <3> QED BY <3>4, <3>5
  <2> HIDE DEF P
  <2> QED BY <1>2, <2>1 DEF Max
<1>5. pos' \in 1..pos
  BY <1>3, <1>4
<1>6. c \in FormatChar
  BY FormatChars
<1>7. FormatInv'
  BY <1>1, <1>2, <1>5, <1>6, LooksAt DEF PrintInv
<1>8. <<"%">> \in Seq(OutChar)
  <2>1. "%" \in OutChar
    BY CharOf DEF Literals
  <2> QED BY <2>1
<1>9. BufInv'
  BY <1>1, <1>2, <1>8, Puts DEF PrintInv, sees
<1> QED BY <1>2, <1>7, <1>9 DEF PrintInv, EscapeInv

\* What the other conversions do.
LEMMA Converting ==
  ASSUME PrintInv, NEW c \in {"c", "e", "s", "d", "u", "o", "p", "x", "%"}, read(c),
         NEW q \in Seq(OutChar), converts(q)
  PROVE  PrintInv'
<1>1. c \in FormatChar /\ c # NUL
  BY FormatChars
<1> QED BY <1>1, Prints DEF converts

\* %c and %%.
LEMMA CharacterStep == ASSUME PrintInv, character PROVE PrintInv'
<1>1. CASE read("c") /\ \E ch \in TextChar : converts(<<ch>>)
  <2>1. PICK ch \in TextChar : converts(<<ch>>)
    BY <1>1
  <2>2. ch \in OutChar
    BY CharOf
  <2>3. <<ch>> \in Seq(OutChar)
    BY <2>2
  <2> QED BY <1>1, <2>1, <2>3, Converting
<1>2. CASE read("%") /\ converts(<<"%">>)
  <2>1. "%" \in OutChar
    BY CharOf DEF Literals
  <2>2. <<"%">> \in Seq(OutChar)
    BY <2>1
  <2> QED BY <1>2, <2>2, Converting
<1> QED BY <1>1, <1>2 DEF character

\* An int has an even number of values, a long long no fewer.
LEMMA LongLongRange == Ints \div 2 \in Nat /\ Ints = 2 * (Ints \div 2)
                       /\ Ints \div 2 > 8 /\ LongLongs \in Nat /\ Ints <= LongLongs
<1>1. Ints \div 2 \in Int /\ Ints % 2 = 0 /\ Ints = 2 * (Ints \div 2) + (Ints % 2)
      /\ Ints \in Nat /\ Ints > 16
  BY PrintfmtAssumption, Quotient
<1>2. Ints * Ints >= Ints * 1
  <2>1. \A x \in Nat : x > 0 => x * x >= x
    <3> SUFFICES ASSUME NEW x \in Nat, x > 0 PROVE x * x >= x
      OBVIOUS
    <3>1. x * (x - 1) >= 0
      OBVIOUS
    <3>2. x * (x - 1) = x * x - x
      OBVIOUS
    <3> QED BY <3>1, <3>2
  <2> QED BY <1>1, <2>1
<1> QED BY <1>1, <1>2 DEF LongLongs

\* %e.
LEMMA ErrorStep == ASSUME PrintInv, error PROVE PrintInv'
<1> DEFINE err(a) == IF a < 0 THEN -a ELSE a
           chars(a) == IF err(a) > MAXERROR \/ err(a) = 0
                       THEN <<"e", "r", "r", "o", "r", " ">> \o printnum(err(a), 10, -1, " ")
                       ELSE <<"message">>
<1>1. PICK arg \in ErrArg : read("e") /\ converts(chars(arg))
  BY DEF error
<1>2. err(arg) \in 0..(LongLongs - 1)
  <2>1. arg \in -(Ints \div 2 - 1)..(Ints \div 2 - 1)
    BY ArgAssumption
  <2> QED BY <2>1, LongLongRange
<1>3. /\ "e" \in OutChar /\ "r" \in OutChar /\ "o" \in OutChar
      /\ " " \in OutChar /\ "message" \in OutChar
  BY CharOf DEF Literals
<1>4. <<"e", "r", "r", "o", "r", " ">> \in Seq(OutChar) /\ <<"message">> \in Seq(OutChar)
  <2>1. \A x, y, z, v \in OutChar : <<x, y, y, z, y, v>> \in Seq(OutChar) /\ <<x>> \in Seq(OutChar)
    OBVIOUS
  <2> QED BY <1>3, <2>1
<1> HIDE DEF err
<1>5. printnum(err(arg), 10, -1, " ") \in Seq(OutChar)
  <2> DEFINE m == -1
  <2>1. m \in Int
    OBVIOUS
  <2> HIDE DEF m
  <2>2. printnum(err(arg), 10, m, " ") \in Seq(OutChar)
    BY <1>2, <1>3, <2>1, PrintnumChars
  <2> QED BY <2>2 DEF m
<1>6. chars(arg) \in Seq(OutChar)
  BY <1>4, <1>5, ConcatProperties
<1> HIDE DEF chars
<1> QED BY <1>1, <1>6, Converting

\* Padding is made of characters.
LEMMA Padded ==
  ASSUME NEW n \in Int, NEW c \in OutChar PROVE padding(n, c) \in Seq(OutChar)
<1>1. padding(n, c) \in Seq({c}) /\ {c} \subseteq OutChar
  BY PaddingIs
<1> QED BY <1>1, SeqMonotone

\* %s.
LEMMA StringStep == ASSUME PrintInv, string PROVE PrintInv'
<1> DEFINE s(a) == IF a = NONE THEN <<"(", "n", "u", "l", "l", ")">> ELSE a
           n(a) == IF esc.precision < 0 THEN Len(s(a)) ELSE Min({Len(s(a)), esc.precision})
           visible(a) == [i \in 1..n(a) |-> IF esc.altflag /\ s(a)[i] = "ctl" THEN "?" ELSE s(a)[i]]
           chars(a) == IF esc.padc = "-" THEN visible(a) \o padding(esc.width - n(a), " ")
                       ELSE padding(esc.width - n(a), esc.padc) \o visible(a)
<1>1. PICK arg \in StrArg \cup {NONE} : read("s") /\ converts(chars(arg))
  BY Zenon DEF string
<1>2. esc.width \in Int /\ esc.precision \in Int
  BY InEscapes DEF string, InEscape
<1>9. "?" \in OutChar /\ " " \in OutChar /\ esc.padc \in OutChar
  <2>1. esc.padc \in {" ", "-", "0"}
    BY InEscapes DEF string, InEscape
  <2> QED BY <2>1, CharOf DEF Literals
<1>3. "(" \in OutChar /\ "n" \in OutChar /\ "u" \in OutChar /\ "l" \in OutChar /\ ")" \in OutChar
  BY CharOf DEF Literals
<1>4. s(arg) \in Seq(OutChar)
  <2>1. <<"(", "n", "u", "l", "l", ")">> \in Seq(OutChar)
    BY <1>3
  <2>2. arg # NONE => arg \in Seq(OutChar)
    BY <1>1, CharOf
  <2> QED BY <2>1, <2>2
<1> HIDE DEF s
<1>5. n(arg) \in 0..Len(s(arg))
  <2>1. Len(s(arg)) \in Nat
    BY <1>4
  <2>2. ASSUME esc.precision >= 0
        PROVE  Min({Len(s(arg)), esc.precision}) \in 0..Len(s(arg))
    <3> DEFINE l == Len(s(arg))  p == esc.precision
    <3>1. l \in Nat /\ p \in Nat
      BY <1>2, <2>1, <2>2
    <3> HIDE DEF l, p
    <3>2. Min({l, p}) = IF l < p THEN l ELSE p
      BY <3>1, MinOfTwo
    <3>3. Min({l, p}) \in 0..l
      BY <3>1, <3>2
    <3> QED BY <3>3 DEF l, p
  <2>3. esc.precision < 0 \/ esc.precision >= 0
    BY <1>2
  <2> QED BY <1>2, <2>1, <2>2, <2>3
<1> HIDE DEF n
<1>6. visible(arg) \in Seq(OutChar)
  <2>1. \A i \in 1..n(arg) :
          (IF esc.altflag /\ s(arg)[i] = "ctl" THEN "?" ELSE s(arg)[i]) \in OutChar
    <3>1. \A i \in 1..n(arg) : i \in 1..Len(s(arg))
      BY <1>5
    <3>2. \A i \in 1..n(arg) : s(arg)[i] \in OutChar
      BY <1>4, <3>1, ElementOfSeq
    <3> QED BY <1>9, <3>2
  <2>2. n(arg) \in Nat
    BY <1>4, <1>5
  <2> QED BY <2>1, <2>2, IsASeq
<1> HIDE DEF visible
<1>7. padding(esc.width - n(arg), " ") \in Seq(OutChar)
      /\ padding(esc.width - n(arg), esc.padc) \in Seq(OutChar)
  <2>1. esc.width - n(arg) \in Int
    BY <1>2, <1>4, <1>5
  <2> QED BY <1>9, <2>1, Padded
<1>8. chars(arg) \in Seq(OutChar)
  BY <1>6, <1>7, ConcatProperties
<1> HIDE DEF chars
<1> QED BY <1>1, <1>8, Converting

\* A number is padded and printed.
LEMMA NumberStep ==
  ASSUME PrintInv, NEW c \in {"d", "u", "o", "p", "x"}, read(c), esc # NONE,
         NEW val, NEW num \in 0..(LongLongs - 1), NEW base \in {8, 10, 16},
         NEW lead \in {<<>>, <<"-">>, <<"0", "x">>}, number(val, num, base, lead)
  PROVE  PrintInv'
<1>1. converts(lead \o printnum(num, base, esc.width, esc.padc))
  BY DEF number
<1>2. esc.padc \in OutChar
  <2>1. esc.padc \in {" ", "-", "0"}
    BY InEscapes
  <2> QED BY <2>1, CharOf DEF Literals
<1>3. esc.width \in Int
  BY InEscapes
<1>4. printnum(num, base, esc.width, esc.padc) \in Seq(OutChar)
  BY <1>2, <1>3, PrintnumChars
<1>5. lead \in Seq(OutChar)
  <2>1. "-" \in OutChar /\ "0" \in OutChar /\ "x" \in OutChar
    BY CharOf DEF Literals
  <2>2. <<>> \in Seq(OutChar) /\ <<"-">> \in Seq(OutChar) /\ <<"0", "x">> \in Seq(OutChar)
    BY <2>1
  <2> QED BY <2>2
<1>6. lead \o printnum(num, base, esc.width, esc.padc) \in Seq(OutChar)
  BY <1>4, <1>5, ConcatProperties
<1> QED BY <1>1, <1>6, Converting

\* An argument, and its sign and magnitude.
LEMMA Args ==
  ASSUME NEW a \in Arg
  PROVE  /\ a \in 0..(ArgInts - 1) /\ a \in 0..(LongLongs - 1) /\ ArgInts \in {Ints, LongLongs}
         /\ signed(a, ArgInts) \in Int
         /\ signed(a, ArgInts) < 0 => -signed(a, ArgInts) \in 0..(LongLongs - 1)
         /\ ~(signed(a, ArgInts) < 0) => signed(a, ArgInts) \in 0..(LongLongs - 1)
<1>1. /\ Ints \in Nat /\ LongLongs \in Nat /\ Ints <= LongLongs
      /\ ArgInts \in Nat /\ ArgInts <= LongLongs /\ ArgInts > 16 /\ ArgInts \in {Ints, LongLongs}
  BY LongLongRange, PrintfmtAssumption DEF ArgInts
<1>2. a \in 0..(ArgInts - 1)
  BY PrintfmtAssumption DEF Arg, ArgInts
<1>3. signed(a, ArgInts) = IF a >= ArgInts \div 2 THEN a - ArgInts ELSE a
  BY DEF signed
<1>4. a \in Nat /\ a <= ArgInts - 1 /\ a \in 0..(LongLongs - 1)
  BY <1>1, <1>2
<1>5. ArgInts \div 2 \in Nat /\ ArgInts \div 2 > 0
  BY <1>1
<1> DEFINE n == signed(a, ArgInts)
<1>6. CASE a >= ArgInts \div 2
  <2>1. n = a - ArgInts
    BY <1>3, <1>6
  <2> HIDE DEF n
  <2>2. a > 0 /\ -n = ArgInts - a
    BY <1>1, <1>4, <1>5, <1>6, <2>1
  <2>3. n \in Int /\ n < 0 /\ ArgInts - a \in 0..(LongLongs - 1)
    BY <1>1, <1>4, <2>1, <2>2
  <2>4. -n \in 0..(LongLongs - 1)
    BY <2>2, <2>3
  <2> QED BY <1>1, <1>2, <1>4, <2>3, <2>4 DEF n
<1>7. CASE ~(a >= ArgInts \div 2)
  <2>1. n = a
    BY <1>3, <1>7
  <2> HIDE DEF n
  <2>2. n \in Int /\ ~(n < 0) /\ n \in 0..(LongLongs - 1)
    BY <1>4, <2>1
  <2> QED BY <1>1, <1>2, <1>4, <2>2 DEF n
<1> QED BY <1>6, <1>7

\* %d.
LEMMA DecimalStep == ASSUME PrintInv, decimal PROVE PrintInv'
<1>1. PICK a \in Arg :
        LET n == signed(a, ArgInts)
        IN IF n < 0 THEN number(n, -n, 10, <<"-">>) ELSE number(n, n, 10, <<>>)
  BY DEF decimal
<1>2. read("d") /\ esc # NONE
  BY DEF decimal, InEscape
<1> DEFINE n == signed(a, ArgInts)
<1>3. /\ n \in Int
      /\ n < 0 => -n \in 0..(LongLongs - 1)
      /\ ~(n < 0) => n \in 0..(LongLongs - 1)
  BY Args
<1>4. (n < 0 => number(n, -n, 10, <<"-">>)) /\ (~(n < 0) => number(n, n, 10, <<>>))
  BY <1>1
<1> HIDE DEF n
<1>5. CASE n < 0
  <2> DEFINE m == -n
  <2>1. m \in 0..(LongLongs - 1)
    BY <1>3, <1>5
  <2>2. number(n, m, 10, <<"-">>)
    BY <1>4, <1>5, Zenon
  <2> HIDE DEF m
  <2> QED BY <1>2, <2>1, <2>2, NumberStep
<1>6. CASE ~(n < 0)
  BY <1>2, <1>3, <1>4, <1>6, NumberStep
<1> QED BY <1>5, <1>6

\* %u, %o and %x.
LEMMA UnsignedStep == ASSUME PrintInv, unsigned PROVE PrintInv'
<1>1. esc # NONE
  BY DEF unsigned, InEscape
<1>2. PICK c \in {"u", "o", "x"} :
        read(c) /\ \E arg \in Arg :
          number(arg, arg, CASE c = "u" -> 10 [] c = "o" -> 8 [] c = "x" -> 16, <<>>)
  BY DEF unsigned
<1>3. PICK arg \in Arg :
        number(arg, arg, CASE c = "u" -> 10 [] c = "o" -> 8 [] c = "x" -> 16, <<>>)
  BY <1>2
<1> DEFINE base == CASE c = "u" -> 10 [] c = "o" -> 8 [] c = "x" -> 16
<1>4. base \in {8, 10, 16}
  BY <1>2
<1>5. number(arg, arg, base, <<>>)
  BY <1>3
<1> HIDE DEF base
<1>6. arg \in 0..(LongLongs - 1)
  BY Args
<1> QED BY <1>1, <1>2, <1>4, <1>5, <1>6, NumberStep

\* %p.
LEMMA PointerStep == ASSUME PrintInv, pointer PROVE PrintInv'
<1>1. PICK arg \in IntArg : number(arg, arg, 16, <<"0", "x">>)
  BY DEF pointer
<1>2. read("p") /\ esc # NONE
  BY DEF pointer, InEscape
<1>3. arg \in 0..(LongLongs - 1)
  BY PrintfmtAssumption, LongLongRange
<1> QED BY <1>1, <1>2, <1>3, NumberStep

\* PrintInv is inductive.
LEMMA PrintStep == PrintInv /\ [PrintNext]_printVars => PrintInv'
<1> SUFFICES ASSUME PrintInv, [PrintNext]_printVars PROVE PrintInv'
  OBVIOUS
<1>1. CASE UNCHANGED printVars
  BY <1>1 DEF printVars, PrintInv, FormatInv, EscapeInv, BufInv
<1>2. CASE PrintNext
  BY <1>2, InvalidStep, TextStep, FinishStep, PercentStep, FlagStep, WidthStep, WidthEnd,
     CharacterStep, ErrorStep, StringStep, DecimalStep, UnsignedStep, PointerStep, UnknownStep
  DEF PrintNext
<1> QED BY <1>1, <1>2

\* snprintf() starts in it.
LEMMA PrintStart == ASSUME NEW sizes \in SUBSET Nat, PrintInit(sizes) PROVE PrintInv
<1>1. PICK size \in sizes : b = sprintbuf(size)
  BY DEF PrintInit
<1>2. fmt = <<>> /\ pos = 1 /\ esc = NONE /\ ret = NONE /\ out = <<>>
  BY DEF PrintInit
<1>3. FormatInv
  BY <1>2 DEF FormatInv
<1> DEFINE m == [a \in 0..size |-> "old"]
<1>4. size \in Nat /\ (size - 1) + 1 = size
  OBVIOUS
<1>5. b = [buf |-> 0, ebuf |-> size - 1, cnt |-> 0, mem |-> m]
  BY <1>1 DEF sprintbuf
<1>6. m = [a \in 0..size |-> m[a]] /\ m[size] = "old"
  BY <1>4
<1> HIDE DEF m
<1>7. b.buf = 0 /\ b.ebuf = size - 1 /\ b.cnt = 0 /\ b.mem = m
      /\ b = [buf |-> b.buf, ebuf |-> b.ebuf, cnt |-> 0, mem |-> b.mem]
  BY <1>5
<1>8. Len(out) = 0 /\ out \in Seq(OutChar)
  BY <1>2
<1>9. b.mem = [a \in 0..(b.ebuf + 1) |-> b.mem[a]] /\ b.mem[b.ebuf + 1] = "old"
  BY <1>4, <1>6, <1>7
<1>10. b.buf = IF b.ebuf < 0 THEN 0 ELSE IF Len(out) < b.ebuf THEN Len(out) ELSE b.ebuf
  BY <1>4, <1>7, <1>8
<1>11. \A i \in 1..b.buf : b.mem[i - 1] = out[i]
  BY <1>7
<1>12. b.ebuf \in Int /\ b.ebuf >= -1
  BY <1>4, <1>7
<1>13. Kept(b, out)
  BY <1>7, <1>8, <1>9, <1>10, <1>11, <1>12 DEF Kept
<1> QED BY <1>2, <1>3, <1>8, <1>13 DEF PrintInv, EscapeInv, BufInv

\* PrintInv is stronger than KeepsToItsBuffers.
LEMMA KeptInside == PrintInv => KeepsToItsBuffers
<1> SUFFICES ASSUME PrintInv PROVE KeepsToItsBuffers
  OBVIOUS
<1> DEFINE size == b.ebuf + 1
<1>1. Kept(b, out) /\ out \in Seq(OutChar) /\ Len(out) \in Nat
  BY DEF PrintInv, BufInv
<1>2. b.ebuf \in Int /\ b.ebuf >= -1 /\ size \in Nat
  BY <1>1 DEF Kept
<1>3. b.buf = IF b.ebuf < 0 THEN 0 ELSE IF Len(out) < b.ebuf THEN Len(out) ELSE b.ebuf
  BY <1>1 DEF Kept
<1>4. DOMAIN b.mem = 0..size /\ b.mem[size] = "old" /\ \A i \in 1..b.buf : b.mem[i - 1] = out[i]
  BY <1>1 DEF Kept
<1>5. b.mem[Cardinality(DOMAIN b.mem) - 1] = "old"
  <2>1. Cardinality(0..size) = size + 1
    <3> HIDE DEF size
    <3>1. Cardinality(0..size) = IF 0 > size THEN 0 ELSE size - 0 + 1
      BY <1>2, FS_Interval
    <3> QED BY <1>2, <3>1
  <2>2. (size + 1) - 1 = size
    BY <1>2
  <2> QED BY <1>4, <2>1, <2>2
<1>6. \A i \in DOMAIN fmt : fmt[i] = NUL => i = Len(fmt) /\ pos <= i + 1
  <2>1. /\ fmt \in Seq(FormatChar) /\ pos \in 1..(Len(fmt) + 1) /\ Len(fmt) \in Nat
        /\ \A i \in 1..Len(fmt) : fmt[i] = NUL => i = Len(fmt)
    BY DEF PrintInv, FormatInv
  <2> QED BY <2>1
<1>7. b.buf \in Nat /\ b.buf <= Len(out)
  BY <1>1, <1>2, <1>3
<1>8. SubSeq(out, 1, b.buf) = [i \in 1..b.buf |-> b.mem[i - 1]]
  <2> DEFINE k == b.buf  M == b.mem
  <2>1. SubSeq(out, 1, k) = [i \in 1..k |-> out[i]]
    BY <1>1, <1>7
  <2>2. \A i \in 1..k : M[i - 1] = out[i]
    BY <1>4
  <2> HIDE DEF k, M
  <2>3. SubSeq(out, 1, k) = [i \in 1..k |-> M[i - 1]]
    BY <2>1, <2>2
  <2> QED BY <2>3 DEF k, M
<1>9. ASSUME ret # NONE, size > 0
      PROVE  /\ ret = Len(out) /\ b.buf = Min({ret, size - 1}) /\ b.mem[b.buf] = NUL
  <2>1. b.ebuf >= 0 /\ size - 1 = b.ebuf
    BY <1>2, <1>9
  <2>2. ret = Len(out) /\ b.mem[b.buf] = NUL
    BY <1>9, <2>1 DEF PrintInv, BufInv
  <2>3. Len(out) \in Nat /\ b.ebuf \in Nat
    BY <1>1, <1>2, <2>1
  <2>4. Min({Len(out), b.ebuf}) = IF Len(out) < b.ebuf THEN Len(out) ELSE b.ebuf
    BY <2>3, MinOfTwo
  <2>5. b.buf = IF Len(out) < b.ebuf THEN Len(out) ELSE b.ebuf
    BY <1>2, <1>3, <2>1
  <2>6. {ret, size - 1} = {Len(out), b.ebuf}
    BY <2>1, <2>2
  <2> QED BY <2>2, <2>4, <2>5, <2>6, Zenon
<1> QED BY <1>5, <1>6, <1>8, <1>9 DEF KeepsToItsBuffers

(***************************************************************************)
(* snprintf() keeps to the format and to str, for any size of str, any     *)
(* format and any arguments.                                               *)
(***************************************************************************)
THEOREM PrintKeepsToItsBuffers ==
  ASSUME NEW sizes \in SUBSET Nat PROVE PrintSpec(sizes) => []KeepsToItsBuffers
<1>1. PrintInit(sizes) => PrintInv
  BY PrintStart
<1> QED BY <1>1, PrintStep, KeptInside, PTL DEF PrintSpec

-----------------------------------------------------------------------------
(***************************************************************************)
(* Reading a number back: a printed number is a sign or a prefix, padding  *)
(* and digits (Laid); strtol() gets to the digits (Starts), and what it    *)
(* reads by Horner's rule, cut to a long at each digit, is the number, cut *)
(* once.                                                                   *)
(***************************************************************************)
\* strtol() gives a digit the value printnum() had it for.
LEMMA DigitValueOf == ASSUME NEW d \in 0..15 PROVE digitValue(Digits[d + 1]) = d
<1> DEFINE v == CHOOSE e \in 0..15 : Digits[e + 1] = Digits[d + 1]
<1>1. v \in 0..15 /\ Digits[v + 1] = Digits[d + 1]
  OBVIOUS
<1>2. digitValue(Digits[d + 1]) = v
  BY Zenon DEF digitValue
<1> HIDE DEF v
<1>3. v + 1 \in 1..16 /\ d + 1 \in 1..16
  BY <1>1
<1>4. v + 1 = d + 1
  BY <1>1, <1>3, DigitsDiffer
<1> QED BY <1>1, <1>2, <1>4

\* A number cut to an int before the next digit is added, or after.
LEMMA CutBefore ==
  ASSUME NEW m \in Nat, NEW base \in Nat, NEW r \in Nat
  PROVE  ((m % Ints) * base + r) % Ints = (m * base + r) % Ints
<1>1. Ints \in Nat \ {0}
  BY PrintfmtAssumption
<1> DEFINE a == m \div Ints  c == m % Ints
           x == c * base + r  y == x \div Ints  e == x % Ints
<1>2. a \in Int /\ c \in 0..(Ints - 1) /\ m = Ints * a + c
  BY <1>1, Quotient
<1>3. x \in Int
  <2> HIDE DEF c
  <2> QED BY <1>2
<1>4. y \in Int /\ e \in 0..(Ints - 1) /\ x = Ints * y + e
  <2> HIDE DEF x
  <2> QED BY <1>1, <1>3, Quotient
<1> HIDE DEF a, c, y, e
<1>5. m * base = Ints * (a * base) + c * base
  <2>1. m * base = (Ints * a) * base + c * base
    BY <1>1, <1>2
  <2>2. (Ints * a) * base = Ints * (a * base)
    BY <1>1, <1>2
  <2> QED BY <2>1, <2>2
<1>6. m * base + r = Ints * (a * base + y) + e
  <2> DEFINE p == a * base  g == Ints * p  h == Ints * y  w == m * base  k == c * base
  <2>1. p \in Int /\ g \in Int /\ h \in Int /\ w \in Int /\ k \in Int /\ e \in Int
    BY <1>1, <1>2, <1>4
  <2>2. w = g + k
    BY <1>5
  <2>3. k + r = h + e
    BY <1>4
  <2>4. Ints * (p + y) = g + h
    <3> HIDE DEF p
    <3> QED BY <1>1, <1>4, <2>1
  <2> HIDE DEF p, g, h, w, k
  <2>5. w + r = Ints * (p + y) + e
    BY <2>1, <2>2, <2>3, <2>4
  <2> QED BY <2>5 DEF p, w
<1> DEFINE q == a * base + y  n == m * base + r
<1>7. q \in Int /\ n \in Int /\ n = Ints * q + e
  BY <1>2, <1>4, <1>6
<1> HIDE DEF q, n
<1>8. n % Ints = e
  BY <1>1, <1>4, <1>7, Remainder
<1> QED BY <1>8 DEF n, e, x, c

\* The digits stand in s from the place k on, and v holds what was read before each place.
DigitsAt(digits, base, v, s, k) ==
  \A j \in 1..Len(digits) :
    /\ s[k + j - 1] = digits[j]
    /\ v[k + j] = (v[k + j - 1] * base + digitValue(s[k + j - 1])) % Ints

\* Reading them gives n, cut to a long.
ReadAs(digits, base, v, s, k, n) ==
  DigitsAt(digits, base, v, s, k) => v[k + Len(digits)] = n % Ints

\* Reading the digits of n from the place k on, where 0 was read so far.
LEMMA Horner ==
  ASSUME NEW base \in {8, 10, 16}, NEW f, HasDigits(LongLongs, base, f),
         NEW v, NEW s, NEW k \in Nat, v[k] = 0
  PROVE  \A n \in 0..(LongLongs - 1) : ReadAs(f[n], base, v, s, k, n)
<1> DEFINE Good(n) == DigitsAt(f[n], base, v, s, k) => v[k + Len(f[n])] = n % Ints
           Bad == {n \in 0..(LongLongs - 1) : ~Good(n)}
<1>1. LongLongs \in Nat /\ Ints \in Nat \ {0}
  BY LongLongRange, PrintfmtAssumption
<1>2. ASSUME Bad # {} PROVE FALSE
  <2>1. Bad \in SUBSET Nat
    BY <1>1
  <2>2. PICK n \in Bad : \A y \in Bad : n <= y
    <3> HIDE DEF Bad
    <3> QED BY <1>2, <2>1, Least
  <2>3. n \in Nat /\ n \in 0..(LongLongs - 1) /\ DigitsAt(f[n], base, v, s, k)
        /\ v[k + Len(f[n])] # n % Ints
    BY <1>1, <2>2
  <2> DEFINE m == n \div base  r == n % base  R == Rest(n, base, f)  d == LastDigit(n, base)
             D == {Digits[i] : i \in 1..base}
  <2>4. m \in Nat /\ r \in 0..(base - 1) /\ n = base * m + r /\ (n >= base => m < n)
    BY <2>3, Smaller
  <2>5. f[n] = R \o <<d>>
    BY <2>3 DEF HasDigits
  <2>6. d = Digits[r + 1]
    BY DEF LastDigit
  <2> HIDE DEF m, r
  <2>7. R \in Seq(D) /\ v[k + Len(R)] = m % Ints
        /\ \A j \in 1..Len(R) : R[j] = f[n][j]
    <3>1. CASE n >= base
      <4>1. m \in 0..(LongLongs - 1) /\ ~(n <= m)
        BY <1>1, <2>3, <2>4, <3>1
      <4>2. R = f[m]
        BY <3>1 DEF Rest, m
      <4>3. R \in Seq(D)
        <5>1. f[m] \in Seq(D)
          BY <4>1, DigitsAre
        <5> HIDE DEF R, D
        <5> QED BY <4>2, <5>1
      <4>4. Len(R) \in Nat /\ Len(f[n]) = Len(R) + 1 /\ \A j \in 1..Len(R) : f[n][j] = R[j]
        <5> HIDE DEF R, d
        <5>1. d \in D
          <6>1. r + 1 \in 1..base
            BY <2>4
          <6> QED BY <2>6, <6>1
        <5> HIDE DEF D
        <5> QED BY <2>5, <4>3, <5>1
      <4>5. Good(m)
        BY <2>2, <4>1
      <4>6. DigitsAt(f[m], base, v, s, k)
        <5> HIDE DEF R, d
        <5>1. ASSUME NEW j \in 1..Len(f[m])
              PROVE  /\ s[k + j - 1] = f[m][j]
                     /\ v[k + j] = (v[k + j - 1] * base + digitValue(s[k + j - 1])) % Ints
          <6>1. j \in 1..Len(R)
            BY <4>2
          <6>2. j \in 1..Len(f[n]) /\ f[n][j] = R[j] /\ R[j] = f[m][j]
            BY <4>2, <4>4, <6>1
          <6> QED BY <2>3, <6>2 DEF DigitsAt
        <5> QED BY <5>1 DEF DigitsAt
      <4>7. v[k + Len(f[m])] = m % Ints
        BY <4>5, <4>6
      <4> QED BY <4>2, <4>3, <4>4, <4>7
    <3>2. CASE ~(n >= base)
      <4>1. R = <<>>
        BY <3>2 DEF Rest
      <4>2. m = 0
        <5>1. n = base * 0 + n /\ n \in 0..(base - 1) /\ base \in Nat \ {0}
          BY <2>3, <3>2
        <5>2. n \div base = 0
          BY <5>1, Remainder
        <5> QED BY <5>2 DEF m
      <4>3. 0 % Ints = 0
        BY <1>1
      <4> QED BY <4>1, <4>2, <4>3
    <3> QED BY <3>1, <3>2
  <2>8. Len(R) \in Nat /\ Len(f[n]) = Len(R) + 1 /\ f[n][Len(R) + 1] = d
    <3> HIDE DEF R, d
    <3>1. d \in D
      <4>1. r + 1 \in 1..base
        BY <2>4
      <4> QED BY <2>6, <4>1
    <3> HIDE DEF D
    <3> QED BY <2>5, <2>7, <3>1
  <2> DEFINE l == Len(R) + 1
  <2>9. l \in 1..Len(f[n]) /\ k + l - 1 = k + Len(R)
    <3> HIDE DEF R
    <3> QED BY <2>8
  <2>10. s[k + l - 1] = d
         /\ v[k + l] = (v[k + l - 1] * base + digitValue(s[k + l - 1])) % Ints
    <3> HIDE DEF l
    <3>1. f[n][l] = d
      BY <2>8 DEF l
    <3> QED BY <2>3, <2>9, <3>1 DEF DigitsAt
  <2>11. digitValue(d) = r
    <3>1. r \in 0..15
      <4>1. r \in 0..(base - 1)
        BY <2>4
      <4> QED BY <4>1
    <3> QED BY <2>6, <3>1, DigitValueOf
  <2> HIDE DEF R, d
  <2>12. v[k + l] = ((m % Ints) * base + r) % Ints
    <3> HIDE DEF l
    <3> QED BY <2>7, <2>9, <2>10, <2>11
  <2>13. v[k + l] = (m * base + r) % Ints
    <3>1. base \in Nat /\ r \in Nat
      BY <2>4
    <3> QED BY <2>4, <2>12, <3>1, CutBefore
  <2>14. m * base + r = n
    BY <2>4
  <2> QED BY <2>3, <2>8, <2>13, <2>14
<1> QED BY <1>2 DEF ReadAs

\* A least element of a set is its Min.
LEMMA MinIs ==
  ASSUME NEW S \in SUBSET Int, NEW x \in S, \A y \in S : x <= y PROVE Min(S) = x
<1> DEFINE p == Min(S)
<1>1. p \in S /\ \A y \in S : p <= y
  BY Zenon DEF Min
<1> HIDE DEF p
<1>2. p = x
  BY <1>1
<1> QED BY <1>2 DEF p

Valuing(s, q, base, end, val) ==
  val = [i \in q..end |->
           IF i = q THEN 0 ELSE (val[i - 1] * base + digitValue(charAt(s, i - 1))) % Ints]

\* The recursion of readDigits() has a solution.
LEMMA ValuingExists ==
  ASSUME NEW s, NEW q \in Nat, NEW base
  PROVE  \A N \in Nat : \E h : Valuing(s, q, base, q + N, h)
<1> DEFINE B == {N \in Nat : \E h : Valuing(s, q, base, q + N, h)}
           Follows(h, i) == (h[i - 1] * base + digitValue(charAt(s, i - 1))) % Ints
<1>1. 0 \in B
  <2> DEFINE h == [i \in q..(q + 0) |-> 0]
  <2>1. \A i \in q..(q + 0) : i = q
    OBVIOUS
  <2>2. Valuing(s, q, base, q + 0, h)
    BY <2>1 DEF Valuing
  <2> HIDE DEF h
  <2> QED BY <2>2
<1>2. ASSUME NEW N \in Nat, N \in B PROVE N + 1 \in B
  <2>1. PICK g : Valuing(s, q, base, q + N, g)
    BY <1>2
  <2> DEFINE top == q + N
             final == Follows(g, top + 1)
             h == [i \in q..(top + 1) |-> IF i = top + 1 THEN final ELSE g[i]]
  <2>2. top \in Nat /\ q <= top /\ q + (N + 1) = top + 1
    OBVIOUS
  <2> HIDE DEF top, final
  <2>3. (\A i \in q..top : h[i] = g[i]) /\ h[top + 1] = final
    BY <2>2
  <2>4. ASSUME NEW i \in q..(top + 1) PROVE h[i] = IF i = q THEN 0 ELSE Follows(h, i)
    <3>1. CASE i = top + 1
      <4>1. i # q /\ i - 1 = top /\ top \in q..top
        BY <2>2, <3>1
      <4>2. h[top] = g[top]
        BY <2>3, <4>1
      <4> HIDE DEF h
      <4>3. (top + 1) - 1 = top
        BY <2>2
      <4>4. final = Follows(h, top + 1)
        BY <4>2, <4>3 DEF final
      <4> QED BY <2>3, <3>1, <4>1, <4>4
    <3>2. CASE i # top + 1
      <4>1. i \in q..top /\ (i # q => i - 1 \in q..top)
        BY <2>2, <3>2
      <4>2. g[i] = IF i = q THEN 0 ELSE Follows(g, i)
        BY <2>1, <4>1 DEF Valuing, top
      <4>3. i # q => Follows(h, i) = Follows(g, i)
        <5>1. i # q => h[i - 1] = g[i - 1]
          BY <2>3, <4>1
        <5> HIDE DEF h
        <5> QED BY <5>1
      <4> HIDE DEF h, Follows
      <4> QED BY <2>3, <4>1, <4>2, <4>3
    <3> QED BY <3>1, <3>2
  <2>5. h = [i \in q..(top + 1) |-> h[i]]
    OBVIOUS
  <2> HIDE DEF h
  <2>6. Valuing(s, q, base, top + 1, h)
    BY <2>4, <2>5 DEF Valuing
  <2> QED BY <2>2, <2>6
<1>3. B = Nat
  <2> HIDE DEF B
  <2>1. B \in SUBSET Nat
    BY DEF B
  <2> QED BY <1>1, <1>2, <2>1, Induction
<1> QED BY <1>3

\* From its place q on, s is z zeros and the digits.
EndsIn(s, q, z, digits) ==
  /\ Len(s) = q + z + Len(digits) - 1
  /\ \A i \in q..(q + z - 1) : s[i] = "0"
  /\ \A j \in 1..Len(digits) : s[q + z + j - 1] = digits[j]

\* The digits of a number behind z zeros, which are the rest of the string s.
LEMMA DigitsRead ==
  ASSUME NEW base \in {8, 10, 16}, NEW f, HasDigits(LongLongs, base, f),
         NEW num \in 0..(LongLongs - 1), NEW s, NEW q \in Nat, NEW z \in Nat,
         EndsIn(s, q, z, f[num])
  PROVE  readDigits(s, q, base) = [val |-> num % Ints, endptr |-> Len(s) + 1]
<1> DEFINE l == Len(f[num])  e == Len(s) + 1
           S == {i \in q..e : \A d \in 1..base : charAt(s, i) # Digits[d]}
<1>1. l \in Nat \ {0}
  BY DigitsAre
<1>2. e = q + z + l /\ Len(s) = e - 1 /\ e \in q..e /\ e \in Nat
  <2>1. Len(s) = q + z + l - 1
    BY DEF EndsIn
  <2> HIDE DEF l
  <2> QED BY <1>1, <2>1
<1>0. /\ \A i \in q..(q + z - 1) : s[i] = "0"
      /\ \A j \in 1..l : s[q + z + j - 1] = f[num][j]
  BY DEF EndsIn
<1> HIDE DEF e
<1>3. 1..base \subseteq 1..16
  OBVIOUS
<1>4. e \in S
  <2>1. ~(e <= Len(s))
    <3> DEFINE n == Len(s)
    <3>1. n = e - 1 /\ e \in Nat
      BY <1>2
    <3> HIDE DEF n
    <3>2. ~(e <= n)
      BY <3>1
    <3> QED BY <3>2 DEF n
  <2>2. charAt(s, e) = NUL
    BY <2>1 DEF charAt
  <2> QED BY <1>2, <1>3, <2>2, CharAssumption
<1>5. \A j \in 1..l : \E d \in 1..base : f[num][j] = Digits[d]
  <2> DEFINE D == {Digits[d] : d \in 1..base}
  <2>1. \A j \in 1..l : f[num][j] \in D
    <3> HIDE DEF D
    <3>1. f[num] \in Seq(D)
      BY DigitsAre DEF D
    <3> QED BY <3>1, ElementOfSeq
  <2> QED BY <2>1
<1>6. ASSUME NEW i \in q..(e - 1)
      PROVE  charAt(s, i) = s[i] /\ \E d \in 1..base : charAt(s, i) = Digits[d]
  <2>1. charAt(s, i) = s[i]
    BY <1>2 DEF charAt
  <2> HIDE DEF e, l, S
  <2>2. CASE i \in q..(q + z - 1)
    <3>1. "0" = Digits[1] /\ 1 \in 1..base
      BY DigitIs
    <3> QED BY <1>0, <2>1, <2>2, <3>1
  <2>3. CASE i \notin q..(q + z - 1)
    <3> DEFINE j == i - (q + z) + 1
    <3>1. j \in 1..l /\ q + z + j - 1 = i
      BY <1>1, <1>2, <2>3
    <3>2. s[i] = f[num][j]
      <4> HIDE DEF j
      <4>1. s[q + z + j - 1] = f[num][j]
        BY <1>0, <3>1
      <4> QED BY <3>1, <4>1
    <3> HIDE DEF j
    <3> QED BY <1>5, <2>1, <3>1, <3>2
  <2> QED BY <2>2, <2>3
<1>7. Min(S) = e
  <2>1. ASSUME NEW y \in S PROVE e <= y
    <3>1. y \in q..e /\ \A d \in 1..base : charAt(s, y) # Digits[d]
      OBVIOUS
    <3> HIDE DEF S
    <3>2. y \notin q..(e - 1)
      BY <1>6, <3>1
    <3>3. e \in Nat /\ y \in q..e
      BY <1>2, <3>1
    <3> QED BY <3>2, <3>3
  <2>2. S \in SUBSET Int
    <3>1. q..e \subseteq Int
      OBVIOUS
    <3> DEFINE range == q..e
    <3>2. S \subseteq range
      OBVIOUS
    <3> HIDE DEF S
    <3> QED BY <3>1, <3>2
  <2>3. \A y \in S : e <= y
    BY <2>1
  <2> HIDE DEF S
  <2> QED BY Zenon, <1>4, <2>2, <2>3, MinIs
<1> DEFINE v == CHOOSE h : Valuing(s, q, base, Min(S), h)
<1>8. readDigits(s, q, base) = [val |-> v[Min(S)], endptr |-> Min(S)]
  BY Zenon DEF readDigits, Valuing, e
<1>9. Valuing(s, q, base, e, v)
  <2> HIDE DEF S, l
  <2>1. z + l \in Nat /\ e = q + (z + l)
    BY <1>1, <1>2
  <2>2. \E h : Valuing(s, q, base, e, h)
    BY <2>1, ValuingExists
  <2> QED BY <1>7, <2>2
<1> HIDE DEF v, S, l
<1>10. /\ v[q] = 0
       /\ \A i \in (q + 1)..e : v[i] = (v[i - 1] * base + digitValue(s[i - 1])) % Ints
  <2>1. q \in q..e
    BY <1>1, <1>2
  <2>2. ASSUME NEW i \in (q + 1)..e
        PROVE  v[i] = (v[i - 1] * base + digitValue(s[i - 1])) % Ints
    <3>1. i \in q..e /\ i # q /\ i - 1 \in q..(e - 1)
      BY <1>2
    <3>2. charAt(s, i - 1) = s[i - 1]
      BY <1>6, <3>1
    <3>3. v[i] = (v[i - 1] * base + digitValue(charAt(s, i - 1))) % Ints
      BY <1>9, <3>1 DEF Valuing
    <3> QED BY <3>2, <3>3
  <2>3. v[q] = 0
    BY <1>9, <2>1 DEF Valuing
  <2> QED BY <2>2, <2>3
<1>11. v[q + z] = 0
  <2> DEFINE B == {n \in Nat : n <= z => v[q + n] = 0}
  <2>1. 0 \in B
    BY <1>10
  <2>2. ASSUME NEW n \in Nat, n \in B PROVE n + 1 \in B
    <3> SUFFICES ASSUME n + 1 <= z PROVE v[q + (n + 1)] = 0
      OBVIOUS
    <3> DEFINE i == q + (n + 1)
    <3>1. i \in (q + 1)..e /\ i - 1 = q + n /\ i - 1 \in q..(q + z - 1)
      BY <1>1, <1>2
    <3>2. v[i - 1] = 0 /\ s[i - 1] = "0"
      <4>1. v[q + n] = 0
        BY <2>2
      <4> HIDE DEF i
      <4> QED BY <1>0, <3>1, <4>1
    <3>3. digitValue("0") = 0
      <4>1. "0" = Digits[0 + 1] /\ 0 \in 0..15
        BY DigitIs
      <4> QED BY <4>1, DigitValueOf
    <3> HIDE DEF i
    <3>4. v[i] = (0 * base + 0) % Ints
      BY <1>10, <3>1, <3>2, <3>3
    <3>5. 0 * base + 0 = 0 /\ 0 % Ints = 0
      BY PrintfmtAssumption
    <3> QED BY <3>4, <3>5 DEF i
  <2>3. B = Nat
    <3> HIDE DEF B
    <3>1. B \in SUBSET Nat
      BY DEF B
    <3> QED BY <2>1, <2>2, <3>1, Induction
  <2>4. z \in B
    <3> HIDE DEF B
    <3> QED BY <2>3
  <2> QED BY <2>4
<1>12. v[(q + z) + l] = num % Ints
  <2> DEFINE k == q + z
  <2>1. k \in Nat
    OBVIOUS
  <2>2. ASSUME NEW j \in 1..l
        PROVE  /\ s[k + j - 1] = f[num][j]
               /\ v[k + j] = (v[k + j - 1] * base + digitValue(s[k + j - 1])) % Ints
    <3>1. k + j \in (q + 1)..e /\ (k + j) - 1 = k + j - 1
      BY <1>1, <1>2
    <3>2. s[k + j - 1] = f[num][j]
      BY <1>0
    <3> HIDE DEF k
    <3> QED BY <1>10, <3>1, <3>2
  <2>3. v[k] = 0
    BY <1>11
  <2> HIDE DEF k
  <2>4. v[k + Len(f[num])] = num % Ints
    <3>1. DigitsAt(f[num], base, v, s, k)
      BY <2>2 DEF DigitsAt, l
    <3>2. ReadAs(f[num], base, v, s, k, num)
      BY <2>1, <2>3, Horner
    <3> QED BY <3>1, <3>2 DEF ReadAs
  <2> QED BY <2>4 DEF l, k
<1>13. v[e] = num % Ints
  BY <1>2, <1>12
<1> QED BY <1>7, <1>8, <1>13 DEF e

\* The digits of the bases up to 16.
DigitChars == {Digits[d] : d \in 1..16}

\* No digit is a blank, a sign, the x of a prefix or a 0 character.
LEMMA NotADigit ==
  ASSUME NEW c \in DigitChars PROVE c \notin {" ", "\t", "+", "-", "x"} /\ c # NUL
<1>1. PICK d \in 1..16 : c = Digits[d]
  BY DEF DigitChars
<1>2. c # NUL
  BY <1>1, CharAssumption
<1>3. Digits[d] \notin {" ", "\t", "+", "-", "x"}
  <2>1. CASE d \in 1..8
    <3>1. d \in {1, 2, 3, 4, 5, 6, 7, 8}
      BY <2>1
    <3> QED BY <3>1, DigitIs
  <2>2. CASE d \in 9..16
    <3>1. d \in {9, 10, 11, 12, 13, 14, 15, 16}
      BY <2>2
    <3> QED BY <3>1, DigitIs
  <2>3. d \in 1..8 \/ d \in 9..16
    OBVIOUS
  <2> QED BY <2>1, <2>2, <2>3
<1> QED BY <1>1, <1>2, <1>3

\* Blanks in front, and then a sign, "0x" or the digits themselves.
Starts(s, base, from, q, neg) ==
  /\ from <= Len(s) /\ \A i \in 1..(from - 1) : s[i] = " "
  /\ \/ s[from] = "-" /\ neg /\ base # 16 /\ q = from + 1
     \/ s[from] \in DigitChars /\ ~neg /\ charAt(s, from + 1) # "x" /\ q = from
     \/ s[from] = "0" /\ charAt(s, from + 1) = "x" /\ ~neg /\ base = 16 /\ q = from + 2

\* strtol() of such a string reads the digits from q on, and negates them after a '-'.
LEMMA StrtolIs ==
  ASSUME NEW s, Len(s) \in Nat, NEW base \in {8, 10, 16}, NEW from \in Nat \ {0},
         NEW q, NEW neg \in BOOLEAN, Starts(s, base, from, q, neg)
  PROVE  LET r == readDigits(s, q, base)
         IN strtol(s, base) =
              [val |-> signed((IF neg THEN -r.val ELSE r.val) % Ints, Ints),
               endptr |-> r.endptr]
<1> DEFINE blanks == {i \in 1..(Len(s) + 1) : charAt(s, i) \notin {" ", "\t"}}
           p == IF charAt(s, from) \in {"+", "-"} THEN from + 1 ELSE from
           hex == base \in {0, 16} /\ charAt(s, p) = "0" /\ charAt(s, p + 1) = "x"
           oct == base = 0 /\ charAt(s, p) = "0"
<1>1. charAt(s, from) = s[from]
  BY DEF Starts, charAt
<1>2. s[from] \notin {" ", "\t", "+"} /\ (s[from] = "-" <=> neg)
  <2>1. "0" \in DigitChars
    BY DigitIs DEF DigitChars
  <2>2. s[from] \in DigitChars => s[from] \notin {" ", "\t", "+", "-"}
    BY NotADigit
  <2> QED BY <2>1, <2>2 DEF Starts
<1>3. Min(blanks) = from
  <2>1. from \in blanks
    <3> DEFINE n == Len(s)
    <3>1. from \in 1..(n + 1)
      <4>1. n \in Nat /\ from <= n
        BY Zenon DEF Starts
      <4> HIDE DEF n
      <4> QED BY <4>1
    <3> QED BY <1>1, <1>2, <3>1
  <2>2. ASSUME NEW y \in blanks PROVE from <= y
    <3>1. y \in 1..(Len(s) + 1) /\ charAt(s, y) \notin {" ", "\t"}
      OBVIOUS
    <3>2. \A i \in 1..(from - 1) : s[i] = " "
      BY DEF Starts
    <3>3. ASSUME ~(from <= y) PROVE FALSE
      <4> DEFINE n == Len(s)
      <4>1. y \in 1..(from - 1) /\ y <= n
        <5>1. n \in Nat /\ from <= n /\ y \in 1..(n + 1)
          BY <3>1, Zenon DEF Starts
        <5> HIDE DEF n, blanks
        <5> QED BY <3>3, <5>1
      <4>2. charAt(s, y) = s[y]
        BY <4>1 DEF charAt
      <4> QED BY <3>1, <3>2, <4>1, <4>2
    <3> QED BY <3>3
  <2>3. blanks \in SUBSET Int
    <3>1. 1..(Len(s) + 1) \subseteq Int
      OBVIOUS
    <3> QED BY <3>1
  <2>4. \A y \in blanks : from <= y
    BY <2>2
  <2> HIDE DEF blanks
  <2> QED BY Zenon, <2>1, <2>3, <2>4, MinIs
<1>4. p = (IF neg THEN from + 1 ELSE from)
  BY <1>1, <1>2
<1>5. ~oct
  OBVIOUS
<1>6. \/ hex /\ base = 16 /\ q = p + 2
      \/ ~hex /\ q = p /\ base # 0
  <2> HIDE DEF p
  <2>1. CASE neg
    <3>1. p = from + 1 /\ base # 16 /\ q = from + 1
      BY <1>2, <1>4, <2>1 DEF Starts
    <3> QED BY <3>1
  <2>2. CASE ~neg
    <3>1. p = from
      BY <1>4, <2>2
    <3>2. CASE s[from] \in DigitChars /\ charAt(s, from + 1) # "x" /\ q = from
      <4>1. ~hex
        BY <3>1, <3>2
      <4> QED BY <3>1, <3>2, <4>1
    <3>3. CASE s[from] = "0" /\ charAt(s, from + 1) = "x" /\ base = 16 /\ q = from + 2
      <4>1. hex
        BY <1>1, <3>1, <3>3
      <4> QED BY <3>1, <3>3, <4>1
    <3> QED BY <2>2, <3>2, <3>3 DEF Starts
  <2> QED BY <2>1, <2>2
<1> DEFINE r == IF hex THEN readDigits(s, p + 2, 16)
                ELSE IF oct THEN readDigits(s, p + 1, 8)
                ELSE readDigits(s, p, IF base = 0 THEN 10 ELSE base)
<1>7. r = readDigits(s, q, base)
  <2> HIDE DEF p, hex, oct
  <2> QED BY <1>5, <1>6
<1>8. strtol(s, base) =
        [val |-> signed((IF charAt(s, from) = "-" THEN -r.val ELSE r.val) % Ints, Ints),
         endptr |-> r.endptr]
  <2> DEFINE P(g) == IF charAt(s, g) \in {"+", "-"} THEN g + 1 ELSE g
             HEX(g) == base \in {0, 16} /\ charAt(s, P(g)) = "0" /\ charAt(s, P(g) + 1) = "x"
             OCT(g) == base = 0 /\ charAt(s, P(g)) = "0"
             R(g) == IF HEX(g) THEN readDigits(s, P(g) + 2, 16)
                     ELSE IF OCT(g) THEN readDigits(s, P(g) + 1, 8)
                     ELSE readDigits(s, P(g), IF base = 0 THEN 10 ELSE base)
             V(g) == [val |-> signed((IF charAt(s, g) = "-" THEN -R(g).val ELSE R(g).val) % Ints,
                                     Ints),
                      endptr |-> R(g).endptr]
  <2>1. strtol(s, base) = V(Min(blanks))
    BY Zenon DEF strtol
  <2>2. V(from) =
        [val |-> signed((IF charAt(s, from) = "-" THEN -r.val ELSE r.val) % Ints, Ints),
         endptr |-> r.endptr]
    BY Zenon
  <2> HIDE DEF V, blanks, r
  <2> QED BY <1>3, <2>1, <2>2
<1> HIDE DEF r
<1>9. charAt(s, from) = "-" <=> neg
  BY <1>1, <1>2
<1> QED BY <1>7, <1>8, <1>9, Zenon

\* Sequences of no, one and two elements.
LEMMA ShortSeq ==
  ASSUME NEW S
  PROVE  <<>> \in Seq(S) /\ \A c \in S : <<c>> \in Seq(S) /\ \A d \in S : <<c, d>> \in Seq(S)
OBVIOUS

\* The padding is z times its character.
LEMMA Repeated ==
  ASSUME NEW z \in Nat, NEW c, NEW y, y = [i \in 1..z |-> c]
  PROVE  Len(y) = z /\ \A i \in 1..z : y[i] = c
OBVIOUS

\* What one after the other gives, of three sequences.
LEMMA Three ==
  ASSUME NEW S, NEW x \in Seq(S), NEW y \in Seq(S), NEW w \in Seq(S)
  PROVE  /\ Len(x \o (y \o w)) = Len(x) + Len(y) + Len(w)
         /\ Len(x) \in Nat /\ Len(y) \in Nat /\ Len(w) \in Nat
         /\ \A i \in 1..Len(x) : (x \o (y \o w))[i] = x[i]
         /\ \A i \in 1..Len(y) : (x \o (y \o w))[Len(x) + i] = y[i]
         /\ \A i \in 1..Len(w) : (x \o (y \o w))[Len(x) + Len(y) + i] = w[i]
<1> DEFINE v == y \o w  u == x \o v  a == Len(x)  d == Len(y)  e == Len(w)
<1>0. v \in Seq(S)
  BY ConcatProperties
<1>1. Len(v) = d + e
      /\ \A i \in 1..(d + e) : v[i] = IF i <= d THEN y[i] ELSE w[i - d]
  BY ConcatProperties
<1>2. a \in Nat /\ d \in Nat /\ e \in Nat
  BY LenProperties
<1> HIDE DEF v
<1>3. Len(u) = a + Len(v)
      /\ \A i \in 1..(a + Len(v)) : u[i] = IF i <= a THEN x[i] ELSE v[i - a]
  BY <1>0, ConcatProperties
<1> HIDE DEF u, a, d, e
<1>4. Len(u) = a + d + e
  BY <1>1, <1>2, <1>3
<1>5. ASSUME NEW i \in 1..a PROVE u[i] = x[i]
  <2>1. i \in 1..(a + d + e) /\ i <= a
    BY <1>2
  <2> QED BY <1>3, <1>4, <2>1
<1>6. ASSUME NEW i \in 1..d PROVE u[a + i] = y[i]
  <2>1. a + i \in 1..(a + d + e) /\ ~(a + i <= a) /\ (a + i) - a = i
        /\ i \in 1..(d + e) /\ i <= d
    BY <1>2
  <2>2. u[a + i] = v[i]
    BY <1>3, <1>4, <2>1
  <2> QED BY <1>1, <2>1, <2>2
<1>7. ASSUME NEW i \in 1..e PROVE u[a + d + i] = w[i]
  <2>1. a + d + i \in 1..(a + d + e) /\ ~(a + d + i <= a) /\ (a + d + i) - a = d + i
        /\ d + i \in 1..(d + e) /\ ~(d + i <= d) /\ (d + i) - d = i
    BY <1>2
  <2>2. u[a + d + i] = v[d + i]
    BY <1>3, <1>4, <2>1
  <2> QED BY <1>1, <2>1, <2>2
<1> QED BY <1>2, <1>4, <1>5, <1>6, <1>7 DEF u, v, a, d, e

\* A printed number, of z times padc between what leads it and its digits.
Laid(s, lead, z, padc, ds) ==
  /\ Len(s) = Len(lead) + z + Len(ds)
  /\ \A i \in 1..Len(lead) : s[i] = lead[i]
  /\ \A i \in 1..z : s[Len(lead) + i] = padc
  /\ \A i \in 1..Len(ds) : s[Len(lead) + z + i] = ds[i]

\* The three parts of a printed number, one after the other.
LEMMA LaidOf ==
  ASSUME NEW S, NEW lead \in Seq(S), NEW y \in Seq(S), NEW ds \in Seq(S), NEW z \in Nat,
         NEW padc, y = [i \in 1..z |-> padc]
  PROVE  Laid(lead \o (y \o ds), lead, z, padc, ds)
<1>1. Len(y) = z /\ \A i \in 1..z : y[i] = padc
  BY Repeated
<1>2. /\ Len(lead \o (y \o ds)) = Len(lead) + Len(y) + Len(ds)
      /\ \A i \in 1..Len(lead) : (lead \o (y \o ds))[i] = lead[i]
      /\ \A i \in 1..Len(y) : (lead \o (y \o ds))[Len(lead) + i] = y[i]
      /\ \A i \in 1..Len(ds) : (lead \o (y \o ds))[Len(lead) + Len(y) + i] = ds[i]
  BY Three
<1> QED BY <1>1, <1>2 DEF Laid

\* A width less than the number of digits pads nothing.
LEMMA NotNegative == ASSUME NEW n \in Int PROVE (IF n > 0 THEN n ELSE 0) \in Nat
OBVIOUS

\* What decimal, unsigned and pointer give to putch().
LEMMA LaidOut ==
  ASSUME NEW lead \in {<<>>, <<"-">>, <<"0", "x">>}, NEW n \in Int,
         NEW padc \in {" ", "-", "0"}, NEW ds \in Seq(DigitChars)
  PROVE  Laid(lead \o (padding(n, padc) \o ds), lead, IF n > 0 THEN n ELSE 0, padc, ds)
<1> DEFINE S == DigitChars \cup {" ", "-", "0", "x"}
           y == padding(n, padc)  z == IF n > 0 THEN n ELSE 0
<1>1. lead \in Seq(S) /\ ds \in Seq(S) /\ {padc} \subseteq S
  <2>1. DigitChars \subseteq S
    OBVIOUS
  <2>2. ds \in Seq(S)
    BY <2>1, SeqMonotone
  <2>3. "-" \in S /\ "0" \in S /\ "x" \in S
    OBVIOUS
  <2> HIDE DEF S
  <2>4. <<>> \in Seq(S) /\ <<"-">> \in Seq(S) /\ <<"0", "x">> \in Seq(S)
    BY <2>3, ShortSeq, Zenon
  <2>6. lead \in Seq(S)
    BY <2>4, Zenon
  <2>5. padc \in S
    BY DEF S
  <2> QED BY <2>2, <2>5, <2>6
<1>2. y = [i \in 1..z |-> padc]
  BY PaddingIs, Zenon
<1>3. y \in Seq(S)
  <2>1. y \in Seq({padc})
    BY PaddingIs, Zenon
  <2> HIDE DEF S, y
  <2>2. {padc} \subseteq S
    BY <1>1
  <2>3. Seq({padc}) \subseteq Seq(S)
    BY <2>2, SeqMonotone, Zenon
  <2> QED BY <2>1, <2>3, Zenon
<1> HIDE DEF S
<1>4. z \in Nat
  BY NotNegative, Zenon
<1> HIDE DEF y, z
<1>5. lead \in Seq(S) /\ ds \in Seq(S)
  BY <1>1, Zenon
<1>6. Laid(lead \o (y \o ds), lead, z, padc, ds)
  BY <1>2, <1>3, <1>4, <1>5, LaidOf, Zenon
<1> QED BY <1>6 DEF y, z

\* How long the sign or the prefix is.
LEMMA LeadIs ==
  ASSUME NEW lead \in {<<>>, <<"-">>, <<"0", "x">>}
  PROVE  /\ Len(lead) \in {0, 1, 2}
         /\ Len(lead) = 0 <=> lead = <<>>
         /\ lead = <<>> => Len(lead) = 0
         /\ lead = <<"-">> => Len(lead) = 1 /\ lead[1] = "-"
         /\ lead = <<"0", "x">> => Len(lead) = 2 /\ lead[1] = "0" /\ lead[2] = "x"
OBVIOUS

\* The sign does not disturb the cut.
LEMMA CutTwice ==
  ASSUME NEW m \in Nat
  PROVE  (m % Ints) % Ints = m % Ints /\ (-(m % Ints)) % Ints = (-m) % Ints
<1>1. Ints \in Nat \ {0}
  BY PrintfmtAssumption
<1> DEFINE a == m \div Ints  c == m % Ints  x == -c  y == x \div Ints  e == x % Ints
<1>2. a \in Int /\ c \in 0..(Ints - 1) /\ m = Ints * a + c
  BY <1>1, Quotient
<1>3. c % Ints = c
  <2> HIDE DEF c
  <2>1. c = Ints * 0 + c /\ c \in Int
    BY <1>1, <1>2
  <2> QED BY <1>1, <1>2, <2>1, Remainder
<1>4. y \in Int /\ e \in 0..(Ints - 1) /\ x = Ints * y + e
  <2>1. x \in Int
    <3> HIDE DEF c
    <3> QED BY <1>1, <1>2
  <2> HIDE DEF x
  <2> QED BY <1>1, <2>1, Quotient
<1>5. (-m) % Ints = e
  <2> DEFINE n == -m  q == y - a
  <2>1. q \in Int /\ n \in Int
    <3> HIDE DEF y
    <3> QED BY <1>2, <1>4
  <2>2. n = Ints * q + e
    <3> DEFINE g == Ints * a  h == Ints * y
    <3>1. g \in Int /\ h \in Int /\ e \in Int /\ c \in Int
      <4> HIDE DEF a, y, e, c
      <4> QED BY <1>1, <1>2, <1>4
    <3>2. m = g + c /\ -c = h + e
      BY <1>2, <1>4
    <3>3. Ints * q = h - g
      <4> HIDE DEF a, y
      <4> QED BY <1>1, <1>2, <1>4
    <3> HIDE DEF a, y, e, c, g, h, q
    <3> QED BY <3>1, <3>2, <3>3
  <2> HIDE DEF n, q, y, e
  <2>3. n % Ints = e
    BY <1>1, <1>4, <2>1, <2>2, Remainder
  <2> QED BY <2>3 DEF n
<1> QED BY <1>3, <1>5

\* The exception and the claim of NumbersReadBack, for a printed number p.
Spoiled(p) ==
  \/ p.lead # <<>> /\ Contains(p.chars, " ")
  \/ \E i \in DOMAIN p.chars : p.chars[i] = "-" /\ (i > 1 \/ p.val >= 0)

ReadsBack(p) ==
  Spoiled(p) \/ (/\ strtol(p.chars, p.base).val = signed(p.val % Ints, Ints)
                 /\ strtol(p.chars, p.base).endptr = Len(p.chars) + 1)

\* NumbersReadBack is ReadsBack of the last number.
LEMMA ReadsBackIs == NumbersReadBack <=> (printed # NONE => ReadsBack(printed))
BY Zenon DEF NumbersReadBack, ReadsBack, Spoiled

\* The three ways number() is called.
Sign(lead, base, num, val) ==
  \/ lead = <<>> /\ val = num
  \/ lead = <<"-">> /\ base = 10 /\ val = -num
  \/ lead = <<"0", "x">> /\ base = 16 /\ val = num

\* The digits of a number are digits of some base.
LEMMA DigitsLaid ==
  ASSUME NEW base \in {8, 10, 16}, NEW f, HasDigits(LongLongs, base, f),
         NEW num \in 0..(LongLongs - 1)
  PROVE  f[num] \in Seq(DigitChars) /\ Len(f[num]) \in Nat \ {0}
         /\ \A i \in 1..Len(f[num]) : f[num][i] \in DigitChars
<1>1. f[num] \in Seq({Digits[d] : d \in 1..base}) /\ Len(f[num]) \in Nat \ {0}
  BY DigitsAre
<1>2. {Digits[d] : d \in 1..base} \subseteq DigitChars
  <2>1. 1..base \subseteq 1..16
    OBVIOUS
  <2> QED BY <2>1 DEF DigitChars
<1>3. f[num] \in Seq(DigitChars)
  BY <1>1, <1>2, SeqMonotone
<1> DEFINE g == f[num]
<1> HIDE DEF g
<1>4. \A i \in 1..Len(g) : g[i] \in DigitChars
  <2>1. g \in Seq(DigitChars)
    BY <1>3 DEF g
  <2> QED BY <2>1, ElementOfSeq
<1> QED BY <1>1, <1>3, <1>4 DEF g

\* What stands in front of the padding.
Leads(lead) == lead \in {<<>>, <<"-">>, <<"0", "x">>}

Pads(padc) == padc \in {" ", "-", "0"}

\* A string of characters that is not spoilt.
Unspoilt(s, lead, val) ==
  /\ DOMAIN s = 1..Len(s)
  /\ lead # <<>> => \A i \in DOMAIN s : s[i] # " "
  /\ \A i \in DOMAIN s : s[i] = "-" => ~(i > 1 \/ val >= 0)

\* strtol() of what is laid out without blanks or signs that spoil it.
LEMMA Unspoiled ==
  ASSUME NEW base \in {8, 10, 16}, NEW lead, Leads(lead),
         NEW num \in 0..(LongLongs - 1), NEW val, Sign(lead, base, num, val),
         NEW padc, Pads(padc), NEW z \in Nat, NEW f, HasDigits(LongLongs, base, f),
         NEW s, Laid(s, lead, z, padc, f[num]), Unspoilt(s, lead, val)
  PROVE  \E from \in Nat \ {0}, q \in Nat, y \in Nat :
           /\ Starts(s, base, from, q, lead = <<"-">>)
           /\ EndsIn(s, q, y, f[num])
<1> DEFINE a == Len(lead)  l == Len(f[num])  n == Len(s)  ds == f[num]
<1>1. a \in Nat /\ (lead # <<>> => a > 0)
  BY LeadIs DEF Leads
<1>2. l \in Nat \ {0} /\ \A i \in 1..l : ds[i] \in DigitChars
  BY DigitsLaid
<1>3. n = a + z + l
  BY DEF Laid
<1>4. /\ \A i \in 1..a : s[i] = lead[i]
      /\ \A i \in 1..z : s[a + i] = padc
      /\ \A i \in 1..l : s[a + z + i] = ds[i]
  BY DEF Laid
<1>5. num \in Nat
  BY LongLongRange
<1>6. DOMAIN s = 1..n
  BY DEF Unspoilt
<1> HIDE DEF a, l, n, ds
<1>7. a \in Nat /\ l \in Nat /\ l > 0 /\ n \in Nat /\ n = a + z + l
  BY <1>1, <1>2, <1>3
<1>8. ASSUME z > 0 PROVE padc = "0" \/ (padc = " " /\ lead = <<>>)
  <2>1. 1 \in 1..z /\ a + 1 \in 1..n
    BY <1>7, <1>8
  <2>2. s[a + 1] = padc /\ a + 1 \in DOMAIN s
    BY <1>4, <1>6, <2>1
  <2>3. lead # <<>> => a + 1 > 1
    BY <1>1
  <2>4. lead = <<>> => val >= 0
    <3>1. lead = <<>> => val = num
      BY DEF Sign
    <3> QED BY <1>5, <3>1
  <2>5. padc # "-"
    BY <2>2, <2>3, <2>4 DEF Unspoilt
  <2>6. padc = " " => lead = <<>>
    BY <2>2 DEF Unspoilt
  <2> QED BY <2>5, <2>6 DEF Pads
<1>9. "0" \in DigitChars /\ NUL # "x"
  <2>1. "0" \in DigitChars
    BY DigitIs DEF DigitChars
  <2>2. "x" \in Conversions /\ NUL \notin Conversions
    BY CharAssumption, Zenon DEF Conversions
  <2> QED BY <2>1, <2>2
<1>10. CASE z = 0 \/ padc = "0"
  <2>1. ASSUME NEW i \in (a + 1)..n PROVE s[i] \in DigitChars
    <3>1. CASE i <= a + z
      <4>1. i - a \in 1..z /\ a + (i - a) = i /\ z # 0
        BY <1>7, <3>1
      <4>2. s[a + (i - a)] = padc
        BY <1>4, <4>1
      <4> QED BY <1>9, <1>10, <4>1, <4>2
    <3>2. CASE ~(i <= a + z)
      <4>1. i - (a + z) \in 1..l /\ a + z + (i - (a + z)) = i
        BY <1>7, <3>2
      <4>2. s[a + z + (i - (a + z))] = ds[i - (a + z)]
        BY <1>4, <4>1
      <4> QED BY <1>2, <4>1, <4>2
    <3> QED BY <3>1, <3>2
  <2>2. EndsIn(s, a + 1, z, ds)
    <3>1. n = (a + 1) + z + l - 1
      BY <1>7
    <3>2. ASSUME NEW i \in (a + 1)..((a + 1) + z - 1) PROVE s[i] = "0"
      <4>1. i - a \in 1..z /\ a + (i - a) = i /\ z # 0
        BY <1>7
      <4>2. s[a + (i - a)] = padc
        BY <1>4, <4>1
      <4> QED BY <1>10, <4>1, <4>2
    <3>3. ASSUME NEW j \in 1..l PROVE s[(a + 1) + z + j - 1] = ds[j]
      <4>1. (a + 1) + z + j - 1 = a + z + j
        BY <1>7
      <4> QED BY <1>4, <4>1
    <3> QED BY <3>1, <3>2, <3>3 DEF EndsIn, n, l, ds
  <2>3. a + 1 \in (a + 1)..n /\ 1 <= n /\ 1..(1 - 1) = {}
    BY <1>7
  <2>4. Starts(s, base, 1, a + 1, lead = <<"-">>)
    <3>1. CASE lead = <<>>
      <4>1. a = 0
        BY <3>1, LeadIs DEF Leads, a
      <4>2. charAt(s, 1 + 1) # "x"
        <5>1. CASE 2 <= n
          <6>1. 2 \in (a + 1)..n
            BY <1>7, <4>1, <5>1
          <6>2. charAt(s, 2) = s[2]
            BY <5>1 DEF charAt, n
          <6>3. s[2] \in DigitChars
            BY <2>1, <6>1
          <6>4. s[2] # "x"
            BY <6>3, NotADigit, Zenon
          <6> QED BY <6>2, <6>4
        <5>2. CASE ~(2 <= n)
          <6>1. charAt(s, 2) = NUL
            BY <5>2 DEF charAt, n
          <6> QED BY <1>9, <6>1
        <5> QED BY <5>1, <5>2
      <4>3. s[1] \in DigitChars
        BY <2>1, <2>3, <4>1
      <4>4. lead # <<"-">>
        BY <3>1
      <4> QED BY <2>3, <4>1, <4>2, <4>3, <4>4 DEF Starts, n
    <3>2. CASE lead = <<"-">>
      <4>1. a = 1 /\ lead[1] = "-" /\ base = 10
        BY <3>2, LeadIs DEF Leads, a, Sign
      <4>2. s[1] = "-"
        BY <1>4, <4>1
      <4> QED BY <2>3, <3>2, <4>1, <4>2 DEF Starts, n
    <3>3. CASE lead = <<"0", "x">>
      <4>1. a = 2 /\ lead[1] = "0" /\ lead[2] = "x" /\ base = 16
        BY <3>3, LeadIs DEF Leads, a, Sign
      <4>2. s[1] = "0" /\ s[2] = "x" /\ 2 <= n
        BY <1>4, <1>7, <4>1
      <4>3. charAt(s, 1 + 1) = "x"
        BY <4>2 DEF charAt, n
      <4>4. lead # <<"-">>
        BY <3>3
      <4> QED BY <2>3, <4>1, <4>2, <4>3, <4>4 DEF Starts, n
    <3> QED BY <3>1, <3>2, <3>3 DEF Leads
  <2>5. 1 \in Nat \ {0} /\ a + 1 \in Nat
    BY <1>7
  <2> QED BY <2>2, <2>4, <2>5, Zenon DEF ds
<1>11. CASE z > 0 /\ padc = " " /\ lead = <<>>
  <2>1. a = 0
    BY <1>11, LeadIs DEF Leads, a
  <2>0. n = z + l
    BY <1>7, <2>1
  <2>2. (\A i \in 1..z : s[i] = " ") /\ \A i \in 1..l : s[z + i] = ds[i]
    <3>1. \A i \in 1..z : a + i = i
      BY <2>1
    <3>2. \A i \in 1..l : a + z + i = z + i
      BY <2>1
    <3> QED BY <1>4, <1>11, <3>1, <3>2
  <2>3. EndsIn(s, z + 1, 0, ds)
    <3>1. n = (z + 1) + 0 + l - 1 /\ (z + 1)..((z + 1) + 0 - 1) = {}
      BY <1>7, <2>0
    <3>2. ASSUME NEW j \in 1..l PROVE s[(z + 1) + 0 + j - 1] = ds[j]
      <4>1. (z + 1) + 0 + j - 1 = z + j
        BY <1>7
      <4> QED BY <2>2, <4>1
    <3> QED BY <3>1, <3>2 DEF EndsIn, n, l, ds
  <2>4. charAt(s, (z + 1) + 1) # "x"
    <3>1. CASE (z + 1) + 1 <= n
      <4>1. 2 \in 1..l /\ (z + 1) + 1 = z + 2
        BY <1>7, <2>0, <3>1
      <4>2. charAt(s, (z + 1) + 1) = s[z + 2]
        BY <3>1, <4>1 DEF charAt, n
      <4>3. s[z + 2] \in DigitChars
        BY <1>2, <2>2, <4>1
      <4> QED BY <4>2, <4>3, NotADigit, Zenon
    <3>2. CASE ~((z + 1) + 1 <= n)
      <4>1. charAt(s, (z + 1) + 1) = NUL
        BY <3>2 DEF charAt, n
      <4> QED BY <1>9, <4>1
    <3> QED BY <3>1, <3>2
  <2>5. s[z + 1] \in DigitChars /\ z + 1 <= n
    <3>1. 1 \in 1..l /\ z + 1 <= n
      BY <1>7, <2>0
    <3> QED BY <1>2, <2>2, <3>1
  <2>6. Starts(s, base, z + 1, z + 1, lead = <<"-">>)
    <3>1. lead # <<"-">>
      BY <1>11
    <3>2. (z + 1) - 1 = z
      OBVIOUS
    <3> QED BY <2>2, <2>4, <2>5, <3>1, <3>2 DEF Starts, n
  <2>7. z + 1 \in Nat \ {0} /\ z + 1 \in Nat /\ 0 \in Nat
    OBVIOUS
  <2> QED BY <2>3, <2>6, <2>7, Zenon DEF ds
<1>12. z = 0 \/ z > 0
  OBVIOUS
<1> QED BY <1>8, <1>10, <1>11, <1>12

\* The three parts are one sequence.
LEMMA SequenceOf ==
  ASSUME NEW S, NEW x \in Seq(S), NEW y \in Seq(S), NEW w \in Seq(S)
  PROVE  DOMAIN (x \o (y \o w)) = 1..Len(x \o (y \o w)) /\ Len(x \o (y \o w)) \in Nat
<1>1. y \o w \in Seq(S)
  BY ConcatProperties
<1> DEFINE v == y \o w
<1> HIDE DEF v
<1>2. x \o v \in Seq(S)
  BY <1>1, ConcatProperties DEF v
<1> DEFINE u == x \o v
<1> HIDE DEF u
<1>3. DOMAIN u = 1..Len(u) /\ Len(u) \in Nat
  BY <1>2, LenProperties DEF u
<1> QED BY <1>3 DEF u, v

\* A printed number is laid out.
LEMMA PrintedIs ==
  ASSUME NEW base \in {8, 10, 16}, NEW lead, Leads(lead), NEW num \in 0..(LongLongs - 1),
         NEW padc, Pads(padc), NEW width \in Int
  PROVE  \E f : \E z \in Nat :
           LET s == lead \o printnum(num, base, width, padc)
           IN /\ HasDigits(LongLongs, base, f) /\ Laid(s, lead, z, padc, f[num])
              /\ DOMAIN s = 1..Len(s) /\ Len(s) \in Nat
<1>1. PICK f : /\ HasDigits(LongLongs, base, f)
               /\ \A n, w, p : printnum(n, base, w, p) = padding(w - Len(f[n]), p) \o f[n]
  BY PrintnumIs
<1> DEFINE ds == f[num]  n == width - Len(ds)  y == padding(n, padc)
<1>2. ds \in Seq(DigitChars) /\ n \in Int
  BY <1>1, DigitsLaid
<1>3. printnum(num, base, width, padc) = y \o ds
  BY <1>1, Zenon
<1> HIDE DEF ds, n
<1> DEFINE z == IF n > 0 THEN n ELSE 0
<1>4. z \in Nat
  BY <1>2, NotNegative, Zenon
<1>5. Laid(lead \o (y \o ds), lead, z, padc, ds)
  BY <1>2, LaidOut, Zenon DEF Leads, Pads
<1>6. DOMAIN (lead \o (y \o ds)) = 1..Len(lead \o (y \o ds))
      /\ Len(lead \o (y \o ds)) \in Nat
  <2> DEFINE S == DigitChars \cup {" ", "-", "0", "x"}
  <2>1. {padc} \subseteq S /\ DigitChars \subseteq S
    BY DEF Pads
  <2>2. "-" \in S /\ "0" \in S /\ "x" \in S
    OBVIOUS
  <2> HIDE DEF S
  <2>3. <<>> \in Seq(S) /\ <<"-">> \in Seq(S) /\ <<"0", "x">> \in Seq(S)
    BY <2>2, ShortSeq, Zenon
  <2>4. lead \in Seq(S)
    BY <2>3, Zenon DEF Leads
  <2>5. y \in Seq({padc}) /\ Seq({padc}) \subseteq Seq(S)
    BY <1>2, <2>1, PaddingIs, SeqMonotone, Zenon
  <2>6. ds \in Seq(S)
    BY <1>2, <2>1, SeqMonotone, Zenon
  <2> HIDE DEF y
  <2>7. y \in Seq(S)
    BY <2>5, Zenon
  <2> QED BY <2>4, <2>6, <2>7, SequenceOf, Zenon
<1> DEFINE s == lead \o printnum(num, base, width, padc)
<1>7. s = lead \o (y \o ds)
  BY <1>3, Zenon
<1> HIDE DEF s, y, z
<1>8. Laid(s, lead, z, padc, f[num]) /\ DOMAIN s = 1..Len(s) /\ Len(s) \in Nat
  BY <1>5, <1>6, <1>7, Zenon DEF ds
<1>9. \E g : \E k \in Nat :
        /\ HasDigits(LongLongs, base, g) /\ Laid(s, lead, k, padc, g[num])
        /\ DOMAIN s = 1..Len(s) /\ Len(s) \in Nat
  BY <1>1, <1>4, <1>8, Zenon
<1> QED BY <1>9, Zenon DEF s

\* What NumbersReadBack says of a number, for all of them.
LEMMA ReadBack ==
  ASSUME NEW base \in {8, 10, 16}, NEW lead, Leads(lead), NEW num \in 0..(LongLongs - 1),
         NEW padc, Pads(padc), NEW width \in Int, NEW val, Sign(lead, base, num, val)
  PROVE  ReadsBack([val |-> val, base |-> base, lead |-> lead,
                    chars |-> lead \o printnum(num, base, width, padc)])
<1> DEFINE s == lead \o printnum(num, base, width, padc)
           p == [val |-> val, base |-> base, lead |-> lead, chars |-> s]
           neg == lead = <<"-">>
<1>0. PICK f : \E z \in Nat :
        /\ HasDigits(LongLongs, base, f) /\ Laid(s, lead, z, padc, f[num])
        /\ DOMAIN s = 1..Len(s) /\ Len(s) \in Nat
  BY PrintedIs, Zenon
<1>1. PICK z \in Nat :
        /\ HasDigits(LongLongs, base, f) /\ Laid(s, lead, z, padc, f[num])
        /\ DOMAIN s = 1..Len(s) /\ Len(s) \in Nat
  BY <1>0, Zenon
<1> HIDE DEF s
<1>2. p.val = val /\ p.base = base /\ p.lead = lead /\ p.chars = s
  OBVIOUS
<1> HIDE DEF p
<1>3. CASE Spoiled(p)
  BY <1>3 DEF ReadsBack, p, s
<1>4. CASE ~Spoiled(p)
  <2>1. Unspoilt(s, lead, val)
    BY <1>1, <1>2, <1>4, Zenon DEF Spoiled, Unspoilt, Contains
  <2>2. PICK from \in Nat \ {0}, q \in Nat, y \in Nat :
           Starts(s, base, from, q, neg) /\ EndsIn(s, q, y, f[num])
    BY <1>1, <2>1, Unspoiled, Zenon
  <2>3. readDigits(s, q, base) = [val |-> num % Ints, endptr |-> Len(s) + 1]
    BY <1>1, <2>2, DigitsRead
  <2> DEFINE r == readDigits(s, q, base)
  <2>4. r.val = num % Ints /\ r.endptr = Len(s) + 1
    BY <2>3
  <2>5. neg \in BOOLEAN
    OBVIOUS
  <2>6. strtol(s, base) =
          [val |-> signed((IF neg THEN -r.val ELSE r.val) % Ints, Ints), endptr |-> r.endptr]
    <3> HIDE DEF neg
    <3> QED BY <1>1, <2>2, <2>5, StrtolIs, Zenon
  <2> HIDE DEF r
  <2>7. (IF neg THEN -r.val ELSE r.val) % Ints = val % Ints
    <3>1. num \in Nat
      BY LongLongRange
    <3>2. val = IF neg THEN -num ELSE num
      BY DEF Sign
    <3> HIDE DEF neg
    <3>3. (num % Ints) % Ints = num % Ints /\ (-(num % Ints)) % Ints = (-num) % Ints
      BY <3>1, CutTwice
    <3> QED BY <2>4, <3>2, <3>3, Zenon
  <2>8. strtol(s, base).val = signed(val % Ints, Ints) /\ strtol(s, base).endptr = Len(s) + 1
    BY <2>4, <2>6, <2>7
  <2>9. ReadsBack(p)
    BY <1>2, <2>8 DEF ReadsBack
  <2> QED BY <2>9 DEF p, s
<1> QED BY <1>3, <1>4

\* A number() that is called with matching sign, prefix and base reads back.
LEMMA NumberReadsBack ==
  ASSUME PrintInv, esc # NONE, NEW val, NEW num \in 0..(LongLongs - 1),
         NEW base \in {8, 10, 16}, NEW lead, Leads(lead), Sign(lead, base, num, val),
         number(val, num, base, lead)
  PROVE  NumbersReadBack'
<1> DEFINE p == [val |-> val, base |-> base, lead |-> lead,
                 chars |-> lead \o printnum(num, base, esc.width, esc.padc)]
<1>1. printed' = p
  BY Zenon DEF number
<1>2. Pads(esc.padc) /\ esc.width \in Int
  BY InEscapes DEF Pads
<1>3. ReadsBack(p)
  BY <1>2, ReadBack, Zenon
<1> HIDE DEF p
<1>4. ReadsBack(printed')
  BY <1>1, <1>3
<1>5. NumbersReadBack' <=> (printed' # NONE => ReadsBack(printed'))
  BY Zenon DEF NumbersReadBack, ReadsBack, Spoiled
<1> QED BY <1>4, <1>5

\* %d, of a negative number or another.
LEMMA DecimalReadsBack == ASSUME PrintInv, decimal PROVE NumbersReadBack'
<1>1. PICK a \in Arg :
        LET n == signed(a, ArgInts)
        IN IF n < 0 THEN number(n, -n, 10, <<"-">>) ELSE number(n, n, 10, <<>>)
  BY DEF decimal
<1>2. esc # NONE
  BY DEF decimal, InEscape
<1> DEFINE n == signed(a, ArgInts)
<1>3. /\ n \in Int
      /\ n < 0 => -n \in 0..(LongLongs - 1)
      /\ ~(n < 0) => n \in 0..(LongLongs - 1)
  BY Args
<1>4. (n < 0 => number(n, -n, 10, <<"-">>)) /\ (~(n < 0) => number(n, n, 10, <<>>))
  BY <1>1
<1>5. Leads(<<>>) /\ Leads(<<"-">>)
  BY DEF Leads
<1> HIDE DEF n
<1>6. CASE n < 0
  <2> DEFINE m == -n
  <2>1. m \in 0..(LongLongs - 1) /\ n = -m
    BY <1>3, <1>6
  <2>2. number(n, m, 10, <<"-">>)
    BY <1>4, <1>6, Zenon
  <2> HIDE DEF m
  <2>3. Sign(<<"-">>, 10, m, n)
    BY <2>1, Zenon DEF Sign
  <2> QED BY <1>2, <1>5, <2>1, <2>2, <2>3, NumberReadsBack
<1>7. CASE ~(n < 0)
  <2>1. Sign(<<>>, 10, n, n)
    BY Zenon DEF Sign
  <2> QED BY <1>2, <1>3, <1>4, <1>5, <1>7, <2>1, NumberReadsBack
<1> QED BY <1>6, <1>7

\* %u, %o and %x print the argument as it is.
LEMMA UnsignedReadsBack == ASSUME PrintInv, unsigned PROVE NumbersReadBack'
<1>1. esc # NONE
  BY DEF unsigned, InEscape
<1>2. PICK c \in {"u", "o", "x"} :
        read(c) /\ \E arg \in Arg :
          number(arg, arg, CASE c = "u" -> 10 [] c = "o" -> 8 [] c = "x" -> 16, <<>>)
  BY DEF unsigned
<1>3. PICK arg \in Arg :
        number(arg, arg, CASE c = "u" -> 10 [] c = "o" -> 8 [] c = "x" -> 16, <<>>)
  BY <1>2
<1> DEFINE base == CASE c = "u" -> 10 [] c = "o" -> 8 [] c = "x" -> 16
<1>4. base \in {8, 10, 16}
  BY <1>2
<1>5. number(arg, arg, base, <<>>)
  BY <1>3
<1> HIDE DEF base
<1>6. arg \in 0..(LongLongs - 1)
  BY Args
<1>7. Leads(<<>>) /\ Sign(<<>>, base, arg, arg)
  BY Zenon DEF Leads, Sign
<1> QED BY <1>1, <1>4, <1>5, <1>6, <1>7, NumberReadsBack

\* %p prints 0x in front of a hexadecimal number.
LEMMA PointerReadsBack == ASSUME PrintInv, pointer PROVE NumbersReadBack'
<1>1. PICK arg \in IntArg : number(arg, arg, 16, <<"0", "x">>)
  BY DEF pointer
<1>2. esc # NONE
  BY DEF pointer, InEscape
<1>3. arg \in 0..(LongLongs - 1)
  BY PrintfmtAssumption, LongLongRange
<1>4. Leads(<<"0", "x">>) /\ Sign(<<"0", "x">>, 16, arg, arg)
  BY Zenon DEF Leads, Sign
<1> QED BY <1>1, <1>2, <1>3, <1>4, NumberReadsBack

\* No step prints a number that does not read back.
LEMMA ReadBackStep ==
  PrintInv /\ NumbersReadBack /\ [PrintNext]_printVars => NumbersReadBack'
<1> SUFFICES ASSUME PrintInv, NumbersReadBack, [PrintNext]_printVars PROVE NumbersReadBack'
  OBVIOUS
<1>1. printed' = printed => NumbersReadBack'
  <2> SUFFICES ASSUME printed' = printed PROVE NumbersReadBack'
    OBVIOUS
  <2>1. NumbersReadBack' <=> (printed' # NONE => ReadsBack(printed'))
    BY Zenon DEF NumbersReadBack, ReadsBack, Spoiled
  <2> QED BY <2>1, ReadsBackIs
<1>2. printed' = NONE => NumbersReadBack'
  BY Zenon DEF NumbersReadBack
<1>3. CASE UNCHANGED printVars
  BY <1>1, <1>3 DEF printVars
<1>4. CASE vsnprintf_invalid \/ text \/ finish \/ flag \/ width_first \/ width_more
           \/ width_end \/ character \/ error \/ string \/ unknown
  BY <1>1, <1>4, Zenon DEF vsnprintf_invalid, text, finish, flag, width_first, width_more,
     width_end, character, error, string, unknown
<1>5. CASE percent
  BY <1>2, <1>5 DEF percent
<1>6. CASE decimal \/ unsigned \/ pointer
  BY <1>6, DecimalReadsBack, UnsignedReadsBack, PointerReadsBack
<1> QED BY <1>3, <1>4, <1>5, <1>6, Zenon DEF PrintNext

(***************************************************************************)
(* Every number vprintfmt() prints reads back, whatever its argument, its  *)
(* width and its padding, unless a blank or a '-' of the padding is in the *)
(* way.                                                                    *)
(***************************************************************************)
THEOREM PrintNumbersReadBack ==
  ASSUME NEW sizes \in SUBSET Nat PROVE PrintSpec(sizes) => []NumbersReadBack
<1>1. PrintInit(sizes) => PrintInv
  BY PrintStart
<1>2. PrintInit(sizes) => NumbersReadBack
  BY DEF PrintInit, NumbersReadBack
<1> QED BY <1>1, <1>2, PrintStep, ReadBackStep, PTL DEF PrintSpec
=============================================================================
