------------------------------ MODULE Console ------------------------------
(***************************************************************************)
(* The text screen: vga_putc() of os/kernel/console.c, written by threads  *)
(* that take console_lock (kprintf_lock(), kputs_lock()), by threads that  *)
(* do not (kprintf() of main()), and by the keyboard's interrupt handler,  *)
(* which can not.                                                          *)
(*                                                                         *)
(* A thread's vga_putc() is five steps, between which the timer or the     *)
(* keyboard may interrupt it where the interrupt flag is on: crt_pos is    *)
(* read; it and the cell are written; it is compared with CRT_SIZE; the    *)
(* rows move up and crt_pos is read again; it is written back, lower: the  *)
(* loads and stores the compiler makes without optimisation.  The handler  *)
(* runs with the flag off, in one step.                                    *)
(***************************************************************************)
EXTENDS Sync

CONSTANTS
  console_lock,
  CRT_ROWS, CRT_COLS,        \* 25 and 80
  Locked, Plain,             \* the threads that print with and without lock
  Char,                      \* what is printed: '\n', '\r' or another; no
                             \* caller prints the '\b' vga_putc() also knows
  MaxLine                    \* characters printed under one lock, at most

ASSUME ConsoleAssumption ==
  /\ Lock = {console_lock} /\ Sema = {}
  /\ CRT_ROWS \in Nat \ {0, 1} /\ CRT_COLS \in Nat \ {0} /\ MaxLine \in Nat \ {0}
  /\ CRT_ROWS * CRT_COLS + CRT_COLS < 2^16
  /\ Locked \cup Plain \subseteq Thread \ {idle}
  /\ Char \subseteq {"x", "nl", "cr", "bs"}

VARIABLES
  crt_pos,     \* the next cell, a uint16_t
  crt_buf,     \* the cells of the screen and a few behind it
  pc,          \* thread |-> where it is in a call of the console
  reg,         \* thread |-> crt_pos as vga_putc() has read it
  chr,         \* thread |-> the character it prints
  wrote,       \* thread |-> characters printed under the lock it holds
  shown,       \* history: the screen if every vga_putc() were one step
  last,        \* history: who printed last
  raced        \* history: somebody printed without the lock, interrupts on

consoleVars == <<crt_pos, crt_buf, pc, reg, chr, wrote, shown, last, raced>>

allVars == <<vars, syncVars, consoleVars>>

CRT_SIZE == CRT_ROWS * CRT_COLS

Cell == 0..(CRT_SIZE + CRT_COLS)

-----------------------------------------------------------------------------
\* The first cell of the row of a position.
row(r) == r - (r % CRT_COLS)

(***************************************************************************)
(* The pieces of vga_putc() on a screen s = [pos, buf], pos having been    *)
(* read as r.  The case '\n' goes on with the case '\r'.                   *)
(***************************************************************************)
put(s, r, c) ==
  CASE c = "bs" -> IF r > 0
                   THEN [pos |-> r - 1, buf |-> [s.buf EXCEPT ![r - 1] = " "]]
                   ELSE s
    [] c = "nl" -> [s EXCEPT !.pos = row(r + CRT_COLS)]
    [] c = "cr" -> [s EXCEPT !.pos = row(r)]
    [] OTHER    -> [pos |-> r + 1, buf |-> [s.buf EXCEPT ![r] = c]]

\* Mutant: the screen is rolled one character too late.
full_late(s) == s.pos > CRT_SIZE

full(s) == s.pos >= CRT_SIZE

\* The rows move up; then the position is lowered by one row.
roll(buf) ==
  [i \in Cell |-> IF i < CRT_SIZE - CRT_COLS THEN buf[i + CRT_COLS]
                  ELSE IF i < CRT_SIZE THEN " " ELSE buf[i]]

lower(pos) == (pos - CRT_COLS) % 2^16

\* vga_putc() undisturbed.
vga_putc(s, c) ==
  LET p == put(s, s.pos, c)
  IN IF full(p) THEN [pos |-> lower(p.pos), buf |-> roll(p.buf)] ELSE p

screen == [pos |-> crt_pos, buf |-> crt_buf]

setScreen(s) == crt_pos' = s.pos /\ crt_buf' = s.buf

-----------------------------------------------------------------------------
ConsoleInit ==
  /\ Init /\ lock_sema_init
  /\ crt_pos = 0 /\ crt_buf = [i \in Cell |-> " "]
  /\ pc = [t \in Thread |-> "out"]
  /\ reg = [t \in Thread |-> 0] /\ chr = [t \in Thread |-> "x"]
  /\ wrote = [t \in Thread |-> 0]
  /\ shown = screen /\ last = NULL /\ raced = FALSE

goto(l) == pc' = [pc EXCEPT ![cur] = l]

\* cputch_lock(), cons_putc_lock(), kputs_lock(): lock_acquire(&console_lock)
acquire ==
  /\ cur \in Locked /\ pc[cur] = "out"
  /\ lock_acquire(console_lock)
  /\ goto("in")
  /\ UNCHANGED <<crt_pos, crt_buf, reg, chr, wrote, shown, last, raced>>

HasLock == locks[console_lock].holder = cur

\* The call of vga_putc(), of any thread that may print now.
call(c) ==
  /\ \/ /\ cur \in Plain /\ pc[cur] = "out"
        /\ c = "x"                    \* kprintf("Main ")
        /\ raced' = (raced \/ intr)
     \/ /\ pc[cur] = "in" /\ wrote[cur] < MaxLine
        /\ UNCHANGED raced
  /\ chr' = [chr EXCEPT ![cur] = c]
  /\ reg' = [reg EXCEPT ![cur] = crt_pos]
  /\ goto("store")
  /\ UNCHANGED <<vars, syncVars, crt_pos, crt_buf, wrote, shown, last>>

store ==
  /\ pc[cur] = "store"
  /\ setScreen(put(screen, reg[cur], chr[cur]))
  /\ goto("test")
  /\ UNCHANGED <<vars, syncVars, reg, chr, wrote, shown, last, raced>>

\* vga_putc() returns.
return ==
  /\ goto(IF HasLock THEN "in" ELSE "out")
  /\ wrote' = [wrote EXCEPT ![cur] = IF HasLock THEN @ + 1 ELSE @]
  /\ shown' = vga_putc(shown, chr[cur])
  /\ last' = cur

\* Mutant: the position is compared as it was before the character.
test_before ==
  /\ pc[cur] = "test"
  /\ IF full([screen EXCEPT !.pos = reg[cur]])
     THEN goto("roll") /\ UNCHANGED <<wrote, shown, last>>
     ELSE return
  /\ UNCHANGED <<vars, syncVars, crt_pos, crt_buf, reg, chr, raced>>

test ==
  /\ pc[cur] = "test"
  /\ IF full(screen)
     THEN goto("roll") /\ UNCHANGED <<wrote, shown, last>>
     ELSE return
  /\ UNCHANGED <<vars, syncVars, crt_pos, crt_buf, reg, chr, raced>>

rollup ==
  /\ pc[cur] = "roll"
  /\ crt_buf' = roll(crt_buf)
  /\ reg' = [reg EXCEPT ![cur] = crt_pos]
  /\ goto("lower")
  /\ UNCHANGED <<vars, syncVars, crt_pos, chr, wrote, shown, last, raced>>

lowered ==
  /\ pc[cur] = "lower"
  /\ crt_pos' = lower(reg[cur])
  /\ return
  /\ UNCHANGED <<vars, syncVars, crt_buf, reg, chr, raced>>

\* Mutant: the lock is released after each character.
release_between ==
  /\ pc[cur] = "in" /\ wrote[cur] > 0
  /\ lock_release(console_lock)
  /\ UNCHANGED consoleVars

release ==
  /\ pc[cur] = "in" /\ wrote[cur] > 0
  /\ lock_release(console_lock)
  /\ goto("out")
  /\ wrote' = [wrote EXCEPT ![cur] = 0]
  /\ UNCHANGED <<crt_pos, crt_buf, reg, chr, shown, last, raced>>

\* main sets the flag at the end of its boot.
enable == pc[cur] = "out" /\ intr_enable /\ UNCHANGED <<syncVars, consoleVars>>

boot == pc[main] = "out" /\ start /\ UNCHANGED <<syncVars, consoleVars>>

timer == timer_intr_handler /\ UNCHANGED <<syncVars, consoleVars>>

idler == (idle_block \/ idle_hlt) /\ UNCHANGED <<syncVars, consoleVars>>

\* The interrupt prints a line, abridged to one character, and a 'k'.
key_pressed(s) == vga_putc(vga_putc(vga_putc(s, "k"), "nl"), "k")

\* general_intr_handler() with keyboard_intr_handler().
keyboard_intr_handler ==
  /\ intr
  /\ idlepc' = IF cur = idle /\ idlepc = "hlt" THEN "loop" ELSE idlepc
  /\ setScreen(key_pressed(screen))
  /\ shown' = key_pressed(shown)
  /\ last' = "kbd"
  /\ UNCHANGED <<status, ready, all, cur, ticks, intr, saved, panicked, syncVars, pc, reg, chr,
                 wrote, raced>>

ConsoleNext ==
  /\ ~panicked
  /\ \/ acquire \/ release \/ store \/ test \/ rollup \/ lowered \/ enable
     \/ \E c \in Char : call(c)
     \/ boot \/ timer \/ idler \/ keyboard_intr_handler

ConsoleSpec == ConsoleInit /\ [][ConsoleNext]_allVars

-----------------------------------------------------------------------------
(***************************************************************************)
(* As long as everybody prints under console_lock, or with interrupts off, *)
(* the screen is what it would be if vga_putc() were one indivisible step, *)
(* although the keyboard's handler prints without the lock: the lock keeps *)
(* it out by the interrupt flag.                                           *)
(***************************************************************************)
ScreenIsAtomic ==
  ~raced /\ (\A t \in Thread : pc[t] \in {"out", "in"}) => screen = shown

(***************************************************************************)
(* What a thread prints under one lock is not interrupted by other output, *)
(* not even by that of a thread that prints without the lock: a whole line *)
(* of kputs_lock(), but one character of kprintf_lock(), which takes the   *)
(* lock for each character anew.                                           *)
(***************************************************************************)
LinesIntact == \A t \in Thread : wrote[t] > 0 => last = t

(***************************************************************************)
(* When main() prints without the lock it races with everybody else, but   *)
(* the position does not run away: no character is stored further than in  *)
(* the first cell behind the screen.                                       *)
(***************************************************************************)
StoresNearScreen ==
  /\ \A t \in Thread : pc[t] = "store" => reg[t] <= CRT_SIZE
  /\ intr => crt_pos <= CRT_SIZE
=============================================================================
