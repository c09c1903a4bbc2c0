# Pumelo OS: a TLA+ model

Pumelo OS (`src/os`) is a small 32-bit x86 kernel: threads with a priority-sized time slice,
semaphores and locks, a polling/interrupt IDE driver, an allocator of pages and of small blocks,
user processes with their own page directory, a text console and the first parts of a file system.
It runs on one processor; all of its concurrency comes from interrupts and from threads that give
the processor away. This directory models that concurrency and the data structures it works on.

## 1. The system

| component (source) | state | operations | hard part | what makes it correct |
|---|---|---|---|---|
| scheduler (`thread.c`, `switch.S`, `clock.c`, `intr.c`) | `thread_ready_list`, `thread_list_all`, status and ticks of each thread, `EFLAGS.IF` | `thread_start`, `schedule`, `thread_block`, `thread_unblock`, `thread_yield`, `idle`, timer interrupt | the timer may preempt anywhere the flag is on; `schedule` wakes `idle` and asserts that it is blocked | one thread runs, the list is exactly the READY threads, nobody starves, no assertion fails |
| interrupt entry (`kernel.S`, `interrupt.c`) | request, mask and in-service bits of the two 8259s | entry stubs, `general_intr_handler`, `pic_init` | EOI before a handler that may switch threads; requests that are withdrawn | every request is answered, spurious vectors reach no handler |
| semaphores, locks (`sync.c`, `spinlock.c`) | value and waiters; holder, depth, spinlock | `sema_down/up`, `lock_acquire/release` | a woken thread competes with threads that were not asleep; `lock_release` always sets the flag | mutual exclusion, no lost wakeup, no deadlock |
| IDE driver (`ide.c`) | lock, semaphore, `expecting_intr` of a channel; the device | `identify_disk`, `ide_read`, `ide_write`, `busy_wait`, `hd_intr_handler` | late, early and repeated interrupts, one for each sector of a command; a device that is slow or fails; polling that depends on other threads | commands and data keep their order; each call returns or reports failure |
| I/O queue (`ds/ioqueue.c`) | ring buffer, `producer`, `consumer` | `ioqueue_getchar`, `ioqueue_putchar` | test-and-sleep across a lock that changes the interrupt flag | a bounded FIFO; no sleeper is forgotten |
| bitmap (`ds/bitmap.c`) | the bits | `bitmap_scan`, `bitmap_set` | runs across bytes and behind the end | a found run is free, and one is found if there is a long enough one |
| memory (`mem.c`) | pools, page table, arenas, free lists | `get_kernel_pages`, `free_pages`, `sys_malloc`, `sys_free`, `get_a_page` | long histories; a free that gives back only part | no page, frame or block is in use twice |
| processes (`proc.c`, `tss.c`) | `pgdir`, `cr3`, `tss.esp0` | `process_execute`, `process_start`, `process_activate` | the state must be switched on every path through `schedule` | a process runs in its own address space |
| console (`console.c`, `stdio.c`, `keyboard.c`) | `crt_pos`, the screen, `console_lock` | `vga_putc`, `kprintf`, `kprintf_lock`, keyboard interrupt | unlocked writers and a handler that prints | under the lock output is atomic; without it the position stays on the screen |
| list (`ds/list.c`) | `prev`, `next` | push, append, pop, remove, find | an element on two lists | a sequence |
| strings (`string.c`, the `rep` instructions of `x86.h`) | memory | copies, comparisons, `strtol` | overlapping areas copied in words, a terminator just inside the area | agree with their definition |
| formatted output (`printfmt.c`) | the state of `vprintfmt`'s loop, `struct sprintbuf` | `vprintfmt`, `printnum`, `snprintf` | widths, sign extension, 64-bit division by parts, a format that ends inside an escape, the last byte of a buffer | a printed number reads back, nothing is stored outside the buffer |
| partition scan (`ide.c`) | `prim_parts`, `logic_parts`, `p_no`, `l_no`, `partition_list` | `partition_scan`, `ide_init` | recursion over tables that share counters; full tables | stays in its tables, finds what a conforming disk has, frees its buffers |
| file system (`fs.c`) | super block, bitmaps, inode table | `partition_format`, `mount_partition`, `filesys_init` | the layout must be read back where it was written, inside the partition; power failure between the writes; bitmaps that are written to the wrong sectors | mounting finds what formatting left |
| files, inodes (`file.c`, `inode.c`) | open inodes, file tables | | not built, do not compile | section 6 |

Threads share everything. They interact by the ready list and the lists of waiters, by the
interrupt flag (saved and restored across a switch, set by `lock_release`), and by `running_thread()`,
which is read off the stack pointer. Interrupt handlers call `sema_up` (disk), `schedule` (timer) and
`vga_putc` (keyboard).

## 2. The modules

```
Scheduler -- SchedulerProofs               Bitmap
  |-- Interrupts --+                         |-- Memory -- MemoryProofs
  |-- AddrSpace ---+-- ProcessorProofs
  |-- Sync -- SyncClients -- SyncProofs    MCLibrary -- BitmapClients, StringClients, Printfmt
        |-- Ide -- IdeProofs                 |
        |-- IoQueue -- IoQueueProofs       ListClients -- List -- Partition -- FileSystem
        |-- Console -- ConsoleProofs         |---- StructureProofs ----------------|
```

Every proof module but `MemoryProofs` and `StructureProofs` extends `SchedulerProofs`. `Ide` implements `Disk`, `IoQueue`
implements `Fifo`; `MemoryProofs` also holds the theorems about BitmapClients, `ProcessorProofs` those about StringClients,
and `ConsoleProofs` those about Printfmt.

`MCx` gives `x` the constants of a run. A mutant of a definition (a plausible bug) stands before the
definition and is used by nothing; it documents what the properties can detect.

**Steps.** With the interrupt flag clear nothing interleaves, so a stretch of code with the flag clear
is one step; with the flag set, every access to shared state is a step of its own. `schedule()` with
`switch_to()` is one step that ends with the new thread restoring the flag it saved (`saved`). `panic()`
never returns: `panicked` disables every action. `panicked` holds the outcome of `assert` and `panic`
alike.

**Scheduler.** `ready` is `thread_ready_list` as a sequence, `status` the field of the same name,
`cur` is `running_thread()`. Clients are arbitrary: the running thread may block, yield, wake any
blocked thread but `idle`, and set or clear the flag. `schedule(st, q, restore)` takes the status and
the list its caller has left and the flag the caller will restore.

**Interrupts.** What Scheduler takes as one action, "the timer interrupt is served", from the line of
the device to `iret`. `irr`, `isr` and `imr` are the registers of the two 8259s as `pic_init` programs
them, `gone` the latched requests the device has withdrawn (a read of the disk's status register does
that). `interrupt` is one step from the acknowledge cycle through the stub, with its two end-of-interrupt
commands, to the end of the handler or to the switch inside it, because the gates clear the flag. A
withdrawn request is answered with line 7 of the slave, or of the master. An interrupt is taken before
the next instruction, so threads move only when none is pending. `raise` assumes that handlers are
shorter than the time between two edges. The module shows that this hardware provides the strong
fairness Scheduler assumes.

**Sync.** The operations of `sync.c` and `spinlock.c` as operators of the running thread.
`sema_down` is split where the thread may lose the processor. `locks[l].number` and `.holder` are the
fields of `struct lock`; `holding()` is true whoever holds the lock, so a held lock panics.
`SyncClients` is a workload: a semaphore as a mutex, and reentrant lock sections that do not block.

**Ide.** `main` identifies the two devices of the channel (no lock, flag on), then users call
`ide_read` and `ide_write`. A call goes through `cmd`, `down`, `poll`, `sleep`, the transfer and the next chunk, as
`ide_read` and `ide_write` do; `mtime_sleep` is the yield loop of `clock.c`. The device, its latched
interrupt and its media are external, modelled from the register accesses of the driver. It works through a command
sector by sector: busy, then asking for a sector or offering it (DRQ), with an interrupt for each, or in error; a
write raises none for its first sector and one when the last is stored. An interrupt may arrive any time later, and once more. The driver looks at DRQ once for a chunk and then moves
up to 256 sectors with one `rep insw` or `rep outsw`; it does not look at the status when a write is over, and the
interrupt for the second sector of a write already ends `sema_down`. So what happens to the sectors behind the first
depends on the device: Bochs, which the repository runs on, presents the next sector before the next word is moved and
has stored the last one before `sema_down`. `unseen` records that a device has been slower than that, or has
failed there. A word the device does not ask for is lost, and what such a chunk reads or stores is arbitrary.
`Disk` is the promise: a call reads or writes its chunks in order, until `unseen` makes it void or the
driver gives up. A request of one sector is kept whatever time the device takes.

**IoQueue.** `ioq_wait`, `wakeup` and the loops of `ioqueue.c`, one producer and one consumer; `Fifo`
is a bounded queue. A wait ends in the assertion of `ioq_full`/`ioq_empty` (section 4), so the
properties speak about behaviours up to that panic.

**Bitmap, Memory.** A bitmap is the set of the positions that are 1, including positions behind its
end, which `bitmap_scan` reads and `set_run` writes. `mem` holds the three bitmaps, the kernel's page
table and `fault`, the reason the kernel stopped: a full bitmap (`bitmap_scan` asserts instead of
returning -1), a failed assertion, or a descriptor taken from behind `k_block_descs`
(`sys_malloc(1024)`, the strict comparison of `mem.c:259`). `MaxRun` bounds the pages of one request,
and so how far behind the range a run can reach. Every call is one step: the heap holds a
lock, and `get_kernel_pages` is called by `main()` with the flag off. The callers of the heap are those
for which `pgdir == NULL`. `process_execute` and `process_start` take memory in the order of `proc.c`.

**List, Strings, Printfmt.** `prev` and `next` as functions on entries and the two sentinels, with every
operation of `list.c` on them. The operations of `string.c` on an array of bytes, the copies as the `rep`
instructions of `x86.h` make them: forwards in words and the rest in bytes, or backwards. `vprintfmt`
is one action per escape character; the format is chosen while it is read and an argument when
`va_arg` takes it, so every format up to a length is covered; characters are letters, an int
has `Ints` values. `MCLibrary` runs four clients, one per behaviour: `BitmapClients` (runs are taken and bits given back),
`ListClients` (two lists over the same entries beside the sequences the other modules use: `ready`, `waiters`, free lists),
`StringClients` (copies in an area where strings may overlap), and `snprintf`.

**Partition, FileSystem.** The recursion of `partition_scan` is a stack of calls, each with its table,
its place in it and its buffer; slots of `prim_parts` and `logic_parts` are the entries of
`partition_list`, so a slot used twice damages the list as it does in the code. A disk is a set of
boot sectors chosen in the initial state, conforming (an extended entry is the last
of its table, Linux partitions in the first table, logical ones behind it) or not. `second_channel` is the second pass of the loop of `ide_init`,
which initialises `partition_list` again. `media` holds what `partition_format` has written, sector by
sector and write by write (`written` of the five); `mount_partition` reads from it. `power_off` keeps `media` alone and boots
again. `fs.c` computes the layout from `used_sects`, which it also
stores into `sec_cnt`, and writes the inode bitmap to the sectors of the block bitmap: both are in the
model as they are in the code, and `MountedAsWritten` says what comes of it: the mounted block bitmap is the inode bitmap,
the mounted inode bitmap is what the disk held before (`Unwritten`); the rest of the file system is as it was written. The test of the magic number is commented out in `fs.c`, so each boot formats again.

**AddrSpace.** `Thread_init` stores -1 into 32 words from `fd_table` on, which has 8, so every `pgdir`
starts as garbage (`mem.c` and `proc.c` then do not take a kernel thread for one); the module follows
`pgdir`, `cr3` and `tss.esp0` through every switch.

**Console.** `vga_putc` is split into the loads and stores that the unoptimised build makes. `shown` is
what the screen would be if each call were one step, `raced` whether anybody printed without the lock
while interrupts were on. A line of the keyboard handler is one character and a newline.

## 3. The runs

| run | instance | checks |
|---|---|---|
| `scheduler` | main, idle, two clients; slices 1 and 2; two blocked statuses | the invariants and the action property of Scheduler, `NoStarvation` |
| `interrupts` | main, idle and a thread, slices of 1; timer, keyboard, disk | no panic by a spurious vector, `RequestsServed`, refinement of Scheduler with its fairness |
| `sync` | main, idle, two clients, one semaphore, one lock of depth 2 | exclusion, waiters, holder, refinement of Scheduler (hence no failed assertion), `SemaProgress` |
| `ide` | one user and one other thread; requests of 1 and 2 chunks of up to 2 sectors; 3 polls; device errors | no panic and `IoCompletes` in any case; protocol with the device and refinement of Disk until `unseen` |
| `ide_two_users` (violation) | two users | `AcquireWaits` |
| `ioqueue` | producer and consumer, ring of 3 cells | ring and sleepers, refinement of Fifo |
| `ioqueue_assert` (violation) | the same | `TestsWithIntrOff` |
| `library` | a map of three bytes of 4 bits; two lists over three entries; strings in 5 bytes of values 0, 1 and 200, words of 2 bytes; formats of up to 5 characters, integers of 5 and 10 bits, buffers of 0 and 2 | the scan, the lists, the strings against their definitions; numbers read back; the buffer is kept to |
| `memory` | eight pages of bitmaps of 4-bit bytes; two classes of blocks, large blocks of 2 pages; two processes | pages, frames, blocks, counts, control blocks and stacks |
| `addr_space` | two processes and a kernel thread | own directory, own stack |
| `console` | main and a thread, screen of 2 x 2, lines of up to 2 characters | atomic output, bounded races |
| `file_system` | 529 disks, one or two channels, 2 logical slots, 10 sectors a partition; one power failure on `CrashDisks` | bounds of the tables, all partitions found, buffers, layout inside the partition, what is mounted, after a crash too |

The bounds are named constants. Two clients besides main and idle are enough for a thread to be
woken, overtaken and preempted at once; slices of 1 and 2 give both a slice that ends at the next tick
and one that is kept across a block. Three lines, two of them on the master, give requests on either
8259, both at once, and the cascade. Two chunks of a request make the loop of `ide_read` go round, a full one and one that need not be; two sectors of a chunk
(`MaxSectors` = 2) give a first and a last one, with an interrupt between them; a
poll limit of 3 lets it run out or not. A ring of 3 cells is empty, neither, and full. Bytes of 4
bits keep runs that begin in a byte, cross bytes, and end behind the map; arenas of 2 blocks (and of 1)
are empty, partly used, whole, and two of a class can exist. `MCMemory` starts either at boot, where
large blocks, runs and processes compete, or with the pages `Held` taken, where the heap has four pages
to itself; the constraint `Competing` keeps the two apart, because together they exceed TLC's reach.
Its processes are symmetric. Formats of `MaxFmt` = 5 characters with `MaxEscape` = 1 escape hold a
flag, a width or a star, a precision and a conversion, or end in the middle of one; buffers of 0 and 2
bytes are refused, full after one character, and overrun by the text. `Ints` = 32 makes 16 the least
integer and keeps bases 8, 10 and 16 below the word. A copy in words of 2 has an odd rest and may
overlap by less than a word. A 2 x 2 screen rolls after four
characters. `CrashDisks` have one to three partitions; `MaxCrash` = 1 puts the failure before, between
and after all writes. `CHECK_DEADLOCK FALSE` stands where the modelled system can stop: a
panic, full memory, or all calls made.

**Fairness.** The 8259 latches an interrupt that arrives while the flag is clear, so the timer and a
raised disk interrupt are served if they are enabled again and again: strong fairness. Interrupts
derives this from less: the processor takes an interrupt that stays pending (weak), the 8253 counts on
(strong, because other requests may hold it back a while), and `idle` gets on between two interrupts
(strong, because an interrupt disables it for the time of its handler). `idle` and a
thread that has the processor with the flag off run on: weak fairness. A thread inside a critical section
leaves it if it is scheduled again and again: strong fairness per thread. The device answers. Nothing is
assumed of blocking, yielding or waking. `IoCompletes` needs a second ready thread: `mtime_sleep` yields
with the flag off, so only another thread lets the tick counter advance.

## 4. What the violated properties show

* `ide_two_users`: `spinlock.c:11` says the lock "Loops (spins) until the lock is acquired."; `spinlock_acquire`
  panics when anybody holds it, and `ide_read` holds it while it sleeps.
* `ioqueue_assert`: `ioqueue.c:19` and `:25` assert that the flag is off; after a wait it is on.

Others are visible in the modules and have no run: `bitmap_scan` tries only the first free bit of each
byte, so it misses later runs of a byte (the comment at `bitmap.c:20` speaks of a run of free bits; `ScanFindsRuns` says
how much longer a free run must be to be found); the
return at `ide.c:271` does not free its buffer; `fs.c:87` writes the inode bitmap over the
block bitmap, and `fs.c:144` reads an inode bitmap from sectors nothing has written; `sys_free` gives back virtual pages only, so the next allocation overwrites a live table entry and loses a frame (`mem.c:142` asks "how this happen?");
and `Thread_init` overwrites `pgdir`, so no thread passes the test `pgdir == NULL` of `mem.c:222`. In `printfmt.c` the flag
`-` makes the character of the padding `-`, on the left of a number; a negative number padded with
blanks has its sign before the blanks; `%.0s` prints the whole string, because a `0` is a flag wherever
it stands; and `strchr` and `strfind` compare a `char`, which is signed, with the character, so they do
not find one above 127 that is passed unsigned.

## 5. What is proved

Every theorem holds for any set of threads, any priorities 1..255 and any blocked statuses
(`ThreadAssumption`, `PriorityAssumption`, `BlockedAsAssumption`), with the assumptions its module
states on its own constants.

`SchedulerProofs` proves that `Spec` implies always
`TypeOK`, `ReadyListSound`, `OneRunning` and `NoPanic`, and the action property `IdleIsLastResort`.

The invariants are not inductive one by one: that `schedule` finds `idle` blocked when the list is
empty depends on the list being exactly the READY threads and on the caller being the only RUNNING one,
and that a tag is not linked twice depends on the statuses. The inductive invariant is

    IInv == TypeOK /\ Consistent(status, ready) /\ OneRunning /\ ~panicked

where `Consistent(st, q)` says that `q` holds the READY threads of `st`, each once. It is stated over a
status function and a list rather than the variables, because `thread_block` and `thread_yield` call
`schedule` with values that are neither the old nor the new state. Lemmas say what Append, Tail and a
push do to `Consistent`; `schedule` is treated once, and each action that calls it cites that lemma.

The proofs about threads build on this one: they show that a detailed module takes only steps of
Scheduler and so inherit `IInv`.

* `ProcessorProofs`, of Interrupts: between two stubs no interrupt is in service (`NoneInService`), whatever was
  withdrawn; so every step is one of Scheduler (`InterruptsRefine`) and no vector reaches a handler that
  asserts it does not get it (`NoPanic`).
* `SyncProofs`: `SemaExcludes`, `WaitersAreBlocked`, `HolderRuns`, the refinement
  `ImplementsScheduler` and with it `NoPanic`, for any number of clients. `SyncInv` adds to `IInv` that a thread in
  `sema_down` has the flag off or will have when it is switched to (otherwise `sema_wait` could be
  interrupted between the list and the status), that a thread that holds the lock is neither there nor
  idle (otherwise a switch would leave it held), that the value is 0 while a thread is inside, and that the list of waiters
  holds the blocked threads, each once (otherwise `sema_up` would wake a thread that is not blocked). Invariant and refinement are proved together: each step keeps the
  first because it is a step of Scheduler, and is one because of the first.
* `ProcessorProofs`, of AddrSpace: `RunsInOwnSpace` and `StackIsOwn`. `schedule` chooses only threads that were
  created, and a created process has its `pgdir`; and `tss.esp0` is already right before user mode is
  entered.
* `ProcessorProofs`, of StringClients, for any length and contents of the area and any size of a word: `StringsAgree`
  (`StringFunctionsAgree`). Moves none of which reads what an earlier one has written are one move (`MovesAreOne`);
  the words and the rest that `memcpy` moves cover the offsets in ascending order (`WordsCover`), and `memmove` goes
  backwards exactly when the destination does not lie below the source, so an overlap never meets a byte already written. `AreaInv` is
  that the area holds bytes and is `expected`. Two strings are read up to the first place where they differ or both
  end (`Parted`); what `strcmp`, `strncmp` and `memcmp` return, and whether the contents are equal, is decided there.
* `IoQueueProofs`, for any number of producers and consumers and any `BUF_SIZE`: `SleepersAreNamed`
  (`SleepersNamed`), the refinement of `Fifo` (`RingImplementsFifo`), and which panics can be met
  (`OnlyKnownPanics`: a test with the flag on, or a wait while another caller waits with the lock; never an assertion of
  `thread_unblock` or `thread_block`). `IoqInv` relates the names in the queue to the threads blocked
  there and to the place they are at, and the lock to the one thread between `lock_acquire` and
  `lock_release`, which may be asleep: because it is, a second waiter panics and a slot is
  never overwritten. As the queue does panic (section 4), the invariant is `IoqInv \/ PanicNamed`: the
  names still are right in the state a panic leaves. The refinement rests on the arithmetic of the positions (`Wrap`, `ContentsIs`).
* `IdeProofs`, for one thread on the channel (`OneUser`), any other threads, any number of chunks, of sectors in a chunk and
  of polls, with and without device errors. Whatever the device does: `DriverNoPanic` (`NoDriverPanic`). Until `unseen`: `TransferOnDrq`, `CommandWhenIdle`
  and the refinement of `Disk` (`OnDrqOnly`, `WhenIdleOnly`, `DriverImplementsDisk`). `IdeInv` is the handshake: the handler raises
  `disk_done` at most once for a command and `sema_down` has consumed it before the next (`Handshake`),
  and, while nothing is `unseen`, for each place in the driver the states the device may be in (`DeviceInStep`), whether an interrupt
  may be latched (`OwnInterrupt`: a write of one sector must not be completed by an early one, and those of a longer one leave one latch)
  and which sectors are left (`OwnData`). `MapInv` adds which data have moved.
* `ConsoleProofs`, for any threads and any size of the screen: `ScreenIsAtomic`, `LinesIntact` and
  `StoresNearScreen`. `ConsoleInv` says that a holder of `console_lock` is the running thread with the
  flag off, that without a race no other thread is inside `vga_putc`, and, place by place, how far
  `screen` is behind `shown` (`Midway`). The bound on the position is a second invariant (`PosInv`), stated for
  one thread that prints without the lock (`OnePrinter`).
* `ConsoleProofs`, of Printfmt, for any number of values of an int, any format and arguments and any size of the
  buffer: `KeepsToItsBuffers` and `NumbersReadBack`. `PrintInv` says that the buffer holds the beginning of the output,
  as far as it fits, with the cell behind it untouched (`Kept`), that only the last character read of a format is its 0 and that it
  has not been passed, and that a `%` stands before `pos` inside an escape (otherwise going back over an unknown
  escape could leave the format). A number reads back because the two words of `do_div` are one division
  (`DoDiv`), the recursion of `printnum` gives the digits of the number (`HasDigits`), what precedes them is a
  sign or prefix and padding that `strtol` gets over (`Laid`, `Starts`), and cutting the value to a long at each
  digit gives the same as cutting it once (`CutBefore`, `Horner`). The recursive functions `printnum`,
  `sprintall` and `readDigits` are handled through their defining equation, which is shown to have a
  solution, and by the least number for which a claim would fail.
* `MemoryProofs`, for any size of pools, pages and blocks, any requests and any number of processes:
  `PagesBacked`, `FramesExclusive` and `HeapSound`. `MemInv` adds to them what they depend on:
  the page table has an entry at most once for a frame, and each entry's frame is marked, the stale
  entries of freed pages included (`MemSound`); the runs in use
  are a ledger of holdings, each of an arena, a process or a caller, disjoint and backed (`PagesInv`), so
  that a call which takes or gives back a run changes one holding and leaves the rest; and the heap agrees with itself, arena by arena
  (`HeapOK`): the blocks of an arena are the free ones and the used ones, none is both, `cnt` counts the
  free ones. The recursive `malloc_pages` and `list_without` are treated as functions whose defining equation the lemmas derive.
  For the bitmap, with any map, contents and length: a run `bitmap_scan` returns starts in the map and is free
  (`ScanReturnsFreeRun`), and its assertion does not fail while a free run `ByteBits - 1` bits longer exists
  (`ScanFindsLongRuns`): such a run contains the start of a byte early enough. For one bit, as `palloc` asks, the scan
  returns the lowest free one (`ScanFindsLowest`). The three make `ScanFindsRuns` (`ScanFindsEveryRun`), which no step can disturb
  because it holds of every bitmap; `library` checks it on maps of three bytes.
* `StructureProofs`, of ListClients: `ListsAreSequences` (`ListsHoldSequences`), for any elements and any
  length. `ListInv` says that a list that holds `q` is a chain: its `Len(q) + 2` entries are distinct, `next` leads from
  each to the one behind it and `prev` back, and the two lists share none. Two lemmas say what
  an insertion and a removal at a place do to a chain (`InsertChain`, `RemoveChain`), also when the entry's own
  pointers are stale; what they leave alone is the other list. The traversals are recursive functions whose values
  along a chain follow by induction on the place (`VisitedIs`, `BackwardsIs`), with the length of a chain bounded by
  the number of entries (`ChainFits`).
* `StructureProofs`, of FileSystem, for any disks, tables, layout and number of power failures: `ScanInBounds`,
  `BuffersGivenBack`, `ScanFindsAll`, `FormatStaysInside` and `MountedAsWritten`. `ScanInv` says, of the calls of `partition_scan` that are open, that
  every caller is behind its extended entry and so is the running call once the last slot is taken: what
  is left of their tables needs no slot. `p_no` counts the entries before the first extended one and then stands still, so
  it stays below `MaxPrim`. `BufferInv`: one buffer for each open call, and one more when the table is full.
  `FoundInvs` is the invariant of what is found. `Seen` is the set of places in the tables that the scan has
  passed: those before the running entry, or all of them once the running call is behind its link. The slots
  hold the partitions of `Seen` (`Holds`), the logical ones from the first place on, and the list is a chain
  through the slots in use with their starts ascending (`ListHolds`, from the lemmas about chains above). A
  link neither skips a table nor leaves one out (`LinkSeen`), so a call that returns has everything behind it. That the first
  `MaxLogic` partitions are the ones held is a count: the partitions before a held one are held too, in other slots, and a
  partition that is not held has `MaxLogic` held ones before it (`FirstHeld`, with injections between slots and partitions).
  For the mount, `MediaInv` says which parts of the first slot's file system are on the disk while it is
  written and afterwards (a later slot that starts at the same sector puts the buffer of the block bitmap there
  for one write), `PlaceInv` that what is formatted is a partition of the disk, and `LinkInv` that the list
  leads to slots in use only: then finding `sdb1` implies that it was formatted (`FindsFound`, by induction
  on the steps of `list_find` as a least counterexample). `BareInv` says that no write ever meets the sectors of an inode bitmap.

Some theorems need a hypothesis beyond the assumptions of their modules, because the code needs it. `OneUser`: with a second thread on the
channel the driver panics, which the run `ide_two_users` shows; in the code only `main` reaches the disk.
`OnePrinter`: `main` is the only thread of `main.c` that calls `kprintf` without the lock, and it prints no
backspace; two unlocked printers could each step the position past the end, or back below the screen.
Four are about the disks, which the kernel trusts: `Chained` (tables of `MaxPrim` entries; an extended
entry leads to a table, relative to the first one, and nothing behind it needs another table or a slot of
`logic_parts`; a logical entry behind it would be stored past a full table), `Roomy` (a partition has room for the layout, which
is not computed from its size; with a size of 0 a slot in use would look free), `Apart` (partitions do not overlap
unless they start at the same sector) and, for `ScanFindsAll` only, `Ordered` (finitely many tables, each
extended entry leads to the next one, and the partitions lie in the order of their entries; the list is in the order of the scan,
which is the order of the disk only then). The disks of `MCFileSystem`, conforming or not, satisfy all four (`DisksAssumption`).

The assumptions on the constants are facts of the code: `SizeAssumption` (sizes are positive, no request
is longer than `MaxRun`), `BlockAssumption` (a block of the largest class fits into a page behind its arena), `RunAssumption`
(a large block is within `MaxRun`), `BitmapAssumption` (the inode bitmap is no longer than the block bitmap; both take one sector), `NullAssumption` (`NULL` differs from what it is compared with), and in
`ConsoleAssumption` that the cells of the screen and one more row can be counted in a `uint16_t`. Of Printfmt,
`PrintfmtAssumption`: an int has an even number of values, more than the largest base, and arguments are within
their type; `ArgAssumption`: the arguments of `%s` are strings, and no error is the least integer (section 6); `CharAssumption`: digits are
digits, and no other character that the code compares or prints is a 0. Of the clients, `ClientAssumption` and
`AreaAssumption`: lengths are natural numbers and a byte has eight bits.

## 6. What is only model-checked, and what is not modelled

Liveness (`NoStarvation`, `RequestsServed`, `SemaProgress`, `IoCompletes`, `DefaultIsMounted`) and the fairness of
`ImplementsFairScheduler` are out of the prover's reach. Every other property of a passing run is a theorem of section 5.

Not modelled:

* boot code: its result is the initial state; the descriptors of the IDT, GDT and `tss.c`; `pmm.c`
  (commented out);
* the exceptions (vectors 0 to 31): a page fault stops the kernel in a loop, the others print and return;
* `file.c` and `inode.c`: the Makefile does not build them and they do not compile (undeclared types,
  a call with a missing argument), so their source does not determine a behaviour;
* `sys_malloc` for user processes (no system call leads to it) and `get_user_pages` (no caller);
* requests on the second IDE channel: `dev_no` is not reset, so its disks are never set up;
* a power failure inside one `ide_write` of several sectors: FileSystem has each of the five writes of `partition_format` whole or not at all;
* lines of `kprintf_lock`, which takes the lock for each character (`stdio.c:20`): `LinesIntact` is about what is printed under one
  hold of the lock, a line of `kputs_lock` or one character of `kprintf_lock`;
* `str == NULL` in `vsnprintf`, which no call passes (the answer is that for a size of 0);
* `%e` of `vprintfmt` with the least integer, which its callers do not use, and `strtol` for bases above 16.

The workload of `main.c` appears as the clients of the modules; `main` has the
calls of `ide_init` and `filesys_init` commented out, so Ide,
Partition and FileSystem model the code (which the Makefile compiles and links) as it would run behind `intr_enable` in `main`.

Some hazards of the code do happen, and no property of a passing run excludes them; `PROJECT.json` lists them without a property. They
are outside the hypotheses of the properties (a logical entry met after the return for a full table; a Linux partition
behind or inside the extended one; a partition smaller than the layout; a second channel; a run that reaches behind the end of a bitmap;
`k_block_descs[7]`; a device that is late for a sector the driver does not ask about) or are stated as what the code does (the
buffer that stays, the two bitmaps).

## 7. Plan

1. `Inode`, should `inode.c` and `file.c` be completed: the open-inode list, file tables and the bitmaps
   on disk.
