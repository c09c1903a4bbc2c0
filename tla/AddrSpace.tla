------------------------------ MODULE AddrSpace ------------------------------
(***************************************************************************)
(* Address spaces and kernel stacks under the scheduler: os/kernel/proc.c, *)
(* the esp0 field of os/kernel/tss.c, Thread_init() of os/kernel/thread.c. *)
(*                                                                         *)
(* An interrupt taken in user mode starts on the stack tss.esp0 names, and *)
(* running_thread() is read off the stack pointer: who the kernel thinks   *)
(* runs, and whose memory it sees, both hang on process_activate().        *)
(***************************************************************************)
EXTENDS Scheduler

CONSTANTS
  Process,                    \* the threads made by process_execute()
  BootDir,                    \* the page directory of the loader, 0x100000
  MAX_FILES_OPEN_PER_PROC,    \* 8, thread.h: the length of fd_table
  MAX_FILE_OPEN_PER_PROC,     \* 32, fs.h: the bound of Thread_init()'s loop
  NULL, Wild                  \* pgdir 0, and pgdir 0xffffffff

ASSUME ProcessAssumption ==
  /\ Process \subseteq Thread \ {main, idle}
  /\ MAX_FILES_OPEN_PER_PROC \in Nat /\ MAX_FILE_OPEN_PER_PROC \in Nat
  /\ NULL # Wild /\ {NULL, Wild, BootDir} \cap Thread = {}
  /\ BootDir \notin {NULL, Wild}

VARIABLES
  pgdir,       \* thread_struct.pgdir: NULL, Wild, or the thread's own
  cr3,         \* the page directory in use: BootDir or a process's
  esp0,        \* tss.esp0: the thread on whose stack user mode is left
  user         \* the processes that have left process_start() by iret

addrVars == <<pgdir, cr3, esp0, user>>

spaceVars == <<vars, addrVars>>

-----------------------------------------------------------------------------
\* Words between fd_table and pgdir in struct thread_struct: two list tags.
TagWords == 4

(***************************************************************************)
(* Thread_init(): pgdir is set to NULL and then the loop over fd_table     *)
(* stores -1 into MAX_FILE_OPEN_PER_PROC words, of which only the first    *)
(* MAX_FILES_OPEN_PER_PROC are the table.                                  *)
(***************************************************************************)
Thread_init ==
  IF MAX_FILES_OPEN_PER_PROC + TagWords < MAX_FILE_OPEN_PER_PROC THEN Wild ELSE NULL

\* thread_start() leaves pgdir as Thread_init() did; process_execute() sets
\* it to a page directory made for the process, named like the process.
created(t) == IF t \in Process THEN t ELSE Thread_init

(***************************************************************************)
(* page_dir_activate(t).  The table entry for 0xffffffff is the last entry *)
(* of the current directory, which leads to the directory itself: a thread *)
(* with a wild pgdir goes on in whatever directory is in use.              *)
(***************************************************************************)
page_dir_activate(t) ==
  CASE pgdir[t] = NULL -> BootDir
    [] pgdir[t] = Wild -> cr3
    [] OTHER           -> pgdir[t]

\* Mutant: the stack of the thread that is left, not of the next one.
update_tss_esp_cur(t) == cur

update_tss_esp(t) == t

\* Mutant: the directory is changed only when a kernel thread follows.
process_activate_kernel(t) ==
  /\ cr3' = IF t \in Process THEN cr3 ELSE page_dir_activate(t)
  /\ esp0' = IF pgdir[t] # NULL THEN update_tss_esp(t) ELSE esp0

process_activate(t) ==
  /\ cr3' = page_dir_activate(t)
  /\ esp0' = IF pgdir[t] # NULL THEN update_tss_esp(t) ELSE esp0

\* schedule() calls process_activate(next); for the thread that runs anyway
\* the call changes nothing.
activate ==
  IF cur' = cur THEN UNCHANGED <<cr3, esp0>> ELSE process_activate(cur')

-----------------------------------------------------------------------------
\* kthread_init() has made main and idle.
AddrInit ==
  /\ Init
  /\ pgdir = [t \in Thread |-> IF t \in {main, idle} THEN created(t) ELSE NULL]
  /\ cr3 = BootDir
  /\ esp0 = NULL
  /\ user = {}

\* main creates a thread or a process.
create ==
  /\ \E t \in Thread : thread_start(t) /\ pgdir' = [pgdir EXCEPT ![t] = created(t)]
  /\ UNCHANGED <<cr3, esp0, user>>

\* What a thread of the kernel does; a process does none of it, neither in
\* user mode nor in process_start().
kernel_code ==
  /\ cur \notin Process
  /\ block \/ yield \/ unblock \/ intr_enable \/ intr_disable \/ idle_block \/ idle_hlt
  /\ activate
  /\ UNCHANGED <<pgdir, user>>

\* process_start(): the lock in get_a_page() clears the flag and sets it ...
get_a_page ==
  /\ cur \in Process \ user
  /\ intr_enable \/ intr_disable
  /\ UNCHANGED addrVars

\* intr_exit pops the frame process_start() has filled in: iret loads the
\* flags of the process, which have IF set.
intr_exit == intr' = TRUE

\* ... and the jump to intr_exit enters user mode.
enter_user ==
  /\ cur \in Process \ user
  /\ user' = user \cup {cur}
  /\ intr_exit
  /\ UNCHANGED <<status, ready, all, cur, ticks, saved, idlepc, panicked, pgdir, cr3, esp0>>

\* An interrupt, in user mode or in the kernel.
take_interrupt ==
  /\ timer_intr_handler \/ device_intr \/ quiet_intr
  /\ activate
  /\ UNCHANGED <<pgdir, user>>

AddrNext ==
  /\ ~panicked
  /\ create \/ kernel_code \/ get_a_page \/ enter_user \/ take_interrupt

AddrSpec == AddrInit /\ [][AddrNext]_spaceVars

-----------------------------------------------------------------------------
(***************************************************************************)
(* A process that runs sees its own memory and no other process's, however *)
(* it got the processor: from kernel threads that left cr3 alone, from     *)
(* idle, or from another process by preemption.                            *)
(***************************************************************************)
RunsInOwnSpace == cur \in Process => cr3 = cur

(***************************************************************************)
(* In user mode tss.esp0 names the stack of the running process, so that   *)
(* the handler of the next interrupt finds it with running_thread().       *)
(***************************************************************************)
StackIsOwn == cur \in user => esp0 = cur
=============================================================================
