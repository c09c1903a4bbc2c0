------------------------------- MODULE Memory -------------------------------
(***************************************************************************)
(* The memory manager, os/kernel/mem.c: the two pools of page frames, the  *)
(* kernel's range of virtual pages, its page table, and the heap that      *)
(* sys_malloc() and sys_free() cut out of pages; together with the memory  *)
(* that os/kernel/proc.c takes for a user process.                         *)
(*                                                                         *)
(* Frames and pages are counted from the start of their pool or range.     *)
(* sys_malloc(), sys_free() and get_a_page() hold a lock, so the interrupt *)
(* flag is off; get_kernel_pages() takes none, but its only callers run    *)
(* before main() sets the flag.  Every call is therefore one step.         *)
(*                                                                         *)
(* The caller of sys_malloc() and sys_free() is a thread whose pgdir is    *)
(* NULL, the case those functions call "kernel thread"; inode_open() makes *)
(* its caller one for the time of the call.  What Thread_init() does to    *)
(* the pgdir of all other threads is the subject of AddrSpace.             *)
(***************************************************************************)
EXTENDS Bitmap, Sequences

CONSTANTS
  KLen, ULen,        \* bytes of the kernel's and of the user pool's bitmap
  PageSize,          \* 4096
  ArenaSize,         \* sizeof(struct arena), 12
  MinBlock,          \* 16, the smallest block_size
  DESC_CNT,          \* 7
  Counts,            \* the numbers of pages get_kernel_pages() is called with
  Sizes,             \* the sizes sys_malloc() is called with
  MaxRun,            \* pages of the longest run that is asked for
  Proc,              \* the user processes that are created
  BitmapPages,       \* bitmap_pg_cnt of create_user_vaddr_bitmap(), 6
  NULL

ASSUME SizeAssumption ==
  /\ KLen \in Nat \ {0} /\ ULen \in Nat \ {0} /\ MaxRun \in Nat
  /\ PageSize \in Nat /\ ArenaSize \in Nat \ {0} /\ MinBlock \in Nat \ {0}
  /\ DESC_CNT \in Nat \ {0}
  /\ Counts \subseteq 1..MaxRun /\ Sizes \subseteq Nat /\ BitmapPages \in 1..MaxRun

VARIABLES
  mem,      \* bitmaps k, u, v of the pools and of kernel_vaddr; pte; fault
  arena,    \* page |-> the struct arena at its start, or NULL
  free,     \* k_block_descs[].free_list: class |-> sequence of blocks
  live,     \* the blocks in use: what sys_malloc() returned for which size
  pages,    \* the runs of pages in use that get_kernel_pages() returned
  proc      \* process |-> its memory, or NULL

memVars == <<mem, arena, free, live, pages, proc>>

Class == 0..(DESC_CNT - 1)

\* A run that starts inside the range ends at most this far behind it.
Page == 0..(ByteBits * KLen + MaxRun)

Frame == positions(KLen)

\* Why the kernel stopped: a bitmap was full, another assertion failed, or
\* the array of descriptors was left.
Fault == {"full", "assert", "wild"}

faulted == mem.fault # NULL

\* struct arena: desc is NULL for a large block, else the class.
Arena == [desc: Class \cup {NULL}, cnt: Nat, large: BOOLEAN]

ASSUME NullAssumption == NULL \notin Nat /\ NULL \notin Fault /\ NULL \notin Arena

-----------------------------------------------------------------------------
\* block_desc_init(): each class has blocks twice as large as the one before.
doubling[c \in Class] == IF c = 0 THEN MinBlock ELSE 2 * doubling[c - 1]

block_size(c) == doubling[c]

block_per_arena(c) == (PageSize - ArenaSize) \div block_size(c)

\* What sys_malloc() calls 1024: larger requests get pages of their own.
LargeSize == block_size(DESC_CNT - 1)

ASSUME BlockAssumption == LargeSize + ArenaSize <= PageSize

pool_size == ByteBits * KLen * PageSize

DIV_ROUND_UP(x, y) == (x + y - 1) \div y

\* The pages of a large block, the arena included.
large_pages(size) == DIV_ROUND_UP(size + ArenaSize, PageSize)

ASSUME RunAssumption == \A size \in Sizes : large_pages(size) <= MaxRun

\* mem_pool_init() and block_desc_init(); what lies behind the bitmap of
\* kernel_vaddr, the last of the three, was not written by the kernel.
mem_init ==
  /\ \E garbage \in SUBSET (positions(KLen + 1) \ positions(KLen)) :
       mem = [k |-> {}, u |-> {}, v |-> bitmap_init(garbage, KLen),
              pte |-> [p \in Page |-> NULL], fault |-> NULL]
  /\ arena = [p \in Page |-> NULL]
  /\ free = [c \in Class |-> <<>>]
  /\ live = {} /\ pages = {}
  /\ proc = [p \in Proc |-> NULL]

\* alloc_physical_pages(&kernel_pool)
alloc_kernel_frame(m) ==
  LET f == bitmap_scan(m.k, KLen, 1)
  IN [m |-> IF f = Asserts THEN [m EXCEPT !.fault = "full"]
                           ELSE [m EXCEPT !.k = bitmap_set(@, f, 1)],
      frame |-> f]

\* Mutant: the frame is not marked.
alloc_user_frame_unmarked(m) ==
  LET f == bitmap_scan(m.u, ULen, 1)
  IN [m |-> IF f = Asserts THEN [m EXCEPT !.fault = "full"] ELSE m, frame |-> f]

\* alloc_physical_pages(&user_pool)
alloc_user_frame(m) ==
  LET f == bitmap_scan(m.u, ULen, 1)
  IN [m |-> IF f = Asserts THEN [m EXCEPT !.fault = "full"]
                           ELSE [m EXCEPT !.u = bitmap_set(@, f, 1)],
      frame |-> f]

\* insert_page_table(): the directory entry of the kernel's range exists
\* since boot, and a table entry that exists is overwritten.
insert_page_table(m, page, frame) == [m EXCEPT !.pte[page] = frame]

\* One turn of the loop of malloc_pages().
add_page(m, page) ==
  LET a == alloc_kernel_frame(m)
  IN IF m.fault # NULL THEN m
     ELSE IF a.m.fault # NULL THEN a.m
     ELSE insert_page_table(a.m, page, a.frame)

(***************************************************************************)
(* malloc_pages(PF_KERNEL, cnt): a run of virtual pages is marked, then a  *)
(* frame is found for each.  Neither step can fail and return.             *)
(***************************************************************************)
malloc_pages(m, cnt) ==
  LET start == bitmap_scan(m.v, KLen, cnt)
      upto[i \in 0..cnt] ==
        IF i = 0 THEN [m EXCEPT !.v = set_run(@, start, cnt, 1)]
                 ELSE add_page(upto[i - 1], start + i - 1)
  IN IF m.fault # NULL THEN [m |-> m, start |-> Asserts]
     ELSE IF start = Asserts
     THEN [m |-> [m EXCEPT !.fault = "full"], start |-> start]
     ELSE [m |-> upto[cnt], start |-> start]

\* remove_virtual_pages(PF_KERNEL, ...)
remove_virtual_pages(m, start, cnt) == [m EXCEPT !.v = set_run(@, start, cnt, 0)]

run(start, cnt) == start..(start + cnt - 1)

-----------------------------------------------------------------------------
get_kernel_pages(cnt) ==
  LET a == malloc_pages(mem, cnt)
  IN /\ mem' = a.m
     /\ pages' = IF a.m.fault = NULL
                 THEN pages \cup {[start |-> a.start, cnt |-> cnt]} ELSE pages
     /\ UNCHANGED <<arena, free, live, proc>>

\* free_physical_pages() and remove_page_table() for every page of a run.
free_frames(m, start, cnt) ==
  [m EXCEPT !.k = @ \ {m.pte[p] : p \in run(start, cnt)},
            !.pte = [p \in Page |-> IF p \in run(start, cnt) THEN NULL ELSE @[p]]]

\* free_pages(PF_KERNEL, ...) for a run get_kernel_pages() returned: the
\* entry must lead to a frame of the kernel's pool.
free_pages(r) ==
  /\ mem' = IF \A p \in run(r.start, r.cnt) : mem.pte[p] \in Frame
            THEN remove_virtual_pages(free_frames(mem, r.start, r.cnt), r.start, r.cnt)
            ELSE [mem EXCEPT !.fault = "assert"]
  /\ pages' = pages \ {r}
  /\ UNCHANGED <<arena, free, live, proc>>

-----------------------------------------------------------------------------
\* arena_to_block() of every index: the blocks of a new arena.
blocks(page, c) == [i \in 1..block_per_arena(c) |-> [page |-> page, idx |-> i - 1]]

list_find(q, b) == \E i \in DOMAIN q : q[i] = b

\* list_remove() of all elements of M that are on the list q.
list_without(q, M) ==
  LET upto[n \in 0..Len(q)] == IF n = 0 THEN <<>>
                               ELSE IF q[n] \in M THEN upto[n - 1]
                               ELSE Append(upto[n - 1], q[n])
  IN upto[Len(q)]

\* The loop of sys_malloc(): the first class with larger blocks, or DESC_CNT.
desc_idx(size) == lowest({c \in Class : size < block_size(c)} \cup {DESC_CNT})

sys_malloc_large(size) ==
  LET cnt == large_pages(size)
      a == malloc_pages(mem, cnt)
  IN /\ size > LargeSize /\ size < pool_size
     /\ mem' = a.m
     /\ IF a.m.fault = NULL
        THEN /\ arena' = [arena EXCEPT ![a.start] =
                            [desc |-> NULL, cnt |-> cnt, large |-> TRUE]]
             /\ live' = live \cup {[page |-> a.start, idx |-> 0, size |-> size]}
        ELSE UNCHANGED <<arena, live>>
     /\ UNCHANGED <<free, pages, proc>>

\* list_pop() of the free list q, whose arenas are ar.
pop_block(size, c, q, ar) ==
  /\ free' = [free EXCEPT ![c] = Tail(q)]
  /\ arena' = [ar EXCEPT ![Head(q).page].cnt = @ - 1]
  /\ live' = live \cup {[page |-> Head(q).page, idx |-> Head(q).idx, size |-> size]}

\* A block of a size up to LargeSize, from the free list of its class.
sys_malloc_block(size) ==
  LET c == desc_idx(size)
  IN /\ size > 0 /\ size <= LargeSize /\ c < DESC_CNT /\ free[c] # <<>>
     /\ pop_block(size, c, free[c], arena)
     /\ UNCHANGED <<mem, pages, proc>>

\* The free list is empty: a page becomes an arena of the class first.
sys_malloc_arena(size) ==
  LET c == desc_idx(size)
      a == malloc_pages(mem, 1)
      new == [desc |-> c, cnt |-> block_per_arena(c), large |-> FALSE]
  IN /\ size > 0 /\ size <= LargeSize /\ c < DESC_CNT /\ free[c] = <<>>
     /\ IF a.m.fault = NULL
        THEN /\ mem' = a.m
             /\ pop_block(size, c, blocks(a.start, c), [arena EXCEPT ![a.start] = new])
        ELSE mem' = a.m /\ UNCHANGED <<arena, free, live>>
     /\ UNCHANGED <<pages, proc>>

\* Blocks of LargeSize bytes: no class has larger ones, the loop ends at
\* DESC_CNT and what lies behind k_block_descs is taken for a descriptor.
sys_malloc_wild(size) ==
  /\ size > 0 /\ size <= LargeSize /\ desc_idx(size) = DESC_CNT
  /\ mem' = [mem EXCEPT !.fault = "wild"]
  /\ UNCHANGED <<arena, free, live, pages, proc>>

sys_malloc(size) ==
  \/ sys_malloc_large(size)
  \/ sys_malloc_block(size)
  \/ sys_malloc_arena(size)
  \/ sys_malloc_wild(size)

\* Mutant: one page more than the arena has is given back.
sys_free_large_more(b) ==
  /\ arena[b.page].large
  /\ mem' = remove_virtual_pages(mem, b.page, arena[b.page].cnt + 1)
  /\ arena' = [arena EXCEPT ![b.page] = NULL]
  /\ live' = live \ {b}
  /\ UNCHANGED <<free, pages, proc>>

\* sys_free() of a large block: only the virtual pages are given back.
sys_free_large(b) ==
  /\ arena[b.page].large
  /\ mem' = remove_virtual_pages(mem, b.page, arena[b.page].cnt)
  /\ arena' = [arena EXCEPT ![b.page] = NULL]
  /\ live' = live \ {b}
  /\ UNCHANGED <<free, pages, proc>>

\* Mutant: the blocks of an arena that is given back stay on the list.
sys_free_block_keep(b) ==
  LET a == arena[b.page]
      q == Append(free[a.desc], [page |-> b.page, idx |-> b.idx])
      whole == a.cnt + 1 = block_per_arena(a.desc)
  IN /\ ~a.large
     /\ free' = [free EXCEPT ![a.desc] = q]
     /\ arena' = [arena EXCEPT ![b.page] = IF whole THEN NULL ELSE [a EXCEPT !.cnt = a.cnt + 1]]
     /\ mem' = IF whole THEN remove_virtual_pages(mem, b.page, 1) ELSE mem
     /\ live' = live \ {b}
     /\ UNCHANGED <<pages, proc>>

(***************************************************************************)
(* sys_free() of a block: it is appended to the free list; when the arena  *)
(* is whole again its blocks are taken off the list and its page is given  *)
(* back.                                                                   *)
(***************************************************************************)
sys_free_block(b) ==
  LET a == arena[b.page]
      q == Append(free[a.desc], [page |-> b.page, idx |-> b.idx])
      mine == {blocks(b.page, a.desc)[i] : i \in 1..block_per_arena(a.desc)}
      whole == a.cnt + 1 = block_per_arena(a.desc)
  IN /\ ~a.large
     /\ IF whole /\ \E x \in mine : ~list_find(q, x)
        THEN /\ mem' = [mem EXCEPT !.fault = "assert"]
             /\ UNCHANGED <<arena, free, live, pages, proc>>
        ELSE /\ free' = [free EXCEPT ![a.desc] =
                           IF whole THEN list_without(q, mine) ELSE q]
             /\ arena' = [arena EXCEPT ![b.page] =
                            IF whole THEN NULL ELSE [a EXCEPT !.cnt = a.cnt + 1]]
             /\ mem' = IF whole THEN remove_virtual_pages(mem, b.page, 1) ELSE mem
             /\ live' = live \ {b}
             /\ UNCHANGED <<pages, proc>>

sys_free(b) == sys_free_large(b) \/ sys_free_block(b)

-----------------------------------------------------------------------------
(***************************************************************************)
(* process_execute(): a page for the thread_struct, the pages of the       *)
(* process's own bitmap of virtual pages, a page for its page directory.   *)
(***************************************************************************)
process_execute(p) ==
  LET pcb == malloc_pages(mem, 1)
      map == malloc_pages(pcb.m, BitmapPages)
      dir == malloc_pages(map.m, 1)
  IN /\ proc[p] = NULL
     /\ mem' = dir.m
     /\ proc' = IF dir.m.fault = NULL
                THEN [proc EXCEPT ![p] = [pcb |-> pcb.start, map |-> map.start,
                                          dir |-> dir.start, table |-> NULL, stack |-> NULL]]
                ELSE proc
     /\ UNCHANGED <<arena, free, live, pages>>

(***************************************************************************)
(* process_start(): get_a_page(PF_USER, USER_STACK3_VADDR).  The directory *)
(* of the process has no entry for its stack yet, so insert_page_table()   *)
(* takes a frame for a page table, and takes it from the kernel's pool.    *)
(***************************************************************************)
process_start(p) ==
  LET stack == alloc_user_frame(mem)
      table == alloc_kernel_frame(stack.m)
  IN /\ proc[p] # NULL /\ proc[p].stack = NULL
     /\ IF stack.m.fault # NULL
        THEN mem' = stack.m /\ UNCHANGED proc
        ELSE /\ mem' = table.m
             /\ proc' = IF table.m.fault # NULL THEN proc
                        ELSE [proc EXCEPT ![p].table = table.frame, ![p].stack = stack.frame]
     /\ UNCHANGED <<arena, free, live, pages>>

MemInit == mem_init

MemNext ==
  /\ ~faulted
  /\ \/ \E cnt \in Counts : get_kernel_pages(cnt)
     \/ \E r \in pages : free_pages(r)
     \/ \E size \in Sizes : sys_malloc(size)
     \/ \E b \in live : sys_free(b)
     \/ \E p \in Proc : process_execute(p) \/ process_start(p)

MemSpec == MemInit /\ [][MemNext]_memVars

-----------------------------------------------------------------------------
\* The runs of virtual pages the kernel has handed out and not taken back.
Arenas == {p \in Page : arena[p] # NULL}

ArenaRuns == {run(p, IF arena[p].large THEN arena[p].cnt ELSE 1) : p \in Arenas}

Procs == {p \in Proc : proc[p] # NULL}

ProcRuns == UNION {{run(proc[p].pcb, 1), run(proc[p].map, BitmapPages), run(proc[p].dir, 1)} : p \in Procs}

Runs == ArenaRuns \cup ProcRuns \cup {run(r.start, r.cnt) : r \in pages}

(***************************************************************************)
(* Virtual memory in use, by the heap, by a process or by a caller of      *)
(* get_kernel_pages(), is used once: the runs handed out do not overlap,   *)
(* and each of their pages is marked in kernel_vaddr and has a frame.      *)
(***************************************************************************)
PagesBacked ==
  /\ \A r, s \in Runs : r = s \/ r \cap s = {}
  /\ \A r \in Runs : \A p \in r : p \in mem.v /\ mem.pte[p] \in mem.k

\* The processes that have got their page table and their stack.
Started == {p \in Procs : proc[p].stack # NULL}

(***************************************************************************)
(* A frame serves one purpose: no two entries of the kernel's page table   *)
(* lead to the same frame, not even the stale ones sys_free() leaves       *)
(* behind, none leads to a page table of a process, two processes share    *)
(* neither page table nor stack, and every such frame is marked in use.    *)
(***************************************************************************)
FramesExclusive ==
  /\ \A p, q \in Page : mem.pte[p] # NULL /\ mem.pte[p] = mem.pte[q] => p = q
  /\ \A p \in Page : mem.pte[p] # NULL => mem.pte[p] \in mem.k
  /\ \A x \in Started :
       /\ proc[x].table \in mem.k /\ proc[x].stack \in mem.u
       /\ \A p \in Page : mem.pte[p] # proc[x].table
       /\ \A y \in Started \ {x} :
            proc[x].table # proc[y].table /\ proc[x].stack # proc[y].stack

\* The blocks of the arena on page p that are in use, and that are free.
Taken(p) == {b.idx : b \in {x \in live : x.page = p}}

Listed(p) == {i \in DOMAIN free[arena[p].desc] : free[arena[p].desc][i].page = p}

(***************************************************************************)
(* The heap hands out no block twice and loses none: a block of an arena   *)
(* is either in use or once on the free list of its class, a->cnt counts   *)
(* the free ones, no list holds a block of a page that was given back, and *)
(* a block in use has room for the size that was asked for.  So none of    *)
(* the assertions of sys_malloc(), sys_free() and free_pages() fails: what *)
(* stops the memory manager is a full bitmap, or a request of LargeSize.   *)
(***************************************************************************)
HeapSound ==
  /\ mem.fault # "assert"
  /\ \A c \in Class : \A i, j \in DOMAIN free[c] :
       /\ arena[free[c][i].page] # NULL /\ arena[free[c][i].page].desc = c
       /\ free[c][i] = free[c][j] => i = j
  /\ \A b \in live : arena[b.page] # NULL
  /\ \A p \in Arenas :
       IF arena[p].large
       THEN \E b \in live : /\ {x \in live : x.page = p} = {b}
                            /\ b.size + ArenaSize <= arena[p].cnt * PageSize
       ELSE /\ Cardinality(Listed(p)) = arena[p].cnt
            /\ \A i \in Listed(p) : free[arena[p].desc][i].idx \notin Taken(p)
            /\ Cardinality(Taken(p)) + arena[p].cnt = block_per_arena(arena[p].desc)
            /\ \A b \in live : b.page = p => b.size <= block_size(arena[p].desc)
=============================================================================
