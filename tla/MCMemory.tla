------------------------------ MODULE MCMemory ------------------------------
(***************************************************************************)
(* Memory with bytes of four bits and two classes of blocks, of 2 and 4    *)
(* bytes: an arena holds two of the first or one of the second, and a      *)
(* request of more than 4 bytes takes two pages.                           *)
(*                                                                         *)
(* The behaviours start after boot or after the kernel has taken the first *)
(* three and the last page.  In the second case the four pages between     *)
(* them, on both sides of a byte of the bitmap, are enough for the heap to *)
(* meet every case, and no process is created; in the first, large blocks, *)
(* runs of pages and processes compete for eight pages.                    *)
(***************************************************************************)
EXTENDS Memory, TLC

MCSizes == {1, 3, 4, 8}

ProcSymmetry == Permutations(Proc)

Held == {[start |-> 0, cnt |-> 3], [start |-> 7, cnt |-> 1]}

HeldPages == UNION {run(r.start, r.cnt) : r \in Held}

\* Three, four and one pages taken, then the four in the middle given back.
held_init ==
  /\ mem = [k |-> HeldPages, u |-> {}, v |-> HeldPages,
            pte |-> [p \in Page |-> IF p \in HeldPages THEN p ELSE NULL], fault |-> NULL]
  /\ arena = [p \in Page |-> NULL]
  /\ free = [c \in Class |-> <<>>]
  /\ live = {} /\ pages = Held
  /\ proc = [p \in Proc |-> NULL]

MCSpec == (MemInit \/ held_init) /\ [][MemNext]_memVars

Competing ==
  \/ Held \subseteq pages /\ Procs = {}
  \/ Held \cap pages = {} /\ \A p \in Arenas : arena[p].large
=============================================================================
