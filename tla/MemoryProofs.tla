---------------------------- MODULE MemoryProofs ----------------------------
(***************************************************************************)
(* What bitmap_scan() returns, for bytes of any size, maps of any length,  *)
(* any contents and runs of any length; and, for memories, page ranges and *)
(* block classes of any size, that the memory manager built on it gives no *)
(* frame, no page and no block to two users.                               *)
(***************************************************************************)
EXTENDS Memory, BitmapClients, FiniteSetTheorems, TLAPS

\* A set of naturals has a least element, and lowest() is it.
LEMMA LowestIs ==
  ASSUME NEW S \in SUBSET Nat, S # {}
  PROVE  lowest(S) \in S /\ \A y \in S : lowest(S) <= y
<1>1. \E x \in S : \A y \in S : ~(<<y, x>> \in OpToRel(<, Nat))
  BY NatLessThanWellFounded, WFMin
<1>2. \E x \in S : \A y \in S : x <= y
  <2>1. PICK x \in S : \A y \in S : ~(<<y, x>> \in OpToRel(<, Nat))
    BY <1>1
  <2>2. ASSUME NEW y \in S PROVE x <= y
    <3>1. <<y, x>> \in Nat \X Nat /\ ~(y < x)
      BY <2>1 DEF OpToRel
    <3> QED BY <3>1
  <2> QED BY <2>2
<1> QED BY <1>2 DEF lowest

\* Induction: a set with 0 and with every successor holds every natural.
LEMMA Induction ==
  ASSUME NEW B \in SUBSET Nat, 0 \in B, \A n \in Nat : n \in B => n + 1 \in B
  PROVE  B = Nat
<1> SUFFICES ASSUME Nat \ B # {} PROVE FALSE
  OBVIOUS
<1> DEFINE n == lowest(Nat \ B)
<1>1. n \in Nat \ B /\ \A y \in Nat \ B : n <= y
  BY LowestIs
<1> HIDE DEF n
<1>2. n - 1 \in Nat /\ (n - 1) + 1 = n /\ ~(n <= n - 1)
  BY <1>1
<1> QED BY <1>1, <1>2

\* The bytes of a map follow each other and are inside it.
LEMMA Bytes ==
  ASSUME NEW i \in Nat, NEW j \in Nat, i < j
  PROVE  ByteBits * i + ByteBits <= ByteBits * j
<1>1. PICK d \in Nat : j = i + 1 + d
  <2>1. j - i - 1 \in Nat /\ j = i + 1 + (j - i - 1)
    OBVIOUS
  <2> QED BY <2>1
<1>2. ByteBits \in Nat
  BY BitmapAssumption
<1>3. ByteBits * (i + 1 + d) = ByteBits * i + ByteBits + ByteBits * d
  BY <1>2
<1>4. ByteBits * d \in Nat /\ ByteBits * i \in Nat
  BY <1>2
<1> QED BY <1>1, <1>2, <1>3, <1>4

\* Each position of a map is in one of its bytes.
LEMMA ByteOf ==
  ASSUME NEW len \in Nat, NEW p \in positions(len)
  PROVE  \E i \in 0..(len - 1) : p \in byte(i)
<1> DEFINE i == p \div ByteBits
<1>1. ByteBits \in Nat \ {0} /\ p \in Nat /\ p < ByteBits * len
  <2>1. ByteBits * len \in Nat
    BY BitmapAssumption
  <2> QED BY <2>1, BitmapAssumption DEF positions
<1>2. i \in Nat /\ ByteBits * i <= p /\ p < ByteBits * i + ByteBits
  BY <1>1
<1> HIDE DEF i
<1>3. i < len
  <2>1. CASE len < i
    <3>1. ByteBits * len + ByteBits <= ByteBits * i
      BY <1>2, <2>1, Bytes
    <3>2. ByteBits * len \in Nat /\ ByteBits * i \in Nat
      BY <1>1, <1>2
    <3> QED BY <1>1, <1>2, <3>1, <3>2
  <2>2. CASE len = i
    BY <1>1, <1>2, <2>2
  <2> QED BY <1>2, <2>1, <2>2
<1>4. p \in byte(i)
  <2>1. ByteBits * i \in Nat
    BY <1>1, <1>2
  <2> QED BY <1>1, <1>2, <2>1 DEF byte
<1> QED BY <1>2, <1>3, <1>4

\* The first free bit of a byte that is not full.
LEMMA FirstFree ==
  ASSUME NEW b, NEW i \in Nat, ~(byte(i) \subseteq b)
  PROVE  /\ first_free(b, i) \in byte(i) \ b
         /\ first_free(b, i) \in Nat
         /\ \A y \in byte(i) \ b : first_free(b, i) <= y
<1>1. ByteBits * i \in Nat /\ ByteBits \in Nat
  BY BitmapAssumption
<1>2. byte(i) \in SUBSET Nat
  BY <1>1 DEF byte
<1>3. byte(i) \ b \in SUBSET Nat /\ byte(i) \ b # {}
  BY <1>2
<1> QED BY <1>3, LowestIs DEF first_free

LEMMA ByteInMap ==
  ASSUME NEW len \in Nat, NEW i \in 0..(len - 1)
  PROVE  byte(i) \subseteq positions(len)
<1>1. ByteBits * i + ByteBits <= ByteBits * len
  BY Bytes
<1>2. ByteBits * i \in Nat /\ ByteBits * len \in Nat /\ ByteBits \in Nat
  BY BitmapAssumption
<1> QED BY <1>1, <1>2 DEF byte, positions

-----------------------------------------------------------------------------
(***************************************************************************)
(* bitmap_scan() never hands out a bit in use: the run it returns starts   *)
(* at a free bit of the map and all of it is free.                         *)
(***************************************************************************)
THEOREM ScanReturnsFreeRun ==
  ASSUME NEW b, NEW len \in Nat, NEW cnt \in Nat \ {0},
         bitmap_scan(b, len, cnt) # Asserts
  PROVE  LET s == bitmap_scan(b, len, cnt)
         IN  s \in positions(len) \ b /\ b \cap s..(s + cnt - 1) = {}
<1> DEFINE found == {i \in 0..(len - 1) : /\ ~(byte(i) \subseteq b)
                                          /\ run_free(b, first_free(b, i), cnt)}
           i == lowest(found)
           s == bitmap_scan(b, len, cnt)
<1>1. found # {} /\ s = first_free(b, i)
  BY DEF bitmap_scan
<1>2. i \in found
  <2>1. found \in SUBSET Nat
    OBVIOUS
  <2> HIDE DEF found
  <2> QED BY <1>1, <2>1, LowestIs
<1>3. s \in byte(i) \ b /\ s \in Nat /\ i \in 0..(len - 1) /\ run_free(b, s, cnt)
  <2>1. /\ i \in 0..(len - 1) /\ i \in Nat /\ ~(byte(i) \subseteq b)
        /\ run_free(b, first_free(b, i), cnt)
    BY <1>2
  <2> HIDE DEF i, s
  <2> QED BY <1>1, <2>1, FirstFree
<1>4. s \in positions(len) \ b
  BY <1>3, ByteInMap
<1>5. ASSUME NEW p \in s..(s + cnt - 1) PROVE p \notin b
  <2>1. CASE p = s
    BY <1>3, <2>1
  <2>2. CASE p # s
    <3>1. p - s \in 1..(cnt - 1) /\ s + (p - s) = p
      BY <1>3, <2>2
    <3> QED BY <1>3, <3>1 DEF run_free, bitmap_scan_test
  <2> QED BY <2>1, <2>2
<1> QED BY <1>4, <1>5

(***************************************************************************)
(* The scan misses runs, but not all: its assertion does not fail while    *)
(* the map has a free run ByteBits - 1 bits longer than asked for, which   *)
(* has a byte boundary early enough.                                       *)
(***************************************************************************)
THEOREM ScanFindsLongRuns ==
  ASSUME NEW b, NEW len \in Nat, NEW cnt \in Nat \ {0}, NEW p \in Nat,
         p..(p + cnt + ByteBits - 2) \subseteq positions(len) \ b
  PROVE  bitmap_scan(b, len, cnt) # Asserts
<1> DEFINE found == {i \in 0..(len - 1) : /\ ~(byte(i) \subseteq b)
                                          /\ run_free(b, first_free(b, i), cnt)}
           q == p + ByteBits - 1
<1>1. ByteBits \in Nat \ {0}
  BY BitmapAssumption
<1>2. q \in Nat /\ q \in p..(p + cnt + ByteBits - 2)
  BY <1>1
<1>3. q \in positions(len)
  BY <1>2
<1>4. PICK i \in 0..(len - 1) : q \in byte(i)
  BY <1>3, ByteOf
<1>5. ByteBits * i \in Nat /\ ByteBits * i <= q /\ p <= ByteBits * i
  BY <1>1, <1>4 DEF byte
<1> DEFINE f == ByteBits * i
<1> HIDE DEF q
<1>6. f \in p..(p + cnt + ByteBits - 2) /\ f \in byte(i) /\ \A y \in byte(i) : f <= y
  BY <1>1, <1>2, <1>5 DEF q, byte
<1>7. f \in byte(i) \ b
  BY <1>6
<1>8. first_free(b, i) = f
  <2>0. ~(byte(i) \subseteq b) /\ i \in Nat
    BY <1>7
  <2>1. /\ first_free(b, i) \in byte(i) \ b /\ first_free(b, i) \in Nat
        /\ \A y \in byte(i) \ b : first_free(b, i) <= y
    BY <2>0, FirstFree
  <2>2. f \in Nat
    BY <1>5 DEF f
  <2> HIDE DEF f
  <2> QED BY <1>6, <1>7, <2>1, <2>2
<1>9. run_free(b, f, cnt)
  <2>1. ASSUME NEW k \in 1..(cnt - 1) PROVE f + k \notin b
    <3>1. f + k \in p..(p + cnt + ByteBits - 2)
      BY <1>1, <1>5 DEF q
    <3> QED BY <3>1
  <2> QED BY <2>1 DEF run_free, bitmap_scan_test
<1>10. i \in found
  BY <1>7, <1>8, <1>9
<1> DEFINE j == lowest(found)
<1>11. j \in found
  <2>1. found \in SUBSET Nat
    OBVIOUS
  <2> HIDE DEF found
  <2> QED BY <1>10, <2>1, LowestIs
<1>12. bitmap_scan(b, len, cnt) = first_free(b, j)
  BY <1>10 DEF bitmap_scan
<1>13. first_free(b, j) \in Nat
  <2>1. j \in Nat /\ ~(byte(j) \subseteq b)
    BY <1>11
  <2> HIDE DEF j
  <2> QED BY <2>1, FirstFree
<1> QED BY <1>12, <1>13 DEF Asserts

(***************************************************************************)
(* Asked for one bit, as palloc() asks, the scan misses none: it returns   *)
(* the lowest free bit of the map.                                         *)
(***************************************************************************)
THEOREM ScanFindsLowest ==
  ASSUME NEW b, NEW len \in Nat, positions(len) \ b # {}
  PROVE  bitmap_scan(b, len, 1) = lowest(positions(len) \ b)
<1> DEFINE zeros == positions(len) \ b
           found == {i \in 0..(len - 1) : /\ ~(byte(i) \subseteq b)
                                          /\ run_free(b, first_free(b, i), 1)}
           f == lowest(zeros)
           j == lowest(found)
<1>1. zeros \in SUBSET Nat /\ zeros # {}
  BY DEF positions
<1>2. f \in zeros /\ \A y \in zeros : f <= y
  <2> HIDE DEF zeros
  <2> QED BY <1>1, LowestIs
<1> HIDE DEF f
<1>3. PICK i \in 0..(len - 1) : f \in byte(i)
  BY <1>2, ByteOf
<1>4. ASSUME NEW k \in 0..(len - 1), ~(byte(k) \subseteq b)
      PROVE  /\ first_free(b, k) \in byte(k) \ b
             /\ first_free(b, k) \in Nat /\ f <= first_free(b, k)
             /\ \A y \in byte(k) \ b : first_free(b, k) <= y
  <2>1. first_free(b, k) \in byte(k) \ b /\ first_free(b, k) \in Nat
        /\ \A y \in byte(k) \ b : first_free(b, k) <= y
    BY <1>4, FirstFree
  <2>2. byte(k) \subseteq positions(len)
    BY ByteInMap
  <2> QED BY <1>2, <2>1, <2>2
<1>5. ~(byte(i) \subseteq b) /\ f \in byte(i) \ b /\ f \in Nat
  BY <1>1, <1>2, <1>3
<1>6. first_free(b, i) = f
  BY <1>4, <1>5
<1>7. i \in found
  BY <1>5 DEF run_free
<1>8. j \in found /\ j <= i
  <2>1. found \in SUBSET Nat
    OBVIOUS
  <2> HIDE DEF found
  <2> QED BY <1>7, <2>1, LowestIs
<1>9. bitmap_scan(b, len, 1) = first_free(b, j)
  BY <1>7 DEF bitmap_scan
<1>10. j \in 0..(len - 1) /\ ~(byte(j) \subseteq b)
  BY <1>8
<1> HIDE DEF j
<1>11. ~(j < i)
  <2>1. SUFFICES ASSUME j < i PROVE FALSE
    OBVIOUS
  <2>2. ByteBits * j + ByteBits <= ByteBits * i
    BY <1>10, <2>1, Bytes
  <2>3. ByteBits * j \in Nat /\ ByteBits * i \in Nat /\ ByteBits \in Nat
    BY <1>10, BitmapAssumption
  <2>4. first_free(b, j) < ByteBits * i
    BY <1>4, <1>10, <2>2, <2>3 DEF byte
  <2>5. ByteBits * i <= f
    BY <1>3, <1>5, <2>3 DEF byte
  <2> QED BY <1>4, <1>5, <1>10, <2>3, <2>4, <2>5
<1>12. j = i
  BY <1>8, <1>10, <1>11
<1> QED BY <1>6, <1>9, <1>12 DEF f

(***************************************************************************)
(* ScanFindsRuns, whatever was taken and given back before: it holds of    *)
(* every bitmap, so no step can disturb it.                                *)
(***************************************************************************)
THEOREM ScanFindsEveryRun == BitmapSpec => []ScanFindsRuns
<1> DEFINE zeros == positions(MapLen) \ bits
<1>1. zeros \in SUBSET Nat /\ MapLen \in Nat /\ MaxCnt \in Nat
  BY ClientAssumption DEF positions
<1>2. ASSUME NEW cnt \in 1..MaxCnt, bitmap_scan(bits, MapLen, cnt) = Asserts,
             NEW p \in zeros, p..(p + cnt + ByteBits - 2) \subseteq zeros
      PROVE  FALSE
  <2>1. cnt \in Nat \ {0} /\ p \in Nat
    BY <1>1
  <2> QED BY <1>1, <1>2, <2>1, ScanFindsLongRuns
<1>3. ASSUME NEW cnt \in 1..MaxCnt, bitmap_scan(bits, MapLen, cnt) # Asserts
      PROVE  LET s == bitmap_scan(bits, MapLen, cnt)
             IN  s \in zeros /\ bits \cap s..(s + cnt - 1) = {}
  <2>1. cnt \in Nat \ {0}
    BY <1>1
  <2> QED BY <1>1, <1>3, <2>1, ScanReturnsFreeRun
<1>4. zeros # {} => bitmap_scan(bits, MapLen, 1) = lowest(zeros)
  BY <1>1, ScanFindsLowest
<1>5. ScanFindsRuns
  BY <1>2, <1>3, <1>4 DEF ScanFindsRuns
<1> QED BY <1>5, PTL

-----------------------------------------------------------------------------
MemType ==
  [k : SUBSET Frame, u : SUBSET Nat, v : SUBSET Nat,
   pte : [Page -> Frame \cup {NULL}], fault : Fault \cup {NULL}]

\* The kernel's page table: an entry leads to a frame in use, and no other does.
MemSound(m) ==
  /\ m \in MemType
  /\ \A p, q \in Page : m.pte[p] # NULL /\ m.pte[p] = m.pte[q] => p = q
  /\ \A p \in Page : m.pte[p] # NULL => m.pte[p] \in m.k

Block == [page : Page, idx : Nat]

Used == [page : Page, idx : Nat, size : Nat]

Pcb == [pcb : Nat, map : Nat, dir : Nat, table : Frame \cup {NULL}, stack : Nat \cup {NULL}]

(***************************************************************************)
(* Who holds which pages: the runs of PagesBacked with their holders, so   *)
(* that two holders of the same run would still be two.                    *)
(***************************************************************************)
Extent(p) == run(p, IF arena[p].large THEN arena[p].cnt ELSE 1)

Holdings ==
  {<<"arena", p, Extent(p)>> : p \in Arenas}
  \cup {<<"pages", r, run(r.start, r.cnt)>> : r \in pages}
  \cup {<<"pcb", x, run(proc[x].pcb, 1)>> : x \in Procs}
  \cup {<<"map", x, run(proc[x].map, BitmapPages)>> : x \in Procs}
  \cup {<<"dir", x, run(proc[x].dir, 1)>> : x \in Procs}

Disjoint(H) == \A g, h \in H : g # h => g[3] \cap h[3] = {}

Backed(H, m) ==
  \A h \in H : /\ h[3] # {} /\ h[3] \subseteq Page \cap m.v
               /\ \A p \in h[3] : m.pte[p] \in m.k

PagesInv == Disjoint(Holdings) /\ Backed(Holdings, mem)

\* The page tables and stacks of the processes.
ProcInv ==
  \A x \in Started :
    /\ proc[x].table \in mem.k /\ proc[x].stack \in mem.u
    /\ \A p \in Page : mem.pte[p] # proc[x].table
    /\ \A y \in Started \ {x} :
         proc[x].table # proc[y].table /\ proc[x].stack # proc[y].stack

(***************************************************************************)
(* The heap, of arenas ar, free lists fr and blocks in use lv that need    *)
(* not be the current ones: sys_malloc() may add an arena before it takes  *)
(* a block from it.  A block of an arena is idle or taken, not both; the   *)
(* free list of a class has blocks of its arenas only, each of them once.  *)
(***************************************************************************)
slots(a) == 0..(block_per_arena(a.desc) - 1)

idle(ar, fr, p) == {i \in slots(ar[p]) : [page |-> p, idx |-> i] \in Range(fr[ar[p].desc])}

used(lv, p) == {b \in lv : b.page = p}

taken(lv, p) == {b.idx : b \in used(lv, p)}

LargeOK(a, lv, p) ==
  \E b \in lv : used(lv, p) = {b} /\ b.size + ArenaSize <= a.cnt * PageSize

BlocksOK(a, free_ones, lv, p) ==
  /\ a.desc \in Class
  /\ free_ones \cap taken(lv, p) = {} /\ free_ones \cup taken(lv, p) = slots(a)
  /\ a.cnt = Cardinality(free_ones)
  /\ \A b \in used(lv, p) : b.size <= block_size(a.desc)

ArenaOK(ar, fr, lv, p) ==
  IF ar[p].large THEN LargeOK(ar[p], lv, p) ELSE BlocksOK(ar[p], idle(ar, fr, p), lv, p)

\* The list of a class; q need not be the current one either.
ListOK(ar, q, c) ==
  /\ IsInjective(q)
  /\ \A x \in Range(q) : /\ ar[x.page] # NULL /\ ~ar[x.page].large
                         /\ ar[x.page].desc = c /\ x.idx \in slots(ar[x.page])

HeapOK(ar, fr, lv) ==
  /\ ar \in [Page -> Arena \cup {NULL}] /\ fr \in [Class -> Seq(Block)] /\ lv \subseteq Used
  /\ \A c \in Class : ListOK(ar, fr[c], c)
  /\ \A b \in lv : ar[b.page] # NULL
  /\ \A b, x \in lv : b.page = x.page /\ b.idx = x.idx => b = x
  /\ \A p \in Page : ar[p] # NULL => ArenaOK(ar, fr, lv, p)

MemInv ==
  /\ MemSound(mem) /\ mem.fault # "assert"
  /\ pages \subseteq [start : Nat, cnt : Nat]
  /\ proc \in [Proc -> Pcb \cup {NULL}]
  /\ PagesInv /\ ProcInv
  /\ HeapOK(arena, free, live)

-----------------------------------------------------------------------------
\* A free list gains a block at its end.
LEMMA AppendList ==
  ASSUME NEW S, NEW q \in Seq(S), NEW x \in S
  PROVE  /\ Append(q, x) \in Seq(S)
         /\ Range(Append(q, x)) = Range(q) \cup {x}
         /\ IsInjective(q) /\ x \notin Range(q) => IsInjective(Append(q, x))
<1> DEFINE r == Append(q, x)
<1>1. /\ r \in Seq(S) /\ Len(q) \in Nat
      /\ DOMAIN q = 1..Len(q) /\ DOMAIN r = 1..(Len(q) + 1)
      /\ \A i \in 1..Len(q) : r[i] = q[i]
      /\ r[Len(q) + 1] = x
  OBVIOUS
<1>2. \A i \in 1..(Len(q) + 1) : i \in 1..Len(q) \/ i = Len(q) + 1
  BY <1>1
<1>3. \A i \in 1..Len(q) : i \in 1..(Len(q) + 1)
  BY <1>1
<1>4. Len(q) + 1 \in 1..(Len(q) + 1)
  BY <1>1
<1> HIDE DEF r
<1>5. Range(r) = Range(q) \cup {x}
  BY <1>1, <1>2, <1>3, <1>4 DEF Range
<1>6. ASSUME IsInjective(q), x \notin Range(q) PROVE IsInjective(r)
  BY <1>1, <1>2, <1>6 DEF Range, IsInjective
<1> QED BY <1>1, <1>5, <1>6 DEF r

\* list_pop(): it loses the first one, and no other.
LEMMA TailList ==
  ASSUME NEW S, NEW q \in Seq(S), q # <<>>, IsInjective(q)
  PROVE  /\ Tail(q) \in Seq(S) /\ Head(q) \in S /\ Head(q) \in Range(q)
         /\ Range(Tail(q)) = Range(q) \ {Head(q)}
         /\ IsInjective(Tail(q))
<1> DEFINE r == Tail(q)
<1>1. /\ r \in Seq(S) /\ Len(q) \in Nat /\ Len(q) > 0
      /\ DOMAIN q = 1..Len(q) /\ DOMAIN r = 1..(Len(q) - 1)
      /\ \A i \in 1..(Len(q) - 1) : r[i] = q[i + 1]
      /\ Head(q) = q[1]
  OBVIOUS
<1>2. \A i \in 1..(Len(q) - 1) : i + 1 \in 1..Len(q) /\ i + 1 # 1
  BY <1>1
<1>3. 1 \in 1..Len(q)
  BY <1>1
<1> HIDE DEF r
<1>4. ASSUME NEW x \in Range(r) PROVE x \in Range(q) /\ x # Head(q)
  <2>1. PICK i \in 1..(Len(q) - 1) : x = r[i]
    BY <1>1 DEF Range
  <2> QED BY <1>1, <1>2, <1>3, <2>1 DEF Range, IsInjective
<1>5. ASSUME NEW x \in Range(q), x # Head(q) PROVE x \in Range(r)
  <2>1. PICK i \in 1..Len(q) : x = q[i]
    BY <1>1 DEF Range
  <2>2. i - 1 \in 1..(Len(q) - 1) /\ (i - 1) + 1 = i
    BY <1>1, <1>5, <2>1
  <2>3. x = r[i - 1] /\ i - 1 \in DOMAIN r
    BY <1>1, <2>1, <2>2
  <2> QED BY <2>3 DEF Range
<1>6. IsInjective(r)
  <2> SUFFICES ASSUME NEW i \in 1..(Len(q) - 1), NEW j \in 1..(Len(q) - 1), r[i] = r[j]
               PROVE  i = j
    BY <1>1 DEF IsInjective
  <2>1. i + 1 = j + 1
    BY <1>1, <1>2 DEF IsInjective
  <2> QED BY <2>1
<1>7. Head(q) \in Range(q) /\ Head(q) \in S
  BY <1>1, <1>3 DEF Range
<1> QED BY <1>1, <1>4, <1>5, <1>6, <1>7 DEF r

\* The recursion of list_without() has a solution.
Without(q, M, n, h) ==
  h = [i \in 0..n |-> IF i = 0 THEN <<>>
                      ELSE IF q[i] \in M THEN h[i - 1]
                      ELSE Append(h[i - 1], q[i])]

LEMMA WithoutExists ==
  ASSUME NEW q, NEW M
  PROVE  \A n \in Nat : \E h : Without(q, M, n, h)
<1> DEFINE B == {n \in Nat : \E h : Without(q, M, n, h)}
<1>1. 0 \in B
  <2> DEFINE h == [i \in 0..0 |-> <<>>]
  <2>1. Without(q, M, 0, h)
    BY DEF Without
  <2> HIDE DEF h
  <2> QED BY <2>1
<1>2. ASSUME NEW n \in Nat, n \in B PROVE n + 1 \in B
  <2>1. PICK g : Without(q, M, n, g)
    BY <1>2
  <2> DEFINE h == [i \in 0..(n + 1) |-> IF i = n + 1 THEN (IF q[n + 1] \in M THEN g[n]
                                                          ELSE Append(g[n], q[n + 1]))
                                        ELSE g[i]]
  <2>2. \A i \in 0..n : h[i] = g[i]
    OBVIOUS
  <2>3. ASSUME NEW i \in 0..(n + 1)
        PROVE  h[i] = IF i = 0 THEN <<>> ELSE IF q[i] \in M THEN h[i - 1]
                      ELSE Append(h[i - 1], q[i])
    <3>1. CASE i = n + 1
      <4>1. h[n] = g[n] /\ n + 1 # 0 /\ (n + 1) - 1 = n
        BY <2>2
      <4>2. h[n + 1] = IF q[n + 1] \in M THEN g[n] ELSE Append(g[n], q[n + 1])
        OBVIOUS
      <4> HIDE DEF h
      <4> QED BY <3>1, <4>1, <4>2
    <3>2. CASE i # n + 1
      <4>1. i \in 0..n /\ (i # 0 => i - 1 \in 0..n)
        BY <3>2
      <4>2. g[i] = IF i = 0 THEN <<>> ELSE IF q[i] \in M THEN g[i - 1]
                   ELSE Append(g[i - 1], q[i])
        BY <2>1, <4>1 DEF Without
      <4> HIDE DEF h
      <4> QED BY <2>2, <4>1, <4>2
    <3> QED BY <3>1, <3>2
  <2>4. Without(q, M, n + 1, h)
    <3>1. h = [i \in 0..(n + 1) |-> h[i]]
      OBVIOUS
    <3> HIDE DEF h
    <3> QED BY <2>3, <3>1 DEF Without
  <2> HIDE DEF h
  <2> QED BY <2>4
<1>3. B = Nat
  <2> HIDE DEF B
  <2>1. B \in SUBSET Nat
    BY DEF B
  <2> QED BY <1>1, <1>2, <2>1, Induction
<1> QED BY <1>3

\* list_remove() of the blocks of an arena: the others stay.
LEMMA WithoutList ==
  ASSUME NEW S, NEW q \in Seq(S), NEW M
  PROVE  /\ list_without(q, M) \in Seq(S)
         /\ Range(list_without(q, M)) = Range(q) \ M
         /\ IsInjective(q) => IsInjective(list_without(q, M))
<1> DEFINE f == CHOOSE h : Without(q, M, Len(q), h)
<1>1. Len(q) \in Nat /\ DOMAIN q = 1..Len(q) /\ \A i \in 1..Len(q) : q[i] \in S
  OBVIOUS
<1>2. \E h : Without(q, M, Len(q), h)
  BY <1>1, WithoutExists
<1>3. Without(q, M, Len(q), f)
  BY <1>2
<1>4. list_without(q, M) = f[Len(q)]
  BY DEF list_without, Without
<1> HIDE DEF f
<1>5. /\ f[0] = <<>>
      /\ \A i \in 1..Len(q) : f[i] = IF q[i] \in M THEN f[i - 1] ELSE Append(f[i - 1], q[i])
  <2>1. 0 \in 0..Len(q) /\ \A i \in 1..Len(q) : i \in 0..Len(q) /\ i # 0
    BY <1>1
  <2> QED BY <1>3, <2>1 DEF Without
<1> DEFINE Good(i) == /\ f[i] \in Seq(S)
                      /\ Range(f[i]) = {q[k] : k \in 1..i} \ M
                      /\ IsInjective(q) => IsInjective(f[i])
           B == {i \in Nat : i <= Len(q) => Good(i)}
<1>6. Good(0)
  <2>1. <<>> \in Seq(S) /\ Range(<<>>) = {} /\ IsInjective(<<>>) /\ 1..0 = {}
    BY DEF Range, IsInjective
  <2> QED BY <1>5, <2>1
<1>7. ASSUME NEW i \in 1..Len(q), Good(i - 1) PROVE Good(i)
  <2>1. {q[k] : k \in 1..i} = {q[k] : k \in 1..(i - 1)} \cup {q[i]} /\ q[i] \in S
    <3>1. 1..i = 1..(i - 1) \cup {i}
      BY <1>1
    <3> QED BY <1>1, <3>1
  <2>2. f[i] = IF q[i] \in M THEN f[i - 1] ELSE Append(f[i - 1], q[i])
    BY <1>5
  <2>3. CASE q[i] \in M
    BY <1>7, <2>1, <2>2, <2>3
  <2>4. CASE q[i] \notin M
    <3> DEFINE g == f[i - 1]
    <3>1. /\ g \in Seq(S) /\ Range(g) = {q[k] : k \in 1..(i - 1)} \ M
          /\ IsInjective(q) => IsInjective(g)
      BY <1>7
    <3>2. f[i] = Append(g, q[i])
      BY <2>2, <2>4
    <3>3. IsInjective(q) => q[i] \notin {q[k] : k \in 1..(i - 1)}
      BY <1>1 DEF IsInjective
    <3> HIDE DEF g
    <3>4. /\ f[i] \in Seq(S) /\ Range(f[i]) = Range(g) \cup {q[i]}
          /\ IsInjective(g) /\ q[i] \notin Range(g) => IsInjective(f[i])
      BY <2>1, <3>1, <3>2, AppendList
    <3>5. Range(f[i]) = {q[k] : k \in 1..i} \ M
      BY <2>1, <2>4, <3>1, <3>4
    <3>6. IsInjective(q) => IsInjective(f[i])
      BY <3>1, <3>3, <3>4
    <3> QED BY <3>4, <3>5, <3>6
  <2> QED BY <2>3, <2>4
<1> HIDE DEF Good
<1>8. B = Nat
  <2>1. B \in SUBSET Nat /\ 0 \in B
    BY <1>6
  <2>2. ASSUME NEW n \in Nat, n \in B PROVE n + 1 \in B
    <3>1. n + 1 <= Len(q) => n + 1 \in 1..Len(q) /\ (n + 1) - 1 = n /\ n <= Len(q)
      BY <1>1
    <3> QED BY <1>7, <2>2, <3>1
  <2> HIDE DEF B
  <2> QED BY <2>1, <2>2, Induction
<1>9. Good(Len(q))
  BY <1>1, <1>8
<1>10. Range(q) = {q[k] : k \in 1..Len(q)}
  BY <1>1 DEF Range
<1> QED BY <1>4, <1>9, <1>10 DEF Good

-----------------------------------------------------------------------------
Doubled(n, h) == h = [c \in 0..n |-> IF c = 0 THEN MinBlock ELSE 2 * h[c - 1]]

\* The recursion of doubling has a solution.
LEMMA DoubledExists == \A n \in Nat : \E h : Doubled(n, h)
<1> DEFINE B == {n \in Nat : \E h : Doubled(n, h)}
<1>1. 0 \in B
  <2> DEFINE h == [c \in 0..0 |-> MinBlock]
  <2>1. Doubled(0, h)
    BY DEF Doubled
  <2> HIDE DEF h
  <2> QED BY <2>1
<1>2. ASSUME NEW n \in Nat, n \in B PROVE n + 1 \in B
  <2>1. PICK g : Doubled(n, g)
    BY <1>2
  <2> DEFINE h == [c \in 0..(n + 1) |-> IF c = n + 1 THEN 2 * g[n] ELSE g[c]]
  <2>2. \A c \in 0..n : h[c] = g[c]
    OBVIOUS
  <2>3. ASSUME NEW c \in 0..(n + 1) PROVE h[c] = IF c = 0 THEN MinBlock ELSE 2 * h[c - 1]
    <3>1. CASE c = n + 1
      <4>1. h[n] = g[n] /\ n + 1 # 0 /\ (n + 1) - 1 = n
        BY <2>2
      <4>2. h[n + 1] = 2 * g[n]
        OBVIOUS
      <4> HIDE DEF h
      <4> QED BY <3>1, <4>1, <4>2
    <3>2. CASE c # n + 1
      <4>1. c \in 0..n /\ (c # 0 => c - 1 \in 0..n)
        BY <3>2
      <4>2. g[c] = IF c = 0 THEN MinBlock ELSE 2 * g[c - 1]
        BY <2>1, <4>1 DEF Doubled
      <4> HIDE DEF h
      <4> QED BY <2>2, <4>1, <4>2
    <3> QED BY <3>1, <3>2
  <2>4. Doubled(n + 1, h)
    <3>1. h = [c \in 0..(n + 1) |-> h[c]]
      OBVIOUS
    <3> HIDE DEF h
    <3> QED BY <2>3, <3>1 DEF Doubled
  <2> HIDE DEF h
  <2> QED BY <2>4
<1>3. B = Nat
  <2> HIDE DEF B
  <2>1. B \in SUBSET Nat
    BY DEF B
  <2> QED BY <1>1, <1>2, <2>1, Induction
<1> QED BY <1>3

LEMMA Doubling ==
  /\ block_size(0) = MinBlock
  /\ \A c \in Class \ {0} : block_size(c) = 2 * block_size(c - 1)
<1>1. DESC_CNT - 1 \in Nat /\ Class = 0..(DESC_CNT - 1)
  BY SizeAssumption DEF Class
<1>2. \E h : Doubled(DESC_CNT - 1, h)
  BY <1>1, DoubledExists
<1>3. doubling = CHOOSE h : Doubled(DESC_CNT - 1, h)
  BY <1>1 DEF doubling, Doubled
<1>4. Doubled(DESC_CNT - 1, doubling)
  BY <1>2, <1>3
<1>5. 0 \in Class /\ \A c \in Class \ {0} : c \in Class /\ c # 0
  BY <1>1
<1> QED BY <1>1, <1>4, <1>5 DEF Doubled, block_size

\* Every class has blocks, no larger than those of the last, and arenas for them.
LEMMA BlockSizes ==
  \A c \in Class : /\ block_size(c) \in Nat \ {0} /\ block_size(c) <= LargeSize
                   /\ LargeSize \in Nat
                   /\ block_per_arena(c) \in Nat \ {0}
<1>1. DESC_CNT - 1 \in Nat /\ Class = 0..(DESC_CNT - 1) /\ MinBlock \in Nat \ {0}
  BY SizeAssumption DEF Class
<1>2. \A c \in Class : block_size(c) \in Nat \ {0}
  <2> DEFINE B == {n \in Nat : n \in Class => block_size(n) \in Nat \ {0}}
  <2>1. B \in SUBSET Nat /\ 0 \in B
    BY <1>1, Doubling
  <2>2. ASSUME NEW n \in Nat, n \in B PROVE n + 1 \in B
    <3>1. n + 1 \in Class => n \in Class /\ n + 1 \in Class \ {0} /\ (n + 1) - 1 = n
      BY <1>1
    <3>2. n + 1 \in Class => block_size(n) \in Nat \ {0} /\ block_size(n + 1) = 2 * block_size(n)
      BY <2>2, <3>1, Doubling
    <3> QED BY <3>2
  <2>3. B = Nat
    <3> HIDE DEF B
    <3> QED BY <2>1, <2>2, Induction
  <2> QED BY <1>1, <2>3
<1>3. ASSUME NEW c \in Class PROVE block_size(c) <= LargeSize
  <2> DEFINE B == {n \in Nat : c + n \in Class => block_size(c) <= block_size(c + n)}
  <2>1. B \in SUBSET Nat /\ 0 \in B
    <3>1. c + 0 = c
      BY <1>1
    <3> QED BY <1>2, <3>1
  <2>2. ASSUME NEW n \in Nat, n \in B PROVE n + 1 \in B
    <3>1. c + (n + 1) \in Class =>
            c + n \in Class /\ c + (n + 1) \in Class \ {0} /\ (c + (n + 1)) - 1 = c + n
      BY <1>1
    <3>2. c + (n + 1) \in Class =>
            /\ block_size(c + n) \in Nat /\ block_size(c) \in Nat
            /\ block_size(c) <= block_size(c + n)
            /\ block_size(c + (n + 1)) = 2 * block_size(c + n)
      BY <1>2, <2>2, <3>1, Doubling
    <3> QED BY <3>2
  <2>3. B = Nat
    <3> HIDE DEF B
    <3> QED BY <2>1, <2>2, Induction
  <2>4. (DESC_CNT - 1) - c \in Nat /\ c + ((DESC_CNT - 1) - c) = DESC_CNT - 1
        /\ DESC_CNT - 1 \in Class
    BY <1>1
  <2> QED BY <2>3, <2>4 DEF LargeSize
<1>4. LargeSize \in Nat
  BY <1>1, <1>2 DEF LargeSize
<1>5. ASSUME NEW c \in Class PROVE block_per_arena(c) \in Nat \ {0}
  <2> DEFINE x == PageSize - ArenaSize
             y == block_size(c)
  <2>1. x \in Nat /\ y \in Nat \ {0} /\ y <= x
    BY <1>2, <1>3, <1>4, SizeAssumption, BlockAssumption
  <2>2. block_per_arena(c) = x \div y
    BY DEF block_per_arena
  <2> HIDE DEF x, y
  <2>3. x \div y \in Nat /\ x = y * (x \div y) + (x % y) /\ x % y \in 0..(y - 1)
    BY <2>1
  <2>4. x \div y # 0
    BY <2>1, <2>3
  <2> QED BY <2>2, <2>3, <2>4
<1> QED BY <1>2, <1>3, <1>4, <1>5

\* A large block has the pages for its arena and what was asked for.
LEMMA LargePages ==
  ASSUME NEW size \in Nat
  PROVE  large_pages(size) \in Nat \ {0} /\ size + ArenaSize <= large_pages(size) * PageSize
<1> DEFINE x == size + ArenaSize
           y == PageSize
           n == (x + y - 1) \div y
<1>1. x \in Nat \ {0} /\ y \in Nat \ {0}
  <2>1. 0 \in Class
    BY SizeAssumption DEF Class
  <2> QED BY <2>1, SizeAssumption, BlockAssumption, BlockSizes
<1>2. large_pages(size) = n
  BY DEF large_pages, DIV_ROUND_UP
<1> HIDE DEF x, y
<1>3. x + y - 1 \in Nat /\ n \in Nat /\ x + y - 1 = y * n + ((x + y - 1) % y)
      /\ (x + y - 1) % y \in 0..(y - 1)
  BY <1>1
<1> HIDE DEF n
<1>4. y * n \in Nat /\ y * n = n * y
  BY <1>1, <1>3
<1>5. x <= y * n
  BY <1>1, <1>3, <1>4
<1>6. n # 0
  BY <1>1, <1>3, <1>5
<1> QED BY <1>2, <1>3, <1>4, <1>5, <1>6 DEF x, y

-----------------------------------------------------------------------------
LEMMA PageNat == Page \subseteq Nat
<1>1. ByteBits * KLen \in Nat /\ MaxRun \in Nat
  BY SizeAssumption, BitmapAssumption
<1> QED BY <1>1 DEF Page

LEMMA NullNoFrame == NULL \notin Frame
<1>1. ByteBits * KLen \in Nat
  BY SizeAssumption, BitmapAssumption
<1> QED BY <1>1, NullAssumption DEF Frame, positions

\* A frame of the kernel's pool is a free one; without any the map is full.
LEMMA KernelFrame ==
  ASSUME NEW m \in MemType, NEW a, a = alloc_kernel_frame(m)
  PROVE  \/ a.m = [m EXCEPT !.fault = "full"]
         \/ /\ a.frame \in Frame \ m.k
            /\ a.m = [m EXCEPT !.k = m.k \cup {a.frame}]
<1> DEFINE f == bitmap_scan(m.k, KLen, 1)
<1>1. CASE f = Asserts
  BY <1>1 DEF alloc_kernel_frame
<1>2. CASE f # Asserts
  <2>1. f \in positions(KLen) \ m.k
    <3>1. KLen \in Nat /\ 1 \in Nat \ {0}
      BY SizeAssumption
    <3> QED BY <1>2, <3>1, ScanReturnsFreeRun
  <2> HIDE DEF f
  <2>2. /\ a.frame = f
        /\ a.m = [m EXCEPT !.k = m.k \cup {f}]
    BY <1>2 DEF alloc_kernel_frame, bitmap_set, f, MemType
  <2> QED BY <2>1, <2>2 DEF Frame
<1> QED BY <1>1, <1>2

LEMMA UserFrame ==
  ASSUME NEW m \in MemType, NEW a, a = alloc_user_frame(m)
  PROVE  \/ a.m = [m EXCEPT !.fault = "full"]
         \/ /\ a.frame \in Nat \ m.u
            /\ a.m = [m EXCEPT !.u = m.u \cup {a.frame}]
<1> DEFINE f == bitmap_scan(m.u, ULen, 1)
<1>1. CASE f = Asserts
  BY <1>1 DEF alloc_user_frame
<1>2. CASE f # Asserts
  <2>1. f \in positions(ULen) \ m.u
    <3>1. ULen \in Nat /\ 1 \in Nat \ {0}
      BY SizeAssumption
    <3> QED BY <1>2, <3>1, ScanReturnsFreeRun
  <2>2. f \in Nat
    <3>1. ByteBits * ULen \in Nat
      BY SizeAssumption, BitmapAssumption
    <3> HIDE DEF f
    <3> QED BY <2>1, <3>1 DEF positions
  <2> HIDE DEF f
  <2>3. /\ a.frame = f
        /\ a.m = [m EXCEPT !.u = m.u \cup {f}]
    BY <1>2 DEF alloc_user_frame, bitmap_set, f, MemType
  <2> QED BY <2>1, <2>2, <2>3
<1> QED BY <1>1, <1>2

(***************************************************************************)
(* From m to n pages were added only: those in use keep their frames, and  *)
(* an entry that changed leads to a frame that was free.                   *)
(***************************************************************************)
Grown(m, n) ==
  /\ m.k \subseteq n.k /\ m.u \subseteq n.u /\ m.v \subseteq n.v
  /\ \A p \in Page : n.pte[p] = m.pte[p] \/ (n.pte[p] \notin m.k /\ n.pte[p] # NULL)
  /\ \A p \in Page \cap m.v : n.pte[p] = m.pte[p]
  /\ n.fault \in {m.fault, "full"}

\* The page gets a frame that no other page has.
LEMMA AddPage ==
  ASSUME NEW m, MemSound(m), NEW page \in Page, NEW n, n = add_page(m, page)
  PROVE  /\ MemSound(n)
         /\ m.k \subseteq n.k /\ n.u = m.u /\ n.v = m.v /\ n.fault \in {m.fault, "full"}
         /\ \A p \in Page \ {page} : n.pte[p] = m.pte[p]
         /\ n.pte[page] = m.pte[page] \/ (n.pte[page] \notin m.k /\ n.pte[page] # NULL)
         /\ n.fault = NULL => m.fault = NULL /\ n.pte[page] \in n.k
<1> DEFINE a == alloc_kernel_frame(m)
<1>1. m \in MemType
  BY DEF MemSound
<1>2. NULL \notin Frame /\ NULL # "full" /\ "full" \in Fault
  <2>1. Frame \subseteq Nat
    <3>1. ByteBits * KLen \in Nat
      BY SizeAssumption, BitmapAssumption
    <3> QED BY <3>1 DEF Frame, positions
  <2> QED BY <2>1, NullAssumption DEF Fault
<1>3. CASE m.fault # NULL
  <2>1. n = m
    BY <1>3 DEF add_page
  <2> QED BY <1>3, <2>1
<1>4. CASE m.fault = NULL /\ a.m = [m EXCEPT !.fault = "full"]
  <2>1. a.m.fault = "full"
    BY <1>1, <1>4 DEF MemType
  <2>2. n = [m EXCEPT !.fault = "full"]
    BY <1>2, <1>4, <2>1 DEF add_page
  <2> HIDE DEF a
  <2>3. /\ n \in MemType /\ n.k = m.k /\ n.u = m.u /\ n.v = m.v /\ n.pte = m.pte
        /\ n.fault = "full"
    BY <1>1, <1>2, <2>2 DEF MemType
  <2> QED BY <1>2, <2>3 DEF MemSound
<1>5. CASE m.fault = NULL /\ a.frame \in Frame \ m.k /\ a.m = [m EXCEPT !.k = m.k \cup {a.frame}]
  <2> DEFINE f == a.frame
  <2>1. f \in Frame /\ f \notin m.k /\ a.m = [m EXCEPT !.k = m.k \cup {f}]
    BY <1>5
  <2>2. n = IF a.m.fault # NULL THEN a.m ELSE insert_page_table(a.m, page, f)
    BY <1>5 DEF add_page
  <2> HIDE DEF a, f
  <2>3. a.m.fault = NULL /\ a.m \in MemType
    BY <1>1, <1>5, <2>1 DEF MemType
  <2>4. n = [a.m EXCEPT !.pte[page] = f]
    BY <2>2, <2>3 DEF insert_page_table
  <2>5. /\ n \in MemType /\ n.k = m.k \cup {f} /\ n.u = m.u /\ n.v = m.v
        /\ n.fault = m.fault /\ n.pte = [m.pte EXCEPT ![page] = f]
        /\ m.pte \in [Page -> Frame \cup {NULL}]
    <3>1. m.k \subseteq Frame /\ m.pte \in [Page -> Frame \cup {NULL}]
      BY <1>1 DEF MemType
    <3>2. /\ a.m.k = m.k \cup {f} /\ a.m.u = m.u /\ a.m.v = m.v /\ a.m.pte = m.pte
          /\ a.m.fault = m.fault
      BY <1>1, <2>1 DEF MemType
    <3>3. /\ n.k = a.m.k /\ n.u = a.m.u /\ n.v = a.m.v /\ n.fault = a.m.fault
          /\ n.pte = [a.m.pte EXCEPT ![page] = f]
      BY <2>3, <2>4 DEF MemType
    <3>4. n.pte \in [Page -> Frame \cup {NULL}]
      BY <2>1, <3>1, <3>2, <3>3
    <3>5. n \in MemType
      BY <2>3, <2>4, <3>3, <3>4 DEF MemType
    <3> QED BY <3>1, <3>2, <3>3, <3>5
  <2>6. \A p \in Page : n.pte[p] = IF p = page THEN f ELSE m.pte[p]
    BY <2>5
  <2>7. \A p \in Page : m.pte[p] # f
    BY <1>2, <2>1 DEF MemSound
  <2>8. MemSound(n)
    BY <2>1, <2>5, <2>6, <2>7 DEF MemSound
  <2> QED BY <1>2, <1>5, <2>1, <2>5, <2>6, <2>8
<1> QED BY <1>1, <1>3, <1>4, <1>5, KernelFrame

-----------------------------------------------------------------------------
\* The recursion of malloc_pages() has a solution.
Adding(base, start, n, h) ==
  h = [i \in 0..n |-> IF i = 0 THEN base ELSE add_page(h[i - 1], start + i - 1)]

LEMMA AddingExists ==
  ASSUME NEW base, NEW start PROVE \A n \in Nat : \E h : Adding(base, start, n, h)
<1> DEFINE B == {n \in Nat : \E h : Adding(base, start, n, h)}
<1>1. 0 \in B
  <2> DEFINE h == [i \in 0..0 |-> base]
  <2>1. Adding(base, start, 0, h)
    BY DEF Adding
  <2> HIDE DEF h
  <2> QED BY <2>1
<1>2. ASSUME NEW n \in Nat, n \in B PROVE n + 1 \in B
  <2>1. PICK g : Adding(base, start, n, g)
    BY <1>2
  <2> DEFINE h == [i \in 0..(n + 1) |-> IF i = n + 1 THEN add_page(g[n], start + (n + 1) - 1)
                                        ELSE g[i]]
  <2>2. \A i \in 0..n : h[i] = g[i]
    OBVIOUS
  <2>3. ASSUME NEW i \in 0..(n + 1)
        PROVE  h[i] = IF i = 0 THEN base ELSE add_page(h[i - 1], start + i - 1)
    <3>1. CASE i = n + 1
      <4>1. h[n] = g[n] /\ n + 1 # 0 /\ (n + 1) - 1 = n
        BY <2>2
      <4>2. h[n + 1] = add_page(g[n], start + (n + 1) - 1)
        OBVIOUS
      <4> HIDE DEF h
      <4> QED BY <3>1, <4>1, <4>2
    <3>2. CASE i # n + 1
      <4>1. i \in 0..n /\ (i # 0 => i - 1 \in 0..n)
        BY <3>2
      <4>2. g[i] = IF i = 0 THEN base ELSE add_page(g[i - 1], start + i - 1)
        BY <2>1, <4>1 DEF Adding
      <4> HIDE DEF h
      <4> QED BY <2>2, <4>1, <4>2
    <3> QED BY <3>1, <3>2
  <2>4. Adding(base, start, n + 1, h)
    <3>1. h = [i \in 0..(n + 1) |-> h[i]]
      OBVIOUS
    <3> HIDE DEF h
    <3> QED BY <2>3, <3>1 DEF Adding
  <2> HIDE DEF h
  <2> QED BY <2>4
<1>3. B = Nat
  <2> HIDE DEF B
  <2>1. B \in SUBSET Nat
    BY DEF B
  <2> QED BY <1>1, <1>2, <2>1, Induction
<1> QED BY <1>3

\* The pages of R came from a free part of the range and have frames now.
Fresh(m, n, R) ==
  /\ R # {} /\ R \subseteq Page \cap n.v /\ R \cap m.v = {}
  /\ \A p \in R : n.pte[p] \in n.k

(***************************************************************************)
(* The loop of malloc_pages(), after i of its turns: the pages up to the   *)
(* i-th have frames, unless the pool was empty; nothing else has changed.  *)
(***************************************************************************)
LEMMA AddPages ==
  ASSUME NEW m, MemSound(m), NEW start \in Nat, NEW cnt \in Nat, NEW h,
         Adding(m, start, cnt, h), run(start, cnt) \subseteq Page
  PROVE  LET n == h[cnt]
         IN  /\ MemSound(n) /\ m.k \subseteq n.k /\ n.u = m.u /\ n.v = m.v
             /\ n.fault \in {m.fault, "full"}
             /\ \A p \in Page \ run(start, cnt) : n.pte[p] = m.pte[p]
             /\ \A p \in Page : n.pte[p] = m.pte[p] \/ (n.pte[p] \notin m.k /\ n.pte[p] # NULL)
             /\ n.fault = NULL => m.fault = NULL /\ \A p \in run(start, cnt) : n.pte[p] \in n.k
<1> DEFINE Good(i) ==
             /\ MemSound(h[i]) /\ m.k \subseteq h[i].k /\ h[i].u = m.u /\ h[i].v = m.v
             /\ h[i].fault \in {m.fault, "full"}
             /\ \A p \in Page \ run(start, i) : h[i].pte[p] = m.pte[p]
             /\ \A p \in Page : h[i].pte[p] = m.pte[p]
                                \/ (h[i].pte[p] \notin m.k /\ h[i].pte[p] # NULL)
             /\ h[i].fault = NULL =>
                  m.fault = NULL /\ \A p \in run(start, i) : h[i].pte[p] \in h[i].k
           B == {i \in Nat : i <= cnt => Good(i)}
<1>1. /\ h[0] = m
      /\ \A i \in 1..cnt : h[i] = add_page(h[i - 1], start + i - 1)
  <2>1. 0 \in 0..cnt /\ \A i \in 1..cnt : i \in 0..cnt /\ i # 0
    OBVIOUS
  <2> QED BY <2>1 DEF Adding
<1>2. Good(0)
  <2>1. run(start, 0) = {}
    BY DEF run
  <2> QED BY <1>1, <2>1
<1>3. ASSUME NEW i \in Nat, i + 1 <= cnt, Good(i) PROVE Good(i + 1)
  <2> DEFINE g == h[i]
             n == h[i + 1]
             page == start + i
  <2>1. /\ i + 1 \in 1..cnt /\ (i + 1) - 1 = i /\ start + (i + 1) - 1 = page
        /\ page \in run(start, cnt)
        /\ run(start, i + 1) = run(start, i) \cup {page}
    BY <1>3 DEF run
  <2>2. page \in Page /\ n = add_page(g, page)
    BY <1>1, <2>1
  <2>3. /\ MemSound(g) /\ m.k \subseteq g.k /\ g.u = m.u /\ g.v = m.v
        /\ g.fault \in {m.fault, "full"}
        /\ \A p \in Page \ run(start, i) : g.pte[p] = m.pte[p]
        /\ \A p \in Page : g.pte[p] = m.pte[p] \/ (g.pte[p] \notin m.k /\ g.pte[p] # NULL)
        /\ g.fault = NULL => m.fault = NULL /\ \A p \in run(start, i) : g.pte[p] \in g.k
    BY <1>3
  <2> HIDE DEF g, n, page
  <2>4. /\ MemSound(n)
        /\ g.k \subseteq n.k /\ n.u = g.u /\ n.v = g.v /\ n.fault \in {g.fault, "full"}
        /\ \A p \in Page \ {page} : n.pte[p] = g.pte[p]
        /\ n.pte[page] = g.pte[page] \/ (n.pte[page] \notin g.k /\ n.pte[page] # NULL)
        /\ n.fault = NULL => g.fault = NULL /\ n.pte[page] \in n.k
    BY <2>2, <2>3, AddPage
  <2>5. run(start, i + 1) \subseteq Page
    BY <1>3 DEF run
  <2>6. \A p \in Page \ run(start, i + 1) : n.pte[p] = m.pte[p]
    BY <2>1, <2>3, <2>4
  <2>7. \A p \in Page : n.pte[p] = m.pte[p] \/ (n.pte[p] \notin m.k /\ n.pte[p] # NULL)
    BY <2>2, <2>3, <2>4
  <2>8. n.fault = NULL =>
          m.fault = NULL /\ \A p \in run(start, i + 1) : n.pte[p] \in n.k
    BY <2>1, <2>3, <2>4, <2>5
  <2> QED BY <2>3, <2>4, <2>6, <2>7, <2>8 DEF n
<1> HIDE DEF Good
<1>4. B = Nat
  <2>1. B \in SUBSET Nat /\ 0 \in B
    BY <1>2
  <2>2. ASSUME NEW i \in Nat, i \in B PROVE i + 1 \in B
    BY <1>3, <2>2
  <2> HIDE DEF B
  <2> QED BY <2>1, <2>2, Induction
<1>5. Good(cnt)
  BY <1>4
<1> QED BY <1>5 DEF Good

\* malloc_pages() grants pages that nobody has, or stops the kernel.
LEMMA MallocPages ==
  ASSUME NEW m, MemSound(m), NEW cnt \in 1..MaxRun, NEW a, a = malloc_pages(m, cnt)
  PROVE  /\ MemSound(a.m) /\ Grown(m, a.m)
         /\ a.m.fault = NULL =>
              m.fault = NULL /\ a.start \in Page /\ Fresh(m, a.m, run(a.start, cnt))
<1> DEFINE s == bitmap_scan(m.v, KLen, cnt)
           b == [m EXCEPT !.v = set_run(m.v, s, cnt, 1)]
           f == CHOOSE h : Adding(b, s, cnt, h)
<1>1. /\ m \in MemType /\ cnt \in Nat \ {0} /\ MaxRun \in Nat /\ KLen \in Nat
      /\ ByteBits * KLen \in Nat /\ NULL # "full" /\ "full" \in Fault
  BY SizeAssumption, BitmapAssumption, NullAssumption DEF MemSound, Fault
<1>2. a = IF m.fault # NULL THEN [m |-> m, start |-> Asserts]
          ELSE IF s = Asserts THEN [m |-> [m EXCEPT !.fault = "full"], start |-> s]
          ELSE [m |-> f[cnt], start |-> s]
  BY DEF malloc_pages, Adding
<1>3. CASE m.fault # NULL
  BY <1>2, <1>3 DEF Grown
<1>4. CASE m.fault = NULL /\ s = Asserts
  <2> DEFINE n == [m EXCEPT !.fault = "full"]
  <2>1. a.m = n
    BY <1>2, <1>4
  <2>2. /\ n \in MemType /\ n.k = m.k /\ n.u = m.u /\ n.v = m.v /\ n.pte = m.pte
        /\ n.fault = "full"
    BY <1>1 DEF MemType
  <2> HIDE DEF n
  <2> QED BY <1>1, <2>1, <2>2 DEF MemSound, Grown
<1>5. CASE m.fault = NULL /\ s # Asserts
  <2>1. s \in positions(KLen) \ m.v /\ m.v \cap s..(s + cnt - 1) = {}
    BY <1>1, <1>5, ScanReturnsFreeRun
  <2>2. a.m = f[cnt] /\ a.start = s
    BY <1>2, <1>5
  <2>3. \E h : Adding(b, s, cnt, h)
    <3> HIDE DEF b, s
    <3> QED BY <1>1, AddingExists
  <2>4. Adding(b, s, cnt, f)
    <3> HIDE DEF b, s
    <3> QED BY <2>3
  <2> HIDE DEF f, s
  <2>5. s \in Nat /\ s + cnt - 1 \in Nat /\ s + cnt - 1 <= ByteBits * KLen + MaxRun
    BY <1>1, <2>1 DEF positions
  <2>6. run(s, cnt) = s..(s + cnt - 1) /\ run(s, cnt) \subseteq Page /\ s \in run(s, cnt)
        /\ run(s, cnt) \subseteq Nat
    BY <1>1, <2>5 DEF run, Page
  <2>7. /\ b \in MemType /\ b.k = m.k /\ b.u = m.u /\ b.v = m.v \cup run(s, cnt)
        /\ b.pte = m.pte /\ b.fault = m.fault
    BY <1>1, <2>6 DEF MemType, set_run
  <2> HIDE DEF b
  <2>8. MemSound(b)
    BY <2>7 DEF MemSound
  <2> DEFINE n == f[cnt]
  <2>9. /\ MemSound(n) /\ b.k \subseteq n.k /\ n.u = b.u /\ n.v = b.v
        /\ n.fault \in {b.fault, "full"}
        /\ \A p \in Page \ run(s, cnt) : n.pte[p] = b.pte[p]
        /\ \A p \in Page : n.pte[p] = b.pte[p] \/ (n.pte[p] \notin b.k /\ n.pte[p] # NULL)
        /\ n.fault = NULL => b.fault = NULL /\ \A p \in run(s, cnt) : n.pte[p] \in n.k
    BY <1>1, <2>4, <2>5, <2>6, <2>8, AddPages
  <2> HIDE DEF n
  <2>10. \A p \in Page \cap m.v : p \in Page \ run(s, cnt)
    BY <2>1, <2>6
  <2>11. Grown(m, n)
    BY <2>7, <2>9, <2>10 DEF Grown
  <2>12. n.fault = NULL => s \in Page /\ Fresh(m, n, run(s, cnt))
    BY <2>1, <2>6, <2>7, <2>9 DEF Fresh
  <2> QED BY <1>5, <2>2, <2>9, <2>11, <2>12 DEF n
<1> QED BY <1>3, <1>4, <1>5

-----------------------------------------------------------------------------
LEMMA OnList ==
  ASSUME NEW q \in Seq(Block), NEW x \in Range(q)
  PROVE  x \in Block /\ x.page \in Page /\ x.idx \in Nat /\ x = [page |-> x.page, idx |-> x.idx]
<1>1. x \in Block
  BY DEF Range
<1> QED BY <1>1 DEF Block

\* An arena stays in order when its entry, its idle and its used blocks stay.
SameArena(ar, fr, lv, ar2, fr2, lv2, p) ==
  /\ ar2[p] = ar[p] /\ used(lv2, p) = used(lv, p)
  /\ ~ar[p].large => idle(ar2, fr2, p) = idle(ar, fr, p)

LEMMA Kept ==
  ASSUME NEW ar, NEW fr, NEW lv, NEW ar2, NEW fr2, NEW lv2, NEW p,
         ArenaOK(ar, fr, lv, p), SameArena(ar, fr, lv, ar2, fr2, lv2, p)
  PROVE  ArenaOK(ar2, fr2, lv2, p)
<1>1. /\ ar2[p] = ar[p] /\ used(lv2, p) = used(lv, p) /\ taken(lv2, p) = taken(lv, p)
      /\ ~ar[p].large => idle(ar2, fr2, p) = idle(ar, fr, p)
  BY DEF SameArena, taken
<1>2. CASE ar[p].large
  <2>1. PICK b \in lv : used(lv, p) = {b} /\ b.size + ArenaSize <= ar[p].cnt * PageSize
    BY <1>2 DEF ArenaOK, LargeOK
  <2>2. b \in lv2
    BY <1>1, <2>1 DEF used
  <2> QED BY <1>1, <1>2, <2>1, <2>2 DEF ArenaOK, LargeOK
<1>3. CASE ~ar[p].large
  BY <1>1, <1>3 DEF ArenaOK, BlocksOK
<1> QED BY <1>2, <1>3

\* What an arena of a sound heap is like.
LEMMA ArenaFacts ==
  ASSUME NEW ar, NEW fr, NEW lv, HeapOK(ar, fr, lv), NEW p \in Page, ar[p] # NULL
  PROVE  /\ ar[p] \in Arena /\ ArenaOK(ar, fr, lv, p)
         /\ ~ar[p].large =>
              /\ ar[p].desc \in Class /\ block_per_arena(ar[p].desc) \in Nat \ {0}
              /\ IsFiniteSet(slots(ar[p])) /\ IsFiniteSet(idle(ar, fr, p))
              /\ Cardinality(slots(ar[p])) = block_per_arena(ar[p].desc)
<1>1. ar[p] \in Arena /\ ArenaOK(ar, fr, lv, p)
  BY DEF HeapOK
<1>2. ASSUME ~ar[p].large
      PROVE  /\ ar[p].desc \in Class /\ block_per_arena(ar[p].desc) \in Nat \ {0}
             /\ IsFiniteSet(slots(ar[p])) /\ IsFiniteSet(idle(ar, fr, p))
             /\ Cardinality(slots(ar[p])) = block_per_arena(ar[p].desc)
  <2>1. ar[p].desc \in Class
    BY <1>1, <1>2 DEF ArenaOK, BlocksOK
  <2> DEFINE n == block_per_arena(ar[p].desc)
  <2>2. n \in Nat \ {0}
    BY <2>1, BlockSizes
  <2> HIDE DEF n
  <2>3. 0 \in Int /\ n - 1 \in Int /\ ~(0 > n - 1) /\ (n - 1) - 0 + 1 = n
    BY <2>2
  <2>4. IsFiniteSet(0..(n - 1)) /\ Cardinality(0..(n - 1)) = n
    BY <2>3, FS_Interval
  <2>5. slots(ar[p]) = 0..(n - 1)
    BY DEF slots, n
  <2>6. idle(ar, fr, p) \in SUBSET slots(ar[p])
    BY DEF idle
  <2>7. IsFiniteSet(idle(ar, fr, p))
    BY <2>4, <2>5, <2>6, FS_Subset
  <2> QED BY <2>1, <2>2, <2>4, <2>5, <2>7 DEF n
<1> QED BY <1>1, <1>2

\* The blocks of an arena, as the list of them and as a set.
LEMMA BlocksFacts ==
  ASSUME NEW p \in Page, NEW c \in Class
  PROVE  /\ blocks(p, c) \in Seq(Block) /\ blocks(p, c) # <<>> /\ IsInjective(blocks(p, c))
         /\ Range(blocks(p, c)) = {[page |-> p, idx |-> i] : i \in 0..(block_per_arena(c) - 1)}
<1> DEFINE n == block_per_arena(c)
           q == [i \in 1..n |-> [page |-> p, idx |-> i - 1]]
<1>1. n \in Nat \ {0}
  BY BlockSizes
<1>2. blocks(p, c) = q
  BY DEF blocks
<1> HIDE DEF n
<1>3. q \in [1..n -> Block] /\ DOMAIN q = 1..n
  BY <1>1 DEF Block
<1>4. q \in Seq(Block) /\ Len(q) = n
  BY <1>1, <1>3
<1>5. IsInjective(q)
  BY <1>1 DEF IsInjective
<1>6. Range(q) = {[page |-> p, idx |-> i] : i \in 0..(n - 1)}
  <2>1. \A i \in 1..n : i - 1 \in 0..(n - 1)
    BY <1>1
  <2>2. \A i \in 0..(n - 1) : i + 1 \in 1..n /\ (i + 1) - 1 = i
    BY <1>1
  <2> QED BY <1>3, <2>1, <2>2 DEF Range
<1>7. q # <<>>
  BY <1>1, <1>4
<1> HIDE DEF q
<1> QED BY <1>2, <1>4, <1>5, <1>6, <1>7 DEF n

\* A page becomes an arena of the class whose list was empty.
LEMMA NewArena ==
  ASSUME NEW ar, NEW fr, NEW lv, HeapOK(ar, fr, lv), NEW p \in Page, ar[p] = NULL,
         NEW c \in Class, fr[c] = <<>>, NEW ar2, NEW fr2,
         ar2 = [ar EXCEPT ![p] = [desc |-> c, cnt |-> block_per_arena(c), large |-> FALSE]],
         fr2 = [fr EXCEPT ![c] = blocks(p, c)]
  PROVE  HeapOK(ar2, fr2, lv)
<1> DEFINE new == [desc |-> c, cnt |-> block_per_arena(c), large |-> FALSE]
           n == block_per_arena(c)
           q == blocks(p, c)
<1>1. n \in Nat \ {0} /\ new \in Arena /\ NULL \notin Arena
  BY BlockSizes, NullAssumption DEF Arena
<1>2. /\ q \in Seq(Block) /\ IsInjective(q)
      /\ Range(q) = {[page |-> p, idx |-> i] : i \in 0..(n - 1)}
  BY BlocksFacts
<1>3. slots(new) = 0..(n - 1) /\ ~new.large /\ new.desc = c /\ new.cnt = n
  BY DEF slots
<1> HIDE DEF n, q
<1>4. /\ ar \in [Page -> Arena \cup {NULL}] /\ fr \in [Class -> Seq(Block)] /\ lv \subseteq Used
      /\ \A b \in lv : ar[b.page] # NULL
      /\ ar2 = [ar EXCEPT ![p] = new] /\ fr2 = [fr EXCEPT ![c] = q]
  BY DEF HeapOK, q
<1> HIDE DEF new
<1>5. /\ ar2 \in [Page -> Arena \cup {NULL}] /\ fr2 \in [Class -> Seq(Block)]
      /\ \A x \in Page : ar2[x] = IF x = p THEN new ELSE ar[x]
      /\ \A d \in Class : fr2[d] = IF d = c THEN q ELSE fr[d]
  <2>1. new \in Arena \cup {NULL}
    BY <1>1
  <2>2. ar2 \in [Page -> Arena \cup {NULL}] /\ \A x \in Page : ar2[x] = IF x = p THEN new ELSE ar[x]
    BY <1>4, <2>1
  <2>3. fr2 \in [Class -> Seq(Block)] /\ \A d \in Class : fr2[d] = IF d = c THEN q ELSE fr[d]
    BY <1>2, <1>4
  <2> QED BY <2>2, <2>3
<1>6. used(lv, p) = {}
  BY <1>4 DEF used
<1>7. ASSUME NEW d \in Class PROVE ListOK(ar2, fr2[d], d)
  <2>1. CASE d = c
    <3>1. fr2[d] = q /\ ar2[p] = new /\ new # NULL
      BY <1>1, <1>5, <2>1
    <3>2. \A x \in Range(q) : x.page = p /\ x.idx \in slots(new)
      BY <1>2, <1>3
    <3> QED BY <1>2, <1>3, <2>1, <3>1, <3>2 DEF ListOK
  <2>2. CASE d # c
    <3>1. fr2[d] = fr[d] /\ fr[d] \in Seq(Block) /\ ListOK(ar, fr[d], d)
      BY <1>4, <1>5, <2>2 DEF HeapOK
    <3>2. \A x \in Range(fr[d]) : x.page \in Page
      BY <3>1, OnList
    <3>3. \A x \in Range(fr[d]) : ar2[x.page] = ar[x.page]
      BY <1>5, <3>1, <3>2 DEF ListOK
    <3> QED BY <3>1, <3>3 DEF ListOK
  <2> QED BY <2>1, <2>2
<1>8. ASSUME NEW x \in Page, ar2[x] # NULL PROVE ArenaOK(ar2, fr2, lv, x)
  <2>1. CASE x = p
    <3>1. idle(ar2, fr2, x) = 0..(n - 1)
      BY <1>2, <1>3, <1>5, <2>1 DEF idle
    <3>2. 0 \in Int /\ n - 1 \in Int /\ ~(0 > n - 1) /\ (n - 1) - 0 + 1 = n
      BY <1>1
    <3>3. Cardinality(0..(n - 1)) = n
      BY <3>2, FS_Interval
    <3>4. taken(lv, x) = {}
      BY <1>6, <2>1 DEF taken
    <3> QED BY <1>3, <1>5, <1>6, <2>1, <3>1, <3>3, <3>4 DEF ArenaOK, BlocksOK
  <2>2. CASE x # p
    <3>1. ar2[x] = ar[x] /\ ArenaOK(ar, fr, lv, x)
      BY <1>5, <1>8, <2>2 DEF HeapOK
    <3>2. ~ar[x].large => idle(ar2, fr2, x) = idle(ar, fr, x)
      <4>1. ~ar[x].large => ar[x].desc \in Class
        BY <3>1 DEF ArenaOK, BlocksOK
      <4>2. ~ar[x].large /\ ar[x].desc # c => fr2[ar[x].desc] = fr[ar[x].desc]
        BY <1>5, <4>1
      <4>3. \A i : [page |-> x, idx |-> i] \notin Range(q)
        BY <1>2, <2>2
      <4>4. Range(fr[c]) = {}
        BY DEF Range
      <4> QED BY <1>5, <3>1, <4>1, <4>2, <4>3, <4>4 DEF idle
    <3>3. SameArena(ar, fr, lv, ar2, fr2, lv, x)
      BY <3>1, <3>2 DEF SameArena
    <3> QED BY <3>1, <3>3, Kept
  <2> QED BY <2>1, <2>2
<1>9. \A b \in lv : ar2[b.page] # NULL
  BY <1>1, <1>4, <1>5 DEF Used
<1>10. \A b, x \in lv : b.page = x.page /\ b.idx = x.idx => b = x
  BY DEF HeapOK
<1> QED BY <1>4, <1>5, <1>7, <1>8, <1>9, <1>10 DEF HeapOK

\* g is f but for the element e of S, where it is v.
Replaced(S, f, e, v, g) == g[e] = v /\ \A x \in S \ {e} : g[x] = f[x]

\* The block h that list_pop() returns is idle in an arena of the class c.
Popped(ar, fr, lv, c, h) ==
  /\ c \in Class /\ fr[c] \in Seq(Block) /\ Tail(fr[c]) \in Seq(Block)
  /\ Range(Tail(fr[c])) = Range(fr[c]) \ {h} /\ IsInjective(Tail(fr[c]))
  /\ h.page \in Page /\ h.idx \in Nat /\ h = [page |-> h.page, idx |-> h.idx]
  /\ ar[h.page] \in Arena /\ ar[h.page] # NULL /\ ~ar[h.page].large
  /\ ar[h.page].desc = c /\ h.idx \in idle(ar, fr, h.page)
  /\ BlocksOK(ar[h.page], idle(ar, fr, h.page), lv, h.page)
  /\ ar[h.page].cnt - 1 \in Nat
  /\ Cardinality(idle(ar, fr, h.page) \ {h.idx}) = ar[h.page].cnt - 1

LEMMA HeadOfList ==
  ASSUME NEW ar, NEW fr, NEW lv, HeapOK(ar, fr, lv), NEW c \in Class, fr[c] # <<>>,
         NEW h, h = Head(fr[c])
  PROVE  Popped(ar, fr, lv, c, h)
<1> DEFINE q == fr[c]
           p == h.page
           a == ar[p]
           f == idle(ar, fr, p)
<1>1. /\ q \in Seq(Block) /\ ListOK(ar, q, c) /\ IsInjective(q) /\ q # <<>> /\ h = Head(q)
      /\ HeapOK(ar, fr, lv)
  BY DEF HeapOK, ListOK
<1> HIDE DEF q
<1>2. /\ Tail(q) \in Seq(Block) /\ h \in Range(q)
      /\ Range(Tail(q)) = Range(q) \ {h} /\ IsInjective(Tail(q))
  BY <1>1, TailList
<1>3. h \in Block /\ p \in Page /\ h.idx \in Nat /\ h = [page |-> p, idx |-> h.idx]
  BY <1>1, <1>2, OnList
<1>4. a # NULL /\ ~a.large /\ a.desc = c /\ h.idx \in slots(a)
  BY <1>1, <1>2 DEF ListOK
<1>5. a \in Arena /\ IsFiniteSet(f) /\ BlocksOK(a, f, lv, p)
  BY <1>1, <1>3, <1>4, ArenaFacts DEF ArenaOK
<1>6. h.idx \in f
  BY <1>2, <1>3, <1>4 DEF idle, q
<1> HIDE DEF f, a, p
<1>7. IsFiniteSet(f \ {h.idx}) /\ Cardinality(f \ {h.idx}) = Cardinality(f) - 1
  BY <1>5, <1>6, FS_RemoveElement
<1>8. Cardinality(f \ {h.idx}) \in Nat
  BY <1>7, FS_CardinalityType
<1>9. Cardinality(f \ {h.idx}) = a.cnt - 1 /\ a.cnt - 1 \in Nat
  BY <1>5, <1>7, <1>8 DEF BlocksOK
<1> QED BY <1>1, <1>2, <1>3, <1>4, <1>5, <1>6, <1>9 DEF Popped, q, f, a, p

\* list_pop(): an idle block is taken, and counted.
LEMMA TakeBlock ==
  ASSUME NEW ar, NEW fr, NEW lv, HeapOK(ar, fr, lv), NEW c, NEW h,
         Popped(ar, fr, lv, c, h),
         NEW size \in Nat, size <= block_size(c),
         NEW new \in Arena, new # NULL, new.desc = c, ~new.large, new.cnt = ar[h.page].cnt - 1,
         NEW ar2 \in [Page -> Arena \cup {NULL}], Replaced(Page, ar, h.page, new, ar2),
         NEW fr2 \in [Class -> Seq(Block)], Replaced(Class, fr, c, Tail(fr[c]), fr2),
         NEW lv2, lv2 = lv \cup {[page |-> h.page, idx |-> h.idx, size |-> size]}
  PROVE  HeapOK(ar2, fr2, lv2)
<1> DEFINE q == fr[c]
           p == h.page
           a == ar[p]
           f == idle(ar, fr, p)
           b == [page |-> p, idx |-> h.idx, size |-> size]
<1>1. /\ ar \in [Page -> Arena \cup {NULL}] /\ fr \in [Class -> Seq(Block)] /\ lv \subseteq Used
      /\ \A d \in Class : ListOK(ar, fr[d], d)
  BY DEF HeapOK
<1>3. lv2 = lv \cup {b}
  OBVIOUS
<1>2. p \in Page /\ h.idx \in Nat
  BY DEF Popped
<1>4. \A x, i : [page |-> x, idx |-> i] = h <=> x = p /\ i = h.idx
  BY DEF Popped
<1>5. Range(Tail(q)) = Range(q) \ {h} /\ IsInjective(Tail(q))
  BY DEF Popped
<1>6. a # NULL /\ ~a.large /\ a.desc = c /\ h.idx \in f
  BY DEF Popped
<1>7. BlocksOK(a, f, lv, p) /\ Cardinality(f \ {h.idx}) = a.cnt - 1
  BY DEF Popped
<1>10. slots(new) = slots(a)
  BY <1>6 DEF slots
<1>11. /\ b \in Used /\ b.page = p /\ b.idx = h.idx /\ b.size = size
  BY <1>2 DEF Used
<1> HIDE DEF q, p, a, b, f
<1>12. ar2[p] = new /\ \A x \in Page \ {p} : ar2[x] = ar[x]
  BY DEF Replaced, p
<1>13. fr2[c] = Tail(q) /\ \A d \in Class \ {c} : fr2[d] = fr[d]
  BY DEF Replaced, q
<1>14. lv2 \subseteq Used
  BY <1>1, <1>3, <1>11
<1>15. ASSUME NEW d \in Class PROVE ListOK(ar2, fr2[d], d)
  <2>1. fr[d] \in Seq(Block) /\ ListOK(ar, fr[d], d)
    BY <1>1 DEF HeapOK
  <2>2. IsInjective(fr2[d]) /\ Range(fr2[d]) \subseteq Range(fr[d])
    <3>1. CASE d = c
      BY <1>5, <1>13, <3>1 DEF q
    <3>2. CASE d # c
      BY <1>13, <2>1, <3>2 DEF ListOK
    <3> QED BY <3>1, <3>2
  <2>3. ASSUME NEW x \in Range(fr[d])
        PROVE  /\ ar2[x.page] # NULL /\ ~ar2[x.page].large
               /\ ar2[x.page].desc = d /\ x.idx \in slots(ar2[x.page])
    <3>1. /\ x.page \in Page /\ ar[x.page] # NULL /\ ~ar[x.page].large
          /\ ar[x.page].desc = d /\ x.idx \in slots(ar[x.page])
      BY <2>1, OnList DEF ListOK
    <3>2. CASE x.page = p
      BY <1>6, <1>10, <1>12, <3>1, <3>2 DEF a
    <3>3. CASE x.page # p
      BY <1>12, <3>1, <3>3
    <3> QED BY <3>2, <3>3
  <2> QED BY <2>2, <2>3 DEF ListOK
<1>16. ASSUME NEW x \in Page, ar2[x] # NULL PROVE ArenaOK(ar2, fr2, lv2, x)
  <2>1. CASE x = p
    <3>1. idle(ar2, fr2, p) = f \ {h.idx}
      <4>1. idle(ar2, fr2, p) = {i \in slots(a) : [page |-> p, idx |-> i] \in Range(q) \ {h}}
        BY <1>5, <1>10, <1>12, <1>13 DEF idle
      <4>2. f = {i \in slots(a) : [page |-> p, idx |-> i] \in Range(q)}
        BY <1>6 DEF idle, f, a, q
      <4> QED BY <1>4, <4>1, <4>2
    <3>2. used(lv2, p) = used(lv, p) \cup {b}
      BY <1>3, <1>11 DEF used
    <3>3. taken(lv2, p) = taken(lv, p) \cup {h.idx}
      BY <1>11, <3>2 DEF taken
    <3>4. /\ f \cap taken(lv, p) = {} /\ f \cup taken(lv, p) = slots(a)
          /\ \A y \in used(lv, p) : y.size <= block_size(c)
      BY <1>6, <1>7 DEF BlocksOK
    <3>5. \A y \in used(lv2, p) : y.size <= block_size(c)
      BY <1>11, <3>2, <3>4
    <3>6. /\ (f \ {h.idx}) \cap taken(lv2, p) = {}
          /\ (f \ {h.idx}) \cup taken(lv2, p) = slots(new)
      BY <1>6, <1>10, <3>3, <3>4
    <3>7. BlocksOK(new, f \ {h.idx}, lv2, p)
      <4>1. new.cnt = Cardinality(f \ {h.idx})
        BY <1>7 DEF a, p
      <4>2. new.desc \in Class /\ new.desc = c
        BY DEF Popped
      <4> QED BY <3>5, <3>6, <4>1, <4>2 DEF BlocksOK
    <3> QED BY <1>12, <2>1, <3>1, <3>7 DEF ArenaOK
  <2>2. CASE x # p
    <3>1. ar2[x] = ar[x] /\ ArenaOK(ar, fr, lv, x)
      BY <1>1, <1>12, <1>16, <2>2 DEF HeapOK
    <3>2. used(lv2, x) = used(lv, x)
      BY <1>3, <1>11, <2>2 DEF used
    <3>3. ~ar[x].large => idle(ar2, fr2, x) = idle(ar, fr, x)
      <4>1. ~ar[x].large => ar[x].desc \in Class
        BY <3>1 DEF ArenaOK, BlocksOK
      <4>2. \A i : [page |-> x, idx |-> i] # h
        BY <1>4, <2>2
      <4>3. ~ar[x].large => \A i : [page |-> x, idx |-> i] \in Range(fr2[ar[x].desc])
                                   <=> [page |-> x, idx |-> i] \in Range(fr[ar[x].desc])
        BY <1>5, <1>13, <4>1, <4>2 DEF q
      <4> QED BY <3>1, <4>3 DEF idle
    <3>4. SameArena(ar, fr, lv, ar2, fr2, lv2, x)
      BY <3>1, <3>2, <3>3 DEF SameArena
    <3> QED BY <3>1, <3>4, Kept
  <2> QED BY <2>1, <2>2
<1>17. \A y \in lv2 : ar2[y.page] # NULL
  <2>1. \A y \in lv : y.page \in Page /\ ar[y.page] # NULL
    BY <1>1 DEF HeapOK, Used
  <2> QED BY <1>3, <1>11, <1>12, <2>1
<1>18. ASSUME NEW x \in lv2, NEW y \in lv2, x.page = y.page, x.idx = y.idx PROVE x = y
  <2>1. ASSUME NEW z \in lv PROVE ~(z.page = p /\ z.idx = h.idx)
    BY <1>6, <1>7 DEF BlocksOK, taken, used
  <2>2. CASE x \in lv /\ y \in lv
    BY <1>1, <1>18, <2>2 DEF HeapOK
  <2>3. CASE x = b \/ y = b
    BY <1>3, <1>11, <1>18, <2>1, <2>3
  <2> QED BY <1>3, <2>2, <2>3
<1> QED BY <1>14, <1>15, <1>16, <1>17, <1>18 DEF HeapOK

\* What a change to the heap has to preserve when it is about the arena on page p.
LEMMA HeapChanged ==
  ASSUME NEW ar, NEW fr, NEW lv, HeapOK(ar, fr, lv), NEW p \in Page,
         NEW ar2 \in [Page -> Arena \cup {NULL}], NEW fr2 \in [Class -> Seq(Block)],
         NEW lv2 \in SUBSET Used,
         \A x \in Page \ {p} : ar2[x] # NULL => SameArena(ar, fr, lv, ar2, fr2, lv2, x),
         ar2[p] # NULL => ArenaOK(ar2, fr2, lv2, p),
         \A c \in Class : ListOK(ar2, fr2[c], c),
         \A b \in lv2 : ar2[b.page] # NULL,
         \A b, x \in lv2 : b.page = x.page /\ b.idx = x.idx => b = x
  PROVE  HeapOK(ar2, fr2, lv2)
<1>1. ASSUME NEW x \in Page, ar2[x] # NULL PROVE ArenaOK(ar2, fr2, lv2, x)
  <2>1. CASE x = p
    BY <1>1, <2>1
  <2>2. CASE x # p
    <3>1. SameArena(ar, fr, lv, ar2, fr2, lv2, x)
      BY <1>1, <2>2
    <3>2. ar[x] # NULL
      BY <1>1, <3>1 DEF SameArena
    <3>3. ArenaOK(ar, fr, lv, x)
      BY <3>2 DEF HeapOK
    <3> QED BY <3>1, <3>3, Kept
  <2> QED BY <2>1, <2>2
<1> QED BY <1>1 DEF HeapOK

\* The blocks on the lists are not those of a page without an arena of blocks.
LEMMA ListsElsewhere ==
  ASSUME NEW ar, NEW fr, NEW lv, HeapOK(ar, fr, lv), NEW c \in Class, NEW x \in Range(fr[c])
  PROVE  /\ x.page \in Page /\ x.idx \in Nat /\ x = [page |-> x.page, idx |-> x.idx]
         /\ ar[x.page] # NULL /\ ~ar[x.page].large
         /\ ar[x.page].desc = c /\ x.idx \in slots(ar[x.page])
<1>1. fr[c] \in Seq(Block) /\ ListOK(ar, fr[c], c)
  BY DEF HeapOK
<1> QED BY <1>1, OnList DEF ListOK

\* sys_malloc() of a large block: its pages become an arena with one block.
LEMMA NewLarge ==
  ASSUME NEW ar, NEW fr, NEW lv, HeapOK(ar, fr, lv), NEW p \in Page, ar[p] = NULL,
         NEW new \in Arena, new # NULL, new.large,
         NEW b \in Used, b.page = p, b.size + ArenaSize <= new.cnt * PageSize,
         NEW ar2 \in [Page -> Arena \cup {NULL}], Replaced(Page, ar, p, new, ar2),
         NEW lv2, lv2 = lv \cup {b}
  PROVE  HeapOK(ar2, fr, lv2)
<1>1. /\ lv \subseteq Used /\ fr \in [Class -> Seq(Block)]
      /\ \A x \in lv : x.page \in Page /\ ar[x.page] # NULL
      /\ \A x, y \in lv : x.page = y.page /\ x.idx = y.idx => x = y
  BY DEF HeapOK, Used
<1>2. ar2[p] = new /\ \A x \in Page \ {p} : ar2[x] = ar[x]
  BY DEF Replaced
<1>3. \A x \in lv : x.page # p
  BY <1>1
<1>4. lv2 \in SUBSET Used
  BY <1>1
<1>5. ASSUME NEW x \in Page \ {p} PROVE SameArena(ar, fr, lv, ar2, fr, lv2, x)
  <2>1. ar2[x] = ar[x] /\ idle(ar2, fr, x) = idle(ar, fr, x)
    BY <1>2 DEF idle
  <2>2. used(lv2, x) = used(lv, x)
    BY DEF used
  <2> QED BY <2>1, <2>2 DEF SameArena
<1>6. ArenaOK(ar2, fr, lv2, p)
  <2>1. used(lv2, p) = {b} /\ b \in lv2
    BY <1>3 DEF used
  <2> QED BY <1>2, <2>1 DEF ArenaOK, LargeOK
<1>7. ASSUME NEW c \in Class PROVE ListOK(ar2, fr[c], c)
  <2>1. \A x \in Range(fr[c]) : /\ x.page \in Page /\ ar[x.page] # NULL /\ ~ar[x.page].large
                                /\ ar[x.page].desc = c /\ x.idx \in slots(ar[x.page])
    BY ListsElsewhere
  <2>2. \A x \in Range(fr[c]) : ar2[x.page] = ar[x.page]
    BY <1>2, <2>1
  <2>3. IsInjective(fr[c])
    BY DEF HeapOK, ListOK
  <2> QED BY <2>1, <2>2, <2>3 DEF ListOK
<1>8. \A x \in lv2 : ar2[x.page] # NULL
  BY <1>1, <1>2
<1>9. \A x, y \in lv2 : x.page = y.page /\ x.idx = y.idx => x = y
  BY <1>1, <1>3
<1> QED BY <1>1, <1>4, <1>5, <1>6, <1>7, <1>8, <1>9, HeapChanged

\* sys_free() of a large block: the arena goes with it.
LEMMA FreeLarge ==
  ASSUME NEW ar, NEW fr, NEW lv, HeapOK(ar, fr, lv), NEW b \in lv, ar[b.page].large,
         NEW ar2 \in [Page -> Arena \cup {NULL}], Replaced(Page, ar, b.page, NULL, ar2),
         NEW lv2, lv2 = lv \ {b}
  PROVE  HeapOK(ar2, fr, lv2)
<1> DEFINE p == b.page
<1>1. /\ lv \subseteq Used /\ fr \in [Class -> Seq(Block)] /\ lv2 \in SUBSET Used
      /\ \A x \in lv : x.page \in Page /\ ar[x.page] # NULL
      /\ \A x, y \in lv2 : x.page = y.page /\ x.idx = y.idx => x = y
  BY DEF HeapOK, Used
<1>2. ar2[p] = NULL /\ \A x \in Page \ {p} : ar2[x] = ar[x]
  BY DEF Replaced
<1>3. \A x \in lv : x.page = p => x = b
  <2>1. ArenaOK(ar, fr, lv, p)
    BY <1>1 DEF HeapOK
  <2>2. PICK y \in lv : used(lv, p) = {y}
    BY <2>1 DEF ArenaOK, LargeOK
  <2> QED BY <2>2 DEF used
<1>4. ASSUME NEW x \in Page \ {p} PROVE SameArena(ar, fr, lv, ar2, fr, lv2, x)
  <2>1. ar2[x] = ar[x] /\ idle(ar2, fr, x) = idle(ar, fr, x)
    BY <1>2 DEF idle
  <2>2. used(lv2, x) = used(lv, x)
    BY DEF used
  <2> QED BY <2>1, <2>2 DEF SameArena
<1>5. ASSUME NEW c \in Class PROVE ListOK(ar2, fr[c], c)
  <2>1. \A x \in Range(fr[c]) : /\ x.page \in Page /\ ar[x.page] # NULL /\ ~ar[x.page].large
                                /\ ar[x.page].desc = c /\ x.idx \in slots(ar[x.page])
    BY ListsElsewhere
  <2>2. \A x \in Range(fr[c]) : ar2[x.page] = ar[x.page]
    BY <1>2, <2>1
  <2>3. IsInjective(fr[c])
    BY DEF HeapOK, ListOK
  <2> QED BY <2>1, <2>2, <2>3 DEF ListOK
<1>6. \A x \in lv2 : ar2[x.page] # NULL
  BY <1>1, <1>2, <1>3
<1>7. p \in Page
  BY <1>1
<1> QED BY <1>1, <1>2, <1>4, <1>5, <1>6, <1>7, HeapChanged

\* sys_free() of a block b: it is idle again, and counted.
LEMMA PushBlock ==
  ASSUME NEW ar, NEW fr, NEW lv, HeapOK(ar, fr, lv), NEW b \in lv, ~ar[b.page].large,
         NEW c, c = ar[b.page].desc, NEW new \in Arena, new # NULL, new.desc = c, ~new.large,
         new.cnt = ar[b.page].cnt + 1,
         NEW ar2 \in [Page -> Arena \cup {NULL}], Replaced(Page, ar, b.page, new, ar2),
         NEW q, q = Append(fr[c], [page |-> b.page, idx |-> b.idx]),
         NEW fr2 \in [Class -> Seq(Block)], Replaced(Class, fr, c, q, fr2),
         NEW lv2, lv2 = lv \ {b}
  PROVE  HeapOK(ar2, fr2, lv2)
<1> DEFINE p == b.page
           a == ar[p]
           f == idle(ar, fr, p)
           h == [page |-> p, idx |-> b.idx]
<1>1. /\ lv2 \in SUBSET Used /\ p \in Page /\ b.idx \in Nat /\ a # NULL
      /\ \A x \in lv : x.page \in Page /\ ar[x.page] # NULL
      /\ \A x, y \in lv : x.page = y.page /\ x.idx = y.idx => x = y
  BY DEF HeapOK, Used
<1>2. ar2[p] = new /\ \A x \in Page \ {p} : ar2[x] = ar[x]
  BY DEF Replaced
<1>3. fr2[c] = q /\ \A d \in Class \ {c} : fr2[d] = fr[d]
  BY DEF Replaced
<1>4. IsFiniteSet(f) /\ BlocksOK(a, f, lv, p) /\ c \in Class
  BY <1>1, ArenaFacts DEF ArenaOK
<1>5. b \in used(lv, p) /\ b.idx \in taken(lv, p)
  BY DEF used, taken
<1>6. /\ b.idx \in slots(a) /\ b.idx \notin f
      /\ f \cap taken(lv, p) = {} /\ f \cup taken(lv, p) = slots(a)
      /\ a.cnt = Cardinality(f) /\ \A x \in used(lv, p) : x.size <= block_size(c)
  BY <1>4, <1>5 DEF BlocksOK
<1>7. slots(new) = slots(a)
  BY DEF slots
<1>8. h \notin Range(fr[c])
  BY <1>6 DEF idle
<1>9. Range(q) = Range(fr[c]) \cup {h} /\ IsInjective(q)
  <2>1. fr[c] \in Seq(Block) /\ IsInjective(fr[c])
    BY <1>4 DEF HeapOK, ListOK
  <2>2. h \in Block
    BY <1>1 DEF Block
  <2> HIDE DEF h
  <2>3. q = Append(fr[c], h)
    BY DEF h
  <2> QED BY <1>8, <2>1, <2>2, <2>3, AppendList
<1>10. \A x, i : [page |-> x, idx |-> i] = h <=> x = p /\ i = b.idx
  OBVIOUS
<1>11. h.page = p /\ h.idx = b.idx
  OBVIOUS
<1>12. f = {i \in slots(a) : [page |-> p, idx |-> i] \in Range(fr[c])}
  BY DEF idle
<1> HIDE DEF a, f, h, p
<1>13. ASSUME NEW x \in Page \ {p}, ar2[x] # NULL PROVE SameArena(ar, fr, lv, ar2, fr2, lv2, x)
  <2>1. ar2[x] = ar[x] /\ ar[x] # NULL
    BY <1>2, <1>13
  <2>2. used(lv2, x) = used(lv, x)
    BY DEF used, p
  <2>3. \A i : [page |-> x, idx |-> i] \in Range(q) <=> [page |-> x, idx |-> i] \in Range(fr[c])
    BY <1>9, <1>10
  <2>4. ar[x] # NULL /\ ~ar[x].large => ar[x].desc \in Class
    BY ArenaFacts
  <2>5. ar[x] # NULL /\ ~ar[x].large => idle(ar2, fr2, x) = idle(ar, fr, x)
    <3>1. SUFFICES ASSUME ar[x].desc \in Class PROVE idle(ar2, fr2, x) = idle(ar, fr, x)
      BY <2>4
    <3>2. CASE ar[x].desc = c
      BY <1>3, <2>1, <2>3, <3>2 DEF idle
    <3>3. CASE ar[x].desc # c
      BY <1>3, <2>1, <3>1, <3>3 DEF idle
    <3> QED BY <3>2, <3>3
  <2> QED BY <2>1, <2>2, <2>5 DEF SameArena
<1>14. ArenaOK(ar2, fr2, lv2, p)
  <2>1. idle(ar2, fr2, p) = f \cup {b.idx}
    <3>1. idle(ar2, fr2, p) = {i \in slots(new) : [page |-> p, idx |-> i] \in Range(q)}
      BY <1>2, <1>3 DEF idle
    <3>2. \A i : [page |-> p, idx |-> i] \in Range(q)
                    <=> [page |-> p, idx |-> i] \in Range(fr[c]) \/ i = b.idx
      BY <1>9, <1>10
    <3>3. b.idx \in slots(new) /\ slots(new) = slots(a)
      BY <1>6, <1>7
    <3> QED BY <1>12, <3>1, <3>2, <3>3
  <2>2. used(lv2, p) = used(lv, p) \ {b}
    BY DEF used
  <2>3. taken(lv2, p) = taken(lv, p) \ {b.idx}
    BY <1>1, <2>2 DEF taken, used, p
  <2>4. Cardinality(f \cup {b.idx}) = Cardinality(f) + 1
    BY <1>4, <1>6, FS_AddElement
  <2>5. new.cnt = Cardinality(f \cup {b.idx})
    BY <1>6, <2>4 DEF a, p
  <2>6. /\ (f \cup {b.idx}) \cap taken(lv2, p) = {}
        /\ (f \cup {b.idx}) \cup taken(lv2, p) = slots(new)
    BY <1>5, <1>6, <1>7, <2>3
  <2>7. new.desc \in Class /\ \A x \in used(lv2, p) : x.size <= block_size(new.desc)
    BY <1>4, <1>6, <2>2
  <2>8. BlocksOK(new, f \cup {b.idx}, lv2, p)
    BY <2>5, <2>6, <2>7 DEF BlocksOK
  <2> QED BY <1>2, <2>1, <2>8 DEF ArenaOK
<1>15. ASSUME NEW d \in Class PROVE ListOK(ar2, fr2[d], d)
  <2>1. \A x \in Range(fr[d]) : /\ x.page \in Page /\ ar[x.page] # NULL /\ ~ar[x.page].large
                                /\ ar[x.page].desc = d /\ x.idx \in slots(ar[x.page])
    BY ListsElsewhere
  <2>2. ASSUME NEW x \in Range(fr[d])
        PROVE  /\ ar2[x.page] # NULL /\ ~ar2[x.page].large
               /\ ar2[x.page].desc = d /\ x.idx \in slots(ar2[x.page])
    <3>1. CASE x.page = p
      BY <1>2, <1>7, <2>1, <3>1 DEF a, p
    <3>2. CASE x.page # p
      BY <1>2, <2>1, <3>2
    <3> QED BY <3>1, <3>2
  <2>3. CASE d = c
    <3>1. /\ ar2[h.page] # NULL /\ ~ar2[h.page].large
          /\ ar2[h.page].desc = d /\ h.idx \in slots(ar2[h.page])
      BY <1>2, <1>6, <1>7, <1>11, <2>3
    <3> QED BY <1>3, <1>9, <2>2, <2>3, <3>1 DEF ListOK
  <2>4. CASE d # c
    <3>1. IsInjective(fr[d])
      BY DEF HeapOK, ListOK
    <3> QED BY <1>3, <2>2, <2>4, <3>1 DEF ListOK
  <2> QED BY <2>3, <2>4
<1>16. \A x \in lv2 : ar2[x.page] # NULL
  BY <1>1, <1>2
<1>17. \A x, y \in lv2 : x.page = y.page /\ x.idx = y.idx => x = y
  BY <1>1
<1> QED BY <1>1, <1>13, <1>14, <1>15, <1>16, <1>17, HeapChanged

\* All blocks of an arena are idle: its page holds nothing else.
LEMMA WholeArena ==
  ASSUME NEW ar, NEW fr, NEW lv, HeapOK(ar, fr, lv), NEW p \in Page, ar[p] # NULL,
         ~ar[p].large, ar[p].cnt = block_per_arena(ar[p].desc)
  PROVE  /\ used(lv, p) = {}
         /\ \A i \in slots(ar[p]) : [page |-> p, idx |-> i] \in Range(fr[ar[p].desc])
<1> DEFINE a == ar[p]
           f == idle(ar, fr, p)
<1>1. /\ BlocksOK(a, f, lv, p) /\ IsFiniteSet(slots(a)) /\ IsFiniteSet(f)
      /\ Cardinality(slots(a)) = a.cnt
  BY ArenaFacts DEF ArenaOK
<1>2. f \subseteq slots(a)
  BY DEF idle
<1> HIDE DEF f
<1>3. f = slots(a)
  BY <1>1, <1>2, FS_Subset DEF BlocksOK
<1>4. taken(lv, p) = {}
  BY <1>1, <1>3 DEF BlocksOK
<1>5. used(lv, p) = {}
  BY <1>4 DEF taken
<1> QED BY <1>3, <1>5 DEF f, idle

\* Its blocks leave the list, and the arena goes.
LEMMA DropArena ==
  ASSUME NEW ar, NEW fr, NEW lv, HeapOK(ar, fr, lv), NEW p \in Page, ar[p] # NULL,
         ~ar[p].large, ar[p].cnt = block_per_arena(ar[p].desc), NEW c, c = ar[p].desc,
         NEW M, M = {[page |-> p, idx |-> i] : i \in slots(ar[p])},
         NEW ar2 \in [Page -> Arena \cup {NULL}], Replaced(Page, ar, p, NULL, ar2),
         NEW fr2 \in [Class -> Seq(Block)],
         Replaced(Class, fr, c, list_without(fr[c], M), fr2)
  PROVE  HeapOK(ar2, fr2, lv)
<1> DEFINE q == list_without(fr[c], M)
<1>1. /\ lv \in SUBSET Used
      /\ \A x \in lv : x.page \in Page /\ ar[x.page] # NULL
      /\ \A x, y \in lv : x.page = y.page /\ x.idx = y.idx => x = y
  BY DEF HeapOK, Used
<1>2. ar2[p] = NULL /\ \A x \in Page \ {p} : ar2[x] = ar[x]
  BY DEF Replaced
<1>3. fr2[c] = q /\ \A d \in Class \ {c} : fr2[d] = fr[d]
  BY DEF Replaced
<1>4. c \in Class
  BY ArenaFacts
<1>5. Range(q) = Range(fr[c]) \ M /\ IsInjective(q)
  <2>1. fr[c] \in Seq(Block) /\ IsInjective(fr[c])
    BY <1>4 DEF HeapOK, ListOK
  <2> QED BY <2>1, WithoutList
<1> HIDE DEF q
<1>6. used(lv, p) = {}
  BY WholeArena
<1>7. ASSUME NEW d \in Class, NEW x \in Range(fr2[d])
      PROVE  x \in Range(fr[d]) /\ x.page # p
  <2>1. x \in Range(fr[d])
    BY <1>3, <1>5, <1>7
  <2>2. /\ x = [page |-> x.page, idx |-> x.idx] /\ ar[x.page].desc = d
        /\ x.idx \in slots(ar[x.page])
    BY <2>1, ListsElsewhere
  <2>3. CASE d = c
    <3>1. x \notin M
      BY <1>3, <1>5, <1>7, <2>3
    <3> QED BY <2>1, <2>2, <3>1
  <2>4. CASE d # c
    BY <2>1, <2>2, <2>4
  <2> QED BY <2>3, <2>4
<1>8. ASSUME NEW x \in Page \ {p}, ar2[x] # NULL PROVE SameArena(ar, fr, lv, ar2, fr2, lv, x)
  <2>1. ar2[x] = ar[x] /\ ar[x] # NULL
    BY <1>2, <1>8
  <2>2. \A i : [page |-> x, idx |-> i] \notin M
    OBVIOUS
  <2>3. \A i : [page |-> x, idx |-> i] \in Range(q) <=> [page |-> x, idx |-> i] \in Range(fr[c])
    BY <1>5, <2>2
  <2>4. ~ar[x].large => ar[x].desc \in Class
    BY <2>1, ArenaFacts
  <2>5. ~ar[x].large => idle(ar2, fr2, x) = idle(ar, fr, x)
    <3>1. SUFFICES ASSUME ar[x].desc \in Class PROVE idle(ar2, fr2, x) = idle(ar, fr, x)
      BY <2>4
    <3>2. CASE ar[x].desc = c
      BY <1>3, <2>1, <2>3, <3>2 DEF idle
    <3>3. CASE ar[x].desc # c
      BY <1>3, <2>1, <3>1, <3>3 DEF idle
    <3> QED BY <3>2, <3>3
  <2> QED BY <2>1, <2>5 DEF SameArena
<1>9. ASSUME NEW d \in Class PROVE ListOK(ar2, fr2[d], d)
  <2>1. IsInjective(fr2[d])
    BY <1>3, <1>5 DEF HeapOK, ListOK
  <2>2. ASSUME NEW x \in Range(fr2[d])
        PROVE  /\ ar2[x.page] # NULL /\ ~ar2[x.page].large
               /\ ar2[x.page].desc = d /\ x.idx \in slots(ar2[x.page])
    <3>1. /\ x.page \in Page /\ ar[x.page] # NULL /\ ~ar[x.page].large
          /\ ar[x.page].desc = d /\ x.idx \in slots(ar[x.page])
      BY <1>7, ListsElsewhere
    <3>2. ar2[x.page] = ar[x.page]
      BY <1>2, <1>7, <3>1
    <3> QED BY <3>1, <3>2
  <2> QED BY <2>1, <2>2 DEF ListOK
<1>10. \A x \in lv : ar2[x.page] # NULL
  BY <1>1, <1>2, <1>6 DEF used
<1> QED BY <1>1, <1>2, <1>8, <1>9, <1>10, HeapChanged

-----------------------------------------------------------------------------
\* The ledger of the pages: who holds which run, and that no two share a page.
Ledger(H, m) == Disjoint(H) /\ Backed(H, m)

LEMMA LedgerGrows ==
  ASSUME NEW H, NEW m, NEW n, Ledger(H, m), Grown(m, n)
  PROVE  Ledger(H, n)
<1>1. ASSUME NEW h \in H
      PROVE  h[3] # {} /\ h[3] \subseteq Page \cap n.v /\ \A p \in h[3] : n.pte[p] \in n.k
  <2>1. h[3] # {} /\ h[3] \subseteq Page \cap m.v /\ \A p \in h[3] : m.pte[p] \in m.k
    BY DEF Ledger, Backed
  <2>2. m.v \subseteq n.v /\ m.k \subseteq n.k /\ \A p \in Page \cap m.v : n.pte[p] = m.pte[p]
    BY DEF Grown
  <2> QED BY <2>1, <2>2
<1> QED BY <1>1 DEF Ledger, Backed

LEMMA LedgerShrinks ==
  ASSUME NEW H, NEW m, Ledger(H, m), NEW G \in SUBSET H
  PROVE  Ledger(G, m)
BY DEF Ledger, Disjoint, Backed

\* A run that malloc_pages() granted is entered.
LEMMA LedgerGains ==
  ASSUME NEW H, NEW m, NEW n, Ledger(H, m), Grown(m, n),
         NEW h, h[3] # {}, Fresh(m, n, h[3]), NEW G, G \subseteq H \cup {h}
  PROVE  Ledger(G, n)
<1>1. Ledger(H, n)
  BY LedgerGrows
<1>2. \A g \in H : g[3] \cap h[3] = {}
  BY DEF Ledger, Backed, Fresh
<1>3. Disjoint(G)
  BY <1>1, <1>2 DEF Ledger, Disjoint
<1>4. /\ h[3] \subseteq Page \cap n.v /\ \A p \in h[3] : n.pte[p] \in n.k
  BY DEF Fresh
<1>5. Backed(G, n)
  BY <1>1, <1>4 DEF Ledger, Backed
<1> QED BY <1>3, <1>5 DEF Ledger

\* A run is taken back, with or without its frames.
LEMMA LedgerLoses ==
  ASSUME NEW H, NEW m, NEW n, Ledger(H, m), MemSound(m), NEW h \in H,
         n.v = m.v \ h[3], \A p \in Page \ h[3] : n.pte[p] = m.pte[p],
         m.k \ {m.pte[p] : p \in h[3]} \subseteq n.k,
         NEW G, G \subseteq H \ {h}
  PROVE  Ledger(G, n)
<1>1. \A g \in G : g[3] \cap h[3] = {}
  BY DEF Ledger, Disjoint
<1>2. ASSUME NEW g \in G
      PROVE  g[3] # {} /\ g[3] \subseteq Page \cap n.v /\ \A p \in g[3] : n.pte[p] \in n.k
  <2>1. g[3] # {} /\ g[3] \subseteq Page \cap m.v /\ \A p \in g[3] : m.pte[p] \in m.k
    BY DEF Ledger, Backed
  <2>2. h[3] \subseteq Page /\ \A p \in h[3] : m.pte[p] \in m.k
    BY DEF Ledger, Backed
  <2>3. ASSUME NEW p \in g[3] PROVE n.pte[p] \in n.k
    <3>1. p \in Page /\ p \notin h[3] /\ m.pte[p] \in m.k /\ n.pte[p] = m.pte[p]
      BY <1>1, <2>1
    <3>2. m.pte[p] # NULL
      <4>1. m.k \subseteq Frame /\ NULL \notin Frame
        BY NullNoFrame DEF MemSound, MemType
      <4> QED BY <3>1, <4>1
    <3>3. \A x \in h[3] : m.pte[x] # m.pte[p]
      BY <2>2, <3>1, <3>2 DEF MemSound
    <3> QED BY <3>1, <3>3
  <2> QED BY <1>1, <2>1, <2>3
<1>3. Disjoint(G)
  BY DEF Ledger, Disjoint
<1> QED BY <1>2, <1>3 DEF Ledger, Backed

-----------------------------------------------------------------------------
LEMMA ProcGrows ==
  ASSUME ProcInv, Grown(mem, mem'), proc' = proc
  PROVE  ProcInv'
<1>1. Started' = Started
  BY DEF Started, Procs
<1>2. /\ mem.k \subseteq mem'.k /\ mem.u \subseteq mem'.u
      /\ \A p \in Page : mem'.pte[p] = mem.pte[p] \/ mem'.pte[p] \notin mem.k
  BY DEF Grown
<1> QED BY <1>1, <1>2 DEF ProcInv

LEMMA MemInitially == ASSUME MemInit PROVE MemInv
<1>1. /\ mem.k = {} /\ mem.u = {} /\ mem.v \in SUBSET Nat
      /\ mem.pte = [p \in Page |-> NULL] /\ mem.fault = NULL /\ mem \in MemType
  <2>1. PICK garbage \in SUBSET (positions(KLen + 1) \ positions(KLen)) :
          mem = [k |-> {}, u |-> {}, v |-> bitmap_init(garbage, KLen),
                 pte |-> [p \in Page |-> NULL], fault |-> NULL]
    BY DEF MemInit, mem_init
  <2>2. bitmap_init(garbage, KLen) \in SUBSET Nat
    <3>1. ByteBits * (KLen + 1) \in Nat
      BY SizeAssumption, BitmapAssumption
    <3>2. positions(KLen + 1) \in SUBSET Nat
      BY <3>1 DEF positions
    <3> QED BY <3>2 DEF bitmap_init
  <2>3. [p \in Page |-> NULL] \in [Page -> Frame \cup {NULL}]
    OBVIOUS
  <2> DEFINE t == [p \in Page |-> NULL]
             w == bitmap_init(garbage, KLen)
  <2> HIDE DEF t, w
  <2>4. mem = [k |-> {}, u |-> {}, v |-> w, pte |-> t, fault |-> NULL]
    BY <2>1 DEF t, w
  <2>5. w \in SUBSET Nat /\ t \in [Page -> Frame \cup {NULL}]
    BY <2>2, <2>3 DEF t, w
  <2>6. mem \in MemType
    BY <2>4, <2>5 DEF MemType
  <2> QED BY <2>4, <2>5, <2>6 DEF t
<1>2. MemSound(mem)
  BY <1>1 DEF MemSound
<1>3. mem.fault # "assert"
  BY <1>1, NullAssumption DEF Fault
<1>4. /\ arena = [p \in Page |-> NULL] /\ free = [c \in Class |-> <<>>]
      /\ live = {} /\ pages = {} /\ proc = [p \in Proc |-> NULL]
  BY DEF MemInit, mem_init
<1>5. Arenas = {} /\ Procs = {}
  BY <1>4 DEF Arenas, Procs
<1>6. PagesInv
  BY <1>4, <1>5 DEF PagesInv, Holdings, Disjoint, Backed
<1>7. ProcInv
  BY <1>5 DEF ProcInv, Started
<1>8. HeapOK(arena, free, live)
  <2>1. \A c \in Class : free[c] = <<>> /\ ListOK(arena, <<>>, c)
    BY <1>4 DEF ListOK, IsInjective, Range
  <2>2. free \in [Class -> Seq(Block)] /\ arena \in [Page -> Arena \cup {NULL}]
    BY <1>4
  <2>3. \A p \in Page : arena[p] = NULL
    BY <1>4
  <2> QED BY <1>4, <2>1, <2>2, <2>3 DEF HeapOK
<1> QED BY <1>2, <1>3, <1>4, <1>6, <1>7, <1>8 DEF MemInv

LEMMA KernelPages ==
  ASSUME MemInv, NEW cnt \in Counts, get_kernel_pages(cnt)
  PROVE  MemInv'
<1> DEFINE a == malloc_pages(mem, cnt)
           r == [start |-> a.start, cnt |-> cnt]
           h == <<"pages", r, run(a.start, cnt)>>
<1>1. cnt \in 1..MaxRun /\ cnt \in Nat
  BY SizeAssumption
<1>2. /\ MemSound(mem') /\ Grown(mem, mem') /\ mem' = a.m
      /\ mem'.fault = NULL => a.start \in Page /\ Fresh(mem, mem', run(a.start, cnt))
  BY <1>1, MallocPages DEF MemInv, get_kernel_pages
<1>3. /\ pages' = IF mem'.fault = NULL THEN pages \cup {r} ELSE pages
      /\ UNCHANGED <<arena, free, live, proc>>
  BY DEF get_kernel_pages
<1>4. mem'.fault # "assert"
  BY <1>2 DEF MemInv, Grown
<1>5. mem'.fault = NULL => r \in [start : Nat, cnt : Nat]
  <2>1. Page \subseteq Nat
    BY PageNat
  <2> QED BY <1>1, <1>2, <2>1
<1> HIDE DEF a
<1>6. Ledger(Holdings, mem)
  BY DEF MemInv, PagesInv, Ledger
<1>7. Ledger(Holdings', mem')
  <2>1. CASE mem'.fault = NULL
    <3>1. Holdings' \subseteq Holdings \cup {h}
      BY <1>3, <2>1 DEF Holdings, Arenas, Extent, Procs
    <3>2. h[3] = run(a.start, cnt) /\ h[3] # {} /\ Fresh(mem, mem', h[3])
      BY <1>2, <2>1 DEF Fresh
    <3> HIDE DEF h
    <3> QED BY <1>2, <1>6, <3>1, <3>2, LedgerGains
  <2>2. CASE mem'.fault # NULL
    <3>1. Holdings' = Holdings
      BY <1>3, <2>2 DEF Holdings, Arenas, Extent, Procs
    <3> QED BY <1>2, <1>6, <3>1, LedgerGrows
  <2> QED BY <2>1, <2>2
<1>8. ProcInv'
  BY <1>2, <1>3, ProcGrows DEF MemInv
<1> QED BY <1>2, <1>3, <1>4, <1>5, <1>7, <1>8 DEF MemInv, PagesInv, Ledger

\* free_pages() of a run in use: its frames are known, and are nobody else's.
LEMMA FreePages ==
  ASSUME MemInv, NEW r \in pages, free_pages(r)
  PROVE  MemInv'
<1> DEFINE R == run(r.start, r.cnt)
           h == <<"pages", r, R>>
           F == {mem.pte[p] : p \in R}
<1>1. MemSound(mem) /\ Ledger(Holdings, mem) /\ pages \subseteq [start : Nat, cnt : Nat]
  BY DEF MemInv, PagesInv, Ledger
<1>2. h \in Holdings /\ h[3] = R
  BY DEF Holdings
<1>3. R \subseteq Page /\ \A p \in R : mem.pte[p] \in mem.k
  <2> HIDE DEF h, R
  <2> QED BY <1>1, <1>2 DEF Ledger, Backed
<1>4. mem \in MemType /\ \A p \in R : mem.pte[p] \in Frame
  BY <1>1, <1>3 DEF MemSound, MemType
<1>5. mem' = [mem EXCEPT !.k = mem.k \ F, !.v = mem.v \ R,
                         !.pte = [p \in Page |-> IF p \in R THEN NULL ELSE mem.pte[p]]]
  <2>1. mem' = remove_virtual_pages(free_frames(mem, r.start, r.cnt), r.start, r.cnt)
    BY <1>4 DEF free_pages
  <2>2. \A b : set_run(b, r.start, r.cnt, 0) = b \ R
    BY DEF set_run, run
  <2> HIDE DEF R, F
  <2>3. free_frames(mem, r.start, r.cnt) =
          [mem EXCEPT !.k = mem.k \ F,
                      !.pte = [p \in Page |-> IF p \in R THEN NULL ELSE mem.pte[p]]]
    BY <1>4 DEF free_frames, MemType, R, F
  <2> QED BY <1>4, <2>1, <2>2, <2>3 DEF remove_virtual_pages, MemType
<1> HIDE DEF R, F
<1>6. /\ mem' \in MemType /\ mem'.k = mem.k \ F /\ mem'.v = mem.v \ R /\ mem'.u = mem.u
      /\ mem'.fault = mem.fault
      /\ \A p \in Page : mem'.pte[p] = IF p \in R THEN NULL ELSE mem.pte[p]
  <2> DEFINE t == [p \in Page |-> IF p \in R THEN NULL ELSE mem.pte[p]]
  <2>1. t \in [Page -> Frame \cup {NULL}]
    BY <1>4 DEF MemType
  <2>2. \A p \in Page : t[p] = IF p \in R THEN NULL ELSE mem.pte[p]
    OBVIOUS
  <2>3. mem' = [mem EXCEPT !.k = mem.k \ F, !.v = mem.v \ R, !.pte = t]
    BY <1>5
  <2> HIDE DEF t
  <2> QED BY <1>4, <2>1, <2>2, <2>3 DEF MemType
<1>7. \A p \in Page : p \notin R /\ mem.pte[p] # NULL => mem.pte[p] \notin F
  BY <1>1, <1>3 DEF MemSound, F
<1>8. MemSound(mem')
  BY <1>1, <1>6, <1>7 DEF MemSound
<1>9. pages' = pages \ {r} /\ UNCHANGED <<arena, free, live, proc>>
  BY DEF free_pages
<1>10. Ledger(Holdings', mem')
  <2>1. Holdings' \subseteq Holdings \ {h}
    BY <1>9 DEF Holdings, Arenas, Extent, Procs
  <2>2. \A p \in Page \ h[3] : mem'.pte[p] = mem.pte[p]
    BY <1>2, <1>6
  <2>3. mem'.v = mem.v \ h[3] /\ mem.k \ {mem.pte[p] : p \in h[3]} \subseteq mem'.k
    BY <1>2, <1>6 DEF F
  <2> HIDE DEF h
  <2> QED BY <1>1, <1>2, <2>1, <2>2, <2>3, LedgerLoses
<1>11. ProcInv'
  <2>1. Started' = Started
    BY <1>9 DEF Started, Procs
  <2>2. ASSUME NEW x \in Started
        PROVE  proc[x].table \in mem'.k /\ \A p \in Page : mem'.pte[p] # proc[x].table
    <3>1. /\ proc[x].table \in mem.k /\ \A p \in Page : mem.pte[p] # proc[x].table
      BY DEF MemInv, ProcInv
    <3>2. proc[x].table \notin F
      BY <1>3, <3>1 DEF F
    <3>3. proc[x].table # NULL
      BY <1>4, <3>1, NullNoFrame DEF MemType
    <3> QED BY <1>6, <3>1, <3>2, <3>3
  <2>3. /\ \A x \in Started : proc[x].stack \in mem.u
        /\ \A x \in Started : \A y \in Started \ {x} :
             proc[x].table # proc[y].table /\ proc[x].stack # proc[y].stack
    BY DEF MemInv, ProcInv
  <2> QED BY <1>6, <1>9, <2>1, <2>2, <2>3 DEF ProcInv
<1> QED BY <1>6, <1>8, <1>9, <1>10, <1>11 DEF MemInv, PagesInv, Ledger

\* A page that malloc_pages() grants is no arena yet.
LEMMA NoArenaYet ==
  ASSUME MemInv, NEW n, NEW p \in Page, NEW R, p \in R, Fresh(mem, n, R)
  PROVE  arena[p] = NULL
<1> SUFFICES ASSUME arena[p] # NULL PROVE FALSE
  OBVIOUS
<1>1. arena[p] \in Arena
  BY DEF MemInv, HeapOK
<1> DEFINE h == <<"arena", p, Extent(p)>>
<1>2. h \in Holdings /\ h[3] = Extent(p)
  BY DEF Holdings, Arenas
<1>3. Extent(p) # {} /\ Extent(p) \subseteq mem.v
  <2> HIDE DEF h
  <2> QED BY <1>2 DEF MemInv, PagesInv, Backed
<1>4. p \in Extent(p)
  <2> DEFINE n2 == IF arena[p].large THEN arena[p].cnt ELSE 1
  <2>1. n2 \in Nat /\ p \in Nat
    BY <1>1, PageNat DEF Arena
  <2>2. Extent(p) = p..(p + n2 - 1)
    BY DEF Extent, run
  <2> HIDE DEF n2
  <2> QED BY <1>3, <2>1, <2>2
<1> QED BY <1>3, <1>4 DEF Fresh

LEMMA MallocLarge ==
  ASSUME MemInv, NEW size \in Sizes, sys_malloc_large(size)
  PROVE  MemInv'
<1> DEFINE cnt == large_pages(size)
           a == malloc_pages(mem, cnt)
           p == a.start
           new == [desc |-> NULL, cnt |-> cnt, large |-> TRUE]
           b == [page |-> p, idx |-> 0, size |-> size]
           h == <<"arena", p, run(p, cnt)>>
<1>1. size \in Nat /\ cnt \in Nat /\ cnt \in 1..MaxRun /\ size + ArenaSize <= cnt * PageSize
  <2>1. size \in Nat /\ MaxRun \in Nat
    BY SizeAssumption
  <2>2. cnt \in Nat \ {0} /\ size + ArenaSize <= cnt * PageSize /\ cnt <= MaxRun
    BY <2>1, LargePages, RunAssumption
  <2> HIDE DEF cnt
  <2> QED BY <2>1, <2>2
<1> HIDE DEF cnt
<1>2. /\ MemSound(mem') /\ Grown(mem, mem') /\ mem' = a.m
      /\ mem'.fault = NULL => p \in Page /\ Fresh(mem, mem', run(p, cnt))
  BY <1>1, MallocPages DEF MemInv, sys_malloc_large, cnt
<1>3. /\ mem'.fault = NULL => arena' = [arena EXCEPT ![p] = new] /\ live' = live \cup {b}
      /\ mem'.fault # NULL => arena' = arena /\ live' = live
      /\ UNCHANGED <<free, pages, proc>>
  BY DEF sys_malloc_large, cnt
<1>4. mem'.fault # "assert"
  BY <1>2 DEF MemInv, Grown
<1> HIDE DEF a
<1>5. /\ Ledger(Holdings, mem) /\ HeapOK(arena, free, live)
      /\ arena \in [Page -> Arena \cup {NULL}]
  BY DEF MemInv, PagesInv, Ledger, HeapOK
<1>6. ProcInv'
  BY <1>2, <1>3, ProcGrows DEF MemInv
<1>7. CASE mem'.fault # NULL
  <2>1. Holdings' = Holdings
    BY <1>3, <1>7 DEF Holdings, Arenas, Extent, Procs
  <2>2. Ledger(Holdings', mem')
    BY <1>2, <1>5, <2>1, LedgerGrows
  <2> QED BY <1>2, <1>3, <1>4, <1>6, <1>7, <2>2 DEF MemInv, PagesInv, Ledger
<1>8. CASE mem'.fault = NULL
  <2>1. new \in Arena /\ new # NULL /\ new.large /\ new.cnt = cnt
    <3>1. cnt \in Nat
      BY <1>1
    <3>2. new \in Arena
      BY <3>1 DEF Arena
    <3>3. new.large /\ new.cnt = cnt
      OBVIOUS
    <3> QED BY <3>2, <3>3, NullAssumption
  <2>2. b \in Used /\ b.page = p /\ b.size = size
    BY <1>1, <1>2, <1>8 DEF Used
  <2>3. p \in run(p, cnt)
    <3>1. p \in Nat
      BY <1>2, <1>8, PageNat
    <3> HIDE DEF p
    <3> QED BY <1>1, <3>1 DEF run
  <2> HIDE DEF new, b
  <2>4. arena[p] = NULL
    <3> HIDE DEF p
    <3> QED BY <1>2, <1>8, <2>3, NoArenaYet
  <2>5. arena' \in [Page -> Arena \cup {NULL}] /\ Replaced(Page, arena, p, new, arena')
    <3>1. new \in Arena \cup {NULL} /\ arena' = [arena EXCEPT ![p] = new] /\ p \in Page
      BY <1>2, <1>3, <1>8, <2>1
    <3> HIDE DEF p
    <3> QED BY <1>5, <3>1 DEF Replaced
  <2> HIDE DEF p
  <2>6. HeapOK(arena', free, live')
    <3>1. b.size + ArenaSize <= new.cnt * PageSize
      BY <1>1, <2>1, <2>2
    <3> QED BY <1>2, <1>3, <1>5, <1>8, <2>1, <2>2, <2>4, <2>5, <3>1, NewLarge
  <2>7. Holdings' \subseteq Holdings \cup {h}
    <3>1. arena'[p] = new /\ \A x \in Page \ {p} : arena'[x] = arena[x]
      BY <2>5 DEF Replaced
    <3>2. ASSUME NEW x \in Arenas'
          PROVE  (x = p /\ Extent(x)' = run(p, cnt)) \/ (x \in Arenas /\ Extent(x)' = Extent(x))
      <4>1. CASE x = p
        BY <2>1, <3>1, <4>1 DEF Extent
      <4>2. CASE x # p
        BY <3>1, <3>2, <4>2 DEF Extent, Arenas
      <4> QED BY <4>1, <4>2
    <3>3. Procs' = Procs
      BY <1>3 DEF Procs
    <3> QED BY <1>3, <3>2, <3>3 DEF Holdings
  <2>8. h[3] = run(p, cnt) /\ h[3] # {} /\ Fresh(mem, mem', h[3])
    BY <1>2, <1>8 DEF Fresh
  <2>9. Ledger(Holdings', mem')
    <3> HIDE DEF h
    <3> QED BY <1>2, <1>5, <2>7, <2>8, LedgerGains
  <2>10. pages' \subseteq [start : Nat, cnt : Nat] /\ proc' \in [Proc -> Pcb \cup {NULL}]
    BY <1>3 DEF MemInv
  <2> QED BY <1>2, <1>3, <1>4, <1>6, <2>6, <2>9, <2>10 DEF MemInv, PagesInv, Ledger
<1> QED BY <1>7, <1>8

\* An arena of ar holds the same pages in the table at of arenas.
SamePages(ar, at, x) ==
  /\ ar[x] # NULL /\ (at[x].large <=> ar[x].large)
  /\ ar[x].large => at[x].cnt = ar[x].cnt

\* pop_block() from the list q of the class, in the heap of arenas ar and lists fr.
LEMMA PopBlock ==
  ASSUME MemInv, NEW ar, NEW fr, HeapOK(ar, fr, live), NEW c \in Class,
         \A d \in Class \ {c} : fr[d] = free[d], NEW q, q = fr[c], q # <<>>,
         NEW size \in Nat, size <= block_size(c), pop_block(size, c, q, ar)
  PROVE  /\ HeapOK(arena', free', live')
         /\ \A x \in Page : arena'[x] # NULL => SamePages(ar, arena', x)
<1> DEFINE h == Head(fr[c])
           p == h.page
           new == [desc |-> ar[p].desc, cnt |-> ar[p].cnt - 1, large |-> ar[p].large]
<1>1. Popped(ar, fr, live, c, h)
  BY HeadOfList
<1>2. /\ p \in Page /\ ar[p] \in Arena /\ ar[p] # NULL /\ ~ar[p].large /\ ar[p].desc = c
      /\ ar[p].cnt - 1 \in Nat /\ Tail(fr[c]) \in Seq(Block)
  <2> HIDE DEF h
  <2> QED BY <1>1 DEF Popped
<1>3. /\ ar \in [Page -> Arena \cup {NULL}] /\ free \in [Class -> Seq(Block)]
  BY DEF HeapOK, MemInv
<1>4. /\ free' = [free EXCEPT ![c] = Tail(fr[c])]
      /\ arena' = [ar EXCEPT ![p] = [ar[p] EXCEPT !.cnt = ar[p].cnt - 1]]
      /\ live' = live \cup {[page |-> p, idx |-> h.idx, size |-> size]}
  BY DEF pop_block
<1>5. [ar[p] EXCEPT !.cnt = ar[p].cnt - 1] = new
  <2> DEFINE y == ar[p]
  <2>1. y \in Arena
    BY <1>2
  <2> HIDE DEF y
  <2>2. [y EXCEPT !.cnt = y.cnt - 1] = [desc |-> y.desc, cnt |-> y.cnt - 1, large |-> y.large]
    BY <2>1 DEF Arena
  <2> QED BY <2>2 DEF y
<1>6. new \in Arena /\ new.desc = c /\ ~new.large /\ new.cnt = ar[p].cnt - 1
  <2> DEFINE y == ar[p]
  <2>1. y \in Arena /\ y.desc = c /\ ~y.large /\ y.cnt - 1 \in Nat
    BY <1>2
  <2> HIDE DEF y
  <2>2. [desc |-> y.desc, cnt |-> y.cnt - 1, large |-> y.large] \in Arena
    BY <2>1 DEF Arena
  <2> QED BY <2>1, <2>2 DEF y
<1>7. new # NULL /\ new \in Arena \cup {NULL}
  BY <1>6, NullAssumption
<1>8. arena' = [ar EXCEPT ![p] = new]
  BY <1>4, <1>5
<1> HIDE DEF new, p, h
<1>9. arena' \in [Page -> Arena \cup {NULL}] /\ Replaced(Page, ar, p, new, arena')
  BY <1>2, <1>3, <1>7, <1>8 DEF Replaced
<1>10. free' \in [Class -> Seq(Block)] /\ Replaced(Class, fr, c, Tail(fr[c]), free')
  <2>1. free' \in [Class -> Seq(Block)] /\ free'[c] = Tail(fr[c])
        /\ \A d \in Class \ {c} : free'[d] = free[d]
    BY <1>2, <1>3, <1>4
  <2> QED BY <2>1 DEF Replaced
<1>11. HeapOK(arena', free', live')
  BY <1>1, <1>4, <1>6, <1>7, <1>9, <1>10, TakeBlock DEF p
<1>12. ASSUME NEW x \in Page, arena'[x] # NULL PROVE SamePages(ar, arena', x)
  <2>1. CASE x = p
    <3>1. arena'[x] = new
      BY <1>9, <2>1 DEF Replaced
    <3> QED BY <1>2, <1>6, <2>1, <3>1 DEF SamePages
  <2>2. CASE x # p
    BY <1>9, <1>12, <2>2 DEF Replaced, SamePages
  <2> QED BY <2>1, <2>2
<1> QED BY <1>11, <1>12

LEMMA ClassFor ==
  ASSUME NEW size \in Nat, NEW c, c = desc_idx(size), c < DESC_CNT
  PROVE  c \in Class /\ size <= block_size(c)
<1> DEFINE S == {d \in Class : size < block_size(d)} \cup {DESC_CNT}
<1>1. S \subseteq Nat /\ DESC_CNT \in S /\ DESC_CNT \in Nat
  BY SizeAssumption DEF Class
<1>2. c = lowest(S)
  BY DEF desc_idx
<1>3. c \in S
  <2> HIDE DEF S
  <2> QED BY <1>1, <1>2, LowestIs
<1>4. c \in Class /\ size < block_size(c)
  BY <1>1, <1>3
<1>5. block_size(c) \in Nat
  BY <1>4, BlockSizes
<1> QED BY <1>4, <1>5

\* The runs held by arenas do not depend on the blocks that are idle in them.
LEMMA SameExtents ==
  ASSUME \A x \in Page : arena'[x] # NULL => SamePages(arena, arena', x),
         proc' = proc, pages' = pages
  PROVE  Holdings' \subseteq Holdings
<1>1. ASSUME NEW x \in Arenas' PROVE x \in Arenas /\ Extent(x)' = Extent(x)
  BY <1>1 DEF Arenas, Extent, SamePages
<1>2. Procs' = Procs
  BY DEF Procs
<1> QED BY <1>1, <1>2 DEF Holdings

LEMMA MallocBlock ==
  ASSUME MemInv, NEW size \in Sizes, sys_malloc_block(size)
  PROVE  MemInv'
<1> DEFINE c == desc_idx(size)
<1>1. size \in Nat
  BY SizeAssumption
<1>2. /\ c < DESC_CNT /\ free[c] # <<>> /\ pop_block(size, c, free[c], arena)
      /\ UNCHANGED <<mem, pages, proc>>
  BY DEF sys_malloc_block
<1>3. c \in Class /\ size <= block_size(c)
  BY <1>1, <1>2, ClassFor
<1>4. HeapOK(arena, free, live)
  BY DEF MemInv
<1> HIDE DEF c
<1>5. /\ HeapOK(arena', free', live')
      /\ \A x \in Page : arena'[x] # NULL => SamePages(arena, arena', x)
  BY <1>1, <1>2, <1>3, <1>4, PopBlock
<1>6. Ledger(Holdings', mem')
  <2>1. Holdings' \subseteq Holdings
    BY <1>2, <1>5, SameExtents
  <2>2. Ledger(Holdings, mem)
    BY DEF MemInv, PagesInv, Ledger
  <2> QED BY <1>2, <2>1, <2>2, LedgerShrinks
<1>7. ProcInv'
  BY <1>2 DEF MemInv, ProcInv, Started, Procs
<1> QED BY <1>2, <1>5, <1>6, <1>7 DEF MemInv, PagesInv, Ledger

LEMMA MallocWild ==
  ASSUME MemInv, NEW size \in Sizes, sys_malloc_wild(size)
  PROVE  MemInv'
<1>1. mem' = [mem EXCEPT !.fault = "wild"] /\ UNCHANGED <<arena, free, live, pages, proc>>
  BY DEF sys_malloc_wild
<1>2. mem \in MemType
  BY DEF MemInv, MemSound
<1>3. /\ mem' \in MemType /\ mem'.k = mem.k /\ mem'.u = mem.u /\ mem'.v = mem.v
      /\ mem'.pte = mem.pte /\ mem'.fault = "wild"
  BY <1>1, <1>2 DEF MemType, Fault
<1>4. MemSound(mem')
  BY <1>3 DEF MemInv, MemSound
<1>5. Holdings' = Holdings /\ Started' = Started
  BY <1>1 DEF Holdings, Arenas, Extent, Started, Procs
<1>6. PagesInv'
  BY <1>3, <1>5 DEF MemInv, PagesInv, Backed
<1>7. ProcInv'
  BY <1>1, <1>3, <1>5 DEF MemInv, ProcInv
<1> QED BY <1>1, <1>3, <1>4, <1>6, <1>7 DEF MemInv

LEMMA MallocArena ==
  ASSUME MemInv, NEW size \in Sizes, sys_malloc_arena(size)
  PROVE  MemInv'
<1> DEFINE c == desc_idx(size)
           a == malloc_pages(mem, 1)
           p == a.start
           new == [desc |-> c, cnt |-> block_per_arena(c), large |-> FALSE]
           ar == [arena EXCEPT ![p] = new]
           fr == [free EXCEPT ![c] = blocks(p, c)]
           h == <<"arena", p, run(p, 1)>>
<1>1. size \in Nat /\ 1 \in 1..MaxRun
  BY SizeAssumption
<1>2. c < DESC_CNT /\ free[c] = <<>> /\ UNCHANGED <<pages, proc>> /\ mem' = a.m
  BY DEF sys_malloc_arena
<1>3. c \in Class /\ size <= block_size(c)
  BY <1>1, <1>2, ClassFor
<1>4. /\ MemSound(mem') /\ Grown(mem, mem')
      /\ mem'.fault = NULL => p \in Page /\ Fresh(mem, mem', run(p, 1))
  BY <1>1, <1>2, MallocPages DEF MemInv
<1>5. /\ mem'.fault = NULL => pop_block(size, c, blocks(p, c), ar)
      /\ mem'.fault # NULL => UNCHANGED <<arena, free, live>>
  BY <1>2 DEF sys_malloc_arena
<1> HIDE DEF a, c, fr, ar
<1>6. mem'.fault # "assert"
  BY <1>4 DEF MemInv, Grown
<1>7. ProcInv'
  BY <1>2, <1>4, ProcGrows DEF MemInv
<1>8. /\ Ledger(Holdings, mem) /\ HeapOK(arena, free, live)
      /\ arena \in [Page -> Arena \cup {NULL}] /\ free \in [Class -> Seq(Block)]
      /\ pages' \subseteq [start : Nat, cnt : Nat] /\ proc' \in [Proc -> Pcb \cup {NULL}]
  BY <1>2 DEF MemInv, PagesInv, Ledger, HeapOK
<1>9. CASE mem'.fault # NULL
  <2>1. Holdings' = Holdings
    BY <1>2, <1>5, <1>9 DEF Holdings, Arenas, Extent, Procs
  <2>2. Ledger(Holdings', mem')
    BY <1>4, <1>8, <2>1, LedgerGrows
  <2> QED BY <1>4, <1>5, <1>6, <1>7, <1>8, <1>9, <2>2 DEF MemInv, PagesInv, Ledger
<1>10. CASE mem'.fault = NULL
  <2>1. p \in Page /\ Fresh(mem, mem', run(p, 1)) /\ pop_block(size, c, blocks(p, c), ar)
    BY <1>4, <1>5, <1>10
  <2> HIDE DEF p
  <2>2. run(p, 1) = {p}
    <3>1. p \in Nat
      BY <2>1, PageNat
    <3> QED BY <3>1 DEF run
  <2>3. arena[p] = NULL
    BY <2>1, <2>2, NoArenaYet
  <2>4. HeapOK(ar, fr, live)
    BY <1>2, <1>3, <1>8, <2>1, <2>3, NewArena DEF ar, fr
  <2>5. blocks(p, c) \in Seq(Block) /\ blocks(p, c) # <<>>
    BY <1>3, <2>1, BlocksFacts
  <2>6. fr[c] = blocks(p, c) /\ \A d \in Class \ {c} : fr[d] = free[d]
    BY <1>3, <1>8 DEF fr
  <2>7. ~new.large
    OBVIOUS
  <2>8. ar[p] = new /\ \A x \in Page \ {p} : ar[x] = arena[x]
    BY <1>8, <2>1 DEF ar
  <2> HIDE DEF new
  <2>9. /\ HeapOK(arena', free', live')
        /\ \A x \in Page : arena'[x] # NULL => SamePages(ar, arena', x)
    BY <1>1, <1>3, <2>1, <2>4, <2>5, <2>6, PopBlock
  <2>10. Holdings' \subseteq Holdings \cup {h}
    <3>1. ASSUME NEW x \in Arenas'
          PROVE  \/ x = p /\ Extent(x)' = run(p, 1)
                 \/ x \in Arenas /\ Extent(x)' = Extent(x)
      <4>1. x \in Page /\ SamePages(ar, arena', x)
        BY <2>9, <3>1 DEF Arenas
      <4>2. CASE x = p
        BY <2>7, <2>8, <4>1, <4>2 DEF Extent, SamePages
      <4>3. CASE x # p
        BY <2>8, <4>1, <4>3 DEF Extent, SamePages, Arenas
      <4> QED BY <4>2, <4>3
    <3>2. Procs' = Procs
      BY <1>2 DEF Procs
    <3> QED BY <1>2, <3>1, <3>2 DEF Holdings
  <2>11. h[3] = run(p, 1) /\ h[3] # {} /\ Fresh(mem, mem', h[3])
    BY <2>1, <2>2
  <2>12. Ledger(Holdings', mem')
    <3> HIDE DEF h
    <3> QED BY <1>4, <1>8, <2>10, <2>11, LedgerGains
  <2> QED BY <1>4, <1>6, <1>7, <1>8, <2>9, <2>12 DEF MemInv, PagesInv, Ledger
<1> QED BY <1>9, <1>10

\* n is m without the marks of the pages R.
Unmarked(m, R, n) ==
  /\ n \in MemType /\ n.k = m.k /\ n.u = m.u /\ n.v = m.v \ R
  /\ n.pte = m.pte /\ n.fault = m.fault

LEMMA RemoveVirtual ==
  ASSUME NEW m \in MemType, NEW start, NEW cnt, NEW n, n = remove_virtual_pages(m, start, cnt)
  PROVE  Unmarked(m, run(start, cnt), n)
<1>1. n = [m EXCEPT !.v = m.v \ run(start, cnt)]
  BY DEF remove_virtual_pages, set_run, run
<1> QED BY <1>1 DEF Unmarked, MemType

\* remove_virtual_pages() of the run that an arena holds.
LEMMA PagesReturned ==
  ASSUME MemInv, NEW p \in Arenas, Unmarked(mem, Extent(p), mem'),
         arena'[p] = NULL, \A x \in Page \ {p} : arena'[x] = arena[x],
         pages' = pages, proc' = proc
  PROVE  MemSound(mem') /\ mem'.fault = mem.fault /\ PagesInv' /\ ProcInv'
<1> DEFINE h == <<"arena", p, Extent(p)>>
<1>1. mem \in MemType /\ MemSound(mem) /\ Ledger(Holdings, mem)
  BY DEF MemInv, MemSound, PagesInv, Ledger
<1>2. /\ mem' \in MemType /\ mem'.k = mem.k /\ mem'.u = mem.u /\ mem'.v = mem.v \ Extent(p)
      /\ mem'.pte = mem.pte /\ mem'.fault = mem.fault
  BY DEF Unmarked
<1>3. MemSound(mem')
  BY <1>1, <1>2 DEF MemSound
<1>4. h \in Holdings /\ h[3] = Extent(p)
  BY DEF Holdings
<1>5. Holdings' \subseteq Holdings \ {h}
  <2>1. ASSUME NEW x \in Arenas' PROVE x \in Arenas /\ x # p /\ Extent(x)' = Extent(x)
    BY <2>1 DEF Arenas, Extent
  <2>2. Procs' = Procs
    BY DEF Procs
  <2> QED BY <2>1, <2>2 DEF Holdings
<1>6. Ledger(Holdings', mem')
  <2>1. mem'.v = mem.v \ h[3] /\ mem.k \ {mem.pte[x] : x \in h[3]} \subseteq mem'.k
    BY <1>2, <1>4
  <2>2. \A x \in Page \ h[3] : mem'.pte[x] = mem.pte[x]
    BY <1>2
  <2>3. h \in Holdings /\ MemSound(mem) /\ Ledger(Holdings, mem)
    BY <1>1, <1>4
  <2> HIDE DEF h
  <2> QED BY <1>5, <2>1, <2>2, <2>3, LedgerLoses
<1>7. ProcInv'
  BY <1>2 DEF MemInv, ProcInv, Started, Procs
<1> QED BY <1>2, <1>3, <1>6, <1>7 DEF PagesInv, Ledger

LEMMA FreeLargeBlock ==
  ASSUME MemInv, NEW b \in live, sys_free_large(b)
  PROVE  MemInv'
<1> DEFINE p == b.page
<1>1. /\ HeapOK(arena, free, live) /\ arena \in [Page -> Arena \cup {NULL}]
      /\ free \in [Class -> Seq(Block)] /\ p \in Page /\ arena[p] # NULL
  BY DEF MemInv, HeapOK, Used
<1>2. /\ arena[p].large /\ mem' = remove_virtual_pages(mem, p, arena[p].cnt)
      /\ arena' = [arena EXCEPT ![p] = NULL] /\ live' = live \ {b}
      /\ UNCHANGED <<free, pages, proc>>
  BY DEF sys_free_large
<1>3. arena' \in [Page -> Arena \cup {NULL}] /\ Replaced(Page, arena, p, NULL, arena')
  <2>1. arena' = [arena EXCEPT ![p] = NULL]
    BY <1>2
  <2> HIDE DEF p
  <2> QED BY <1>1, <2>1 DEF Replaced
<1>4. HeapOK(arena', free', live')
  <2>1. HeapOK(arena', free, live')
    BY <1>1, <1>2, <1>3, FreeLarge
  <2> QED BY <1>2, <2>1
<1>5. Unmarked(mem, Extent(p), mem')
  <2>1. mem \in MemType /\ Extent(p) = run(p, arena[p].cnt)
    BY <1>2 DEF MemInv, MemSound, Extent
  <2> QED BY <1>2, <2>1, RemoveVirtual
<1>6. MemSound(mem') /\ mem'.fault = mem.fault /\ PagesInv' /\ ProcInv'
  <2>1. p \in Arenas
    BY <1>1 DEF Arenas
  <2>2. arena'[p] = NULL /\ \A x \in Page \ {p} : arena'[x] = arena[x]
    BY <1>3 DEF Replaced
  <2>3. pages' = pages /\ proc' = proc
    BY <1>2
  <2> HIDE DEF p
  <2> QED BY <1>5, <2>1, <2>2, <2>3, PagesReturned
<1> QED BY <1>2, <1>4, <1>6 DEF MemInv

LEMMA FreeBlock ==
  ASSUME MemInv, NEW b \in live, sys_free_block(b)
  PROVE  MemInv'
<1> DEFINE p == b.page
           a == arena[p]
           c == a.desc
           q == Append(free[c], [page |-> p, idx |-> b.idx])
           mine == {blocks(p, c)[i] : i \in 1..block_per_arena(c)}
           whole == a.cnt + 1 = block_per_arena(c)
           lv == live \ {b}
           new == [desc |-> c, cnt |-> a.cnt + 1, large |-> FALSE]
           ar == [arena EXCEPT ![p] = new]
           fr == [free EXCEPT ![c] = q]
<1>1. /\ HeapOK(arena, free, live) /\ arena \in [Page -> Arena \cup {NULL}]
      /\ free \in [Class -> Seq(Block)] /\ p \in Page /\ b.idx \in Nat /\ a # NULL
  BY DEF MemInv, HeapOK, Used
<1>2. /\ ~a.large
      /\ IF whole /\ \E x \in mine : ~list_find(q, x)
         THEN /\ mem' = [mem EXCEPT !.fault = "assert"]
              /\ UNCHANGED <<arena, free, live, pages, proc>>
         ELSE /\ free' = [free EXCEPT ![c] = IF whole THEN list_without(q, mine) ELSE q]
              /\ arena' = [arena EXCEPT ![p] = IF whole THEN NULL ELSE [a EXCEPT !.cnt = a.cnt + 1]]
              /\ mem' = IF whole THEN remove_virtual_pages(mem, p, 1) ELSE mem
              /\ live' = lv
              /\ UNCHANGED <<pages, proc>>
  BY DEF sys_free_block
<1>3. a \in Arena /\ c \in Class
  BY <1>1, <1>2, ArenaFacts
<1>4. /\ new \in Arena /\ new.desc = c /\ ~new.large /\ new.cnt = a.cnt + 1
      /\ [a EXCEPT !.cnt = a.cnt + 1] = new
  <2>1. a \in Arena /\ ~a.large
    BY <1>2, <1>3
  <2> HIDE DEF a
  <2>2. [a EXCEPT !.cnt = a.cnt + 1] = [desc |-> a.desc, cnt |-> a.cnt + 1, large |-> a.large]
    BY <2>1 DEF Arena
  <2>3. a.large = FALSE /\ a.cnt + 1 \in Nat
    BY <2>1 DEF Arena
  <2>4. new \in Arena
    BY <1>3, <2>3 DEF Arena
  <2> QED BY <2>2, <2>3, <2>4
<1>5. q \in Seq(Block)
  <2>1. [page |-> p, idx |-> b.idx] \in Block
    BY <1>1 DEF Block
  <2> QED BY <1>1, <1>3, <2>1
<1>6. new # NULL /\ new \in Arena \cup {NULL}
  BY <1>4, NullAssumption
<1>7. \A x : list_find(q, x) <=> x \in Range(q)
  BY DEF list_find, Range
<1>8. mine = {[page |-> p, idx |-> i] : i \in slots(new)}
  <2>1. mine = Range(blocks(p, c))
    BY DEF blocks, Range
  <2>2. slots(new) = 0..(block_per_arena(c) - 1)
    BY DEF slots
  <2> QED BY <1>1, <1>3, <2>1, <2>2, BlocksFacts
<1>9. arena[b.page].desc = c /\ arena[b.page].cnt + 1 = new.cnt /\ ~arena[b.page].large
      /\ q = Append(free[c], [page |-> b.page, idx |-> b.idx]) /\ b.page = p
      /\ arena[p] # NULL /\ (whole <=> new.cnt = block_per_arena(new.desc))
  BY <1>1, <1>2, <1>4
<1> HIDE DEF p, a, c, q, mine, whole, new
<1>10. /\ ar \in [Page -> Arena \cup {NULL}] /\ Replaced(Page, arena, p, new, ar)
       /\ fr \in [Class -> Seq(Block)] /\ Replaced(Class, free, c, q, fr)
  BY <1>1, <1>3, <1>5, <1>6 DEF Replaced
<1> HIDE DEF ar, fr
<1>11. HeapOK(ar, fr, lv)
  BY <1>1, <1>4, <1>6, <1>9, <1>10, PushBlock
<1>12. ar[p] = new /\ fr[c] = q
  BY <1>10 DEF Replaced
<1>13. pages' = pages /\ proc' = proc
  BY <1>2
<1>14. CASE whole
  <2>1. ar[p] # NULL /\ ~ar[p].large /\ ar[p].cnt = block_per_arena(ar[p].desc)
        /\ ar[p].desc = c
    BY <1>4, <1>6, <1>9, <1>12, <1>14
  <2>2. \A i \in slots(new) : [page |-> p, idx |-> i] \in Range(q)
    BY <1>1, <1>11, <1>12, <2>1, WholeArena
  <2>3. \A x \in mine : list_find(q, x)
    BY <1>7, <1>8, <2>2
  <2>4. /\ free' = [free EXCEPT ![c] = list_without(q, mine)]
        /\ arena' = [arena EXCEPT ![p] = NULL]
        /\ mem' = remove_virtual_pages(mem, p, 1) /\ live' = lv
    BY <1>2, <1>14, <2>3
  <2>5. list_without(q, mine) \in Seq(Block)
    BY <1>5, WithoutList
  <2>6. /\ arena' \in [Page -> Arena \cup {NULL}] /\ Replaced(Page, arena, p, NULL, arena')
        /\ free' \in [Class -> Seq(Block)]
        /\ Replaced(Class, free, c, list_without(q, mine), free')
    BY <1>1, <1>3, <2>4, <2>5 DEF Replaced
  <2>7. Replaced(Page, ar, p, NULL, arena')
    BY <1>10, <2>6 DEF Replaced
  <2>8. Replaced(Class, fr, c, list_without(fr[c], mine), free')
    BY <1>10, <1>12, <2>6 DEF Replaced
  <2>9. mine = {[page |-> p, idx |-> i] : i \in slots(ar[p])}
    BY <1>8, <1>12
  <2>10. HeapOK(arena', free', live')
    <3>1. HeapOK(arena', free', lv)
      BY <1>1, <1>11, <2>1, <2>6, <2>7, <2>8, <2>9, DropArena
    <3> QED BY <2>4, <3>1
  <2>11. Unmarked(mem, Extent(p), mem')
    <3>1. mem \in MemType /\ Extent(p) = run(p, 1)
      BY <1>9 DEF MemInv, MemSound, Extent
    <3> QED BY <2>4, <3>1, RemoveVirtual
  <2>12. arena'[p] = NULL /\ \A x \in Page \ {p} : arena'[x] = arena[x]
    BY <2>6 DEF Replaced
  <2>13. p \in Arenas
    BY <1>1, <1>9 DEF Arenas
  <2>14. MemSound(mem') /\ mem'.fault = mem.fault /\ PagesInv' /\ ProcInv'
    BY <1>13, <2>11, <2>12, <2>13, PagesReturned
  <2> QED BY <1>13, <2>10, <2>14 DEF MemInv
<1>15. CASE ~whole
  <2>1. /\ free' = [free EXCEPT ![c] = q]
        /\ arena' = [arena EXCEPT ![p] = new]
        /\ mem' = mem /\ live' = lv
    BY <1>2, <1>4, <1>15
  <2>2. HeapOK(arena', free', live')
    BY <1>11, <2>1 DEF ar, fr
  <2>3. arena' = ar
    BY <2>1 DEF ar
  <2>4. ASSUME NEW x \in Page, arena'[x] # NULL PROVE SamePages(arena, arena', x)
    <3>1. CASE x = p
      BY <1>4, <1>9, <1>12, <2>3, <3>1 DEF SamePages
    <3>2. CASE x # p
      BY <1>10, <2>3, <2>4, <3>2 DEF SamePages, Replaced
    <3> QED BY <3>1, <3>2
  <2>5. Holdings' \subseteq Holdings
    BY <1>13, <2>4, SameExtents
  <2>6. Ledger(Holdings', mem')
    <3>1. Ledger(Holdings, mem)
      BY DEF MemInv, PagesInv, Ledger
    <3> QED BY <2>1, <2>5, <3>1, LedgerShrinks
  <2>7. ProcInv'
    BY <1>13, <2>1 DEF MemInv, ProcInv, Started, Procs
  <2> QED BY <1>13, <2>1, <2>2, <2>6, <2>7 DEF MemInv, PagesInv, Ledger
<1> QED BY <1>14, <1>15

\* process_execute() takes three runs, one after the other.
LEMMA ProcessExecute ==
  ASSUME MemInv, NEW x \in Proc, process_execute(x)
  PROVE  MemInv'
<1> DEFINE pcb == malloc_pages(mem, 1)
           map == malloc_pages(pcb.m, BitmapPages)
           dir == malloc_pages(map.m, 1)
           new == [pcb |-> pcb.start, map |-> map.start, dir |-> dir.start,
                   table |-> NULL, stack |-> NULL]
           h1 == <<"pcb", x, run(pcb.start, 1)>>
           h2 == <<"map", x, run(map.start, BitmapPages)>>
           h3 == <<"dir", x, run(dir.start, 1)>>
<1>1. 1 \in 1..MaxRun /\ BitmapPages \in 1..MaxRun
  BY SizeAssumption
<1>2. /\ proc[x] = NULL /\ mem' = dir.m /\ UNCHANGED <<arena, free, live, pages>>
      /\ proc' = IF dir.m.fault = NULL THEN [proc EXCEPT ![x] = new] ELSE proc
  BY DEF process_execute
<1>3. /\ MemSound(pcb.m) /\ Grown(mem, pcb.m)
      /\ pcb.m.fault = NULL => pcb.start \in Page /\ Fresh(mem, pcb.m, run(pcb.start, 1))
  BY <1>1, MallocPages DEF MemInv
<1> HIDE DEF pcb
<1>4. /\ MemSound(map.m) /\ Grown(pcb.m, map.m)
      /\ map.m.fault = NULL =>
           /\ pcb.m.fault = NULL /\ map.start \in Page
           /\ Fresh(pcb.m, map.m, run(map.start, BitmapPages))
  BY <1>1, <1>3, MallocPages
<1> HIDE DEF map
<1>5. /\ MemSound(dir.m) /\ Grown(map.m, dir.m)
      /\ dir.m.fault = NULL =>
           /\ map.m.fault = NULL /\ dir.start \in Page
           /\ Fresh(map.m, dir.m, run(dir.start, 1))
  BY <1>1, <1>4, MallocPages
<1> HIDE DEF dir, new
<1>6. mem'.fault # "assert"
  BY <1>2, <1>3, <1>4, <1>5 DEF MemInv, Grown
<1>7. Ledger(Holdings, mem) /\ proc \in [Proc -> Pcb \cup {NULL}]
  BY DEF MemInv, PagesInv, Ledger
<1>8. ProcInv'
  <2>1. Started' \subseteq Started /\ \A y \in Started' : proc'[y] = proc[y]
    <3>1. CASE dir.m.fault = NULL
      <4>1. new.stack = NULL /\ proc'[x] = new
        BY <1>2, <1>7, <3>1 DEF new
      <4>2. \A y \in Proc \ {x} : proc'[y] = proc[y]
        BY <1>2, <1>7, <3>1
      <4> QED BY <4>1, <4>2 DEF Started, Procs
    <3>2. CASE dir.m.fault # NULL
      BY <1>2, <3>2 DEF Started, Procs
    <3> QED BY <3>1, <3>2
  <2>2. /\ mem.k \subseteq mem'.k /\ mem.u \subseteq mem'.u
        /\ \A p \in Page : mem'.pte[p] = mem.pte[p] \/ mem'.pte[p] \notin mem.k
    BY <1>2, <1>3, <1>4, <1>5 DEF Grown
  <2>3. ProcInv
    BY DEF MemInv
  <2> QED BY <2>1, <2>2, <2>3 DEF ProcInv
<1>9. Ledger(Holdings', mem')
  <2>1. CASE dir.m.fault = NULL
    <3>1. Holdings' \subseteq ((Holdings \cup {h1}) \cup {h2}) \cup {h3}
      <4>1. /\ proc'[x] = new /\ \A y \in Proc \ {x} : proc'[y] = proc[y]
            /\ new.pcb = pcb.start /\ new.map = map.start /\ new.dir = dir.start
        BY <1>2, <1>7, <2>1 DEF new
      <4>2. ASSUME NEW y \in Procs' PROVE y = x \/ (y \in Procs /\ proc'[y] = proc[y])
        BY <4>1, <4>2 DEF Procs
      <4>3. Arenas' = Arenas /\ \A p : Extent(p)' = Extent(p)
        BY <1>2 DEF Arenas, Extent
      <4> QED BY <1>2, <4>1, <4>2, <4>3 DEF Holdings
    <3>2. /\ h1[3] = run(pcb.start, 1) /\ h2[3] = run(map.start, BitmapPages)
          /\ h3[3] = run(dir.start, 1)
      OBVIOUS
    <3> HIDE DEF h1, h2, h3
    <3>3. Fresh(mem, pcb.m, h1[3]) /\ Fresh(pcb.m, map.m, h2[3]) /\ Fresh(map.m, dir.m, h3[3])
      BY <1>3, <1>4, <1>5, <2>1, <3>2
    <3>4. h1[3] # {} /\ h2[3] # {} /\ h3[3] # {}
      BY <3>3 DEF Fresh
    <3>5. Ledger(Holdings \cup {h1}, pcb.m)
      BY <1>3, <1>7, <3>3, <3>4, LedgerGains
    <3>6. Ledger((Holdings \cup {h1}) \cup {h2}, map.m)
      BY <1>4, <3>3, <3>4, <3>5, LedgerGains
    <3>7. Ledger(Holdings', dir.m)
      BY <1>5, <3>1, <3>3, <3>4, <3>6, LedgerGains
    <3> QED BY <1>2, <3>7
  <2>2. CASE dir.m.fault # NULL
    <3>1. Holdings' = Holdings
      BY <1>2, <2>2 DEF Holdings, Arenas, Extent, Procs
    <3>2. Ledger(Holdings, pcb.m)
      BY <1>3, <1>7, LedgerGrows
    <3>3. Ledger(Holdings, map.m)
      BY <1>4, <3>2, LedgerGrows
    <3>4. Ledger(Holdings, dir.m)
      BY <1>5, <3>3, LedgerGrows
    <3> QED BY <1>2, <3>1, <3>4
  <2> QED BY <2>1, <2>2
<1>10. proc' \in [Proc -> Pcb \cup {NULL}]
  <2>1. CASE dir.m.fault = NULL
    <3>1. pcb.start \in Nat /\ map.start \in Nat /\ dir.start \in Nat
      BY <1>3, <1>4, <1>5, <2>1, PageNat
    <3>2. new \in Pcb
      BY <3>1 DEF new, Pcb
    <3> QED BY <1>2, <1>7, <2>1, <3>2
  <2>2. CASE dir.m.fault # NULL
    BY <1>2, <1>7, <2>2
  <2> QED BY <2>1, <2>2
<1>11. MemSound(mem') /\ HeapOK(arena', free', live') /\ pages' \subseteq [start : Nat, cnt : Nat]
  BY <1>2, <1>5 DEF MemInv
<1> QED BY <1>6, <1>8, <1>9, <1>10, <1>11 DEF MemInv, PagesInv, Ledger

\* process_start() takes a frame of each pool.
LEMMA ProcessStart ==
  ASSUME MemInv, NEW x \in Proc, process_start(x)
  PROVE  MemInv'
<1> DEFINE stack == alloc_user_frame(mem)
           table == alloc_kernel_frame(stack.m)
<1>1. mem \in MemType /\ MemSound(mem) /\ Ledger(Holdings, mem) /\ "full" \in Fault
  BY DEF MemInv, MemSound, PagesInv, Ledger, Fault
<1>2. /\ proc[x] # NULL /\ proc[x].stack = NULL /\ UNCHANGED <<arena, free, live, pages>>
      /\ IF stack.m.fault # NULL
         THEN mem' = stack.m /\ UNCHANGED proc
         ELSE /\ mem' = table.m
              /\ proc' = IF table.m.fault # NULL THEN proc
                         ELSE [proc EXCEPT ![x].table = table.frame, ![x].stack = stack.frame]
  BY DEF process_start
<1>3. \/ stack.m = [mem EXCEPT !.fault = "full"]
      \/ stack.frame \in Nat \ mem.u /\ stack.m = [mem EXCEPT !.u = mem.u \cup {stack.frame}]
  BY <1>1, UserFrame
<1> HIDE DEF stack
<1>4. /\ stack.m \in MemType /\ stack.m.k = mem.k /\ stack.m.v = mem.v /\ stack.m.pte = mem.pte
      /\ mem.u \subseteq stack.m.u /\ stack.m.fault \in {mem.fault, "full"}
  <2>1. CASE stack.m = [mem EXCEPT !.fault = "full"]
    BY <1>1, <2>1 DEF MemType
  <2>2. CASE stack.frame \in Nat \ mem.u /\ stack.m = [mem EXCEPT !.u = mem.u \cup {stack.frame}]
    BY <1>1, <2>2 DEF MemType
  <2> QED BY <1>3, <2>1, <2>2
<1>5. \/ table.m = [stack.m EXCEPT !.fault = "full"]
      \/ /\ table.frame \in Frame \ mem.k
         /\ table.m = [stack.m EXCEPT !.k = stack.m.k \cup {table.frame}]
  BY <1>4, KernelFrame
<1> HIDE DEF table
<1>6. /\ table.m \in MemType /\ mem.k \subseteq table.m.k /\ table.m.v = mem.v
      /\ table.m.pte = mem.pte /\ table.m.u = stack.m.u /\ table.m.fault \in {mem.fault, "full"}
  <2>1. CASE table.m = [stack.m EXCEPT !.fault = "full"]
    BY <1>1, <1>4, <2>1 DEF MemType
  <2>2. CASE /\ table.frame \in Frame \ mem.k
             /\ table.m = [stack.m EXCEPT !.k = stack.m.k \cup {table.frame}]
    BY <1>1, <1>4, <2>2 DEF MemType
  <2> QED BY <1>5, <2>1, <2>2
<1>7. /\ mem' \in MemType /\ mem.k \subseteq mem'.k /\ mem.u \subseteq mem'.u /\ mem'.v = mem.v
      /\ mem'.pte = mem.pte /\ mem'.fault \in {mem.fault, "full"}
  BY <1>2, <1>4, <1>6
<1>8. MemSound(mem')
  BY <1>1, <1>7 DEF MemSound
<1>9. mem'.fault # "assert"
  BY <1>7 DEF MemInv
<1>10. Grown(mem, mem')
  BY <1>7 DEF Grown
<1>11. pages' \subseteq [start : Nat, cnt : Nat] /\ HeapOK(arena', free', live')
  BY <1>2 DEF MemInv
<1>12. proc \in [Proc -> Pcb \cup {NULL}]
  BY DEF MemInv
<1>13. CASE proc' = proc
  <2>1. Holdings' = Holdings
    BY <1>2, <1>13 DEF Holdings, Arenas, Extent, Procs
  <2>2. Ledger(Holdings', mem')
    BY <1>1, <1>10, <2>1, LedgerGrows
  <2>3. ProcInv'
    BY <1>10, <1>13, ProcGrows DEF MemInv
  <2> QED BY <1>8, <1>9, <1>11, <1>12, <1>13, <2>2, <2>3 DEF MemInv, PagesInv, Ledger
<1>14. CASE proc' # proc
  <2> DEFINE t == table.frame
             s == stack.frame
             y0 == proc[x]
             new == [pcb |-> y0.pcb, map |-> y0.map, dir |-> y0.dir, table |-> t, stack |-> s]
  <2>1. /\ stack.m.fault = NULL /\ table.m.fault = NULL /\ mem' = table.m
        /\ proc' = [proc EXCEPT ![x].table = t, ![x].stack = s]
    BY <1>2, <1>14
  <2>2. s \in Nat /\ s \notin mem.u /\ s \in mem'.u /\ t \in Frame /\ t \notin mem.k /\ t \in mem'.k
    <3>1. "full" # NULL
      BY <1>1, NullAssumption
    <3>2. s \in Nat \ mem.u /\ stack.m = [mem EXCEPT !.u = mem.u \cup {s}]
      BY <1>1, <1>3, <2>1, <3>1 DEF MemType
    <3>3. t \in Frame \ mem.k /\ table.m = [stack.m EXCEPT !.k = stack.m.k \cup {t}]
      BY <1>4, <1>5, <2>1, <3>1 DEF MemType
    <3>4. s \in stack.m.u
      BY <1>1, <3>2 DEF MemType
    <3>5. t \in table.m.k
      BY <1>4, <3>3 DEF MemType
    <3> QED BY <1>6, <2>1, <3>2, <3>3, <3>4, <3>5
  <2> HIDE DEF t, s
  <2>3. y0 \in Pcb
    BY <1>2, <1>12
  <2>4. [[y0 EXCEPT !.table = t] EXCEPT !.stack = s] = new
    <3> HIDE DEF y0
    <3> DEFINE y1 == [pcb |-> y0.pcb, map |-> y0.map, dir |-> y0.dir, table |-> t, stack |-> y0.stack]
    <3>1. [y0 EXCEPT !.table = t] = y1
      BY <2>3 DEF Pcb
    <3>2. [y1 EXCEPT !.stack = s] = new
      OBVIOUS
    <3> HIDE DEF y1, new
    <3> QED BY <3>1, <3>2
  <2>5. new \in Pcb
    <3> HIDE DEF y0
    <3> QED BY <2>2, <2>3 DEF Pcb
  <2>6. proc'[x] = new /\ \A y \in Proc \ {x} : proc'[y] = proc[y]
    BY <1>12, <2>1, <2>4
  <2>7. proc' \in [Proc -> Pcb \cup {NULL}]
    <3>1. proc' = [proc EXCEPT ![x] = proc'[x]]
      BY <1>12, <2>1
    <3> HIDE DEF new
    <3>2. proc'[x] \in Pcb \cup {NULL}
      BY <2>5, <2>6
    <3> QED BY <1>12, <3>1, <3>2
  <2>8. /\ new.pcb = proc[x].pcb /\ new.map = proc[x].map /\ new.dir = proc[x].dir
        /\ new.table = t /\ new.stack = s
    OBVIOUS
  <2> HIDE DEF new, y0
  <2>9. ASSUME NEW y \in Procs'
        PROVE  /\ y \in Procs /\ proc'[y].pcb = proc[y].pcb
               /\ proc'[y].map = proc[y].map /\ proc'[y].dir = proc[y].dir
    <3>1. CASE y = x
      BY <1>2, <2>6, <2>8, <3>1 DEF Procs
    <3>2. CASE y # x
      BY <2>6, <2>9, <3>2 DEF Procs
    <3> QED BY <3>1, <3>2
  <2>10. Holdings' \subseteq Holdings
    <3>1. Arenas' = Arenas /\ \A p : Extent(p)' = Extent(p)
      BY <1>2 DEF Arenas, Extent
    <3> QED BY <1>2, <2>9, <3>1 DEF Holdings
  <2>11. Ledger(Holdings', mem')
    <3>1. Ledger(Holdings, mem')
      BY <1>1, <1>10, LedgerGrows
    <3> QED BY <2>10, <3>1, LedgerShrinks
  <2>12. ASSUME NEW y \in Started', y # x PROVE y \in Started /\ proc'[y] = proc[y]
    BY <2>6, <2>12 DEF Started, Procs
  <2>13. ASSUME NEW y \in Started
         PROVE  /\ proc[y].table \in mem.k /\ proc[y].stack \in mem.u
                /\ \A p \in Page : mem.pte[p] # proc[y].table
                /\ \A z \in Started \ {y} :
                     proc[y].table # proc[z].table /\ proc[y].stack # proc[z].stack
    BY DEF MemInv, ProcInv
  <2>14. \A p \in Page : mem.pte[p] # t
    BY <1>1, <2>2, NullNoFrame DEF MemSound
  <2>15. ASSUME NEW y \in Started'
         PROVE  /\ proc'[y].table \in mem'.k /\ proc'[y].stack \in mem'.u
                /\ \A p \in Page : mem'.pte[p] # proc'[y].table
                /\ \A z \in Started' \ {y} :
                     proc'[y].table # proc'[z].table /\ proc'[y].stack # proc'[z].stack
    <3>1. CASE y = x
      BY <1>7, <2>2, <2>6, <2>8, <2>12, <2>13, <2>14, <3>1
    <3>2. CASE y # x
      <4>1. y \in Started /\ proc'[y] = proc[y]
        BY <2>12, <3>2
      <4>2. ASSUME NEW z \in Started' \ {y}
            PROVE  proc'[y].table # proc'[z].table /\ proc'[y].stack # proc'[z].stack
        <5>1. CASE z = x
          BY <2>2, <2>6, <2>8, <2>13, <4>1, <5>1
        <5>2. CASE z # x
          BY <2>12, <2>13, <4>1, <5>2
        <5> QED BY <5>1, <5>2
      <4> QED BY <1>7, <2>13, <4>1, <4>2
    <3> QED BY <3>1, <3>2
  <2>16. ProcInv'
    BY <2>15 DEF ProcInv
  <2> QED BY <1>8, <1>9, <1>11, <2>7, <2>11, <2>16 DEF MemInv, PagesInv, Ledger
<1> QED BY <1>13, <1>14

-----------------------------------------------------------------------------
LEMMA MemStep == MemInv /\ [MemNext]_memVars => MemInv'
<1> SUFFICES ASSUME MemInv, [MemNext]_memVars PROVE MemInv'
  OBVIOUS
<1>1. ASSUME NEW cnt \in Counts, get_kernel_pages(cnt) PROVE MemInv'
  BY <1>1, KernelPages
<1>2. ASSUME NEW r \in pages, free_pages(r) PROVE MemInv'
  BY <1>2, FreePages
<1>3. ASSUME NEW size \in Sizes, sys_malloc(size) PROVE MemInv'
  BY <1>3, MallocLarge, MallocBlock, MallocArena, MallocWild DEF sys_malloc
<1>4. ASSUME NEW b \in live, sys_free(b) PROVE MemInv'
  BY <1>4, FreeLargeBlock, FreeBlock DEF sys_free
<1>5. ASSUME NEW p \in Proc, process_execute(p) \/ process_start(p) PROVE MemInv'
  BY <1>5, ProcessExecute, ProcessStart
<1>6. CASE UNCHANGED memVars
  <2>1. /\ mem' = mem /\ arena' = arena /\ free' = free /\ live' = live
        /\ pages' = pages /\ proc' = proc
    BY <1>6 DEF memVars
  <2>2. Holdings' = Holdings /\ Started' = Started
    BY <2>1 DEF Holdings, Arenas, Extent, Started, Procs
  <2> QED BY <2>1, <2>2 DEF MemInv, PagesInv, ProcInv
<1> QED BY <1>1, <1>2, <1>3, <1>4, <1>5, <1>6 DEF MemNext

(***************************************************************************)
(* Every call of the memory manager keeps its books: page table, bitmaps,  *)
(* holders of pages, arenas, free lists and blocks agree, for pools, page, *)
(* class and request sizes of any value the assumptions allow.             *)
(***************************************************************************)
THEOREM MemInvariance == MemSpec => []MemInv
<1>1. MemInit => MemInv
  BY MemInitially
<1> QED BY <1>1, MemStep, PTL DEF MemSpec

(***************************************************************************)
(* Virtual pages in use are used once, marked in kernel_vaddr, and have a  *)
(* frame: get_kernel_pages(), sys_malloc() and process_execute() never     *)
(* hand out pages of each other, whatever was freed before.                *)
(***************************************************************************)
THEOREM PagesAlwaysBacked == MemSpec => []PagesBacked
<1>1. MemInv => PagesBacked
  <2> SUFFICES ASSUME MemInv PROVE PagesBacked
    OBVIOUS
  <2>1. ASSUME NEW r \in Runs PROVE \E h \in Holdings : h[3] = r
    <3>1. CASE r \in ArenaRuns
      <4>1. PICK p \in Arenas : r = Extent(p)
        BY <3>1 DEF ArenaRuns, Extent
      <4>2. <<"arena", p, Extent(p)>> \in Holdings
        BY DEF Holdings
      <4> QED BY <4>1, <4>2
    <3>2. CASE r \in ProcRuns
      <4>1. PICK x \in Procs : r \in {run(proc[x].pcb, 1), run(proc[x].map, BitmapPages),
                                      run(proc[x].dir, 1)}
        BY <3>2 DEF ProcRuns
      <4>2. /\ <<"pcb", x, run(proc[x].pcb, 1)>> \in Holdings
            /\ <<"map", x, run(proc[x].map, BitmapPages)>> \in Holdings
            /\ <<"dir", x, run(proc[x].dir, 1)>> \in Holdings
        BY DEF Holdings
      <4> QED BY <4>1, <4>2
    <3>3. CASE r \in {run(x.start, x.cnt) : x \in pages}
      <4>1. PICK x \in pages : r = run(x.start, x.cnt)
        BY <3>3
      <4>2. <<"pages", x, run(x.start, x.cnt)>> \in Holdings
        BY DEF Holdings
      <4> QED BY <4>1, <4>2
    <3> QED BY <3>1, <3>2, <3>3 DEF Runs
  <2>2. \A g, h \in Holdings : g[3] = h[3] \/ g[3] \cap h[3] = {}
    BY DEF MemInv, PagesInv, Disjoint
  <2>3. \A h \in Holdings : \A p \in h[3] : p \in mem.v /\ mem.pte[p] \in mem.k
    BY DEF MemInv, PagesInv, Backed
  <2>4. \A r, s \in Runs : r = s \/ r \cap s = {}
    BY <2>1, <2>2
  <2>5. \A r \in Runs : \A p \in r : p \in mem.v /\ mem.pte[p] \in mem.k
    BY <2>1, <2>3
  <2> QED BY <2>4, <2>5 DEF PagesBacked
<1> QED BY <1>1, MemInvariance, PTL

(***************************************************************************)
(* No frame serves two purposes: not two entries of the kernel's page      *)
(* table, the stale ones that sys_free() leaves included, and neither page *)
(* table nor stack of a process.                                           *)
(***************************************************************************)
THEOREM FramesAlwaysExclusive == MemSpec => []FramesExclusive
<1>1. MemInv => FramesExclusive
  BY DEF MemInv, MemSound, ProcInv, FramesExclusive
<1> QED BY <1>1, MemInvariance, PTL

\* The places of an arena's blocks on the list are as many as its idle blocks.
LEMMA ListedAreIdle ==
  ASSUME MemInv, NEW p \in Arenas, ~arena[p].large
  PROVE  Cardinality(Listed(p)) = Cardinality(idle(arena, free, p))
<1> DEFINE c == arena[p].desc
           q == free[c]
           f == idle(arena, free, p)
           L == Listed(p)
           g == [i \in f |-> CHOOSE k \in L : q[k].idx = i]
<1>1. /\ p \in Page /\ arena[p] # NULL /\ HeapOK(arena, free, live)
  BY DEF MemInv, Arenas
<1>2. c \in Class /\ IsFiniteSet(f)
  BY <1>1, ArenaFacts
<1>3. /\ IsInjective(q)
      /\ \A x \in Range(q) : /\ x = [page |-> x.page, idx |-> x.idx]
                            /\ x.idx \in slots(arena[x.page])
  <2>1. IsInjective(q)
    BY <1>1, <1>2 DEF HeapOK, ListOK
  <2>2. ASSUME NEW x \in Range(q)
        PROVE  x = [page |-> x.page, idx |-> x.idx] /\ x.idx \in slots(arena[x.page])
    BY <1>1, <1>2, ListsElsewhere
  <2> QED BY <2>1, <2>2
<1>4. L = {k \in DOMAIN q : q[k].page = p}
  BY DEF Listed
<1>5. f = {i \in slots(arena[p]) : [page |-> p, idx |-> i] \in Range(q)}
  BY DEF idle
<1> HIDE DEF f, L, q, c
<1>6. \A k \in L : q[k] \in Range(q) /\ q[k] = [page |-> p, idx |-> q[k].idx] /\ q[k].idx \in f
  BY <1>3, <1>4, <1>5 DEF Range
<1>7. ASSUME NEW i \in f PROVE \E k \in L : q[k].idx = i
  <2>1. PICK k \in DOMAIN q : q[k] = [page |-> p, idx |-> i]
    BY <1>5 DEF Range
  <2> QED BY <1>4, <2>1
<1>8. \A k, l \in L : q[k].idx = q[l].idx => k = l
  BY <1>3, <1>4, <1>6 DEF IsInjective
<1>9. \A i \in f : g[i] \in L /\ q[g[i]].idx = i
  BY <1>7
<1>10. g \in [f -> L]
  BY <1>9
<1>11. DOMAIN g = f
  OBVIOUS
<1> HIDE DEF g
<1>12. g \in Injection(f, L)
  <2>1. \A i, j \in f : g[i] = g[j] => i = j
    BY <1>9
  <2>2. IsInjective(g)
    BY <1>11, <2>1 DEF IsInjective
  <2> QED BY <1>10, <2>1, <2>2 DEF Injection
<1>13. g \in Surjection(f, L)
  <2>1. ASSUME NEW k \in L PROVE g[q[k].idx] = k
    <3> DEFINE i == q[k].idx
    <3>1. i \in f
      BY <1>6
    <3> HIDE DEF i
    <3>2. g[i] \in L /\ q[g[i]].idx = q[k].idx
      BY <1>9, <3>1 DEF i
    <3> QED BY <1>8, <3>2 DEF i
  <2> QED BY <1>6, <1>10, <2>1 DEF Surjection
<1>14. ExistsBijection(f, L)
  BY <1>12, <1>13 DEF ExistsBijection, Bijection
<1>15. Cardinality(L) = Cardinality(f)
  BY <1>2, <1>14, FS_Bijection
<1> QED BY <1>15 DEF L, f

(***************************************************************************)
(* The heap hands out no block twice and loses none, no list holds a block *)
(* of a page that was given back, a block has room for the request, and no *)
(* assertion of sys_malloc(), sys_free() and free_pages() ever fails.      *)
(***************************************************************************)
THEOREM HeapAlwaysSound == MemSpec => []HeapSound
<1>1. MemInv => HeapSound
  <2> SUFFICES ASSUME MemInv PROVE HeapSound
    OBVIOUS
  <2>1. HeapOK(arena, free, live) /\ mem.fault # "assert"
    BY DEF MemInv
  <2>2. ASSUME NEW c \in Class, NEW i \in DOMAIN free[c], NEW j \in DOMAIN free[c]
        PROVE  /\ arena[free[c][i].page] # NULL /\ arena[free[c][i].page].desc = c
               /\ free[c][i] = free[c][j] => i = j
    <3>1. free[c][i] \in Range(free[c])
      BY DEF Range
    <3>2. arena[free[c][i].page] # NULL /\ arena[free[c][i].page].desc = c
      BY <2>1, <3>1, ListsElsewhere
    <3>3. free[c][i] = free[c][j] => i = j
      BY <2>1 DEF HeapOK, ListOK, IsInjective
    <3> QED BY <3>2, <3>3
  <2>3. \A b \in live : arena[b.page] # NULL
    BY <2>1 DEF HeapOK
  <2>4. ASSUME NEW p \in Arenas, arena[p].large
        PROVE  \E b \in live : /\ {x \in live : x.page = p} = {b}
                               /\ b.size + ArenaSize <= arena[p].cnt * PageSize
    <3>1. ArenaOK(arena, free, live, p)
      BY <2>1 DEF HeapOK, Arenas
    <3> QED BY <2>4, <3>1 DEF ArenaOK, LargeOK, used
  <2>5. ASSUME NEW p \in Arenas, ~arena[p].large
        PROVE  /\ Cardinality(Listed(p)) = arena[p].cnt
               /\ \A i \in Listed(p) : free[arena[p].desc][i].idx \notin Taken(p)
               /\ Cardinality(Taken(p)) + arena[p].cnt = block_per_arena(arena[p].desc)
               /\ \A b \in live : b.page = p => b.size <= block_size(arena[p].desc)
    <3> DEFINE a == arena[p]
               f == idle(arena, free, p)
               t == taken(live, p)
    <3>1. p \in Page /\ a # NULL
      BY DEF Arenas
    <3>2. /\ BlocksOK(a, f, live, p) /\ a.desc \in Class /\ IsFiniteSet(slots(a)) /\ IsFiniteSet(f)
          /\ Cardinality(slots(a)) = block_per_arena(a.desc)
      BY <2>1, <2>5, <3>1, ArenaFacts DEF ArenaOK
    <3>3. Taken(p) = t
      BY DEF Taken, taken, used
    <3>4. Cardinality(Listed(p)) = Cardinality(f)
      BY <2>5, ListedAreIdle
    <3>5. ASSUME NEW i \in Listed(p) PROVE free[a.desc][i].idx \notin Taken(p)
      <4> DEFINE x == free[a.desc][i]
      <4>1. x \in Range(free[a.desc]) /\ x.page = p
        BY DEF Listed, Range
      <4>2. x = [page |-> p, idx |-> x.idx] /\ x.idx \in slots(a)
        BY <2>1, <3>2, <4>1, ListsElsewhere
      <4>3. x.idx \in f
        BY <4>1, <4>2 DEF idle
      <4> QED BY <3>2, <3>3, <4>3 DEF BlocksOK
    <3> HIDE DEF a, f, t
    <3>6. f \cap t = {} /\ f \cup t = slots(a) /\ a.cnt = Cardinality(f)
      BY <3>2 DEF BlocksOK, t
    <3>7. IsFiniteSet(t)
      BY <3>2, <3>6, FS_Subset
    <3>8. Cardinality(slots(a)) = Cardinality(f) + Cardinality(t) - Cardinality({})
      BY <3>2, <3>6, <3>7, FS_Union
    <3>9. Cardinality({}) = 0 /\ Cardinality(f) \in Nat /\ Cardinality(t) \in Nat
      BY <3>2, <3>7, FS_EmptySet, FS_CardinalityType
    <3>10. Cardinality(t) + a.cnt = block_per_arena(a.desc)
      BY <3>2, <3>6, <3>8, <3>9
    <3>11. \A b \in live : b.page = p => b.size <= block_size(a.desc)
      BY <3>2 DEF BlocksOK, used
    <3> QED BY <3>3, <3>4, <3>5, <3>6, <3>10, <3>11 DEF a
  <2> QED BY <2>1, <2>2, <2>3, <2>4, <2>5 DEF HeapSound
<1> QED BY <1>1, MemInvariance, PTL
=============================================================================
