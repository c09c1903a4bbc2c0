--------------------------- MODULE StructureProofs ---------------------------
(***************************************************************************)
(* What the kernel keeps linked: the lists of list.c, of any length, and   *)
(* the partition tables of a disk with the file systems laid out in it.    *)
(*                                                                         *)
(* First the pointers of a list, as a chain of entries; then two lists     *)
(* that ListClients moves elements between; then partition_scan() and what *)
(* fs.c does with its partitions, for any disks, any sizes of the tables,  *)
(* any layout and any number of power failures.  What holds there depends  *)
(* on the disk, which the kernel does not check: each theorem names what   *)
(* it needs of Chained, Roomy, Apart and Ordered.                          *)
(***************************************************************************)
EXTENDS ListClients, FileSystem, FiniteSetTheorems, FunctionTheorems, SequenceTheorems, TLAPS

-----------------------------------------------------------------------------
(* Chains of pointers.                                                      *)

\* The pointers of a list as a chain c of n + 2 entries, from sentinel to
\* sentinel.
Chain(m, c, n) ==
  /\ \A k \in 0..n : m[c[k]].next = c[k + 1] /\ m[c[k + 1]].prev = c[k]
  /\ \A j, k \in 0..(n + 1) : c[j] = c[k] => j = k
  /\ m[c[0]].prev = NULL

Pointers(D) == [D -> [prev : D \cup {NULL}, next : D \cup {NULL}]]

\* Chains with an entry more in place k, and with one less.
Spliced(c, n, k, e) ==
  [j \in 0..(n + 2) |-> IF j < k THEN c[j] ELSE IF j = k THEN e ELSE c[j - 1]]

Cut(c, n, k) == [j \in 0..n |-> IF j < k THEN c[j] ELSE c[j + 1]]

Off(e, c, n) == \A j \in 0..(n + 1) : c[j] # e

\* list_insert_before() in front of entry k.
LEMMA InsertChain ==
  ASSUME NEW D, NEW m \in Pointers(D), NEW n \in Nat, NEW c \in [0..(n + 1) -> D], Chain(m, c, n),
         NEW k \in 1..(n + 1), NEW e \in D, Off(e, c, n)
  PROVE  /\ list_insert_before(m, c[k], e) \in Pointers(D)
         /\ Chain(list_insert_before(m, c[k], e), Spliced(c, n, k, e), n + 1)
         /\ \A x \in D : x \notin {c[k - 1], e, c[k]} => list_insert_before(m, c[k], e)[x] = m[x]
<1> DEFINE P == D \cup {NULL}
           a == c[k - 1]
           b == c[k]
           m1 == [m EXCEPT ![m[b].prev].next = e]
           m2 == [m1 EXCEPT ![e].prev = m1[b].prev]
           m3 == [m2 EXCEPT ![e].next = b]
           new == [m3 EXCEPT ![b].prev = e]
           d == [j \in 0..(n + 2) |-> IF j < k THEN c[j] ELSE IF j = k THEN e ELSE c[j - 1]]
<1>1. list_insert_before(m, b, e) = new
  BY DEF list_insert_before
<1>2. /\ k - 1 \in 0..n /\ k - 1 \in 0..(n + 1) /\ k \in 0..(n + 1) /\ (k - 1) + 1 = k
      /\ a \in D /\ b \in D /\ a # e /\ b # e
  <2>1. k - 1 \in 0..n /\ k - 1 \in 0..(n + 1) /\ k \in 0..(n + 1) /\ (k - 1) + 1 = k
    OBVIOUS
  <2> QED BY <2>1 DEF Off
<1>3. m[b].prev = a /\ a # b
  <2>1. m[c[k - 1]].next = c[(k - 1) + 1] /\ m[c[(k - 1) + 1]].prev = c[k - 1]
    BY <1>2 DEF Chain
  <2>2. a = b => k - 1 = k
    BY <1>2 DEF Chain
  <2> QED BY <1>2, <2>1, <2>2
<1>4. m \in [D -> [prev : P, next : P]] /\ D \subseteq P
  BY DEF Pointers
<1> HIDE DEF P, a, b
<1>5. /\ m1 \in [D -> [prev : P, next : P]]
      /\ \A x \in D : m1[x] = [prev |-> m[x].prev, next |-> IF x = a THEN e ELSE m[x].next]
  BY <1>2, <1>3, <1>4
<1> HIDE DEF m1
<1>6. /\ m2 \in [D -> [prev : P, next : P]]
      /\ \A x \in D : m2[x] = [prev |-> IF x = e THEN a ELSE m1[x].prev, next |-> m1[x].next]
  BY <1>2, <1>3, <1>4, <1>5
<1> HIDE DEF m2
<1>7. /\ m3 \in [D -> [prev : P, next : P]]
      /\ \A x \in D : m3[x] = [prev |-> m2[x].prev, next |-> IF x = e THEN b ELSE m2[x].next]
  BY <1>2, <1>4, <1>6
<1> HIDE DEF m3
<1>8. /\ new \in [D -> [prev : P, next : P]]
      /\ \A x \in D : new[x] = [prev |-> IF x = b THEN e ELSE m3[x].prev, next |-> m3[x].next]
  BY <1>2, <1>4, <1>7
<1> HIDE DEF new
<1>9. \A x \in D :
        /\ new[x].next = IF x = e THEN b ELSE IF x = a THEN e ELSE m[x].next
        /\ new[x].prev = IF x = b THEN e ELSE IF x = e THEN a ELSE m[x].prev
  BY <1>5, <1>6, <1>7, <1>8
<1>10. /\ \A x \in D : x \notin {a, e, b} => new[x] = [prev |-> m[x].prev, next |-> m[x].next]
       /\ \A x \in D : m[x] = [prev |-> m[x].prev, next |-> m[x].next]
  BY <1>4, <1>5, <1>6, <1>7, <1>8
<1>11. \A x \in D : x \notin {a, e, b} => new[x] = m[x]
  BY <1>10
<1>12. \A j \in 0..(n + 2) :
         /\ j < k => j \in 0..(n + 1) /\ d[j] = c[j]
         /\ j = k => d[j] = e
         /\ j > k => j - 1 \in 0..(n + 1) /\ d[j] = c[j - 1] /\ ~(j < k) /\ j # k
  OBVIOUS
<1>13. d \in [0..(n + 2) -> D]
  <2>1. \A j \in 0..(n + 2) : d[j] \in D
    <3> TAKE j \in 0..(n + 2)
    <3>1. j < k \/ j = k \/ j > k
      OBVIOUS
    <3> HIDE DEF d
    <3> QED BY <1>12, <3>1
  <2> QED BY <2>1
<1> HIDE DEF d
<1>14. \A j \in 0..(n + 1) : (c[j] = a <=> j = k - 1) /\ (c[j] = b <=> j = k)
  BY <1>2 DEF Chain, a, b
<1>141. \A j \in 0..(n + 1) : c[j] # e
  BY DEF Off
<1>15. ASSUME NEW j \in 0..(n + 1)
       PROVE  new[d[j]].next = d[j + 1] /\ new[d[j + 1]].prev = d[j]
  <2>1. CASE j < k - 1
    <3>1. j \in 0..(n + 2) /\ j + 1 \in 0..(n + 2) /\ j < k /\ j + 1 < k
          /\ j \in 0..n /\ j + 1 \in 0..(n + 1) /\ j # k /\ j # k - 1 /\ j + 1 # k
      BY <2>1
    <3>2. d[j] = c[j] /\ d[j + 1] = c[j + 1] /\ c[j] \in D /\ c[j + 1] \in D
      BY <1>12, <3>1
    <3>3. m[c[j]].next = c[j + 1] /\ m[c[j + 1]].prev = c[j]
      BY <3>1 DEF Chain
    <3>4. c[j] # a /\ c[j] # e /\ c[j + 1] # b /\ c[j + 1] # e
      BY <1>14, <1>141, <3>1
    <3> QED BY <1>9, <3>2, <3>3, <3>4
  <2>2. CASE j = k - 1
    <3>1. j \in 0..(n + 2) /\ j + 1 = k /\ j + 1 \in 0..(n + 2) /\ j < k
      BY <2>2
    <3>2. d[j] = a /\ d[j + 1] = e
      BY <1>12, <2>2, <3>1 DEF a
    <3> QED BY <1>2, <1>9, <3>2
  <2>3. CASE j = k
    <3>1. j \in 0..(n + 2) /\ j + 1 > k /\ j + 1 \in 0..(n + 2) /\ (j + 1) - 1 = k
      BY <2>3
    <3>2. d[j] = e /\ d[j + 1] = b
      BY <1>12, <2>3, <3>1 DEF b
    <3> QED BY <1>2, <1>9, <3>2
  <2>4. CASE j > k
    <3>1. /\ j \in 0..(n + 2) /\ j + 1 \in 0..(n + 2) /\ j + 1 > k /\ (j + 1) - 1 = j
          /\ j - 1 \in 0..n /\ (j - 1) + 1 = j /\ j - 1 \in 0..(n + 1) /\ j - 1 # k - 1 /\ j # k
      BY <2>4
    <3>2. d[j] = c[j - 1] /\ d[j + 1] = c[j] /\ c[j - 1] \in D /\ c[j] \in D
      BY <1>12, <2>4, <3>1
    <3>3. m[c[j - 1]].next = c[j] /\ m[c[j]].prev = c[j - 1]
      BY <3>1 DEF Chain
    <3>4. c[j - 1] # a /\ c[j - 1] # e /\ c[j] # b /\ c[j] # e
      BY <1>14, <1>141, <3>1
    <3> QED BY <1>9, <3>2, <3>3, <3>4
  <2> QED BY <2>1, <2>2, <2>3, <2>4
<1>16. ASSUME NEW i \in 0..(n + 2), NEW j \in 0..(n + 2), d[i] = d[j]
       PROVE  i = j
  <2>1. /\ i < k \/ i = k \/ i > k
        /\ j < k \/ j = k \/ j > k
    OBVIOUS
  <2>2. \A x, y \in 0..(n + 1) : c[x] = c[y] => x = y
    BY DEF Chain
  <2> QED BY <1>12, <1>141, <1>16, <2>1, <2>2
<1>17. Chain(new, d, n + 1)
  <2>1. (n + 1) + 1 = n + 2 /\ 0 \in 0..(n + 2) /\ 0 < k /\ 0 \in 0..(n + 1) /\ 0 # k
    OBVIOUS
  <2>2. d[0] = c[0] /\ c[0] \in D /\ c[0] # b /\ c[0] # e
    BY <1>12, <1>14, <1>141, <2>1
  <2>3. new[d[0]].prev = NULL
    BY <1>9, <2>2 DEF Chain
  <2> QED BY <1>15, <1>16, <2>1, <2>3 DEF Chain
<1> QED BY <1>1, <1>8, <1>11, <1>13, <1>17 DEF Pointers, P, a, b, d, Spliced

\* list_remove() of entry k.
LEMMA RemoveChain ==
  ASSUME NEW D, NEW m \in Pointers(D), NEW n \in Nat, NEW c \in [0..(n + 1) -> D], Chain(m, c, n),
         NEW k \in 1..n
  PROVE  /\ list_remove(m, c[k]) \in Pointers(D)
         /\ Chain(list_remove(m, c[k]), Cut(c, n, k), n - 1)
         /\ \A x \in D : x \notin {c[k - 1], c[k + 1]} => list_remove(m, c[k])[x] = m[x]
<1> DEFINE P == D \cup {NULL}
           a == c[k - 1]
           b == c[k + 1]
           e == c[k]
           m1 == [m EXCEPT ![m[e].prev].next = m[e].next]
           new == [m1 EXCEPT ![m1[e].next].prev = m1[e].prev]
           d == [j \in 0..n |-> IF j < k THEN c[j] ELSE c[j + 1]]
<1>1. list_remove(m, e) = new
  BY DEF list_remove
<1>2. /\ k - 1 \in 0..n /\ k - 1 \in 0..(n + 1) /\ k \in 0..n /\ k \in 0..(n + 1)
      /\ k + 1 \in 0..(n + 1) /\ (k - 1) + 1 = k
  OBVIOUS
<1>3. /\ a \in D /\ b \in D /\ e \in D
      /\ m[e].prev = a /\ m[e].next = b
  <2>1. m[c[k - 1]].next = c[(k - 1) + 1] /\ m[c[(k - 1) + 1]].prev = c[k - 1]
    BY <1>2 DEF Chain
  <2>2. m[c[k]].next = c[k + 1]
    BY <1>2 DEF Chain
  <2> QED BY <1>2, <2>1, <2>2
<1>4. \A j \in 0..(n + 1) :
        (c[j] = a <=> j = k - 1) /\ (c[j] = b <=> j = k + 1) /\ (c[j] = e <=> j = k)
  BY <1>2 DEF Chain
<1>5. a # e /\ a # b /\ b # e
  <2>1. k # k - 1 /\ k - 1 # k + 1 /\ k # k + 1
    OBVIOUS
  <2> QED BY <1>2, <1>4, <2>1
<1>6. m \in [D -> [prev : P, next : P]] /\ D \subseteq P
  BY DEF Pointers
<1> HIDE DEF P, a, b, e
<1>7. /\ m1 \in [D -> [prev : P, next : P]]
      /\ \A x \in D : m1[x] = [prev |-> m[x].prev, next |-> IF x = a THEN b ELSE m[x].next]
  BY <1>3, <1>6
<1>8. m1[e].next = b /\ m1[e].prev = a
  BY <1>3, <1>5, <1>7
<1> HIDE DEF m1
<1>9. /\ new \in [D -> [prev : P, next : P]]
      /\ \A x \in D : new[x] = [prev |-> IF x = b THEN a ELSE m1[x].prev, next |-> m1[x].next]
  BY <1>3, <1>6, <1>7, <1>8
<1> HIDE DEF new
<1>10. \A x \in D :
        /\ new[x].next = IF x = a THEN b ELSE m[x].next
        /\ new[x].prev = IF x = b THEN a ELSE m[x].prev
  BY <1>7, <1>9
<1>11. /\ \A x \in D : x \notin {a, b} => new[x] = [prev |-> m[x].prev, next |-> m[x].next]
       /\ \A x \in D : m[x] = [prev |-> m[x].prev, next |-> m[x].next]
  BY <1>6, <1>7, <1>9
<1>12. \A x \in D : x \notin {a, b} => new[x] = m[x]
  BY <1>11
<1>13. \A j \in 0..n : /\ j \in 0..(n + 1) /\ j + 1 \in 0..(n + 1)
                       /\ d[j] = IF j < k THEN c[j] ELSE c[j + 1]
  OBVIOUS
<1>14. d \in [0..n -> D]
  BY <1>13
<1> HIDE DEF d
<1>15. ASSUME NEW j \in 0..(n - 1)
       PROVE  new[d[j]].next = d[j + 1] /\ new[d[j + 1]].prev = d[j]
  <2>0. /\ j \in 0..n /\ j + 1 \in 0..n /\ j + 2 \in 0..(n + 1)
        /\ (j + 1) + 1 = j + 2
        /\ c[j] \in D /\ c[j + 1] \in D /\ c[j + 2] \in D
    <3>1. j \in 0..n /\ j + 1 \in 0..n /\ j + 2 \in 0..(n + 1) /\ (j + 1) + 1 = j + 2
          /\ j \in 0..(n + 1) /\ j + 1 \in 0..(n + 1)
      OBVIOUS
    <3> QED BY <3>1
  <2>1. CASE j < k - 1
    <3>1. j < k /\ j + 1 < k /\ j # k - 1 /\ j + 1 # k + 1
      BY <2>1
    <3>2. d[j] = c[j] /\ d[j + 1] = c[j + 1]
      BY <1>13, <2>0, <3>1
    <3>3. m[c[j]].next = c[j + 1] /\ m[c[j + 1]].prev = c[j]
      BY <2>0 DEF Chain
    <3>4. c[j] # a /\ c[j + 1] # b
      BY <1>4, <1>13, <2>0, <3>1
    <3> QED BY <1>10, <2>0, <3>2, <3>3, <3>4
  <2>2. CASE j = k - 1
    <3>1. j < k /\ ~(j + 1 < k) /\ j + 1 = k /\ j + 2 = k + 1
      BY <2>2
    <3>2. d[j] = a /\ d[j + 1] = b
      BY <1>13, <2>0, <2>2, <3>1 DEF a, b
    <3> QED BY <1>3, <1>10, <3>2
  <2>3. CASE j >= k
    <3>1. ~(j < k) /\ ~(j + 1 < k) /\ j + 1 # k - 1 /\ j + 2 # k + 1
      BY <2>3
    <3>2. d[j] = c[j + 1] /\ d[j + 1] = c[j + 2]
      BY <1>13, <2>0, <3>1
    <3>3. m[c[j + 1]].next = c[j + 2] /\ m[c[j + 2]].prev = c[j + 1]
      BY <2>0 DEF Chain
    <3>4. c[j + 1] # a /\ c[j + 2] # b
      BY <1>4, <1>13, <2>0, <3>1
    <3> QED BY <1>10, <2>0, <3>2, <3>3, <3>4
  <2> QED BY <2>1, <2>2, <2>3
<1>16. ASSUME NEW i \in 0..n, NEW j \in 0..n, d[i] = d[j]
       PROVE  i = j
  <2>1. \A x, y \in 0..(n + 1) : c[x] = c[y] => x = y
    BY DEF Chain
  <2> QED BY <1>13, <1>16, <2>1
<1>17. Chain(new, d, n - 1)
  <2>1. (n - 1) + 1 = n /\ 0 \in 0..n /\ 0 < k /\ 0 \in 0..(n + 1) /\ 0 # k + 1
    OBVIOUS
  <2>2. d[0] = c[0] /\ c[0] \in D /\ c[0] # b
    BY <1>4, <1>13, <2>1
  <2>3. new[d[0]].prev = NULL
    BY <1>10, <2>2 DEF Chain
  <2> QED BY <1>15, <1>16, <2>1, <2>3 DEF Chain
<1> QED BY <1>1, <1>9, <1>12, <1>14, <1>17 DEF Pointers, P, a, b, d, e, Cut

LEMMA Least ==
  ASSUME NEW S \in SUBSET Nat, S # {}
  PROVE  \E x \in S : \A y \in S : x <= y
<1>1. \E x \in S : \A y \in S : ~(<<y, x>> \in OpToRel(<, Nat))
  BY NatLessThanWellFounded, WFMin
<1>2. PICK x \in S : \A y \in S : ~(<<y, x>> \in OpToRel(<, Nat))
  BY <1>1
<1>3. ASSUME NEW y \in S PROVE x <= y
  <2>1. <<y, x>> \in Nat \X Nat /\ ~(y < x)
    BY <1>2 DEF OpToRel
  <2> QED BY <2>1
<1> QED BY <1>3

\* Induction: a set with 0 and with every successor holds every natural.
LEMMA Induction ==
  ASSUME NEW B \in SUBSET Nat, 0 \in B, \A n \in Nat : n \in B => n + 1 \in B
  PROVE  B = Nat
<1> SUFFICES ASSUME Nat \ B # {} PROVE FALSE
  OBVIOUS
<1>1. PICK n \in Nat \ B : \A y \in Nat \ B : n <= y
  BY Least
<1>2. n - 1 \in Nat /\ (n - 1) + 1 = n /\ ~(n <= n - 1)
  BY <1>1
<1> QED BY <1>1, <1>2

\* A chain of distinct entries is no longer than there are entries.
LEMMA ChainFits ==
  ASSUME NEW D, IsFiniteSet(D), NEW n \in Nat, NEW c \in [0..(n + 1) -> D],
         \A j, k \in 0..(n + 1) : c[j] = c[k] => j = k
  PROVE  Cardinality(D) \in Nat /\ n + 2 <= Cardinality(D)
<1>1. c \in Injection(0..(n + 1), D)
  BY DEF Injection, IsInjective
<1>2. Cardinality(0..(n + 1)) <= Cardinality(D) /\ Cardinality(D) \in Nat
  BY <1>1, FS_Injection, FS_CardinalityType
<1>3. Cardinality(0..(n + 1)) = n + 2
  <2>1. 0 \in Int /\ n + 1 \in Int /\ ~(0 > n + 1) /\ (n + 1) - 0 + 1 = n + 2
    OBVIOUS
  <2>2. Cardinality(0..(n + 1)) = IF 0 > n + 1 THEN 0 ELSE (n + 1) - 0 + 1
    BY <2>1, FS_Interval
  <2> QED BY <2>1, <2>2
<1> QED BY <1>2, <1>3

\* The entries of a list that holds q, with the sentinels.
Places(pl, q) ==
  [k \in 0..(Len(q) + 1) |->
     IF k = 0 THEN pl.header ELSE IF k = Len(q) + 1 THEN pl.tailer ELSE q[k]]

Walk(m, pl, n, h) ==
  h = [i \in 0..n |->
         IF i = 0 THEN m[pl.header].next
         ELSE LET e == h[i - 1] IN IF e \in {pl.tailer, NULL} THEN e ELSE m[e].next]

\* A list that holds q is traversed as q.
LEMMA VisitedIs ==
  ASSUME NEW D, IsFiniteSet(D), NULL \notin D, NEW m \in Pointers(D), NEW q \in Seq(D), NEW pl,
         Places(pl, q) \in [0..(Len(q) + 1) -> D], Chain(m, Places(pl, q), Len(q))
  PROVE  visited(m, pl) = q
<1> DEFINE N == Cardinality(D)
           n == Len(q)
           c == Places(pl, q)
           h == [i \in 0..N |-> IF i <= n THEN c[i + 1] ELSE pl.tailer]
           f == CHOOSE g : Walk(m, pl, N, g)
           ends == {i \in 0..N : f[i] = pl.tailer}
           least == CHOOSE k \in ends : \A j \in ends : k <= j
           r == [i \in 1..least |-> f[i - 1]]
<1>1. n \in Nat /\ N \in Nat /\ n + 2 <= N
  BY <1>1 DEF Places, n, c
<1>2. /\ c[0] = pl.header /\ c[n + 1] = pl.tailer
      /\ \A k \in 1..n : c[k] = q[k]
  BY <1>1 DEF Places
<1>3. DOMAIN m = D
  BY DEF Pointers
<1>4. visited(m, pl) = IF ends = {} THEN NULL ELSE r
  BY <1>3 DEF visited, Walk
<1> HIDE DEF c, n, N, f
<1>5. /\ c \in [0..(n + 1) -> D]
      /\ \A k \in 0..n : m[c[k]].next = c[k + 1]
      /\ \A j, k \in 0..(n + 1) : c[j] = c[k] => j = k
  BY DEF Chain, c, n
<1>6. \A k \in 0..(n + 1) : c[k] = pl.tailer => k = n + 1
  BY <1>1, <1>2, <1>5
<1>7. Walk(m, pl, N, f)
  <2>1. \A i \in 0..N :
          h[i] = IF i = 0 THEN m[pl.header].next
                 ELSE IF h[i - 1] \in {pl.tailer, NULL} THEN h[i - 1] ELSE m[h[i - 1]].next
    <3> TAKE i \in 0..N
    <3>1. CASE i = 0
      <4>1. 0 \in 0..n /\ 0 <= n /\ 0 + 1 = 1 /\ 0 \in 0..N
        BY <1>1
      <4>2. h[0] = c[1] /\ m[c[0]].next = c[1]
        BY <1>5, <4>1
      <4> QED BY <1>2, <3>1, <4>2
    <3>2. CASE i # 0 /\ i <= n
      <4>1. i - 1 \in 0..N /\ i - 1 <= n /\ (i - 1) + 1 = i
            /\ i \in 0..n /\ i \in 0..(n + 1) /\ i # n + 1
        BY <1>1, <3>2
      <4>2. h[i - 1] = c[i] /\ h[i] = c[i + 1]
        BY <3>2, <4>1
      <4>3. c[i] \in D /\ c[i] # pl.tailer
        BY <1>5, <1>6, <4>1
      <4> HIDE DEF h
      <4> QED BY <1>5, <3>2, <4>1, <4>2, <4>3
    <3>3. CASE i > n
      <4>1. i - 1 \in 0..N /\ i # 0 /\ (i - 1 <= n => (i - 1) + 1 = n + 1) /\ ~(i <= n)
        BY <1>1, <3>3
      <4>2. h[i] = pl.tailer /\ h[i - 1] = pl.tailer
        BY <1>2, <4>1
      <4> HIDE DEF h
      <4> QED BY <4>1, <4>2
    <3> QED BY <1>1, <3>1, <3>2, <3>3
  <2>2. h = [i \in 0..N |-> h[i]]
    OBVIOUS
  <2> HIDE DEF h
  <2>3. Walk(m, pl, N, h)
    BY <2>1, <2>2 DEF Walk
  <2> QED BY <2>3 DEF f
<1>8. /\ f[0] = m[pl.header].next
      /\ \A i \in Nat : i + 1 \in 0..N =>
           f[i + 1] = IF f[i] \in {pl.tailer, NULL} THEN f[i] ELSE m[f[i]].next
  <2>1. \A i \in 0..N : f[i] = IF i = 0 THEN m[pl.header].next
          ELSE IF f[i - 1] \in {pl.tailer, NULL} THEN f[i - 1] ELSE m[f[i - 1]].next
    BY <1>7 DEF Walk
  <2>2. 0 \in 0..N
    BY <1>1
  <2>3. ASSUME NEW i \in Nat, i + 1 \in 0..N
        PROVE  f[i + 1] = IF f[i] \in {pl.tailer, NULL} THEN f[i] ELSE m[f[i]].next
    <3>1. i + 1 # 0 /\ (i + 1) - 1 = i
      OBVIOUS
    <3> QED BY <2>1, <2>3, <3>1
  <2> QED BY <2>1, <2>2, <2>3
<1>9. \A i \in 0..n : f[i] = c[i + 1]
  <2> DEFINE B == {i \in Nat : i <= n => f[i] = c[i + 1]}
  <2>1. 0 \in B
    <3>1. 0 \in 0..n
      BY <1>1
    <3>2. m[c[0]].next = c[0 + 1]
      BY <1>5, <3>1
    <3> QED BY <1>2, <1>8, <3>2
  <2>2. ASSUME NEW i \in Nat, i \in B PROVE i + 1 \in B
    <3>1. SUFFICES ASSUME i + 1 <= n PROVE f[i + 1] = c[(i + 1) + 1]
      OBVIOUS
    <3>2. i <= n /\ i + 1 \in 0..n /\ i + 1 \in 0..N /\ i + 1 \in 0..(n + 1) /\ i + 1 # n + 1
      BY <1>1, <3>1
    <3>3. f[i] = c[i + 1] /\ c[i + 1] \in D /\ c[i + 1] # pl.tailer
      BY <1>5, <1>6, <2>2, <3>2
    <3>4. m[c[i + 1]].next = c[(i + 1) + 1]
      BY <1>5, <3>2
    <3> QED BY <1>8, <3>2, <3>3, <3>4
  <2>3. B = Nat
    <3> HIDE DEF B
    <3>1. B \in SUBSET Nat
      BY DEF B
    <3> QED BY <2>1, <2>2, <3>1, Induction
  <2> QED BY <1>1, <2>3
<1>10. n \in ends /\ \A j \in ends : n <= j
  <2>1. n \in 0..n /\ n \in 0..N
    BY <1>1
  <2>2. f[n] = pl.tailer
    BY <1>2, <1>9, <2>1
  <2>3. ASSUME NEW j \in 0..N, j < n PROVE f[j] # pl.tailer
    <3>1. j \in 0..n /\ j + 1 \in 0..(n + 1) /\ j + 1 # n + 1
      BY <1>1, <2>3
    <3> QED BY <1>6, <1>9, <3>1
  <2> QED BY <1>1, <2>1, <2>2, <2>3
<1>11. least = n
  <2>1. \A j \in ends : j \in Nat
    BY <1>1
  <2> HIDE DEF ends
  <2>2. least \in ends /\ \A j \in ends : least <= j
    BY <1>10
  <2> HIDE DEF least
  <2> QED BY <1>1, <1>10, <2>1, <2>2
<1>12. visited(m, pl) = [i \in 1..n |-> f[i - 1]]
  <2>1. ends # {}
    BY <1>10
  <2> HIDE DEF ends, least
  <2> QED BY <1>4, <1>11, <2>1
<1>13. \A i \in 1..n : f[i - 1] = q[i]
  <2> TAKE i \in 1..n
  <2>1. i - 1 \in 0..n /\ (i - 1) + 1 = i
    BY <1>1
  <2> QED BY <1>2, <1>9, <2>1
<1>14. q = [i \in 1..n |-> q[i]]
  BY DEF n
<1> QED BY <1>12, <1>13, <1>14

-----------------------------------------------------------------------------
(* Two lists.                                                               *)

Entries == Elem \cup {h1, t1, h2, t2}

\* The place k of list i, its sentinels included.
Place(i) == Places(plist[i], seqs[i])

ListInv ==
  /\ mem \in Pointers(Entries)
  /\ seqs \in [L -> Seq(Elem)]
  /\ \A i \in L : Chain(mem, Place(i), Len(seqs[i]))
  /\ \A i, j \in L : i # j =>
       \A x \in 1..Len(seqs[i]) : \A y \in 1..Len(seqs[j]) : seqs[i][x] # seqs[j][y]

LEMMA Sentinels ==
  /\ h1 # t1 /\ h1 # h2 /\ h1 # t2 /\ t1 # h2 /\ t1 # t2 /\ h2 # t2
  /\ {h1, t1, h2, t2} \cap Elem = {}
  /\ IsFiniteSet(Entries) /\ NULL \notin Entries
<1>1. IsFiniteSet(Elem) /\ {h1, t1, h2, t2} \cap Elem = {} /\ NULL \notin Entries
      /\ Cardinality({h1, t1, h2, t2}) = 4
  BY ElemAssumption DEF Entries
<1>2. ASSUME NEW a, NEW b, NEW c, {h1, t1, h2, t2} \subseteq {a, b, c} PROVE FALSE
  <2>1. /\ IsFiniteSet({}) /\ Cardinality({}) = 0
    BY FS_EmptySet
  <2>2. IsFiniteSet({a}) /\ Cardinality({a}) = 1
    BY FS_Singleton
  <2>3. IsFiniteSet({a} \cup {b}) /\ Cardinality({a} \cup {b}) \in {1, 2}
    BY <2>2, FS_AddElement
  <2>4. IsFiniteSet(({a} \cup {b}) \cup {c}) /\ Cardinality(({a} \cup {b}) \cup {c}) \in {1, 2, 3}
    BY <2>3, FS_AddElement
  <2>5. ({a} \cup {b}) \cup {c} = {a, b, c}
    OBVIOUS
  <2>6. Cardinality({h1, t1, h2, t2}) <= Cardinality({a, b, c})
    BY <1>2, <2>4, <2>5, FS_Subset
  <2> QED BY <1>1, <2>4, <2>5, <2>6
<1>3. h1 # t1 /\ h1 # h2 /\ h1 # t2 /\ t1 # h2 /\ t1 # t2 /\ h2 # t2
  <2>1. h1 = t1 => {h1, t1, h2, t2} \subseteq {h1, h2, t2}
    OBVIOUS
  <2>2. h1 = h2 => {h1, t1, h2, t2} \subseteq {h1, t1, t2}
    OBVIOUS
  <2>3. h1 = t2 => {h1, t1, h2, t2} \subseteq {h1, t1, h2}
    OBVIOUS
  <2>4. t1 = h2 => {h1, t1, h2, t2} \subseteq {h1, t1, t2}
    OBVIOUS
  <2>5. t1 = t2 => {h1, t1, h2, t2} \subseteq {h1, t1, h2}
    OBVIOUS
  <2>6. h2 = t2 => {h1, t1, h2, t2} \subseteq {h1, t1, h2}
    OBVIOUS
  <2> QED BY <1>2, <2>1, <2>2, <2>3, <2>4, <2>5, <2>6
<1>4. IsFiniteSet(((((Elem \cup {h1}) \cup {t1}) \cup {h2}) \cup {t2}))
  BY <1>1, FS_AddElement
<1>5. ((((Elem \cup {h1}) \cup {t1}) \cup {h2}) \cup {t2}) = Entries
  BY DEF Entries
<1> QED BY <1>1, <1>3, <1>4, <1>5

\* The places of a list of elements.
LEMMA PlacesOf ==
  ASSUME NEW i \in L, NEW q \in Seq(Elem)
  PROVE  LET n == Len(q)
             c == Places(plist[i], q)
         IN /\ n \in Nat /\ q \in Seq(Entries)
            /\ plist[i].header = c[0] /\ plist[i].tailer = c[n + 1]
            /\ c \in [0..(n + 1) -> Entries]
            /\ \A k \in 1..n : c[k] = q[k] /\ c[k] \in Elem
            /\ c[0] = IF i = 1 THEN h1 ELSE h2
            /\ c[n + 1] = IF i = 1 THEN t1 ELSE t2
            /\ \A k \in 0..(n + 1) : k = 0 \/ k = n + 1 \/ k \in 1..n
<1> DEFINE n == Len(q)
           c == Places(plist[i], q)
<1>1. n \in Nat /\ \A k \in 1..n : q[k] \in Elem
  OBVIOUS
<1>2. /\ plist[i].header = IF i = 1 THEN h1 ELSE h2
      /\ plist[i].tailer = IF i = 1 THEN t1 ELSE t2
  BY DEF plist, L
<1>3. q \in Seq(Entries)
  <2>1. Elem \subseteq Entries
    BY DEF Entries
  <2> QED BY <2>1, SeqMonotonic
<1> HIDE DEF n
<1>4. /\ c = [k \in 0..(n + 1) |-> c[k]]
      /\ \A k \in 0..(n + 1) :
        c[k] = IF k = 0 THEN plist[i].header ELSE IF k = n + 1 THEN plist[i].tailer ELSE q[k]
  BY DEF Places, n
<1> HIDE DEF c
<1>5. /\ 0 \in 0..(n + 1) /\ n + 1 \in 0..(n + 1) /\ n + 1 # 0
      /\ \A k \in 1..n : k \in 0..(n + 1) /\ k # 0 /\ k # n + 1
      /\ \A k \in 0..(n + 1) : k = 0 \/ k = n + 1 \/ k \in 1..n
  BY <1>1
<1>6. c[0] = plist[i].header /\ c[n + 1] = plist[i].tailer /\ \A k \in 1..n : c[k] = q[k]
  BY <1>4, <1>5
<1>7. \A k \in 0..(n + 1) : c[k] \in Entries
  BY <1>1, <1>2, <1>5, <1>6 DEF Entries
<1>8. c \in [0..(n + 1) -> Entries]
  BY <1>4, <1>7
<1> QED BY <1>1, <1>2, <1>3, <1>5, <1>6, <1>8 DEF n, c

\* The traversals return the sequences.
LEMMA Traversed ==
  ASSUME ListInv, NEW i \in L PROVE visited(mem, plist[i]) = seqs[i] /\ seqs[i] # NULL
<1>1. seqs[i] \in Seq(Elem) /\ Chain(mem, Places(plist[i], seqs[i]), Len(seqs[i]))
  BY DEF ListInv, Place
<1>2. /\ seqs[i] \in Seq(Entries)
      /\ Places(plist[i], seqs[i]) \in [0..(Len(seqs[i]) + 1) -> Entries]
  BY <1>1, PlacesOf
<1>3. visited(mem, plist[i]) = seqs[i]
  BY <1>1, <1>2, Sentinels, VisitedIs DEF ListInv
<1> QED BY <1>1, <1>3, ElemAssumption

\* Nothing is in two places.
LEMMA ListsApart ==
  ASSUME ListInv, NEW i \in L, NEW j \in L, i # j
  PROVE  \A x \in 0..(Len(seqs[i]) + 1) : \A y \in 0..(Len(seqs[j]) + 1) :
            Place(i)[x] # Place(j)[y]
<1>1. seqs[i] \in Seq(Elem) /\ seqs[j] \in Seq(Elem)
  BY DEF ListInv
<1>2. ASSUME NEW k \in L, seqs[k] \in Seq(Elem), NEW z \in 0..(Len(seqs[k]) + 1)
      PROVE  \/ z \in 1..Len(seqs[k]) /\ Place(k)[z] \in Elem /\ Place(k)[z] = seqs[k][z]
             \/ Place(k)[z] = IF k = 1 THEN h1 ELSE h2
             \/ Place(k)[z] = IF k = 1 THEN t1 ELSE t2
  <2> DEFINE c == Places(plist[k], seqs[k])
  <2>1. /\ \A y \in 1..Len(seqs[k]) : c[y] = seqs[k][y] /\ c[y] \in Elem
        /\ c[0] = IF k = 1 THEN h1 ELSE h2
        /\ c[Len(seqs[k]) + 1] = IF k = 1 THEN t1 ELSE t2
        /\ z = 0 \/ z = Len(seqs[k]) + 1 \/ z \in 1..Len(seqs[k])
    BY <1>2, PlacesOf
  <2> HIDE DEF c
  <2>2. Place(k)[z] = c[z]
    BY DEF Place, c
  <2> QED BY <2>1, <2>2
<1> SUFFICES ASSUME NEW x \in 0..(Len(seqs[i]) + 1), NEW y \in 0..(Len(seqs[j]) + 1)
             PROVE  Place(i)[x] # Place(j)[y]
  OBVIOUS
<1> DEFINE a == Place(i)[x]
           b == Place(j)[y]
<1>3. \/ x \in 1..Len(seqs[i]) /\ a \in Elem /\ a = seqs[i][x]
      \/ a = IF i = 1 THEN h1 ELSE h2
      \/ a = IF i = 1 THEN t1 ELSE t2
  BY <1>1, <1>2
<1>4. \/ y \in 1..Len(seqs[j]) /\ b \in Elem /\ b = seqs[j][y]
      \/ b = IF j = 1 THEN h1 ELSE h2
      \/ b = IF j = 1 THEN t1 ELSE t2
  BY <1>1, <1>2
<1>5. (i = 1 /\ j = 2) \/ (i = 2 /\ j = 1)
  BY DEF L
<1> HIDE DEF a, b
<1>6. a # b
  BY <1>3, <1>4, <1>5, Sentinels DEF ListInv
<1> QED BY <1>6 DEF a, b

\* The other list, whose entries are not touched.
LEMMA OtherList ==
  ASSUME ListInv, NEW i \in L, NEW new,
         \A x \in 0..(Len(seqs[i]) + 1) : new[Place(i)[x]] = mem[Place(i)[x]]
  PROVE  Chain(new, Place(i), Len(seqs[i]))
<1> DEFINE n == Len(seqs[i])
           c == Place(i)
<1>1. n \in Nat /\ Chain(mem, c, n)
  BY DEF ListInv
<1> HIDE DEF n, c
<1>2. \A k \in 0..n : k \in 0..(n + 1) /\ k + 1 \in 0..(n + 1)
  BY <1>1
<1>3. 0 \in 0..(n + 1)
  BY <1>1
<1> QED BY <1>1, <1>2, <1>3 DEF Chain, n, c

LEMMA Inserted ==
  ASSUME ListInv, NEW i \in L, NEW k \in 1..(Len(seqs[i]) + 1), NEW e \in Elem,
         \A j \in L : \A x \in 1..Len(seqs[j]) : seqs[j][x] # e,
         mem' = list_insert_before(mem, Place(i)[k], e),
         NEW q \in Seq(Elem), seqs' = [seqs EXCEPT ![i] = q], Len(q) = Len(seqs[i]) + 1,
         \A j \in 1..Len(q) :
           q[j] = IF j < k THEN seqs[i][j] ELSE IF j = k THEN e ELSE seqs[i][j - 1]
  PROVE  ListInv'
<1> DEFINE n == Len(seqs[i])
           c == Place(i)
           d == [j \in 0..(n + 2) |-> IF j < k THEN c[j] ELSE IF j = k THEN e ELSE c[j - 1]]
<1>1. /\ n \in Nat /\ seqs[i] \in Seq(Elem) /\ seqs \in [L -> Seq(Elem)]
      /\ Chain(mem, c, n) /\ mem \in Pointers(Entries)
  BY DEF ListInv
<1>2. /\ c \in [0..(n + 1) -> Entries] /\ plist[i].header = c[0] /\ plist[i].tailer = c[n + 1]
      /\ \A j \in 1..n : c[j] = seqs[i][j]
  BY <1>1, PlacesOf DEF Place
<1>3. e \in Entries /\ \A j \in L : \A x \in 0..(Len(seqs[j]) + 1) : Place(j)[x] # e
  <2>1. ASSUME NEW j \in L, NEW x \in 0..(Len(seqs[j]) + 1) PROVE Place(j)[x] # e
    <3>1. seqs[j] \in Seq(Elem)
      BY <1>1
    <3>2. \/ x \in 1..Len(seqs[j]) /\ Place(j)[x] = seqs[j][x]
          \/ Place(j)[x] \in {h1, h2, t1, t2}
      BY <3>1, PlacesOf DEF Place
    <3> QED BY <3>2, Sentinels
  <2> QED BY <2>1 DEF Entries
<1>4. /\ mem' \in Pointers(Entries)
      /\ Chain(mem', d, n + 1)
      /\ \A x \in Entries : x \notin {c[k - 1], e, c[k]} => mem'[x] = mem[x]
  <2>1. Off(e, c, n)
    BY <1>3 DEF Off
  <2>2. k \in 1..(n + 1) /\ mem' = list_insert_before(mem, c[k], e)
    OBVIOUS
  <2>3. d = Spliced(c, n, k, e)
    BY DEF Spliced
  <2> HIDE DEF n, c, d
  <2>4. /\ n \in Nat /\ c \in [0..(n + 1) -> Entries] /\ Chain(mem, c, n)
        /\ mem \in Pointers(Entries) /\ e \in Entries
    BY <1>1, <1>2, <1>3
  <2>5. /\ list_insert_before(mem, c[k], e) \in Pointers(Entries)
        /\ Chain(list_insert_before(mem, c[k], e), Spliced(c, n, k, e), n + 1)
        /\ \A x \in Entries :
             x \notin {c[k - 1], e, c[k]} => list_insert_before(mem, c[k], e)[x] = mem[x]
    <3>1. k \in 1..(n + 1)
      BY <2>2
    <3> QED BY ONLY <2>1, <2>4, <3>1, InsertChain
  <2> QED BY <2>2, <2>3, <2>5
<1>5. Places(plist[i], q) = d
  <2>1. \A j \in 0..(n + 2) :
          d[j] = IF j = 0 THEN plist[i].header ELSE IF j = n + 2 THEN plist[i].tailer ELSE q[j]
    <3> TAKE j \in 0..(n + 2)
    <3> HIDE DEF n, c
    <3>1. CASE j = 0
      <4>1. j < k
        BY <3>1
      <4> QED BY <1>2, <3>1, <4>1
    <3>2. CASE j = n + 2
      <4>1. ~(j < k) /\ j # k /\ j - 1 = n + 1 /\ j # 0
        BY <1>1, <3>2 DEF n
      <4> QED BY <1>2, <3>2, <4>1
    <3>3. CASE j \in 1..(n + 1)
      <4>1. j \in 1..Len(q) /\ j # 0 /\ j # n + 2
            /\ (j < k => j \in 1..n) /\ (j > k => j - 1 \in 1..n)
            /\ (j < k \/ j = k \/ (j > k /\ ~(j < k) /\ j # k))
        BY <1>1, <3>3 DEF n
      <4> QED BY <1>2, <4>1 DEF n
    <3> QED BY <1>1, <3>1, <3>2, <3>3
  <2>2. Len(q) + 1 = n + 2
    BY <1>1
  <2>3. d = [j \in 0..(n + 2) |-> d[j]]
    OBVIOUS
  <2> HIDE DEF d, n
  <2> QED BY <2>1, <2>2, <2>3 DEF Places
<1>6. /\ seqs' \in [L -> Seq(Elem)] /\ seqs'[i] = q
      /\ \A j \in L : j # i => seqs'[j] = seqs[j]
  BY <1>1
<1>7. ASSUME NEW j \in L PROVE Chain(mem', Place(j)', Len(seqs'[j]))
  <2>1. CASE j = i
    BY <1>4, <1>5, <1>6, <2>1 DEF Place
  <2>2. CASE j # i
    <3>1. k - 1 \in 0..(n + 1) /\ k \in 0..(n + 1)
      BY <1>1
    <3>2. \A x \in 0..(Len(seqs[j]) + 1) :
            Place(j)[x] # c[k - 1] /\ Place(j)[x] # c[k] /\ Place(j)[x] # e
      BY <1>3, <2>2, <3>1, ListsApart
    <3>3. \A x \in 0..(Len(seqs[j]) + 1) : Place(j)[x] \in Entries
      BY <1>1, PlacesOf DEF Place
    <3>4. \A x \in 0..(Len(seqs[j]) + 1) : mem'[Place(j)[x]] = mem[Place(j)[x]]
      BY <1>4, <3>2, <3>3
    <3>5. Chain(mem', Place(j), Len(seqs[j]))
      BY <3>4, OtherList
    <3>6. Place(j)' = Place(j)
      BY <1>6, <2>2 DEF Place
    <3> QED BY <1>6, <2>2, <3>5, <3>6
  <2> QED BY <2>1, <2>2
<1>8. ASSUME NEW x \in 1..Len(q) PROVE q[x] = e \/ \E y \in 1..n : q[x] = seqs[i][y]
  <2>1. (x < k => x \in 1..n) /\ (~(x < k) /\ x # k => x - 1 \in 1..n)
    BY <1>1
  <2> QED BY <2>1
<1>9. ASSUME NEW a \in L, NEW b \in L, a # b,
             NEW x \in 1..Len(seqs'[a]), NEW y \in 1..Len(seqs'[b])
      PROVE  seqs'[a][x] # seqs'[b][y]
  <2> HIDE DEF n, c, d
  <2>1. CASE a = i
    BY <1>6, <1>8, <1>9, <2>1 DEF ListInv, n
  <2>2. CASE b = i
    BY <1>6, <1>8, <1>9, <2>2 DEF ListInv, n
  <2>3. CASE a # i /\ b # i
    BY <1>6, <1>9, <2>3 DEF ListInv
  <2> QED BY <2>1, <2>2, <2>3
<1> QED BY <1>4, <1>6, <1>7, <1>9 DEF ListInv

LEMMA Removed ==
  ASSUME ListInv, NEW i \in L, NEW k \in 1..Len(seqs[i]), mem' = list_remove(mem, Place(i)[k]),
         NEW q \in Seq(Elem), seqs' = [seqs EXCEPT ![i] = q], Len(q) = Len(seqs[i]) - 1,
         \A j \in 1..Len(q) : q[j] = IF j < k THEN seqs[i][j] ELSE seqs[i][j + 1]
  PROVE  ListInv'
<1> DEFINE n == Len(seqs[i])
           c == Place(i)
           d == [j \in 0..n |-> IF j < k THEN c[j] ELSE c[j + 1]]
<1>1. /\ n \in Nat /\ seqs[i] \in Seq(Elem) /\ seqs \in [L -> Seq(Elem)]
      /\ Chain(mem, c, n) /\ mem \in Pointers(Entries)
  BY DEF ListInv
<1>2. /\ c \in [0..(n + 1) -> Entries] /\ plist[i].header = c[0] /\ plist[i].tailer = c[n + 1]
      /\ \A j \in 1..n : c[j] = seqs[i][j]
  BY <1>1, PlacesOf DEF Place
<1>4. /\ mem' \in Pointers(Entries)
      /\ Chain(mem', d, n - 1)
      /\ \A x \in Entries : x \notin {c[k - 1], c[k + 1]} => mem'[x] = mem[x]
  <2>1. k \in 1..n /\ mem' = list_remove(mem, c[k])
    OBVIOUS
  <2>3. d = Cut(c, n, k)
    BY DEF Cut
  <2> HIDE DEF n, c, d
  <2>4. n \in Nat /\ c \in [0..(n + 1) -> Entries] /\ Chain(mem, c, n) /\ mem \in Pointers(Entries)
    BY <1>1, <1>2
  <2>5. /\ list_remove(mem, c[k]) \in Pointers(Entries)
        /\ Chain(list_remove(mem, c[k]), Cut(c, n, k), n - 1)
        /\ \A x \in Entries : x \notin {c[k - 1], c[k + 1]} => list_remove(mem, c[k])[x] = mem[x]
    BY ONLY <2>1, <2>4, RemoveChain
  <2> QED BY <2>1, <2>3, <2>5
<1>5. Places(plist[i], q) = d
  <2>1. \A j \in 0..n :
          d[j] = IF j = 0 THEN plist[i].header ELSE IF j = n THEN plist[i].tailer ELSE q[j]
    <3> TAKE j \in 0..n
    <3> HIDE DEF n, c
    <3>1. CASE j = 0
      <4>1. j < k
        BY <3>1
      <4> QED BY <1>2, <3>1, <4>1
    <3>2. CASE j = n
      <4>1. ~(j < k) /\ j + 1 = n + 1 /\ j # 0
        BY <1>1, <3>2 DEF n
      <4> QED BY <1>2, <3>2, <4>1
    <3>3. CASE j \in 1..(n - 1)
      <4>1. j \in 1..Len(q) /\ j # 0 /\ j # n /\ j \in 1..n /\ j + 1 \in 1..n
        BY <1>1, <3>3 DEF n
      <4> QED BY <1>2, <4>1 DEF n
    <3> QED BY <1>1, <3>1, <3>2, <3>3
  <2>2. Len(q) + 1 = n
    BY <1>1
  <2>3. d = [j \in 0..n |-> d[j]]
    OBVIOUS
  <2> HIDE DEF d, n
  <2> QED BY <2>1, <2>2, <2>3 DEF Places
<1>6. /\ seqs' \in [L -> Seq(Elem)] /\ seqs'[i] = q
      /\ \A j \in L : j # i => seqs'[j] = seqs[j]
  BY <1>1
<1>7. ASSUME NEW j \in L PROVE Chain(mem', Place(j)', Len(seqs'[j]))
  <2>1. CASE j = i
    BY <1>4, <1>5, <1>6, <2>1 DEF Place
  <2>2. CASE j # i
    <3>1. k - 1 \in 0..(n + 1) /\ k + 1 \in 0..(n + 1)
      BY <1>1
    <3>2. \A x \in 0..(Len(seqs[j]) + 1) : Place(j)[x] # c[k - 1] /\ Place(j)[x] # c[k + 1]
      BY <2>2, <3>1, ListsApart
    <3>3. \A x \in 0..(Len(seqs[j]) + 1) : Place(j)[x] \in Entries
      BY <1>1, PlacesOf DEF Place
    <3>4. \A x \in 0..(Len(seqs[j]) + 1) : mem'[Place(j)[x]] = mem[Place(j)[x]]
      BY <1>4, <3>2, <3>3
    <3>5. Chain(mem', Place(j), Len(seqs[j]))
      BY <3>4, OtherList
    <3>6. Place(j)' = Place(j)
      BY <1>6, <2>2 DEF Place
    <3> QED BY <1>6, <2>2, <3>5, <3>6
  <2> QED BY <2>1, <2>2
<1>8. ASSUME NEW x \in 1..Len(q) PROVE \E y \in 1..n : q[x] = seqs[i][y]
  <2>1. x \in 1..n /\ x + 1 \in 1..n
    BY <1>1
  <2> QED BY <2>1
<1>9. ASSUME NEW a \in L, NEW b \in L, a # b,
             NEW x \in 1..Len(seqs'[a]), NEW y \in 1..Len(seqs'[b])
      PROVE  seqs'[a][x] # seqs'[b][y]
  <2> HIDE DEF n, c, d
  <2>1. CASE a = i
    BY <1>6, <1>8, <1>9, <2>1 DEF ListInv, n
  <2>2. CASE b = i
    BY <1>6, <1>8, <1>9, <2>2 DEF ListInv, n
  <2>3. CASE a # i /\ b # i
    BY <1>6, <1>9, <2>3 DEF ListInv
  <2> QED BY <2>1, <2>2, <2>3
<1> QED BY <1>4, <1>6, <1>7, <1>9 DEF ListInv

LEMMA FoundIs ==
  ASSUME ListInv, NEW i \in L, NEW e
  PROVE  list_find(mem, plist[i], e) <=> \E k \in 1..Len(seqs[i]) : seqs[i][k] = e
BY Traversed DEF list_find

\* A list is empty when the sentinels meet.
LEMMA EmptyIs ==
  ASSUME ListInv, NEW i \in L PROVE list_empty(mem, plist[i]) <=> seqs[i] = <<>>
<1> DEFINE n == Len(seqs[i])
           c == Place(i)
<1>1. /\ seqs[i] \in Seq(Elem) /\ n \in Nat /\ Chain(mem, c, n)
      /\ plist[i].header = c[0] /\ plist[i].tailer = c[n + 1]
  BY PlacesOf DEF ListInv, Place
<1>2. seqs[i] = <<>> <=> n = 0
  BY <1>1
<1> HIDE DEF n, c
<1>3. 0 \in 0..n /\ 0 + 1 \in 0..(n + 1) /\ n + 1 \in 0..(n + 1) /\ (n + 1 = 0 + 1 <=> n = 0)
  BY <1>1
<1>4. mem[c[0]].next = c[0 + 1]
  BY <1>1, <1>3 DEF Chain
<1> QED BY <1>1, <1>2, <1>3, <1>4 DEF list_empty, Chain

LEMMA AppendKeeps ==
  ASSUME ListInv, NEW i \in L, NEW e \in Elem, append(i, e) PROVE ListInv'
<1> DEFINE q == Append(seqs[i], e)
           n == Len(seqs[i])
<1>1. seqs[i] \in Seq(Elem) /\ n \in Nat /\ plist[i].tailer = Place(i)[n + 1]
  BY PlacesOf DEF ListInv, Place
<1>2. \A j \in L : \A x \in 1..Len(seqs[j]) : seqs[j][x] # e
  BY FoundIs DEF append, Unlinked
<1>3. q \in Seq(Elem) /\ Len(q) = n + 1
      /\ \A j \in 1..(n + 1) : q[j] = IF j < n + 1 THEN seqs[i][j] ELSE e
  BY <1>1
<1>4. mem' = list_insert_before(mem, Place(i)[n + 1], e) /\ seqs' = [seqs EXCEPT ![i] = q]
  BY <1>1 DEF append, list_append
<1>5. n + 1 \in 1..(n + 1)
  BY <1>1
<1>6. \A j \in 1..Len(q) :
        q[j] = IF j < n + 1 THEN seqs[i][j] ELSE IF j = n + 1 THEN e ELSE seqs[i][j - 1]
  BY <1>1, <1>3
<1> HIDE DEF q
<1> QED BY <1>2, <1>3, <1>4, <1>5, <1>6, Inserted

LEMMA PushKeeps ==
  ASSUME ListInv, NEW i \in L, NEW e \in Elem, push(i, e) PROVE ListInv'
<1> DEFINE q == <<e>> \o seqs[i]
           n == Len(seqs[i])
<1>1. seqs[i] \in Seq(Elem) /\ n \in Nat /\ plist[i].header = Place(i)[0] /\ Chain(mem, Place(i), n)
  BY PlacesOf DEF ListInv, Place
<1>2. \A j \in L : \A x \in 1..Len(seqs[j]) : seqs[j][x] # e
  BY FoundIs DEF push, Unlinked
<1>3. q \in Seq(Elem) /\ Len(q) = n + 1
      /\ \A j \in 1..(n + 1) : q[j] = IF j = 1 THEN e ELSE seqs[i][j - 1]
  BY <1>1
<1>4. mem[Place(i)[0]].next = Place(i)[1]
  <2>1. 0 \in 0..n /\ 0 + 1 = 1
    BY <1>1
  <2> HIDE DEF n
  <2> QED BY <1>1, <2>1 DEF Chain
<1>5. mem' = list_insert_before(mem, Place(i)[1], e) /\ seqs' = [seqs EXCEPT ![i] = q]
  BY <1>1, <1>4 DEF push, list_push
<1>6. 1 \in 1..(n + 1)
  BY <1>1
<1>7. \A j \in 1..Len(q) :
        q[j] = IF j < 1 THEN seqs[i][j] ELSE IF j = 1 THEN e ELSE seqs[i][j - 1]
  BY <1>1, <1>3
<1> HIDE DEF q
<1> QED BY <1>2, <1>3, <1>5, <1>6, <1>7, Inserted

LEMMA PopKeeps ==
  ASSUME ListInv, NEW i \in L, pop(i) PROVE ListInv'
<1> DEFINE q == Tail(seqs[i])
           n == Len(seqs[i])
<1>1. seqs[i] \in Seq(Elem) /\ n \in Nat /\ plist[i].header = Place(i)[0] /\ Chain(mem, Place(i), n)
  BY PlacesOf DEF ListInv, Place
<1>2. seqs[i] # <<>>
  BY EmptyIs DEF pop
<1>3. n >= 1 /\ q \in Seq(Elem) /\ Len(q) = n - 1 /\ \A j \in 1..(n - 1) : q[j] = seqs[i][j + 1]
  BY <1>1, <1>2
<1>4. mem[Place(i)[0]].next = Place(i)[1]
  <2>1. 0 \in 0..n /\ 0 + 1 = 1
    BY <1>1
  <2> HIDE DEF n
  <2> QED BY <1>1, <2>1 DEF Chain
<1>5. mem' = list_remove(mem, Place(i)[1]) /\ seqs' = [seqs EXCEPT ![i] = q]
  BY <1>1, <1>4 DEF pop, list_pop, list_first
<1>6. 1 \in 1..n
  BY <1>1, <1>3
<1>7. \A j \in 1..Len(q) : q[j] = IF j < 1 THEN seqs[i][j] ELSE seqs[i][j + 1]
  BY <1>1, <1>3
<1> HIDE DEF q
<1> QED BY <1>3, <1>5, <1>6, <1>7, Removed

\* RemoveFirst() takes out the first of the places that hold e.
LEMMA FirstRemoved ==
  ASSUME NEW q \in Seq(Elem), NEW e, \E k \in 1..Len(q) : q[k] = e
  PROVE  \E k \in 1..Len(q) : /\ q[k] = e
                              /\ RemoveFirst(q, e) \in Seq(Elem)
                              /\ Len(RemoveFirst(q, e)) = Len(q) - 1
                              /\ \A j \in 1..(Len(q) - 1) :
                                   RemoveFirst(q, e)[j] = IF j < k THEN q[j] ELSE q[j + 1]
<1> DEFINE I == {i \in 1..Len(q) : q[i] = e}
           k == Min(I)
           a == SubSeq(q, 1, k - 1)
           b == SubSeq(q, k + 1, Len(q))
<1>1. RemoveFirst(q, e) = a \o b
  BY DEF RemoveFirst, RemoveAt, SelectInSeq
<1>2. k \in I
  <2>1. I \in SUBSET Nat /\ I # {}
    OBVIOUS
  <2> HIDE DEF I
  <2>2. \E x \in I : \A y \in I : x =< y
    BY <2>1, Least
  <2> QED BY <2>2 DEF Min
<1> HIDE DEF k
<1>3. k \in 1..Len(q) /\ q[k] = e /\ Len(q) \in Nat
  BY <1>2
<1>4. a \in Seq(Elem) /\ Len(a) = k - 1 /\ \A j \in 1..(k - 1) : a[j] = q[j]
  BY <1>3
<1>5. b \in Seq(Elem) /\ Len(b) = Len(q) - k /\ \A j \in 1..(Len(q) - k) : b[j] = q[k + j]
  BY <1>3
<1> HIDE DEF a, b
<1>6. /\ a \o b \in Seq(Elem) /\ Len(a \o b) = Len(q) - 1
      /\ \A j \in 1..(Len(q) - 1) : (a \o b)[j] = IF j <= k - 1 THEN a[j] ELSE b[j - (k - 1)]
  <2>1. /\ a \o b \in Seq(Elem) /\ Len(a \o b) = Len(a) + Len(b)
        /\ \A j \in 1..(Len(a) + Len(b)) : (a \o b)[j] = IF j <= Len(a) THEN a[j] ELSE b[j - Len(a)]
    BY <1>4, <1>5, ConcatProperties
  <2>2. Len(a) = k - 1 /\ Len(a) + Len(b) = Len(q) - 1
    BY <1>3, <1>4, <1>5
  <2> QED BY <2>1, <2>2
<1>7. ASSUME NEW j \in 1..(Len(q) - 1) PROVE (a \o b)[j] = IF j < k THEN q[j] ELSE q[j + 1]
  <2>1. CASE j < k
    BY <1>3, <1>4, <1>6, <2>1
  <2>2. CASE ~(j < k)
    <3>1. ~(j <= k - 1) /\ j - (k - 1) \in 1..(Len(q) - k) /\ k + (j - (k - 1)) = j + 1
      BY <1>3, <2>2
    <3> QED BY <1>5, <1>6, <2>2, <3>1
  <2> QED BY <2>1, <2>2
<1> QED BY <1>1, <1>3, <1>6, <1>7

LEMMA RemoveKeeps ==
  ASSUME ListInv, NEW i \in L, NEW e \in Elem, remove(i, e) PROVE ListInv'
<1> DEFINE q == RemoveFirst(seqs[i], e)
           n == Len(seqs[i])
<1>1. seqs[i] \in Seq(Elem) /\ n \in Nat
  BY DEF ListInv
<1>2. \E k \in 1..n : seqs[i][k] = e
  BY FoundIs DEF remove
<1>3. PICK k \in 1..n : /\ seqs[i][k] = e
                        /\ q \in Seq(Elem) /\ Len(q) = n - 1
                        /\ \A j \in 1..(n - 1) : q[j] = IF j < k THEN seqs[i][j] ELSE seqs[i][j + 1]
  BY <1>1, <1>2, FirstRemoved
<1>4. Place(i)[k] = e
  BY <1>1, <1>3, PlacesOf DEF Place
<1>5. mem' = list_remove(mem, Place(i)[k]) /\ seqs' = [seqs EXCEPT ![i] = q]
  BY <1>4 DEF remove
<1> HIDE DEF q
<1> QED BY <1>3, <1>5, Removed

LEMMA InitLists == ListInit => ListInv
<1> SUFFICES ASSUME ListInit PROVE ListInv
  OBVIOUS
<1> DEFINE P == Entries \cup {NULL}
           m1 == list_init(clear, plist[1])
<1>1. /\ plist[1].header = h1 /\ plist[1].tailer = t1
      /\ plist[2].header = h2 /\ plist[2].tailer = t2
      /\ h1 \in Entries /\ t1 \in Entries /\ h2 \in Entries /\ t2 \in Entries
  BY DEF plist, Entries
<1>2. /\ clear \in [Entries -> [prev : P, next : P]]
      /\ \A x \in Entries : clear[x] = [prev |-> NULL, next |-> NULL]
  BY DEF clear, Entries
<1> HIDE DEF P
<1>3. P = Entries \cup {NULL}
  BY DEF P
<1>4. /\ m1 \in [Entries -> [prev : P, next : P]]
      /\ m1[h1] = [prev |-> NULL, next |-> t1] /\ m1[t1] = [prev |-> h1, next |-> NULL]
  BY <1>1, <1>2, <1>3, Sentinels DEF list_init
<1> HIDE DEF m1
<1>5. /\ mem \in [Entries -> [prev : P, next : P]]
      /\ mem[h2] = [prev |-> NULL, next |-> t2] /\ mem[t2] = [prev |-> h2, next |-> NULL]
      /\ mem[h1] = m1[h1] /\ mem[t1] = m1[t1]
  <2>1. mem = list_init(m1, plist[2])
    BY DEF ListInit, m1
  <2> QED BY <1>1, <1>3, <1>4, <2>1, Sentinels DEF list_init
<1>6. seqs = [i \in L |-> <<>>] /\ <<>> \in Seq(Elem)
  BY DEF ListInit
<1>7. ASSUME NEW i \in L PROVE Chain(mem, Place(i), Len(seqs[i]))
  <2> DEFINE c == Place(i)
  <2>1. Len(seqs[i]) = 0 /\ seqs[i] \in Seq(Elem)
    BY <1>6
  <2>2. c[0] = (IF i = 1 THEN h1 ELSE h2) /\ c[0 + 1] = (IF i = 1 THEN t1 ELSE t2)
    BY <2>1, PlacesOf DEF Place
  <2> HIDE DEF c
  <2>3. /\ mem[c[0]].next = c[0 + 1] /\ mem[c[0 + 1]].prev = c[0] /\ mem[c[0]].prev = NULL
        /\ c[0] # c[0 + 1]
    BY <1>4, <1>5, <2>2, Sentinels
  <2>4. \A k \in 0..0 : k = 0
    OBVIOUS
  <2>5. \A k \in 0..(0 + 1) : k = 0 \/ k = 0 + 1
    OBVIOUS
  <2>6. Chain(mem, c, 0)
    BY <2>3, <2>4, <2>5 DEF Chain
  <2> QED BY <2>1, <2>6 DEF c
<1>8. \A i \in L : 1..Len(seqs[i]) = {}
  BY <1>6
<1>9. seqs \in [L -> Seq(Elem)]
  BY <1>6
<1>10. mem \in Pointers(Entries)
  BY <1>3, <1>5 DEF Pointers
<1> QED BY <1>7, <1>8, <1>9, <1>10 DEF ListInv

LEMMA NextLists == ListInv /\ [ListNext]_listVars => ListInv'
<1> SUFFICES ASSUME ListInv, [ListNext]_listVars PROVE ListInv'
  OBVIOUS
<1>1. CASE UNCHANGED listVars
  BY <1>1 DEF listVars, ListInv, Place
<1>2. CASE ListNext
  BY <1>2, AppendKeeps, PushKeeps, PopKeeps, RemoveKeeps DEF ListNext
<1> QED BY <1>1, <1>2

Back(m, pl, n, h) ==
  h = [k \in 0..n |->
         IF k = 0 THEN pl.tailer
         ELSE LET e == h[k - 1] IN IF e = NULL THEN NULL ELSE m[e].prev]

\* The traversal backwards returns the sequence in reverse.
LEMMA BackwardsIs ==
  ASSUME ListInv, NEW i \in L
  PROVE  Backwards(i) = [k \in 1..Len(seqs[i]) |-> seqs[i][Len(seqs[i]) + 1 - k]]
<1> DEFINE N == Cardinality(Entries)
           n == Len(seqs[i])
           c == Place(i)
           h == [k \in 0..N |-> IF k <= n + 1 THEN c[n + 1 - k] ELSE NULL]
           f == CHOOSE g : Back(mem, plist[i], N, g)
<1>1. /\ n \in Nat /\ Chain(mem, c, n) /\ c \in [0..(n + 1) -> Entries]
      /\ plist[i].tailer = c[n + 1] /\ \A k \in 1..n : c[k] = seqs[i][k]
  BY PlacesOf DEF ListInv, Place
<1>2. Backwards(i) = [k \in 1..n |-> f[k]]
  <2>1. DOMAIN mem = Entries
    BY DEF ListInv, Pointers
  <2> QED BY <2>1 DEF Backwards, Back
<1> HIDE DEF n, c, N, f
<1>3. N \in Nat /\ n + 2 <= N
  BY <1>1, Sentinels, ChainFits DEF Chain, N
<1>4. /\ \A k \in 0..n : mem[c[k + 1]].prev = c[k]
      /\ mem[c[0]].prev = NULL /\ \A k \in 0..(n + 1) : c[k] \in Entries /\ c[k] # NULL
  BY <1>1, Sentinels DEF Chain
<1>5. Back(mem, plist[i], N, f)
  <2>1. \A k \in 0..N :
          h[k] = IF k = 0 THEN plist[i].tailer
                 ELSE IF h[k - 1] = NULL THEN NULL ELSE mem[h[k - 1]].prev
    <3> TAKE k \in 0..N
    <3>1. CASE k = 0
      <4>1. 0 \in 0..N /\ 0 <= n + 1 /\ n + 1 - 0 = n + 1
        BY <1>1, <1>3
      <4> QED BY <1>1, <3>1, <4>1
    <3>2. CASE k # 0 /\ k <= n + 1
      <4>1. /\ k - 1 \in 0..N /\ k - 1 <= n + 1 /\ n + 1 - (k - 1) = (n + 1 - k) + 1
            /\ n + 1 - k \in 0..n /\ (n + 1 - k) + 1 \in 0..(n + 1)
        BY <1>1, <1>3, <3>2
      <4>2. h[k] = c[n + 1 - k] /\ h[k - 1] = c[(n + 1 - k) + 1]
        BY <3>2, <4>1
      <4> HIDE DEF h
      <4> QED BY <1>4, <3>2, <4>1, <4>2
    <3>3. CASE k = n + 2
      <4>1. k - 1 \in 0..N /\ k - 1 <= n + 1 /\ n + 1 - (k - 1) = 0
            /\ ~(k <= n + 1) /\ k # 0 /\ 0 \in 0..(n + 1)
        BY <1>1, <1>3, <3>3
      <4>2. h[k] = NULL /\ h[k - 1] = c[0]
        BY <4>1
      <4> HIDE DEF h
      <4> QED BY <1>4, <4>1, <4>2
    <3>4. CASE k > n + 2
      <4>1. k - 1 \in 0..N /\ ~(k - 1 <= n + 1) /\ ~(k <= n + 1) /\ k # 0
        BY <1>1, <1>3, <3>4
      <4>2. h[k] = NULL /\ h[k - 1] = NULL
        BY <4>1
      <4> HIDE DEF h
      <4> QED BY <4>1, <4>2
    <3>5. k = 0 \/ (k # 0 /\ k <= n + 1) \/ k = n + 2 \/ k > n + 2
      BY <1>1
    <3> QED BY <3>1, <3>2, <3>3, <3>4, <3>5
  <2>2. h = [k \in 0..N |-> h[k]]
    OBVIOUS
  <2> HIDE DEF h
  <2>3. Back(mem, plist[i], N, h)
    BY <2>1, <2>2 DEF Back
  <2> QED BY <2>3 DEF f
<1>6. /\ f[0] = plist[i].tailer
      /\ \A k \in Nat : k + 1 \in 0..N => f[k + 1] = IF f[k] = NULL THEN NULL ELSE mem[f[k]].prev
  <2>1. \A k \in 0..N :
          f[k] = IF k = 0 THEN plist[i].tailer
                 ELSE IF f[k - 1] = NULL THEN NULL ELSE mem[f[k - 1]].prev
    BY <1>5 DEF Back
  <2>2. 0 \in 0..N
    BY <1>3
  <2>3. ASSUME NEW k \in Nat, k + 1 \in 0..N
        PROVE  f[k + 1] = IF f[k] = NULL THEN NULL ELSE mem[f[k]].prev
    <3>1. k + 1 # 0 /\ (k + 1) - 1 = k
      OBVIOUS
    <3> QED BY <2>1, <2>3, <3>1
  <2> QED BY <2>1, <2>2, <2>3
<1>7. \A k \in 0..n : f[k] = c[n + 1 - k]
  <2> DEFINE B == {k \in Nat : k <= n => f[k] = c[n + 1 - k]}
  <2>1. 0 \in B
    <3>1. n + 1 - 0 = n + 1
      BY <1>1
    <3> QED BY <1>1, <1>6, <3>1
  <2>2. ASSUME NEW k \in Nat, k \in B PROVE k + 1 \in B
    <3>1. SUFFICES ASSUME k + 1 <= n PROVE f[k + 1] = c[n + 1 - (k + 1)]
      OBVIOUS
    <3>2. /\ k <= n /\ k + 1 \in 0..N /\ n + 1 - k = (n + 1 - (k + 1)) + 1
          /\ n + 1 - (k + 1) \in 0..n /\ (n + 1 - (k + 1)) + 1 \in 0..(n + 1)
      BY <1>1, <1>3, <3>1
    <3>3. f[k] = c[(n + 1 - (k + 1)) + 1]
      BY <2>2, <3>2
    <3> QED BY <1>4, <1>6, <3>2, <3>3
  <2>3. B = Nat
    <3> HIDE DEF B
    <3>1. B \in SUBSET Nat
      BY DEF B
    <3> QED BY <2>1, <2>2, <3>1, Induction
  <2> QED BY <1>1, <2>3
<1>8. \A k \in 1..n : f[k] = seqs[i][n + 1 - k]
  <2> TAKE k \in 1..n
  <2>1. k \in 0..n /\ n + 1 - k \in 1..n
    BY <1>1
  <2> QED BY <1>1, <1>7, <2>1
<1>9. Backwards(i) = [k \in 1..n |-> seqs[i][n + 1 - k]]
  BY <1>2, <1>8
<1> QED BY <1>9 DEF n

\* What the pointers of the lists say follows from the chains.
LEMMA ChainsAreSequences == ListInv => ListsAreSequences
BY Traversed, BackwardsIs, EmptyIs, FoundIs DEF ListsAreSequences

THEOREM ListsHoldSequences == ListSpec => []ListsAreSequences
<1>1. ListInit => ListInv
  BY InitLists
<1>2. ListInv /\ [ListNext]_listVars => ListInv'
  BY NextLists
<1>3. ListInv => ListsAreSequences
  BY ChainsAreSequences
<1> QED BY <1>1, <1>2, <1>3, PTL DEF ListSpec

-----------------------------------------------------------------------------
(* The invariant of partition_scan().                                       *)

Call == [lba : Nat, idx : 1..(MaxPrim + 1)]

\* The call is behind the extended entry of its table.
Behind(f) == \E j \in 1..MaxPrim : j < f.idx /\ disk[f.lba][j].type = "ext"

ScanTypes ==
  /\ disk \in Disks /\ phase \in {"scan", "second", "fs"}
  /\ stack \in Seq(Call)
  /\ \A k \in 1..Len(stack) : stack[k].lba \in DOMAIN disk /\ (stack[k].lba = 0 <=> k = 1)
  /\ p_no \in Nat /\ l_no \in 0..MaxLogic
  /\ parts \in [Slot -> [start : Nat, cnt : Nat]]

(***************************************************************************)
(* Before the extended entry of the boot sector its entries are counted in *)
(* p_no, and behind it p_no stands still.                                  *)
(***************************************************************************)
Counted ==
  IF ext_lba_base = 0
  THEN Len(stack) = 1 /\ p_no < top.idx
  ELSE /\ p_no < MaxPrim /\ (Len(stack) = 1 => Behind(top))
       /\ \E i \in 1..MaxPrim : disk[0][i].type = "ext" /\ ext_lba_base = disk[0][i].start

(***************************************************************************)
(* The callers are behind the entry they went into, and so is the running  *)
(* call when the last slot of logic_parts is taken: nothing it can still   *)
(* find needs another.                                                     *)
(***************************************************************************)
Scanning ==
  /\ Len(stack) > 0
  /\ Counted
  /\ \A k \in 1..(Len(stack) - 1) : Behind(stack[k])
  /\ l_no = MaxLogic => Behind(top)

ScanInv == fault = NULL /\ ScanTypes /\ (phase = "scan" => Scanning)

-----------------------------------------------------------------------------
LEMMA Disk ==
  ASSUME Chained, ScanInv
  PROVE  /\ Tables(disk) /\ LinkLast(disk) /\ LinkGood(disk)
         /\ MaxPrim \in Nat /\ MaxPrim > 0 /\ MaxLogic \in Nat /\ MaxLogic > 0
BY PartitionAssumption DEF Chained, ScanInv, ScanTypes

\* A stack without its last call.
LEMMA Pop ==
  ASSUME NEW S, NEW q \in Seq(S), Len(q) > 0
  PROVE  LET r == SubSeq(q, 1, Len(q) - 1)
         IN r \in Seq(S) /\ Len(r) = Len(q) - 1 /\ \A k \in 1..(Len(q) - 1) : r[k] = q[k]
<1> DEFINE m == Len(q) - 1
           r == SubSeq(q, 1, m)
<1>1. m \in Nat /\ \A k \in 1..m : q[k] \in S
  OBVIOUS
<1>2. r = [k \in 1..(m - 1 + 1) |-> q[k + 1 - 1]]
  BY DEF SubSeq
<1>3. m - 1 + 1 = m /\ \A k \in 1..m : k + 1 - 1 = k
  BY <1>1
<1> HIDE DEF m, r
<1>4. r = [k \in 1..m |-> q[k]]
  BY <1>2, <1>3
<1>5. r \in Seq(S) /\ Len(r) = m /\ \A k \in 1..m : r[k] = q[k]
  BY <1>1, <1>4
<1> QED BY <1>5 DEF m, r

\* The call that runs, and the entry it is at.
LEMMA Top ==
  ASSUME Chained, ScanInv, phase = "scan"
  PROVE  /\ Len(stack) \in Nat /\ Len(stack) > 0 /\ top \in Call /\ top.lba \in DOMAIN disk
         /\ top.lba = 0 <=> Len(stack) = 1
         /\ top.idx <= MaxPrim => top.idx \in 1..MaxPrim /\ entry \in Entry
<1>1. stack \in Seq(Call) /\ Len(stack) \in Nat /\ Len(stack) > 0
  BY DEF ScanInv, ScanTypes, Scanning
<1>2. Len(stack) \in 1..Len(stack)
  BY <1>1
<1>3. top \in Call /\ top.lba \in DOMAIN disk /\ (top.lba = 0 <=> Len(stack) = 1)
  <2>1. \A k \in 1..Len(stack) : stack[k].lba \in DOMAIN disk /\ (stack[k].lba = 0 <=> k = 1)
    BY DEF ScanInv, ScanTypes
  <2>2. stack[Len(stack)] \in Call
    BY <1>1, <1>2
  <2> QED BY <1>2, <2>1, <2>2 DEF top
<1>4. ASSUME top.idx <= MaxPrim PROVE top.idx \in 1..MaxPrim /\ entry \in Entry
  <2>1. top.idx \in 1..MaxPrim
    BY <1>3, <1>4, Disk DEF Call
  <2> QED BY <1>3, <2>1, Disk DEF entry, Tables
<1> QED BY <1>1, <1>3, <1>4

(***************************************************************************)
(* part_idx++: the other calls stay, and one that is behind its extended   *)
(* entry stays behind it.                                                  *)
(***************************************************************************)
LEMMA Advance ==
  ASSUME Chained, ScanInv, phase = "scan", top.idx <= MaxPrim
  PROVE  /\ advance \in Seq(Call) /\ Len(advance) = Len(stack)
         /\ \A k \in 1..(Len(stack) - 1) : advance[k] = stack[k]
         /\ advance[Len(stack)] = [lba |-> top.lba, idx |-> top.idx + 1]
<1>1. Len(stack) \in 1..Len(stack) /\ stack \in Seq(Call) /\ top = stack[Len(stack)]
  BY Top DEF ScanInv, ScanTypes, top
<1>2. top.lba \in Nat /\ top.idx \in 1..MaxPrim /\ top = [lba |-> top.lba, idx |-> top.idx]
  BY Top DEF Call
<1>3. [top EXCEPT !.idx = top.idx + 1] = [lba |-> top.lba, idx |-> top.idx + 1]
  BY <1>2
<1>4. [lba |-> top.lba, idx |-> top.idx + 1] \in Call
  BY <1>2, Disk DEF Call
<1>5. advance = [stack EXCEPT ![Len(stack)] = [lba |-> top.lba, idx |-> top.idx + 1]]
  BY <1>1, <1>3 DEF advance, top
<1> QED BY <1>1, <1>4, <1>5

(***************************************************************************)
(* The loop goes on with the next entry of the same table.                 *)
(***************************************************************************)
LEMMA TurnStep ==
  ASSUME Chained, ScanInv, phase = "scan", top.idx <= MaxPrim,
         stack' = advance, disk' = disk, phase' = phase, ext_lba_base' = ext_lba_base,
         fault' = NULL, p_no' \in {p_no, count_primary},
         l_no' \in 0..MaxLogic, l_no' = MaxLogic => l_no = MaxLogic,
         parts' \in [Slot -> [start : Nat, cnt : Nat]]
  PROVE  ScanInv'
<1> DEFINE n == Len(stack)
<1>1. /\ stack \in Seq(Call) /\ n \in Nat /\ n > 0 /\ n \in 1..n /\ p_no \in Nat
      /\ top.lba \in Nat /\ top.idx \in 1..MaxPrim /\ top = stack[n]
      /\ \A k \in 1..n : stack[k].lba \in DOMAIN disk /\ (stack[k].lba = 0 <=> k = 1)
  BY Top DEF Call, ScanInv, ScanTypes, top
<1>2. /\ stack' \in Seq(Call) /\ Len(stack') = n
      /\ \A k \in 1..(n - 1) : stack'[k] = stack[k]
      /\ stack'[n] = [lba |-> top.lba, idx |-> top.idx + 1]
  BY Advance
<1>3. top' = stack'[n] /\ top'.lba = top.lba /\ top'.idx = top.idx + 1
  BY <1>2 DEF top
<1>4. \A k \in 1..n : k \in 1..(n - 1) \/ k = n
  BY <1>1
<1>5. \A k \in 1..n : stack'[k].lba = stack[k].lba
  BY <1>1, <1>2, <1>3, <1>4
<1> HIDE DEF n
<1>6. p_no' \in Nat
  BY <1>1 DEF count_primary
<1>7. ScanTypes'
  BY <1>1, <1>2, <1>5, <1>6 DEF ScanTypes, ScanInv
<1>8. Behind(top) => Behind(top)'
  BY <1>1, <1>3 DEF Behind
<1>9. \A k \in 1..(n - 1) : Behind(stack[k])'
  BY <1>1, <1>2 DEF ScanInv, Scanning, Behind, n
<1>10. Counted'
  <2>1. CASE ext_lba_base = 0
    <3>1. p_no < top.idx /\ p_no' \in {p_no, p_no + 1} /\ n = 1
      BY <2>1 DEF count_primary, ScanInv, Scanning, Counted, n
    <3> QED BY <1>1, <1>2, <1>3, <2>1, <3>1 DEF Counted
  <2>2. CASE ext_lba_base # 0
    <3>1. p_no' = p_no /\ p_no < MaxPrim /\ (n = 1 => Behind(top))
      BY <2>2 DEF count_primary, ScanInv, Scanning, Counted, n
    <3>2. \E i \in 1..MaxPrim : disk[0][i].type = "ext" /\ ext_lba_base = disk[0][i].start
      BY <2>2 DEF ScanInv, Scanning, Counted
    <3> QED BY <1>2, <1>8, <2>2, <3>1, <3>2 DEF Counted
  <2> QED BY <2>1, <2>2
<1>11. l_no' = MaxLogic => Behind(top)'
  BY <1>8 DEF ScanInv, Scanning
<1>12. Scanning'
  BY <1>1, <1>2, <1>9, <1>10, <1>11 DEF Scanning
<1> QED BY <1>7, <1>12 DEF ScanInv

(***************************************************************************)
(* partition_scan() returns, at the end of its table or because the last   *)
(* slot is taken.                                                          *)
(***************************************************************************)
LEMMA LeaveStep ==
  ASSUME Chained, ScanInv, phase = "scan", NEW l \in 0..MaxLogic, leave(p_no, l),
         disk' = disk, ext_lba_base' = ext_lba_base, fault' = NULL,
         parts' \in [Slot -> [start : Nat, cnt : Nat]]
  PROVE  ScanInv'
<1> DEFINE n == Len(stack)
<1>1. /\ stack \in Seq(Call) /\ n \in Nat /\ n > 0 /\ p_no \in Nat
      /\ \A k \in 1..n : stack[k].lba \in DOMAIN disk /\ (stack[k].lba = 0 <=> k = 1)
      /\ \A k \in 1..(n - 1) : Behind(stack[k])
  BY Top DEF ScanInv, ScanTypes, Scanning
<1>2. /\ stack' = SubSeq(stack, 1, n - 1)
      /\ p_no' = IF n = 1 THEN 0 ELSE p_no
      /\ l_no' = IF n = 1 THEN 0 ELSE l
      /\ phase' = IF n > 1 THEN "scan" ELSE IF more_channels THEN "second" ELSE "fs"
  BY DEF leave
<1>3. /\ stack' \in Seq(Call) /\ Len(stack') = n - 1
      /\ \A k \in 1..(n - 1) : stack'[k] = stack[k]
  BY <1>1, <1>2, Pop
<1> HIDE DEF n
<1>4. \A k \in 1..(n - 1) : k \in 1..n
  BY <1>1
<1>5. ScanTypes'
  BY <1>1, <1>2, <1>3, <1>4, Disk DEF ScanTypes, ScanInv
<1>6. ASSUME phase' = "scan" PROVE Scanning'
  <2>1. n > 1 /\ n - 1 \in 1..(n - 1) /\ p_no' = p_no
    BY <1>1, <1>2, <1>6
  <2>2. ext_lba_base # 0 /\ p_no < MaxPrim
    <3>1. Counted /\ Len(stack) # 1
      BY <1>1, <2>1 DEF n, ScanInv, Scanning
    <3> QED BY <3>1 DEF Counted
  <2>3. \E i \in 1..MaxPrim : disk[0][i].type = "ext" /\ ext_lba_base = disk[0][i].start
    BY <2>2 DEF ScanInv, Scanning, Counted
  <2>4. \A k \in 1..(n - 1) : Behind(stack[k])'
    BY <1>1, <1>3 DEF Behind
  <2>5. top' = stack'[n - 1] /\ Behind(top)'
    BY <1>3, <2>1, <2>4 DEF top
  <2>6. Counted'
    BY <2>1, <2>2, <2>3, <2>5 DEF Counted
  <2>7. \A k \in 1..(Len(stack') - 1) : Behind(stack[k])'
    BY <1>1, <1>3, <2>4
  <2> QED BY <1>3, <2>1, <2>5, <2>6, <2>7 DEF Scanning
<1> QED BY <1>5, <1>6 DEF ScanInv

(***************************************************************************)
(* The link to the next table: the call made for it starts at its first    *)
(* entry, with a slot of logic_parts left.                                 *)
(***************************************************************************)
LEMMA ExtendedStep == ASSUME Chained, ScanInv, scan_extended PROVE ScanInv'
<1> DEFINE n == Len(stack)
           base == IF ext_lba_base = 0 THEN entry.start ELSE ext_lba_base
           lba == IF ext_lba_base = 0 THEN entry.start ELSE ext_lba_base + entry.start
           new == [lba |-> lba, idx |-> 1]
<1>1. /\ phase = "scan" /\ top.idx <= MaxPrim /\ entry.type = "ext"
      /\ ext_lba_base' = base /\ stack' = Append(advance, new)
      /\ UNCHANGED <<disk, channel_cnt, phase, p_no, l_no, parts, links, fault>>
  BY DEF scan_extended, at
<1>2. /\ stack \in Seq(Call) /\ n \in Nat /\ n > 0 /\ n \in 1..n /\ p_no \in Nat
      /\ top.lba \in DOMAIN disk /\ (top.lba = 0 <=> n = 1)
      /\ top.idx \in 1..MaxPrim /\ top = stack[n] /\ entry = disk[top.lba][top.idx]
      /\ entry \in Entry
      /\ \A k \in 1..n : stack[k].lba \in DOMAIN disk /\ (stack[k].lba = 0 <=> k = 1)
      /\ \A k \in 1..(n - 1) : Behind(stack[k])
      /\ Scanning
  BY <1>1, Top DEF ScanInv, ScanTypes, Scanning, top, entry
<1>3. ~Behind(top)
  BY <1>1, <1>2, Disk DEF Behind, LinkLast
<1>4. l_no # MaxLogic
  BY <1>2, <1>3 DEF Scanning
<1>5. base # 0 /\ lba \in DOMAIN disk \ {0}
  /\ \E i \in 1..MaxPrim : disk[0][i].type = "ext" /\ base = disk[0][i].start
  <2>1. CASE ext_lba_base = 0
    <3>1. n = 1 /\ top.lba = 0
      BY <1>2, <2>1 DEF Scanning, Counted
    <3> QED BY <1>1, <1>2, <2>1, <3>1, Disk DEF LinkGood
  <2>2. CASE ext_lba_base # 0
    <3>1. PICK i \in 1..MaxPrim : disk[0][i].type = "ext" /\ ext_lba_base = disk[0][i].start
      BY <1>2, <2>2 DEF Scanning, Counted
    <3>2. top.lba \in DOMAIN disk \ {0}
      BY <1>2, <1>3, <2>2 DEF Scanning, Counted
    <3>3. ext_lba_base + entry.start \in DOMAIN disk /\ ext_lba_base \in Nat /\ entry.start \in Nat
      BY <1>1, <1>2, <3>1, <3>2, Disk DEF LinkGood, Tables, Entry
    <3> QED BY <2>2, <3>1, <3>3
  <2> QED BY <2>1, <2>2
<1>6. p_no < MaxPrim
  BY <1>2, Disk DEF Scanning, Counted
<1>7. new \in Call /\ new.lba = lba /\ new.idx = 1
  BY <1>5, Disk DEF Tables, Call
<1> HIDE DEF base, lba, new
<1>8. /\ advance \in Seq(Call) /\ Len(advance) = n
      /\ \A k \in 1..(n - 1) : advance[k] = stack[k]
      /\ advance[n] = [lba |-> top.lba, idx |-> top.idx + 1]
  BY <1>1, Advance
<1>9. /\ stack' \in Seq(Call) /\ Len(stack') = n + 1
      /\ \A k \in 1..n : stack'[k] = advance[k]
      /\ stack'[n + 1] = new
  BY <1>1, <1>2, <1>7, <1>8
<1> HIDE DEF n
<1>10. \A k \in 1..(n + 1) : k \in 1..(n - 1) \/ k = n \/ k = n + 1
  BY <1>2
<1>11. /\ \A k \in 1..(n - 1) : k \in 1..n /\ stack'[k] = stack[k]
       /\ stack'[n].lba = top.lba /\ stack'[n].idx = top.idx + 1
       /\ 1 \in 1..n /\ n + 1 # 1 /\ (n + 1) - 1 = n
  <2>1. 1 \in 1..n /\ n + 1 # 1 /\ (n + 1) - 1 = n /\ \A k \in 1..(n - 1) : k \in 1..n
    BY <1>2
  <2>2. stack'[n] = [lba |-> top.lba, idx |-> top.idx + 1]
    BY <1>2, <1>8, <1>9
  <2> QED BY <1>8, <1>9, <2>1, <2>2
<1>12. \A k \in 1..(n + 1) : stack'[k].lba \in DOMAIN disk /\ (stack'[k].lba = 0 <=> k = 1)
  BY <1>2, <1>5, <1>7, <1>9, <1>10, <1>11
<1>13. ScanTypes'
  BY <1>1, <1>2, <1>9, <1>12 DEF ScanTypes, ScanInv
<1>14. \A k \in 1..n : Behind(stack[k])'
  <2>1. \A k \in {n} : Behind(stack[k])'
    <3>1. top.idx < stack'[n].idx /\ disk'[stack'[n].lba][top.idx].type = "ext"
      BY <1>1, <1>2, <1>11
    <3>2. \A k \in {n} : \E j \in 1..MaxPrim :
            j < stack'[k].idx /\ disk'[stack'[k].lba][j].type = "ext"
      BY <1>2, <3>1
    <3> QED BY <3>2 DEF Behind
  <2>2. \A k \in 1..(n - 1) : Behind(stack[k])'
    BY <1>1, <1>2, <1>11 DEF Behind
  <2>3. \A k \in 1..n : k \in {n} \/ k \in 1..(n - 1)
    BY <1>2
  <2> QED BY <2>1, <2>2, <2>3
<1>15. Counted'
  BY <1>1, <1>2, <1>5, <1>6, <1>9, <1>11 DEF Counted
<1>16. Scanning'
  BY <1>1, <1>4, <1>2, <1>9, <1>11, <1>14, <1>15 DEF Scanning
<1> QED BY <1>1, <1>13, <1>16 DEF ScanInv

-----------------------------------------------------------------------------
\* A slot of prim_parts is left for every entry that needs one.
LEMMA PrimarySlot ==
  ASSUME Chained, ScanInv, phase = "scan", top.idx <= MaxPrim
  PROVE  /\ p_no < MaxPrim /\ p_no \in Slot /\ p_no # MaxPrim + MaxLogic - 1
         /\ count_primary <= MaxPrim
<1>1. /\ p_no \in Nat /\ MaxPrim \in Nat /\ MaxLogic \in Nat /\ MaxLogic > 0 /\ top.idx \in Nat
      /\ Counted
  BY Top, Disk DEF ScanInv, ScanTypes, Scanning
<1>2. p_no < MaxPrim /\ (ext_lba_base = 0 => p_no < top.idx)
  BY <1>1 DEF Counted
<1> QED BY <1>1, <1>2 DEF count_primary, Slot

\* An entry of type 0x66 is met with a slot of logic_parts left.
LEMMA LogicSlot ==
  ASSUME Chained, ScanInv, phase = "scan", top.idx <= MaxPrim, entry.type = "logic"
  PROVE  l_no < MaxLogic /\ l_no \in Nat /\ MaxPrim + l_no \in Slot
<1>1. ~Behind(top)
  BY Top, Disk DEF Behind, LinkLast, entry
<1>2. l_no # MaxLogic /\ l_no \in 0..MaxLogic
  BY <1>1 DEF ScanInv, Scanning, ScanTypes
<1> QED BY <1>2, Disk DEF Slot

\* The place of a partition that is found.
LEMMA FoundParts ==
  ASSUME Chained, ScanInv, phase = "scan", top.idx <= MaxPrim, NEW slot \in Slot, found(slot)
  PROVE  parts' \in [Slot -> [start : Nat, cnt : Nat]]
<1>1. top.lba + entry.start \in Nat /\ entry.cnt \in Nat
  BY Top, Disk DEF Entry, Tables
<1> QED BY <1>1 DEF found, ScanInv, ScanTypes

LEMMA LinuxStep == ASSUME Chained, ScanInv, scan_linux PROVE ScanInv'
<1>1. /\ phase = "scan" /\ top.idx <= MaxPrim /\ p_no' = count_primary /\ stack' = advance
      /\ UNCHANGED <<disk, channel_cnt, phase, ext_lba_base, l_no, held>>
  BY DEF scan_linux, at
<1>2. p_no < MaxPrim /\ ~(p_no >= MaxPrim) /\ p_no \in Slot /\ p_no' <= MaxPrim
  BY <1>1, PrimarySlot, Disk DEF ScanInv, ScanTypes
<1>3. found(p_no) /\ fault' = NULL
  BY <1>2 DEF scan_linux
<1>4. parts' \in [Slot -> [start : Nat, cnt : Nat]]
  BY <1>1, <1>2, <1>3, FoundParts
<1>5. l_no \in 0..MaxLogic
  BY DEF ScanInv, ScanTypes
<1> QED BY <1>1, <1>3, <1>4, <1>5, TurnStep

LEMMA EmptyStep == ASSUME Chained, ScanInv, scan_empty PROVE ScanInv'
<1>1. /\ phase = "scan" /\ top.idx <= MaxPrim /\ p_no' = count_primary /\ stack' = advance
      /\ UNCHANGED <<disk, channel_cnt, phase, ext_lba_base, l_no, parts, links, held>>
  BY DEF scan_empty, at
<1>2. fault' = NULL
  BY <1>1, PrimarySlot DEF scan_empty
<1> QED BY <1>1, <1>2, TurnStep DEF ScanInv, ScanTypes

LEMMA LogicStep == ASSUME Chained, ScanInv, scan_logic PROVE ScanInv'
<1>1. /\ phase = "scan" /\ top.idx <= MaxPrim /\ entry.type = "logic"
      /\ UNCHANGED <<disk, channel_cnt, ext_lba_base, held>>
  BY DEF scan_logic, at
<1>2. /\ l_no < MaxLogic /\ ~(l_no >= MaxLogic) /\ l_no \in Nat /\ MaxPrim + l_no \in Slot
      /\ MaxLogic \in Nat
  BY <1>1, LogicSlot, Disk
<1>3. /\ found(MaxPrim + l_no) /\ fault' = NULL
      /\ IF logic_full THEN leave(p_no, l_no + 1)
         ELSE stack' = advance /\ l_no' = l_no + 1 /\ UNCHANGED <<p_no, phase>>
  BY <1>2 DEF scan_logic, ScanInv
<1>4. parts' \in [Slot -> [start : Nat, cnt : Nat]]
  BY <1>1, <1>2, <1>3, FoundParts DEF ScanInv, ScanTypes
<1>5. l_no + 1 \in 0..MaxLogic
  BY <1>2
<1>6. CASE logic_full
  BY <1>1, <1>3, <1>4, <1>5, <1>6, LeaveStep
<1>7. CASE ~logic_full
  <2>1. l_no' # MaxLogic
    BY <1>2, <1>3, <1>7 DEF logic_full
  <2> QED BY <1>1, <1>3, <1>4, <1>5, <1>7, <2>1, TurnStep
<1> QED BY <1>6, <1>7

LEMMA OtherStep == ASSUME Chained, ScanInv, scan_other PROVE ScanInv'
<1>1. /\ phase = "scan" /\ top.idx <= MaxPrim /\ stack' = advance
      /\ UNCHANGED <<disk, channel_cnt, phase, ext_lba_base, p_no, l_no, parts, links, held, fault>>
  BY DEF scan_other, at
<1> QED BY <1>1, TurnStep DEF ScanInv, ScanTypes

LEMMA ReturnStep == ASSUME Chained, ScanInv, scan_return PROVE ScanInv'
<1>1. /\ phase = "scan" /\ leave(p_no, l_no)
      /\ UNCHANGED <<disk, channel_cnt, ext_lba_base, parts, links, fault>>
  BY DEF scan_return
<1> QED BY <1>1, LeaveStep DEF ScanInv, ScanTypes

LEMMA Sizes ==
  /\ inode_bitmap_sects \in Nat /\ inode_bitmap_sects > 0
  /\ inode_table_sects \in Nat /\ inode_table_sects > 0
  /\ used_sects \in Nat /\ used_sects > 0
BY LayoutAssumption DEF used_sects

\* Behind the scan nothing of it changes but sizes and the list.
LEMMA AfterScan ==
  ASSUME ScanInv, phase # "scan", phase' \in {"second", "fs"},
         UNCHANGED <<disk, stack, ext_lba_base, p_no, l_no, fault>>,
         parts' \in [Slot -> [start : Nat, cnt : Nat]]
  PROVE  ScanInv'
BY DEF ScanInv, ScanTypes

LEMMA FormatStep == ASSUME ScanInv, format PROVE ScanInv'
<1>1. /\ phase = "fs" /\ part_idx \in Slot
      /\ parts' = [parts EXCEPT ![part_idx].cnt = used_sects]
      /\ UNCHANGED <<disk, phase, stack, ext_lba_base, p_no, l_no, held, fault>>
  BY DEF format, formatting
<1>2. [parts[part_idx] EXCEPT !.cnt = used_sects] \in [start : Nat, cnt : Nat]
  BY <1>1, Sizes DEF ScanInv, ScanTypes
<1>3. parts' = [parts EXCEPT ![part_idx] = [parts[part_idx] EXCEPT !.cnt = used_sects]]
  BY <1>1
<1>4. parts' \in [Slot -> [start : Nat, cnt : Nat]]
  BY <1>2, <1>3 DEF ScanInv, ScanTypes
<1> QED BY <1>1, <1>4, AfterScan

\* ide_init() comes to partition_scan(hd, 0).
Booted ==
  /\ disk \in Disks /\ phase = "scan" /\ stack = <<[lba |-> 0, idx |-> 1]>>
  /\ ext_lba_base = 0 /\ p_no = 0 /\ l_no = 0 /\ fault = NULL
  /\ parts = [s \in Slot |-> [start |-> 0, cnt |-> 0]]

LEMMA BootedInv == Chained /\ Booted => ScanInv
<1> SUFFICES ASSUME Chained, Booted PROVE ScanInv
  OBVIOUS
<1>1. /\ MaxPrim \in Nat /\ MaxPrim > 0 /\ MaxLogic \in Nat /\ MaxLogic > 0 /\ Tables(disk)
  BY PartitionAssumption DEF Chained, Booted
<1>2. [lba |-> 0, idx |-> 1] \in Call
  BY <1>1 DEF Call
<1>3. Len(stack) = 1 /\ stack \in Seq(Call) /\ stack[1] = [lba |-> 0, idx |-> 1]
  BY <1>2 DEF Booted
<1>4. ScanTypes
  <2>1. [start |-> 0, cnt |-> 0] \in [start : Nat, cnt : Nat]
    OBVIOUS
  <2>2. parts \in [Slot -> [start : Nat, cnt : Nat]]
    BY <2>1 DEF Booted
  <2>3. \A k \in 1..Len(stack) : stack[k].lba \in DOMAIN disk /\ (stack[k].lba = 0 <=> k = 1)
    BY <1>1, <1>3 DEF Tables
  <2> QED BY <1>1, <1>3, <2>2, <2>3 DEF ScanTypes, Booted
<1>5. Scanning
  BY <1>1, <1>3 DEF Scanning, Counted, top, Booted
<1> QED BY <1>4, <1>5 DEF ScanInv, Booted

LEMMA ScanStep == ASSUME Chained, ScanInv, [FsNext]_fsVars PROVE ScanInv'
<1>1. CASE scan
  <2>1. CASE second_channel
    BY <2>1, AfterScan DEF second_channel, ScanInv, ScanTypes
  <2> QED BY <1>1, <2>1, ExtendedStep, LinuxStep, EmptyStep, LogicStep, OtherStep, ReturnStep
          DEF scan, scan_step
<1>2. CASE format_skip \/ mount \/ UNCHANGED fsVars
  <2>1. UNCHANGED scanVars
    BY <1>2 DEF format_skip, mount, fsVars
  <2> QED BY <2>1 DEF scanVars, ScanInv, ScanTypes, Scanning, Counted, Behind, top
<1>3. CASE power_off
  <2>1. Booted'
    BY <1>3 DEF power_off, Booted, ScanInv, ScanTypes
  <2>2. Chained'
    BY DEF Chained, Tables, LinkLast, LinkGood
  <2>3. (Chained /\ Booted => ScanInv)'
    BY BootedInv, PTL
  <2> QED BY <2>1, <2>2, <2>3
<1> QED BY <1>1, <1>2, <1>3, FormatStep DEF FsNext

(***************************************************************************)
(* partition_scan() stays in prim_parts and logic_parts and its assertion  *)
(* holds, with any number of partitions on a disk whose tables end with    *)
(* their link.                                                             *)
(***************************************************************************)
THEOREM ScanStaysInBounds == ASSUME Chained PROVE FsSpec => []ScanInBounds
<1>1. FsInit => ScanInv
  BY BootedInv DEF FsInit, ScanInit, Booted
<1>2. ScanInv /\ [FsNext]_fsVars => ScanInv'
  BY ScanStep
<1>3. ScanInv => ScanInBounds
  BY DEF ScanInv, ScanInBounds
<1> QED BY <1>1, <1>2, <1>3, PTL DEF FsSpec

-----------------------------------------------------------------------------
(* The buffers of partition_scan().                                         *)

LastSlot == MaxPrim + MaxLogic - 1

\* One buffer for each call that is open, and one that stays when the table
\* of logical partitions is full.
BufferInv ==
  /\ phase = "scan" =>
       /\ held = Len(stack) + (IF l_no = MaxLogic THEN 1 ELSE 0)
       /\ l_no = MaxLogic <=> parts[LastSlot].cnt # 0
  /\ BuffersGivenBack

LEMMA Layout ==
  /\ block_bitmap_sects \in Nat /\ layout_sects \in Nat /\ layout_sects > 0
<1> DEFINE u == used_sects
           b == BITS_PER_SECTOR
           q == DIV_ROUND_UP(u, b)
           r == block_bitmap_bit_len
<1>1. b \in Nat /\ b > 0
  BY LayoutAssumption DEF BITS_PER_SECTOR
<1>2. u \in Nat /\ u > 0
  BY Sizes
<1>3. q \in Nat /\ q <= u
  <2>1. q = (u + b - 1) \div b
    BY DEF DIV_ROUND_UP
  <2> HIDE DEF u, b
  <2>2. q \in Nat /\ q * b <= u + b - 1
    BY <1>1, <1>2, <2>1
  <2>3. u + b - 1 < (u + 1) * b
    BY <1>1, <1>2
  <2> HIDE DEF q
  <2>4. ASSUME q >= u + 1 PROVE FALSE
    <3>1. q * b >= (u + 1) * b
      BY <1>1, <1>2, <2>2, <2>4
    <3> QED BY <1>1, <1>2, <2>2, <2>3, <3>1
  <2> QED BY <1>2, <2>2, <2>4
<1>4. r = u - q
  BY DEF block_bitmap_bit_len
<1> HIDE DEF u, q, r, b
<1>5. r \in Nat
  BY <1>2, <1>3, <1>4
<1>6. block_bitmap_sects = (r + b - 1) \div b
  BY DEF block_bitmap_sects, DIV_ROUND_UP, r, b
<1>7. block_bitmap_sects \in Nat
  BY <1>1, <1>5, <1>6
<1> QED BY <1>7, Sizes DEF layout_sects

\* Only the last slot of logic_parts tells whether a buffer stays.
LEMMA BufferTurn ==
  ASSUME BufferInv, phase = "scan", phase' = "scan",
         held' = held, Len(stack') = Len(stack), l_no' = MaxLogic <=> l_no = MaxLogic,
         parts'[LastSlot].cnt = parts[LastSlot].cnt
  PROVE  BufferInv'
BY DEF BufferInv, BuffersGivenBack

LEMMA BufferLeave ==
  ASSUME Chained, ScanInv, BufferInv, phase = "scan", NEW l \in 0..MaxLogic, leave(p_no, l),
         held' = Len(stack) - 1 + (IF l = MaxLogic THEN 1 ELSE 0),
         l = MaxLogic <=> parts'[LastSlot].cnt # 0
  PROVE  BufferInv'
<1> DEFINE n == Len(stack)
<1>1. n \in Nat /\ n > 0 /\ n - 1 \in Nat /\ MaxLogic \in Nat /\ MaxLogic > 0
  BY Top, Disk
<1>2. stack \in Seq(Call)
  BY DEF ScanInv, ScanTypes
<1>3. Len(stack') = n - 1
  BY <1>1, <1>2, Pop DEF leave
<1>4. /\ l_no' = IF n = 1 THEN 0 ELSE l
      /\ phase' = "scan" <=> n > 1
  BY <1>1 DEF leave
<1>5. BuffersGivenBack'
  BY <1>1, <1>4 DEF BuffersGivenBack, LastSlot
<1> QED BY <1>1, <1>3, <1>4, <1>5 DEF BufferInv

LEMMA BufferExtended == ASSUME Chained, ScanInv, BufferInv, scan_extended PROVE BufferInv'
<1>1. /\ phase = "scan" /\ top.idx <= MaxPrim /\ held' = held + 1
      /\ UNCHANGED <<phase, l_no, parts>>
      /\ \E f : stack' = Append(advance, f)
  BY DEF scan_extended, at
<1>2. advance \in Seq(Call) /\ Len(advance) = Len(stack) /\ Len(stack) \in Nat
  BY <1>1, Advance, Top
<1>3. Len(stack') = Len(stack) + 1
  <2>1. PICK f : stack' = Append(advance, f)
    BY <1>1
  <2> QED BY <1>2, <2>1
<1> QED BY <1>1, <1>2, <1>3 DEF BufferInv, BuffersGivenBack

LEMMA BufferFound ==
  ASSUME ScanInv, NEW slot \in Slot, found(slot)
  PROVE  \A s \in Slot : parts'[s].cnt = IF s = slot THEN entry.cnt ELSE parts[s].cnt
BY DEF found, ScanInv, ScanTypes

LEMMA BufferLinux == ASSUME Chained, ScanInv, BufferInv, scan_linux PROVE BufferInv'
<1>1. /\ phase = "scan" /\ top.idx <= MaxPrim /\ stack' = advance
      /\ UNCHANGED <<phase, l_no, held>>
  BY DEF scan_linux, at
<1>2. p_no \in Slot /\ p_no # LastSlot /\ ~(p_no >= MaxPrim) /\ LastSlot \in Slot
  BY <1>1, PrimarySlot, Disk DEF LastSlot, Slot
<1>3. found(p_no)
  BY <1>2 DEF scan_linux
<1>4. parts'[LastSlot].cnt = parts[LastSlot].cnt
  BY <1>2, <1>3, BufferFound
<1> QED BY <1>1, <1>4, Advance, BufferTurn

LEMMA BufferLogic == ASSUME Chained, Roomy, ScanInv, BufferInv, scan_logic PROVE BufferInv'
<1>1. /\ phase = "scan" /\ top.idx <= MaxPrim /\ entry.type = "logic" /\ held' = held
  BY DEF scan_logic, at
<1>2. /\ l_no < MaxLogic /\ ~(l_no >= MaxLogic) /\ l_no \in Nat /\ MaxPrim + l_no \in Slot
      /\ MaxLogic \in Nat /\ MaxPrim \in Nat /\ LastSlot \in Slot
  BY <1>1, LogicSlot, Disk DEF LastSlot, Slot
<1>3. /\ found(MaxPrim + l_no)
      /\ IF logic_full THEN leave(p_no, l_no + 1)
         ELSE stack' = advance /\ l_no' = l_no + 1 /\ UNCHANGED <<p_no, phase>>
  BY <1>2 DEF scan_logic
<1>4. parts'[LastSlot].cnt = IF MaxPrim + l_no = LastSlot THEN entry.cnt ELSE parts[LastSlot].cnt
  BY <1>2, <1>3, BufferFound
<1>5. /\ held = Len(stack) /\ parts[LastSlot].cnt = 0 /\ Len(stack) \in Nat
  BY <1>1, <1>2, Top DEF BufferInv
<1>6. CASE logic_full
  <2>1. l_no + 1 = MaxLogic /\ MaxPrim + l_no = LastSlot
    BY <1>2, <1>6 DEF logic_full, LastSlot
  <2>2. disk \in Disks /\ top.lba \in DOMAIN disk /\ top.idx \in 1..MaxPrim /\ entry \in Entry
    BY <1>1, Top DEF ScanInv, ScanTypes
  <2>3. entry.cnt >= layout_sects /\ entry.cnt \in Nat
    BY <1>1, <2>2 DEF Roomy, entry, Entry
  <2>4. parts'[LastSlot].cnt # 0
    BY <1>4, <2>1, <2>3, Layout
  <2>5. l_no + 1 \in 0..MaxLogic
    BY <1>2
  <2>6. held' = Len(stack) - 1 + 1
    BY <1>1, <1>5
  <2> QED BY <1>1, <1>3, <1>6, <2>1, <2>4, <2>5, <2>6, BufferLeave
<1>7. CASE ~logic_full
  <2>1. l_no' # MaxLogic /\ MaxPrim + l_no # LastSlot
    BY <1>2, <1>3, <1>7 DEF logic_full, LastSlot
  <2> QED BY <1>1, <1>2, <1>3, <1>4, <1>7, <2>1, Advance, BufferTurn
<1> QED BY <1>6, <1>7

LEMMA BufferReturn == ASSUME Chained, ScanInv, BufferInv, scan_return PROVE BufferInv'
<1>1. phase = "scan" /\ leave(p_no, l_no) /\ held' = held - 1 /\ parts' = parts
  BY DEF scan_return
<1>2. l_no \in 0..MaxLogic /\ Len(stack) \in Nat
  BY <1>1, Top DEF ScanInv, ScanTypes
<1>3. /\ held' = Len(stack) - 1 + (IF l_no = MaxLogic THEN 1 ELSE 0)
      /\ l_no = MaxLogic <=> parts'[LastSlot].cnt # 0
  BY <1>1, <1>2 DEF BufferInv
<1> QED BY <1>1, <1>2, <1>3, BufferLeave

LEMMA BufferFormat == ASSUME ScanInv, BufferInv, format PROVE BufferInv'
<1>1. /\ phase = "fs" /\ part_idx \in Slot /\ parts[part_idx].cnt # 0
      /\ parts' = [parts EXCEPT ![part_idx].cnt = used_sects]
      /\ UNCHANGED <<phase, held>>
  BY DEF format, formatting
<1>2. LastSlot \in Slot /\ MaxPrim + MaxLogic - 1 = LastSlot
  BY PartitionAssumption DEF LastSlot, Slot
<1>3. parts'[LastSlot].cnt # 0 <=> parts[LastSlot].cnt # 0
  BY <1>1, <1>2, Sizes DEF ScanInv, ScanTypes
<1> QED BY <1>1, <1>2, <1>3 DEF BufferInv, BuffersGivenBack

LEMMA BufferStep ==
  ASSUME Chained, Roomy, ScanInv, BufferInv, [FsNext]_fsVars PROVE BufferInv'
<1>1. CASE scan_empty \/ scan_other
  <2>1. /\ phase = "scan" /\ phase' = "scan" /\ top.idx <= MaxPrim /\ stack' = advance
        /\ held' = held /\ l_no' = l_no /\ parts' = parts
    BY <1>1 DEF scan_empty, scan_other, at
  <2> QED BY <2>1, Advance, BufferTurn
<1>2. CASE second_channel \/ format_skip \/ mount \/ UNCHANGED fsVars
  <2>1. /\ UNCHANGED <<stack, held, l_no, parts>>
        /\ (phase' = phase \/ {phase, phase'} = {"second", "fs"})
    BY <1>2 DEF second_channel, format_skip, mount, fsVars, scanVars
  <2> QED BY <2>1 DEF BufferInv, BuffersGivenBack
<1>3. CASE power_off
  <2>1. /\ phase' = "scan" /\ held' = 1 /\ stack' = <<[lba |-> 0, idx |-> 1]>> /\ l_no' = 0
        /\ parts' = [s \in Slot |-> [start |-> 0, cnt |-> 0]]
    BY <1>3 DEF power_off
  <2>2. LastSlot \in Slot /\ MaxLogic # 0
    BY PartitionAssumption DEF LastSlot, Slot
  <2>3. Len(stack') = 1
    BY <2>1
  <2> QED BY <2>1, <2>2, <2>3 DEF BufferInv, BuffersGivenBack
<1> QED BY <1>1, <1>2, <1>3, BufferExtended, BufferLinux, BufferLogic, BufferReturn,
           BufferFormat DEF FsNext, scan, scan_step

(***************************************************************************)
(* partition_scan() gives back every buffer but the one of the call that   *)
(* fills the last slot.                                                    *)
(***************************************************************************)
THEOREM BuffersReturned == ASSUME Chained, Roomy PROVE FsSpec => []BuffersGivenBack
<1>1. FsInit => ScanInv /\ BufferInv
  <2> SUFFICES ASSUME FsInit PROVE ScanInv /\ BufferInv
    OBVIOUS
  <2>1. ScanInv
    BY BootedInv DEF FsInit, ScanInit, Booted
  <2>2. LastSlot \in Slot /\ MaxLogic # 0
    BY PartitionAssumption DEF LastSlot, Slot
  <2>3. Len(stack) = 1
    BY DEF FsInit, ScanInit
  <2>4. BufferInv
    BY <2>2, <2>3 DEF FsInit, ScanInit, BufferInv, BuffersGivenBack
  <2> QED BY <2>1, <2>4
<1>2. ScanInv /\ BufferInv /\ [FsNext]_fsVars => ScanInv' /\ BufferInv'
  BY ScanStep, BufferStep
<1>3. BufferInv => BuffersGivenBack
  BY DEF BufferInv
<1> QED BY <1>1, <1>2, <1>3, PTL DEF FsSpec

-----------------------------------------------------------------------------
(* What partition_format() writes.                                          *)

\* The partitions of both kinds, at their absolute places.
Listed == InTables("linux", DOMAIN disk) \cup InTables("logic", DOMAIN disk)

\* What is in a slot is the place of a partition of the disk.
PlaceInv ==
  \A s \in Slot : parts[s].cnt # 0 => \E p \in Listed : p.start = parts[s].start

LEMMA FoundListed ==
  ASSUME Chained, ScanInv, phase = "scan", top.idx <= MaxPrim,
         entry.type \in {"linux", "logic"}
  PROVE  [start |-> top.lba + entry.start, cnt |-> entry.cnt] \in Listed
<1> DEFINE new(l, i) == [start |-> l + disk[l][i].start, cnt |-> disk[l][i].cnt]
           those(type, l) == {i \in DOMAIN disk[l] : disk[l][i].type = type}
<1>1. /\ top.lba \in DOMAIN disk /\ top.idx \in 1..MaxPrim
      /\ entry = disk[top.lba][top.idx]
  BY Top DEF entry
<1>2. DOMAIN disk[top.lba] = 1..MaxPrim
  BY <1>1, Disk DEF Tables
<1>3. top.idx \in those(entry.type, top.lba)
  BY <1>1, <1>2
<1>4. InTables(entry.type, DOMAIN disk) =
        UNION {{new(l, i) : i \in those(entry.type, l)} : l \in DOMAIN disk}
  BY DEF InTables
<1>5. new(top.lba, top.idx) \in InTables(entry.type, DOMAIN disk)
  <2> HIDE DEF new, those
  <2> QED BY <1>1, <1>3, <1>4
<1> QED BY <1>1, <1>5 DEF Listed

\* Conversely a partition of the disk is an entry of a table.
LEMMA ListedSize ==
  ASSUME Chained, Roomy, ScanInv, NEW p \in Listed
  PROVE  p.start \in Nat /\ p.cnt \in Nat /\ p.cnt >= layout_sects
<1>1. PICK type \in {"linux", "logic"} : p \in InTables(type, DOMAIN disk)
  BY DEF Listed
<1>2. PICK l \in DOMAIN disk : \E i \in DOMAIN disk[l] :
        /\ disk[l][i].type = type
        /\ p = [start |-> l + disk[l][i].start, cnt |-> disk[l][i].cnt]
  BY <1>1 DEF InTables
<1>3. PICK i \in DOMAIN disk[l] :
        /\ disk[l][i].type = type
        /\ p = [start |-> l + disk[l][i].start, cnt |-> disk[l][i].cnt]
  BY <1>2
<1>4. i \in 1..MaxPrim /\ disk[l][i] \in Entry /\ l \in Nat
  BY Disk, <1>3 DEF Tables
<1>5. disk[l][i].cnt >= layout_sects
  BY <1>1, <1>3, <1>4 DEF Roomy, ScanInv, ScanTypes
<1> QED BY <1>3, <1>4, <1>5 DEF Entry

LEMMA PlaceFound ==
  ASSUME Chained, ScanInv, PlaceInv, phase = "scan", top.idx <= MaxPrim,
         entry.type \in {"linux", "logic"}, NEW slot \in Slot, found(slot),
         disk' = disk
  PROVE  PlaceInv'
<1>1. \A s \in Slot : parts'[s] = IF s = slot
        THEN [start |-> top.lba + entry.start, cnt |-> entry.cnt] ELSE parts[s]
  BY DEF found, ScanInv, ScanTypes
<1>2. Listed' = Listed
  BY DEF Listed, InTables
<1>3. \A s \in Slot : parts'[s].cnt # 0 => \E p \in Listed : p.start = parts'[s].start
  BY <1>1, FoundListed DEF PlaceInv
<1> QED BY <1>2, <1>3 DEF PlaceInv

LEMMA WritesIs ==
  ASSUME NEW base \in Nat, NEW k \in 0..4
  PROVE  /\ Len(partition_format(base)) = 5
         /\ LET w == partition_format(base)[k + 1]
            IN w.lba \in Nat /\ w.n \in Nat
               /\ w.lba > base /\ w.lba + w.n <= base + layout_sects
<1>1. block_bitmap_sects \in Nat
  BY Layout
<1> DEFINE w == partition_format(base)[k + 1]
           table == inode_table_lba(base)
<1>2. table = base + 2 + block_bitmap_sects + inode_bitmap_sects
  BY DEF inode_table_lba
<1>3. /\ super_block(base).block_bitmap = base + 2
      /\ super_block(base).inode_table = table
      /\ super_block(base).data_start = table + inode_table_sects
  BY DEF super_block, data_start_lba
<1>4. k \in {0, 1, 2, 3, 4}
  OBVIOUS
<1>5. /\ partition_format(base)[1].lba = base + 1 /\ partition_format(base)[1].n = 1
      /\ partition_format(base)[2].lba = base + 2
      /\ partition_format(base)[2].n = block_bitmap_sects
      /\ partition_format(base)[3].lba = base + 2
      /\ partition_format(base)[3].n = inode_bitmap_sects
      /\ partition_format(base)[4].lba = table /\ partition_format(base)[4].n = inode_table_sects
      /\ partition_format(base)[5].lba = table + inode_table_sects
      /\ partition_format(base)[5].n = 1
  BY <1>3 DEF partition_format
<1>6. Len(partition_format(base)) = 5
  BY DEF partition_format
<1>7. \/ w.lba = base + 1 /\ w.n = 1
      \/ w.lba = base + 2 /\ w.n = block_bitmap_sects
      \/ w.lba = base + 2 /\ w.n = inode_bitmap_sects
      \/ w.lba = table /\ w.n = inode_table_sects
      \/ w.lba = table + inode_table_sects /\ w.n = 1
  BY <1>4, <1>5
<1> HIDE DEF w, table
<1>8. w.lba \in Nat /\ w.n \in Nat /\ w.lba > base /\ w.lba + w.n <= base + layout_sects
  BY <1>1, <1>2, <1>7, Sizes DEF layout_sects
<1> QED BY <1>6, <1>8 DEF w

\* What a read returns after a write.
LEMMA ReadBack ==
  ASSUME NEW md, NEW lba \in Nat, NEW n \in Nat, NEW data, NEW x \in Nat
  PROVE  ide_read(ide_write(md, lba, n, data), x) =
           IF x >= lba /\ x < lba + n THEN data[x - lba] ELSE ide_read(md, x)
<1> DEFINE new == ide_write(md, lba, n, data)
<1>1. x \in lba..(lba + n - 1) <=> x >= lba /\ x < lba + n
  OBVIOUS
<1>2. /\ DOMAIN new = DOMAIN md \cup lba..(lba + n - 1)
      /\ \A y \in DOMAIN new : new[y] = IF y \in lba..(lba + n - 1) THEN data[y - lba] ELSE md[y]
  BY DEF ide_write
<1> HIDE DEF new
<1> QED BY <1>1, <1>2 DEF ide_read, new

\* The order of the scan, the formatting and the mount.
OrderInv ==
  /\ part_idx \in 0..(MaxPrim + MaxLogic) /\ written \in 0..4
  /\ phase # "fs" => part_idx = 0 /\ written = 0 /\ mounted = NULL
  /\ written # 0 => part_idx \in Slot /\ parts[part_idx].cnt # 0
  /\ mounted # NULL =>
       part_idx \notin Slot /\ mounted = mount_partition(0) /\ parts[0].cnt # 0

\* The write that a step of format makes.
LEMMA Formats ==
  ASSUME Chained, ScanInv, OrderInv, format
  PROVE  LET base == parts[part_idx].start
             w == partition_format(base)[written + 1]
         IN /\ base \in Nat /\ part_idx \in Slot /\ parts[part_idx].cnt # 0
            /\ media' = ide_write(media, w.lba, w.n, w.data)
            /\ written' = (IF written = 4 THEN 0 ELSE written + 1)
            /\ part_idx' = (IF written = 4 THEN part_idx + 1 ELSE part_idx)
            /\ \A s \in Slot : /\ parts'[s].start = parts[s].start
                               /\ parts'[s].cnt # 0 <=> parts[s].cnt # 0
<1> DEFINE base == parts[part_idx].start
           writes == partition_format(base)
<1>1. /\ part_idx \in Slot /\ parts[part_idx].cnt # 0
      /\ media' = ide_write(media, writes[written + 1].lba, writes[written + 1].n,
                            writes[written + 1].data)
      /\ written' = (written + 1) % Len(writes)
      /\ part_idx' = IF written' = 0 THEN part_idx + 1 ELSE part_idx
      /\ parts' = [parts EXCEPT ![part_idx].cnt = used_sects]
  BY DEF format, formatting
<1>2. base \in Nat /\ written \in 0..4
  BY <1>1 DEF ScanInv, ScanTypes, OrderInv
<1>3. Len(writes) = 5
  BY <1>2, WritesIs
<1>4. \A s \in Slot : /\ parts'[s].start = parts[s].start
                      /\ parts'[s].cnt # 0 <=> parts[s].cnt # 0
  BY <1>1, Sizes DEF ScanInv, ScanTypes
<1> HIDE DEF base, writes
<1>5. written' = IF written = 4 THEN 0 ELSE written + 1
  <2>1. written \in {0, 1, 2, 3, 4}
    BY <1>2
  <2> QED BY <1>1, <1>3, <2>1
<1>6. written' = 0 <=> written = 4
  BY <1>2, <1>5
<1> QED BY <1>1, <1>2, <1>4, <1>5, <1>6 DEF base, writes

LEMMA PlaceStep ==
  ASSUME Chained, ScanInv, OrderInv, PlaceInv, [FsNext]_fsVars PROVE PlaceInv'
<1>1. CASE scan_linux
  <2>1. phase = "scan" /\ top.idx <= MaxPrim /\ entry.type = "linux" /\ disk' = disk
    BY <1>1 DEF scan_linux, at
  <2>2. p_no \in Slot /\ ~(p_no >= MaxPrim)
    BY <2>1, PrimarySlot, Disk DEF Slot
  <2>3. found(p_no)
    BY <1>1, <2>2 DEF scan_linux
  <2> QED BY <2>1, <2>2, <2>3, PlaceFound
<1>2. CASE scan_logic
  <2>1. phase = "scan" /\ top.idx <= MaxPrim /\ entry.type = "logic" /\ disk' = disk
    BY <1>2 DEF scan_logic, at
  <2>2. MaxPrim + l_no \in Slot /\ ~(l_no >= MaxLogic)
    BY <2>1, LogicSlot, Disk
  <2>3. found(MaxPrim + l_no)
    BY <1>2, <2>2 DEF scan_logic
  <2> QED BY <2>1, <2>2, <2>3, PlaceFound
<1>3. CASE /\ scan_extended \/ scan_empty \/ scan_other \/ scan_return \/ second_channel
              \/ format_skip \/ mount \/ UNCHANGED fsVars
  <2>1. UNCHANGED <<disk, parts>>
    BY <1>3 DEF scan_extended, scan_empty, scan_other, scan_return, second_channel,
                format_skip, mount, fsVars, scanVars
  <2> QED BY <2>1 DEF PlaceInv, Listed, InTables
<1>4. CASE format
  <2>1. \A s \in Slot : /\ parts'[s].start = parts[s].start
                        /\ parts'[s].cnt # 0 <=> parts[s].cnt # 0
    BY <1>4, Formats
  <2>2. Listed' = Listed
    <3>1. disk' = disk
      BY <1>4 DEF format
    <3> QED BY <3>1 DEF Listed, InTables
  <2> QED BY <2>1, <2>2 DEF PlaceInv
<1>5. CASE power_off
  BY <1>5 DEF power_off, PlaceInv
<1> QED BY <1>1, <1>2, <1>3, <1>4, <1>5 DEF FsNext, scan, scan_step

-----------------------------------------------------------------------------
(* The list of partitions. That list_find() finds a slot is all that the    *)
(* mount needs: the slot then holds a partition.                            *)

Found == {s \in Slot : parts[s].cnt # 0}

Node == Slot \cup {header, tailer}

\* The pointers lead from the header to slots in use, or to the end.
LinkInv ==
  /\ links \in [Node -> [prev : Node \cup {NULL}, next : Node \cup {NULL}]]
  /\ links[header].next \in Found \cup {tailer}
  /\ \A s \in Found : links[s].next \in Found \cup {tailer}

LEMMA Nodes ==
  /\ header # tailer /\ header \notin Slot /\ tailer \notin Slot
  /\ IsFiniteSet(Node) /\ Cardinality(Node) \in Nat
  /\ 0 \in Slot /\ Slot \subseteq Nat
<1>1. MaxPrim + MaxLogic - 1 \in Nat /\ Slot \subseteq Nat /\ 0 \in Slot
  BY PartitionAssumption DEF Slot
<1>2. header # tailer /\ header \notin Slot /\ tailer \notin Slot
  BY <1>1, PartitionAssumption
<1>3. IsFiniteSet(Slot)
  <2>1. IsFiniteSet(0..(MaxPrim + MaxLogic - 1))
    BY <1>1, FS_Interval
  <2> QED BY <2>1 DEF Slot
<1>4. IsFiniteSet(Slot \cup {header})
  BY <1>3, FS_AddElement
<1>5. IsFiniteSet((Slot \cup {header}) \cup {tailer})
  BY <1>4, FS_AddElement
<1>6. (Slot \cup {header}) \cup {tailer} = Node
  BY DEF Node
<1>7. IsFiniteSet(Node) /\ Cardinality(Node) \in Nat
  BY <1>5, <1>6, FS_CardinalityType
<1> QED BY <1>1, <1>2, <1>7

\* An element that is appended leads to the end, and nothing else leads to
\* anything new but it.
LEMMA AppendLinks ==
  ASSUME NEW P, NEW m \in [Node -> [prev : P, next : P]], NEW e \in Slot,
         e \in P, tailer \in P
  PROVE  LET new == list_append(m, partition_list, e)
         IN /\ new \in [Node -> [prev : P, next : P]]
            /\ new[e].next = tailer
            /\ \A x \in Node : new[x].next \in {m[x].next, e, tailer}
            /\ new[header].next \in {m[header].next, e}
            /\ \A x \in Slot \ {e} : new[x].next \in {m[x].next, e}
<1> DEFINE t == partition_list.tailer
           last == m[t].prev
           m1 == [m EXCEPT ![last].next = e]
           m2 == [m1 EXCEPT ![e].prev = m1[t].prev]
           m3 == [m2 EXCEPT ![e].next = t]
           new == [m3 EXCEPT ![t].prev = e]
<1>1. list_append(m, partition_list, e) = new
  BY DEF list_append, list_insert_before
<1>2. t = tailer /\ t \in Node /\ e \in Node /\ header \in Node /\ t # e /\ t # header /\ e # header
  BY Nodes DEF partition_list, Node
<1> HIDE DEF t, last
<1>3. /\ m1 \in [Node -> [prev : P, next : P]]
      /\ \A x \in Node : m1[x].next \in {m[x].next, e}
  BY <1>2
<1> HIDE DEF m1
<1>4. /\ m2 \in [Node -> [prev : P, next : P]]
      /\ \A x \in Node : m2[x].next = m1[x].next
  BY <1>2, <1>3
<1> HIDE DEF m2
<1>5. /\ m3 \in [Node -> [prev : P, next : P]]
      /\ \A x \in Node : m3[x].next = IF x = e THEN t ELSE m2[x].next
  BY <1>2, <1>4
<1> HIDE DEF m3
<1>6. /\ new \in [Node -> [prev : P, next : P]]
      /\ \A x \in Node : new[x].next = m3[x].next
  BY <1>2, <1>5
<1> HIDE DEF new
<1>7. \A x \in Slot : x \in Node
  BY DEF Node
<1> QED BY <1>1, <1>2, <1>3, <1>4, <1>5, <1>6, <1>7

LEMMA InitLinks ==
  ASSUME NEW P, NEW m \in [Node -> [prev : P, next : P]], NULL \in P, header \in P, tailer \in P
  PROVE  LET new == list_init(m, partition_list)
         IN /\ new \in [Node -> [prev : P, next : P]]
            /\ new[header].next = tailer
            /\ \A x \in Slot : new[x] = m[x]
<1>1. /\ partition_list.header = header /\ partition_list.tailer = tailer
      /\ header \in Node /\ tailer \in Node
  BY DEF partition_list, Node
<1>2. list_init(m, partition_list) =
        [m EXCEPT ![header] = [prev |-> NULL, next |-> tailer],
                  ![tailer] = [prev |-> header, next |-> NULL]]
  BY <1>1 DEF list_init
<1>3. \A x \in Slot : x \in Node /\ x # header /\ x # tailer
  BY Nodes DEF Node
<1> QED BY <1>1, <1>2, <1>3, Nodes

LEMMA LinkFound ==
  ASSUME ScanInv, LinkInv, NEW slot \in Slot, found(slot), entry.cnt # 0
  PROVE  LinkInv'
<1> DEFINE P == Node \cup {NULL}
<1>1. /\ links' = list_append(links, partition_list, slot)
      /\ \A s \in Slot : parts'[s].cnt = IF s = slot THEN entry.cnt ELSE parts[s].cnt
  BY BufferFound DEF found
<1>2. Found' = Found \cup {slot}
  BY <1>1 DEF Found
<1>3. links \in [Node -> [prev : P, next : P]] /\ slot \in P /\ tailer \in P
  BY DEF LinkInv, Node
<1> HIDE DEF P
<1>4. /\ links' \in [Node -> [prev : P, next : P]]
      /\ links'[slot].next = tailer
      /\ links'[header].next \in {links[header].next, slot}
      /\ \A x \in Slot \ {slot} : links'[x].next \in {links[x].next, slot}
  BY <1>1, <1>3, AppendLinks
<1>5. Found \subseteq Slot
  BY DEF Found
<1>6. links'[header].next \in Found' \cup {tailer}
  BY <1>2, <1>4 DEF LinkInv
<1>7. \A s \in Found' : links'[s].next \in Found' \cup {tailer}
  BY <1>2, <1>4, <1>5 DEF LinkInv
<1> QED BY <1>4, <1>6, <1>7 DEF LinkInv, P

LEMMA LinkStep ==
  ASSUME Chained, Roomy, ScanInv, LinkInv, [FsNext]_fsVars PROVE LinkInv'
<1>1. ASSUME phase = "scan", top.idx <= MaxPrim, entry.type \in {"linux", "logic"},
             NEW slot \in Slot, found(slot)
      PROVE  LinkInv'
  <2>1. [start |-> top.lba + entry.start, cnt |-> entry.cnt] \in Listed
    BY <1>1, FoundListed
  <2>2. entry.cnt \in Nat /\ entry.cnt >= layout_sects
    BY <2>1, ListedSize
  <2>3. entry.cnt # 0
    BY <2>2, Layout
  <2> QED BY <1>1, <2>3, LinkFound
<1>2. CASE scan_linux
  <2>1. phase = "scan" /\ top.idx <= MaxPrim /\ entry.type = "linux"
    BY <1>2 DEF scan_linux, at
  <2>2. p_no \in Slot /\ ~(p_no >= MaxPrim)
    BY <2>1, PrimarySlot, Disk DEF Slot
  <2> QED BY <1>1, <1>2, <2>1, <2>2 DEF scan_linux
<1>3. CASE scan_logic
  <2>1. phase = "scan" /\ top.idx <= MaxPrim /\ entry.type = "logic"
    BY <1>3 DEF scan_logic, at
  <2>2. MaxPrim + l_no \in Slot /\ ~(l_no >= MaxLogic)
    BY <2>1, LogicSlot, Disk
  <2> QED BY <1>1, <1>3, <2>1, <2>2 DEF scan_logic
<1>4. CASE \/ scan_extended \/ scan_empty \/ scan_other \/ scan_return
           \/ format_skip \/ mount \/ UNCHANGED fsVars
  <2>1. UNCHANGED <<links, parts>>
    BY <1>4 DEF scan_extended, scan_empty, scan_other, scan_return,
                format_skip, mount, fsVars, scanVars
  <2> QED BY <2>1 DEF LinkInv, Found
<1>5. CASE format
  <2>1. links' = links /\ part_idx \in Slot /\ parts[part_idx].cnt # 0
        /\ parts' = [parts EXCEPT ![part_idx].cnt = used_sects]
    BY <1>5 DEF format, formatting
  <2>2. \A s \in Slot : parts'[s].cnt # 0 <=> parts[s].cnt # 0
    BY <2>1, Sizes DEF ScanInv, ScanTypes
  <2>3. Found' = Found
    BY <2>2 DEF Found
  <2> QED BY <2>1, <2>3 DEF LinkInv
<1> DEFINE P == Node \cup {NULL}
<1>6. CASE second_channel
  <2>1. links' = list_init(links, partition_list) /\ parts' = parts
    BY <1>6 DEF second_channel
  <2>2. Found' = Found /\ Found \subseteq Slot
    BY <2>1 DEF Found
  <2>3. links \in [Node -> [prev : P, next : P]] /\ NULL \in P /\ header \in P /\ tailer \in P
    BY DEF LinkInv, Node
  <2> HIDE DEF P
  <2>4. /\ links' \in [Node -> [prev : P, next : P]] /\ links'[header].next = tailer
        /\ \A x \in Slot : links'[x] = links[x]
    BY <2>1, <2>3, InitLinks
  <2> QED BY <2>2, <2>4 DEF LinkInv, P
<1>7. CASE power_off
  <2> DEFINE blank == [e \in Node |-> Zero]
  <2>1. /\ links' = list_init(blank, partition_list)
        /\ parts' = [s \in Slot |-> [start |-> 0, cnt |-> 0]]
    BY <1>7 DEF power_off, LinkInv
  <2>2. Found' = {}
    BY <2>1 DEF Found
  <2>3. /\ blank \in [Node -> [prev : P, next : P]]
        /\ NULL \in P /\ header \in P /\ tailer \in P
    BY DEF Node, Zero
  <2> HIDE DEF P, blank
  <2>4. links' \in [Node -> [prev : P, next : P]] /\ links'[header].next = tailer
    BY <2>1, <2>3, InitLinks
  <2> QED BY <2>2, <2>4 DEF LinkInv, P
<1> QED BY <1>2, <1>3, <1>4, <1>5, <1>6, <1>7 DEF FsNext, scan, scan_step

LEMMA InitLinkInv == ASSUME ScanInit PROVE LinkInv
<1> DEFINE P == Node \cup {NULL}
           blank == [e \in Node |-> Zero]
<1>1. links = list_init(blank, partition_list) /\ Found = {}
  <2>1. Node = Slot \cup {header, tailer}
    BY DEF Node
  <2> QED BY <2>1 DEF ScanInit, Found
<1>2. /\ blank \in [Node -> [prev : P, next : P]]
      /\ NULL \in P /\ header \in P /\ tailer \in P
  BY DEF Node, Zero
<1> HIDE DEF P, blank
<1>3. links \in [Node -> [prev : P, next : P]] /\ links[header].next = tailer
  BY <1>1, <1>2, InitLinks
<1> QED BY <1>1, <1>3 DEF LinkInv, P

\* The recursion of visited() has a solution.
LEMMA WalkExists ==
  ASSUME NEW m, NEW pl
  PROVE  \A n \in Nat : \E h : Walk(m, pl, n, h)
<1> DEFINE B == {n \in Nat : \E h : Walk(m, pl, n, h)}
           after(e) == IF e \in {pl.tailer, NULL} THEN e ELSE m[e].next
<1>1. 0 \in B
  <2> DEFINE h == [i \in 0..0 |-> m[pl.header].next]
  <2>1. Walk(m, pl, 0, h)
    BY DEF Walk
  <2> HIDE DEF h
  <2> QED BY <2>1
<1>2. ASSUME NEW n \in Nat, n \in B PROVE n + 1 \in B
  <2>1. PICK g : Walk(m, pl, n, g)
    BY <1>2
  <2> DEFINE h == [i \in 0..(n + 1) |-> IF i = n + 1 THEN after(g[n]) ELSE g[i]]
  <2>2. (\A i \in 0..n : h[i] = g[i]) /\ h[n + 1] = after(g[n])
    OBVIOUS
  <2>3. h = [i \in 0..(n + 1) |-> h[i]]
    OBVIOUS
  <2>4. \A i \in 0..n : g[i] = IF i = 0 THEN m[pl.header].next ELSE after(g[i - 1])
    BY <2>1 DEF Walk
  <2> HIDE DEF h
  <2>5. ASSUME NEW i \in 0..(n + 1)
        PROVE  h[i] = IF i = 0 THEN m[pl.header].next ELSE after(h[i - 1])
    <3>1. CASE i = n + 1
      <4>1. h[n] = g[n] /\ n + 1 # 0 /\ (n + 1) - 1 = n
        BY <2>2
      <4> HIDE DEF after
      <4> QED BY <2>2, <3>1, <4>1
    <3>2. CASE i # n + 1
      <4>1. i \in 0..n /\ (i # 0 => i - 1 \in 0..n)
        BY <3>2
      <4> HIDE DEF after
      <4> QED BY <2>2, <2>4, <4>1
    <3> QED BY <3>1, <3>2
  <2>6. Walk(m, pl, n + 1, h)
    BY <2>3, <2>5 DEF Walk
  <2> QED BY <2>6
<1>3. B = Nat
  <2> HIDE DEF B
  <2>1. B \in SUBSET Nat
    BY DEF B
  <2> QED BY <1>1, <1>2, <2>1, Induction
<1> QED BY <1>3

(***************************************************************************)
(* The walk of list_find() meets slots that hold a partition, and the end. *)
(***************************************************************************)
LEMMA FindsFound ==
  ASSUME LinkInv, list_find(links, partition_list, 0)
  PROVE  parts[0].cnt # 0
<1> DEFINE N == Cardinality(Node)
           f == CHOOSE h : Walk(links, partition_list, N, h)
           ends == {i \in 0..N : f[i] = partition_list.tailer}
           least == CHOOSE k \in ends : \A j \in ends : k <= j
           q == [i \in 1..least |-> f[i - 1]]
           S == Found \cup {tailer}
<1>1. N \in Nat /\ DOMAIN links = Node
  BY Nodes DEF LinkInv
<1>2. Walk(links, partition_list, N, f)
  <2>1. \E h : Walk(links, partition_list, N, h)
    BY <1>1, WalkExists
  <2> QED BY <2>1
<1>3. visited(links, partition_list) = IF ends = {} THEN NULL ELSE q
  BY <1>1 DEF visited, Walk
<1> HIDE DEF f, N
<1>4. /\ f[0] = links[header].next
      /\ \A i \in Nat : i + 1 \in 0..N =>
           f[i + 1] = IF f[i] \in {tailer, NULL} THEN f[i] ELSE links[f[i]].next
  <2>1. partition_list.header = header /\ partition_list.tailer = tailer
    BY DEF partition_list
  <2>2. \A i \in 0..N : f[i] = IF i = 0 THEN links[header].next
          ELSE IF f[i - 1] \in {tailer, NULL} THEN f[i - 1] ELSE links[f[i - 1]].next
    BY <1>2, <2>1 DEF Walk
  <2>3. 0 \in 0..N
    BY <1>1
  <2>4. ASSUME NEW i \in Nat, i + 1 \in 0..N
        PROVE  f[i + 1] = IF f[i] \in {tailer, NULL} THEN f[i] ELSE links[f[i]].next
    <3>1. i + 1 # 0 /\ (i + 1) - 1 = i
      OBVIOUS
    <3> QED BY <2>2, <2>4, <3>1
  <2> QED BY <2>2, <2>3, <2>4
<1>5. \A i \in 0..N : f[i] \in S
  <2> DEFINE B == {i \in Nat : i \in 0..N => f[i] \in S}
  <2>1. 0 \in B
    BY <1>4 DEF LinkInv
  <2>2. ASSUME NEW i \in Nat, i \in B PROVE i + 1 \in B
    <3>1. SUFFICES ASSUME i + 1 \in 0..N PROVE f[i + 1] \in S
      OBVIOUS
    <3>2. i \in 0..N /\ f[i] \in S
      BY <1>1, <2>2, <3>1
    <3> QED BY <1>4, <3>1, <3>2 DEF LinkInv
  <2>3. B = Nat
    <3> HIDE DEF B
    <3>1. B \in SUBSET Nat
      BY DEF B
    <3> QED BY <2>1, <2>2, <3>1, Induction
  <2> QED BY <1>1, <2>3
<1>6. ends # {} /\ \E i \in 1..Len(q) : q[i] = 0
  BY <1>3 DEF list_find
<1>7. least \in 0..N
  <2>1. \E k \in ends : \A j \in ends : k <= j
    <3>1. ends \subseteq Nat
      BY <1>1
    <3> HIDE DEF ends
    <3> QED BY <1>6, <3>1, Least
  <2> QED BY <2>1
<1> HIDE DEF ends, least
<1>8. \A i \in 1..Len(q) : q[i] \in S
  <2>1. least \in Nat /\ \A i \in 1..least : i - 1 \in 0..N
    BY <1>1, <1>7
  <2>2. Len(q) = least /\ \A i \in 1..least : q[i] = f[i - 1]
    BY <2>1
  <2> QED BY <1>5, <2>1, <2>2
<1>9. 0 \in S
  BY <1>6, <1>8
<1> QED BY <1>9, Nodes DEF Found

-----------------------------------------------------------------------------
(***************************************************************************)
(* Formatting a partition writes to its own sectors, without the boot      *)
(* sector, on disks whose partitions are as large as the layout.           *)
(***************************************************************************)
LEMMA FormatInside ==
  ASSUME Chained, Roomy, ScanInv, OrderInv, PlaceInv, [FsNext]_fsVars, media' # media
  PROVE  {x \in DOMAIN media' : x \notin DOMAIN media \/ media'[x] # media[x]}
           \subseteq Sectors(parts[part_idx].start) \ {parts[part_idx].start}
<1>1. format
  BY DEF FsNext, scan, format_skip, mount, power_off, fsVars
<1> DEFINE base == parts[part_idx].start
           w == partition_format(base)[written + 1]
<1>2. /\ base \in Nat /\ part_idx \in Slot /\ parts[part_idx].cnt # 0
      /\ media' = ide_write(media, w.lba, w.n, w.data) /\ written \in 0..4
  BY <1>1, Formats DEF OrderInv
<1>3. w.lba \in Nat /\ w.n \in Nat /\ w.lba > base /\ w.lba + w.n <= base + layout_sects
  BY <1>2, WritesIs
<1>4. PICK p \in Listed : p.start = base
  BY <1>2 DEF PlaceInv
<1>5. p.cnt \in Nat /\ p.cnt >= layout_sects /\ layout_sects \in Nat
  BY ListedSize, Layout
<1>6. Extent(p) \subseteq Sectors(base)
  BY <1>4 DEF Sectors, Listed
<1>7. Extent(p) = base..(base + p.cnt - 1)
  BY <1>4 DEF Extent
<1> HIDE DEF base, w
<1>8. ASSUME NEW x \in DOMAIN media', x \notin DOMAIN media \/ media'[x] # media[x]
      PROVE  x \in w.lba..(w.lba + w.n - 1)
  BY <1>2, <1>8 DEF ide_write
<1>9. w.lba..(w.lba + w.n - 1) \subseteq Extent(p) \ {base}
  BY <1>2, <1>3, <1>5, <1>7
<1> QED BY <1>6, <1>8, <1>9 DEF base

-----------------------------------------------------------------------------
(* What is mounted.                                                         *)

\* The parts of a file system, where its super block says that they are.
SuperAt(md, b) == ide_read(md, super_block_lba(b)) = super_block(b)

\* The third write leaves the inode bitmap where the block bitmap should be.
BitsAt(md, b) == ide_read(md, b + 2) = bitmap_sectors({0}, inode_bitmap_sects)[0]

InodesAt(md, b) ==
  LET x == ide_read(md, inode_table_lba(b)) IN x.kind = "inodes" /\ x.root = data_start_lba(b)

DirAt(md, b) == ide_read(md, data_start_lba(b)).kind = "dir"

(***************************************************************************)
(* The first slot's file system while it is written, and afterwards.  A    *)
(* later slot can start at the same sector; formatting it writes the same  *)
(* things, but for a moment the block bitmap that the next write replaces. *)
(***************************************************************************)
MediaInv ==
  parts[0].cnt # 0 =>
    LET b == parts[0].start
    IN IF part_idx = 0
       THEN /\ written >= 1 => SuperAt(media, b)
            /\ written >= 3 => BitsAt(media, b)
            /\ written >= 4 => InodesAt(media, b)
       ELSE /\ SuperAt(media, b) /\ InodesAt(media, b) /\ DirAt(media, b)
            /\ BitsAt(media, b) \/ (written = 2 /\ parts[part_idx].start = b)

\* Where those parts are, and what a write does to them.
LEMMA Lbas ==
  ASSUME NEW b \in Nat
  PROVE  /\ super_block_lba(b) = b + 1
         /\ inode_table_lba(b) = b + 2 + block_bitmap_sects + inode_bitmap_sects
         /\ data_start_lba(b) = inode_table_lba(b) + inode_table_sects
         /\ \A x \in {b + 1, b + 2, inode_table_lba(b), data_start_lba(b)} :
              x \in Nat /\ b < x /\ x < b + layout_sects
<1>1. /\ super_block_lba(b) = b + 1
      /\ inode_table_lba(b) = b + 2 + block_bitmap_sects + inode_bitmap_sects
      /\ data_start_lba(b) = inode_table_lba(b) + inode_table_sects
  BY DEF super_block_lba, inode_table_lba, data_start_lba
<1> QED BY <1>1, Layout, Sizes DEF layout_sects

\* The media after the write that follows k others.
Written(md, b, k) ==
  LET w == partition_format(b)[k + 1] IN ide_write(md, w.lba, w.n, w.data)

\* The five writes.
LEMMA Write ==
  ASSUME NEW md, NEW b \in Nat, NEW k \in 0..4, NEW new, new = Written(md, b, k)
  PROVE  /\ k = 0 \/ SuperAt(md, b) => SuperAt(new, b)
         /\ k = 2 \/ (k # 1 /\ BitsAt(md, b)) => BitsAt(new, b)
         /\ k = 3 \/ InodesAt(md, b) => InodesAt(new, b)
         /\ k = 4 \/ DirAt(md, b) => DirAt(new, b)
<1> DEFINE t == inode_table_lba(b)
           s == data_start_lba(b)
           B == block_bitmap_sects
           I == inode_bitmap_sects
           T == inode_table_sects
           zero == [j \in 0..0 |-> super_block(b)]
           four == [j \in 0..0 |-> [kind |-> "dir"]]
           one == bitmap_sectors(block_bitmap, B)
           two == bitmap_sectors({0}, I)
           three == inode_sectors(b)
<1>1. /\ partition_format(b)[1] = [lba |-> b + 1, n |-> 1, data |-> zero]
      /\ partition_format(b)[2] = [lba |-> b + 2, n |-> B, data |-> one]
      /\ partition_format(b)[3] = [lba |-> b + 2, n |-> I, data |-> two]
      /\ partition_format(b)[4] = [lba |-> t, n |-> T, data |-> three]
      /\ partition_format(b)[5] = [lba |-> s, n |-> 1, data |-> four]
  BY DEF partition_format, super_block
<1>2. /\ B \in Nat /\ I \in Nat /\ I > 0 /\ T \in Nat /\ T > 0
      /\ super_block_lba(b) = b + 1 /\ t = b + 2 + B + I /\ s = t + T
  BY Layout, Sizes, Lbas
<1>3. /\ zero[0] = super_block(b) /\ four[0].kind = "dir"
  OBVIOUS
<1>4. two[0] = bitmap_sectors({0}, inode_bitmap_sects)[0]
  OBVIOUS
<1>5. three[0] = [kind |-> "inodes", root |-> s]
  <2>1. 0 \in 0..(T - 1)
    BY <1>2
  <2> QED BY <2>1 DEF inode_sectors
<1> HIDE DEF t, s, B, I, T, zero, one, two, three, four
<1>6. ASSUME NEW x \in Nat
      PROVE  ide_read(new, x) =
               LET w == partition_format(b)[k + 1]
               IN IF x >= w.lba /\ x < w.lba + w.n THEN w.data[x - w.lba] ELSE ide_read(md, x)
  BY <1>6, WritesIs, ReadBack DEF Written
<1>7. ASSUME NEW x \in Nat
      PROVE  ide_read(new, x) =
               CASE k = 0 /\ x = b + 1 -> zero[x - (b + 1)]
                 [] k = 1 /\ x >= b + 2 /\ x < b + 2 + B -> one[x - (b + 2)]
                 [] k = 2 /\ x >= b + 2 /\ x < b + 2 + I -> two[x - (b + 2)]
                 [] k = 3 /\ x >= t /\ x < t + T -> three[x - t]
                 [] k = 4 /\ x = s -> four[x - s]
                 [] OTHER -> ide_read(md, x)
  <2>1. CASE k = 0
    <3>1. x >= b + 1 /\ x < b + 1 + 1 <=> x = b + 1
      OBVIOUS
    <3> QED BY <1>1, <1>6, <2>1, <3>1
  <2>2. CASE k = 1
    BY <1>1, <1>6, <2>2
  <2>3. CASE k = 2
    BY <1>1, <1>6, <2>3
  <2>4. CASE k = 3
    BY <1>1, <1>6, <2>4
  <2>5. CASE k = 4
    <3>1. x >= s /\ x < s + 1 <=> x = s
      BY <1>2
    <3> QED BY <1>1, <1>6, <2>5, <3>1
  <2> QED BY <2>1, <2>2, <2>3, <2>4, <2>5
<1>8. ide_read(new, b + 1) = IF k = 0 THEN super_block(b) ELSE ide_read(md, b + 1)
  BY <1>2, <1>3, <1>7
<1>9. /\ k = 2 => ide_read(new, b + 2) = two[0]
      /\ k \notin {1, 2} => ide_read(new, b + 2) = ide_read(md, b + 2)
  BY <1>2, <1>7
<1>10. ide_read(new, t) = IF k = 3 THEN three[0] ELSE ide_read(md, t)
  BY <1>2, <1>7
<1>11. ide_read(new, s) = IF k = 4 THEN four[0] ELSE ide_read(md, s)
  BY <1>2, <1>7
<1>12. k = 0 \/ SuperAt(md, b) => SuperAt(new, b)
  BY <1>2, <1>8 DEF SuperAt
<1>13. k = 2 \/ (k # 1 /\ BitsAt(md, b)) => BitsAt(new, b)
  BY <1>4, <1>9 DEF BitsAt
<1>14. k = 3 \/ InodesAt(md, b) => InodesAt(new, b)
  BY <1>5, <1>10 DEF InodesAt, t, s
<1>15. k = 4 \/ DirAt(md, b) => DirAt(new, b)
  BY <1>3, <1>11 DEF DirAt, s
<1> QED BY <1>12, <1>13, <1>14, <1>15

LEMMA OrderStep ==
  ASSUME Chained, ScanInv, OrderInv, LinkInv, [FsNext]_fsVars PROVE OrderInv'
<1>1. MaxPrim + MaxLogic \in Nat /\ 0 \in Slot /\ \A k \in Slot : k + 1 \in 0..(MaxPrim + MaxLogic)
  BY PartitionAssumption, Nodes DEF Slot
<1>2. CASE scan
  <2>1. phase # "fs" /\ UNCHANGED <<part_idx, written, mounted>>
    BY <1>2 DEF scan, scan_step, scan_extended, scan_linux, scan_empty, scan_logic, scan_other,
                scan_return, second_channel, at
  <2> QED BY <1>1, <2>1 DEF OrderInv
<1>3. CASE format
  <2>1. /\ part_idx \in Slot /\ parts[part_idx].cnt # 0
        /\ written' = (IF written = 4 THEN 0 ELSE written + 1)
        /\ part_idx' = (IF written = 4 THEN part_idx + 1 ELSE part_idx)
        /\ \A s \in Slot : parts'[s].cnt # 0 <=> parts[s].cnt # 0
    BY <1>3, Formats
  <2>2. phase = "fs" /\ phase' = phase /\ mounted' = mounted
    BY <1>3 DEF format, formatting
  <2>3. mounted = NULL
    BY <2>1 DEF OrderInv
  <2>4. written \in 0..4 /\ written' \in 0..4
    BY <2>1 DEF OrderInv
  <2>5. part_idx' \in 0..(MaxPrim + MaxLogic)
    BY <1>1, <2>1 DEF OrderInv
  <2>6. written' # 0 => part_idx' \in Slot /\ parts'[part_idx'].cnt # 0
    BY <2>1
  <2> QED BY <2>2, <2>3, <2>4, <2>5, <2>6 DEF OrderInv
<1>4. CASE format_skip
  <2>1. /\ phase = "fs" /\ part_idx \in Slot /\ parts[part_idx].cnt = 0
        /\ part_idx' = part_idx + 1
        /\ UNCHANGED <<phase, parts, media, written, mounted>>
    BY <1>4 DEF format_skip, formatting, format_needed, scanVars
  <2> QED BY <1>1, <2>1 DEF OrderInv
<1>5. CASE mount
  <2>1. /\ phase = "fs" /\ part_idx \notin Slot /\ list_find(links, partition_list, 0)
        /\ mounted' = mount_partition(0)
        /\ UNCHANGED <<phase, parts, media, part_idx, written>>
    BY <1>5 DEF mount, scanVars
  <2>2. parts[0].cnt # 0
    BY <2>1, FindsFound
  <2>3. mount_partition(0)' = mount_partition(0)
    BY <2>1 DEF mount_partition
  <2> QED BY <2>1, <2>2, <2>3 DEF OrderInv
<1>6. CASE power_off
  <2>1. part_idx' = 0 /\ written' = 0 /\ mounted' = NULL
    BY <1>6 DEF power_off
  <2> QED BY <1>1, <2>1 DEF OrderInv
<1>7. CASE UNCHANGED fsVars
  <2>1. UNCHANGED <<phase, parts, media, part_idx, written, mounted>>
    BY <1>7 DEF fsVars, scanVars
  <2>2. mount_partition(0)' = mount_partition(0)
    BY <2>1 DEF mount_partition
  <2> QED BY <2>1, <2>2 DEF OrderInv
<1> QED BY <1>2, <1>3, <1>4, <1>5, <1>6, <1>7 DEF FsNext

\* Two partitions of a disk.
LEMMA ListedApart ==
  ASSUME Chained, Apart, ScanInv, NEW p \in Listed, NEW q \in Listed, p.start # q.start
  PROVE  p.start + p.cnt <= q.start \/ q.start + q.cnt <= p.start
<1>1. ASSUME NEW r \in Listed
      PROVE  \E l \in DOMAIN disk : \E i \in 1..MaxPrim :
               /\ disk[l][i].type \in {"linux", "logic"}
               /\ r = [start |-> l + disk[l][i].start, cnt |-> disk[l][i].cnt]
  <2>1. PICK type \in {"linux", "logic"} : r \in InTables(type, DOMAIN disk)
    BY DEF Listed
  <2>2. PICK l \in DOMAIN disk : \E i \in DOMAIN disk[l] :
          /\ disk[l][i].type = type
          /\ r = [start |-> l + disk[l][i].start, cnt |-> disk[l][i].cnt]
    BY <2>1 DEF InTables
  <2>3. DOMAIN disk[l] = 1..MaxPrim
    BY Disk DEF Tables
  <2> QED BY <2>1, <2>2, <2>3
<1>2. PICK l \in DOMAIN disk, i \in 1..MaxPrim :
        /\ disk[l][i].type \in {"linux", "logic"}
        /\ p = [start |-> l + disk[l][i].start, cnt |-> disk[l][i].cnt]
  BY <1>1
<1>3. PICK m \in DOMAIN disk, j \in 1..MaxPrim :
        /\ disk[m][j].type \in {"linux", "logic"}
        /\ q = [start |-> m + disk[m][j].start, cnt |-> disk[m][j].cnt]
  BY <1>1
<1>4. disk \in Disks
  BY DEF ScanInv, ScanTypes
<1> QED BY <1>2, <1>3, <1>4 DEF Apart

\* A partition elsewhere is not touched.
LEMMA FormatElsewhere ==
  ASSUME Chained, Roomy, Apart, ScanInv, OrderInv, PlaceInv, format,
         NEW s \in Slot, parts[s].cnt # 0, parts[s].start # parts[part_idx].start
  PROVE  LET b == parts[s].start
         IN /\ SuperAt(media, b) => SuperAt(media', b)
            /\ BitsAt(media, b) => BitsAt(media', b)
            /\ InodesAt(media, b) => InodesAt(media', b)
            /\ DirAt(media, b) => DirAt(media', b)
<1> DEFINE b == parts[s].start
           c == parts[part_idx].start
           w == partition_format(c)[written + 1]
<1>1. /\ b \in Nat /\ c \in Nat /\ part_idx \in Slot /\ parts[part_idx].cnt # 0
      /\ media' = ide_write(media, w.lba, w.n, w.data) /\ written \in 0..4
  BY Formats DEF OrderInv, ScanInv, ScanTypes
<1>2. w.lba \in Nat /\ w.n \in Nat /\ w.lba > c /\ w.lba + w.n <= c + layout_sects
  BY <1>1, WritesIs
<1>3. PICK p \in Listed, q \in Listed : p.start = b /\ q.start = c
  BY <1>1 DEF PlaceInv
<1>4. /\ p.cnt \in Nat /\ p.cnt >= layout_sects /\ q.cnt \in Nat /\ q.cnt >= layout_sects
      /\ layout_sects \in Nat
  BY ListedSize, Layout
<1>5. b + p.cnt <= c \/ c + q.cnt <= b
  BY <1>3, ListedApart
<1> HIDE DEF b, c, w
<1>6. b + layout_sects <= c \/ c + layout_sects <= b
  BY <1>1, <1>4, <1>5
<1>7. ASSUME NEW x \in Nat, b < x, x < b + layout_sects
      PROVE  ide_read(media', x) = ide_read(media, x)
  <2>1. ~(x >= w.lba /\ x < w.lba + w.n)
    BY <1>1, <1>2, <1>4, <1>6, <1>7
  <2> QED BY <1>1, <1>2, <2>1, ReadBack
<1>8. /\ super_block_lba(b) = b + 1
      /\ \A x \in {b + 1, b + 2, inode_table_lba(b), data_start_lba(b)} :
              x \in Nat /\ b < x /\ x < b + layout_sects
  BY <1>1, Lbas
<1>9. \A x \in {super_block_lba(b), b + 2, inode_table_lba(b), data_start_lba(b)} :
        ide_read(media', x) = ide_read(media, x)
  BY <1>7, <1>8
<1>10. /\ SuperAt(media, b) => SuperAt(media', b)
       /\ BitsAt(media, b) => BitsAt(media', b)
       /\ InodesAt(media, b) => InodesAt(media', b)
       /\ DirAt(media, b) => DirAt(media', b)
  BY <1>9 DEF SuperAt, BitsAt, InodesAt, DirAt
<1> QED BY <1>10 DEF b

LEMMA MediaFormat ==
  ASSUME Chained, Roomy, Apart, ScanInv, OrderInv, PlaceInv, MediaInv, format
  PROVE  MediaInv'
<1> DEFINE b == parts[0].start
           c == parts[part_idx].start
           k == written
<1>1. 0 \in Slot /\ part_idx \in Nat
  BY Nodes DEF OrderInv
<1>2. /\ c \in Nat /\ k \in 0..4
      /\ media' = LET w == partition_format(c)[k + 1] IN ide_write(media, w.lba, w.n, w.data)
      /\ written' = (IF k = 4 THEN 0 ELSE k + 1)
      /\ part_idx' = (IF k = 4 THEN part_idx + 1 ELSE part_idx)
      /\ \A s \in Slot : /\ parts'[s].start = parts[s].start
                         /\ parts'[s].cnt # 0 <=> parts[s].cnt # 0
      /\ part_idx \in Slot
  BY Formats DEF OrderInv
<1>3. parts'[0].start = b /\ (parts'[0].cnt # 0 <=> parts[0].cnt # 0)
      /\ parts'[part_idx].start = c
  BY <1>1, <1>2
<1>4. SUFFICES ASSUME parts[0].cnt # 0
      PROVE  IF part_idx' = 0
             THEN /\ written' >= 1 => SuperAt(media', b)
                  /\ written' >= 3 => BitsAt(media', b)
                  /\ written' >= 4 => InodesAt(media', b)
             ELSE /\ SuperAt(media', b) /\ InodesAt(media', b) /\ DirAt(media', b)
                  /\ BitsAt(media', b) \/ (written' = 2 /\ parts'[part_idx'].start = b)
  BY <1>3 DEF MediaInv
<1>5. IF part_idx = 0
      THEN /\ k >= 1 => SuperAt(media, b)
           /\ k >= 3 => BitsAt(media, b)
           /\ k >= 4 => InodesAt(media, b)
      ELSE /\ SuperAt(media, b) /\ InodesAt(media, b) /\ DirAt(media, b)
           /\ BitsAt(media, b) \/ (k = 2 /\ c = b)
  BY <1>4 DEF MediaInv
<1>6. CASE c = b
  <2>1. /\ k = 0 \/ SuperAt(media, b) => SuperAt(media', b)
        /\ k = 2 \/ (k # 1 /\ BitsAt(media, b)) => BitsAt(media', b)
        /\ k = 3 \/ InodesAt(media, b) => InodesAt(media', b)
        /\ k = 4 \/ DirAt(media, b) => DirAt(media', b)
    <3>1. /\ b \in Nat /\ k \in 0..4
          /\ media' = Written(media, b, k)
      BY <1>2, <1>6 DEF Written
    <3> HIDE DEF b, c, k
    <3> QED BY <3>1, Write
  <2>2. k = 1 => part_idx' = part_idx /\ written' = 2 /\ parts'[part_idx'].start = c
    BY <1>2, <1>3
  <2> HIDE DEF b, c, k
  <2> QED BY <1>1, <1>2, <1>5, <1>6, <2>1, <2>2
<1>7. CASE c # b
  <2>1. part_idx # 0
    BY <1>7
  <2>2. /\ SuperAt(media, b) => SuperAt(media', b)
        /\ BitsAt(media, b) => BitsAt(media', b)
        /\ InodesAt(media, b) => InodesAt(media', b)
        /\ DirAt(media, b) => DirAt(media', b)
    BY <1>1, <1>4, <1>7, FormatElsewhere
  <2> HIDE DEF b, c, k
  <2>3. part_idx' # 0
    BY <1>1, <1>2, <2>1
  <2> QED BY <1>5, <1>7, <2>1, <2>2, <2>3
<1> QED BY <1>6, <1>7

LEMMA MediaStep ==
  ASSUME Chained, Roomy, Apart, ScanInv, OrderInv, PlaceInv, MediaInv, [FsNext]_fsVars
  PROVE  MediaInv'
<1>1. CASE scan
  <2>1. phase # "fs" /\ UNCHANGED <<part_idx, written>>
    BY <1>1 DEF scan, scan_step, scan_extended, scan_linux, scan_empty, scan_logic, scan_other,
                scan_return, second_channel, at
  <2>2. part_idx' = 0 /\ written' = 0
    BY <2>1 DEF OrderInv
  <2> QED BY <2>2 DEF MediaInv
<1>2. CASE format_skip
  <2>1. /\ part_idx \in Nat /\ parts[part_idx].cnt = 0 /\ part_idx' = part_idx + 1
        /\ UNCHANGED <<parts, media, written>>
    BY <1>2, Nodes DEF format_skip, formatting, format_needed, scanVars
  <2>2. written = 0
    BY <2>1 DEF OrderInv
  <2>3. ASSUME parts[0].cnt # 0 PROVE part_idx # 0 /\ part_idx' # 0
    BY <2>1, <2>3
  <2> QED BY <2>1, <2>2, <2>3 DEF MediaInv
<1>3. CASE mount \/ UNCHANGED fsVars
  <2>1. UNCHANGED <<parts, media, part_idx, written>>
    BY <1>3 DEF mount, fsVars, scanVars
  <2> QED BY <2>1 DEF MediaInv
<1>4. CASE power_off
  <2>1. parts' = [s \in Slot |-> [start |-> 0, cnt |-> 0]]
    BY <1>4 DEF power_off
  <2> QED BY <2>1, Nodes DEF MediaInv
<1> QED BY <1>1, <1>2, <1>3, <1>4, MediaFormat DEF FsNext

\* No write of partition_format() goes to the place of the inode bitmap.
BareInv == \A p \in Listed : p.start + 2 + block_bitmap_sects \notin DOMAIN media

LEMMA WritesElsewhere ==
  ASSUME NEW base \in Nat, NEW k \in 0..4
  PROVE  LET w == partition_format(base)[k + 1]
         IN base + 2 + block_bitmap_sects \notin w.lba..(w.lba + w.n - 1)
<1> DEFINE w == partition_format(base)[k + 1]
           B == block_bitmap_sects
           I == inode_bitmap_sects
           T == inode_table_sects
<1>1. /\ B \in Nat /\ I \in Nat /\ I > 0 /\ I <= B /\ T \in Nat /\ T > 0
  BY Layout, Sizes, BitmapAssumption
<1>2. /\ super_block(base).block_bitmap = base + 2
      /\ super_block(base).inode_table = base + 2 + B + I
      /\ super_block(base).data_start = base + 2 + B + I + T
  BY DEF super_block, data_start_lba, inode_table_lba
<1>3. k \in {0, 1, 2, 3, 4}
  OBVIOUS
<1>4. \/ w.lba = base + 1 /\ w.n = 1
      \/ w.lba = base + 2 /\ w.n = B
      \/ w.lba = base + 2 /\ w.n = I
      \/ w.lba = base + 2 + B + I /\ w.n = T
      \/ w.lba = base + 2 + B + I + T /\ w.n = 1
  BY <1>2, <1>3 DEF partition_format
<1> HIDE DEF w, B, I, T
<1>5. base + 2 + B \notin w.lba..(w.lba + w.n - 1)
  BY <1>1, <1>4
<1> QED BY <1>5 DEF w, B

LEMMA BareFormat ==
  ASSUME Chained, Roomy, Apart, ScanInv, OrderInv, PlaceInv, BareInv, format
  PROVE  BareInv'
<1> DEFINE c == parts[part_idx].start
           w == partition_format(c)[written + 1]
<1>1. /\ c \in Nat /\ part_idx \in Slot /\ parts[part_idx].cnt # 0 /\ written \in 0..4
      /\ media' = ide_write(media, w.lba, w.n, w.data)
  BY Formats DEF OrderInv
<1>2. w.lba \in Nat /\ w.n \in Nat /\ w.lba > c /\ w.lba + w.n <= c + layout_sects
  BY <1>1, WritesIs
<1>3. c + 2 + block_bitmap_sects \notin w.lba..(w.lba + w.n - 1)
  BY <1>1, WritesElsewhere
<1>4. PICK q \in Listed : q.start = c
  BY <1>1 DEF PlaceInv
<1>5. Listed' = Listed
  BY DEF format, Listed, InTables
<1>6. DOMAIN media' = DOMAIN media \cup w.lba..(w.lba + w.n - 1)
  BY <1>1 DEF ide_write
<1> HIDE DEF c, w
<1>7. ASSUME NEW p \in Listed PROVE p.start + 2 + block_bitmap_sects \notin DOMAIN media'
  <2>1. p.start + 2 + block_bitmap_sects \notin DOMAIN media
    BY DEF BareInv
  <2>2. CASE p.start = c
    BY <1>3, <1>6, <2>1, <2>2
  <2>3. CASE p.start # c
    <3>1. /\ p.start \in Nat /\ p.cnt \in Nat /\ p.cnt >= layout_sects
          /\ q.cnt \in Nat /\ q.cnt >= layout_sects
      BY ListedSize
    <3>2. p.start + p.cnt <= c \/ c + q.cnt <= p.start
      BY <1>4, <2>3, ListedApart
    <3>3. /\ block_bitmap_sects \in Nat /\ layout_sects \in Nat
          /\ 2 + block_bitmap_sects < layout_sects
      BY Layout, Sizes DEF layout_sects
    <3>4. p.start + 2 + block_bitmap_sects \notin w.lba..(w.lba + w.n - 1)
      BY <1>1, <1>2, <3>1, <3>2, <3>3
    <3> QED BY <1>6, <2>1, <3>4
  <2> QED BY <2>2, <2>3
<1> QED BY <1>5, <1>7 DEF BareInv

LEMMA BareStep ==
  ASSUME Chained, Roomy, Apart, ScanInv, OrderInv, PlaceInv, BareInv, [FsNext]_fsVars
  PROVE  BareInv'
<1>1. CASE scan \/ format_skip \/ mount \/ power_off \/ UNCHANGED fsVars
  <2>1. UNCHANGED <<disk, media>>
    BY <1>1 DEF scan, scan_step, scan_extended, scan_linux, scan_empty, scan_logic, scan_other,
                scan_return, second_channel, format_skip, mount, power_off, fsVars, scanVars
  <2> QED BY <2>1 DEF BareInv, Listed, InTables
<1> QED BY <1>1, BareFormat DEF FsNext

\* What is mounted is read when everything is written.
LEMMA MountReads ==
  ASSUME ScanInv, OrderInv, PlaceInv, MediaInv, BareInv PROVE MountedAsWritten
<1>1. SUFFICES ASSUME mounted # NULL PROVE MountedAsWritten
  BY DEF MountedAsWritten
<1> DEFINE b == parts[0].start
<1>2. /\ mounted = mount_partition(0) /\ parts[0].cnt # 0
      /\ part_idx # 0 /\ written = 0
  BY <1>1, Nodes DEF OrderInv
<1>3. SuperAt(media, b) /\ InodesAt(media, b) /\ DirAt(media, b) /\ BitsAt(media, b)
  BY <1>2 DEF MediaInv
<1>4. /\ ide_read(media, super_block_lba(b)) = super_block(b)
      /\ super_block(b).kind = "sb" /\ super_block(b).block_bitmap = b + 2
      /\ super_block(b).inode_bitmap = b + 2 + block_bitmap_sects
      /\ super_block(b).inode_table = inode_table_lba(b)
  BY <1>3 DEF SuperAt, super_block
<1>5. /\ mounted.part = 0 /\ mounted.sb = super_block(b)
      /\ mounted.blocks = ide_read(media, b + 2)
      /\ mounted.inodes = ide_read(media, b + 2 + block_bitmap_sects)
  BY <1>2, <1>4 DEF mount_partition
<1>6. mounted.blocks = bitmap_sectors({0}, inode_bitmap_sects)[0]
  BY <1>3, <1>5 DEF BitsAt
<1>7. mounted.inodes = Unwritten
  <2>1. PICK p \in Listed : p.start = b
    BY <1>2, Nodes DEF PlaceInv
  <2>2. b + 2 + block_bitmap_sects \notin DOMAIN media
    BY <2>1 DEF BareInv
  <2> QED BY <1>5, <2>2 DEF ide_read
<1>8. /\ ide_read(media, mounted.sb.inode_table).kind = "inodes"
      /\ ide_read(media, ide_read(media, mounted.sb.inode_table).root).kind = "dir"
  BY <1>3, <1>4, <1>5 DEF InodesAt, DirAt
<1> QED BY <1>5, <1>6, <1>7, <1>8 DEF MountedAsWritten

-----------------------------------------------------------------------------
\* The invariant of the whole.
FsInv == ScanInv /\ OrderInv /\ PlaceInv /\ LinkInv

LEMMA InitFs == ASSUME Chained, FsInit PROVE FsInv /\ MediaInv /\ BareInv
<1>1. ScanInv
  BY BootedInv DEF FsInit, ScanInit, Booted
<1>2. LinkInv
  BY InitLinkInv DEF FsInit
<1>3. /\ part_idx = 0 /\ written = 0 /\ mounted = NULL /\ 0 \in Slot
      /\ parts = [s \in Slot |-> [start |-> 0, cnt |-> 0]]
  BY Nodes DEF FsInit, ScanInit
<1>4. OrderInv
  <2>1. 0 \in 0..(MaxPrim + MaxLogic)
    BY PartitionAssumption
  <2> QED BY <1>3, <2>1 DEF OrderInv
<1>5. PlaceInv /\ MediaInv
  BY <1>3 DEF PlaceInv, MediaInv
<1>6. BareInv
  BY DEF FsInit, BareInv
<1> QED BY <1>1, <1>2, <1>4, <1>5, <1>6 DEF FsInv

LEMMA FsStep == ASSUME Chained, Roomy, FsInv, [FsNext]_fsVars PROVE FsInv'
BY ScanStep, OrderStep, PlaceStep, LinkStep DEF FsInv

(***************************************************************************)
(* A write of partition_format() stays in the partition it formats and     *)
(* spares the boot sector, although the layout is computed from a size     *)
(* that was overwritten: of partitions that are as large as the layout.    *)
(***************************************************************************)
THEOREM FormatsInside == ASSUME Chained, Roomy PROVE FsSpec => FormatStaysInside
<1>1. FsInit => FsInv
  BY InitFs
<1>2. FsInv /\ [FsNext]_fsVars => FsInv'
  BY FsStep
<1>3. FsInv /\ [FsNext]_fsVars =>
        [media' # media =>
           {x \in DOMAIN media' : x \notin DOMAIN media \/ media'[x] # media[x]}
             \subseteq Sectors(parts[part_idx].start) \ {parts[part_idx].start}]_fsVars
  BY FormatInside DEF FsInv
<1> QED BY <1>1, <1>2, <1>3, PTL DEF FsSpec, FormatStaysInside

(***************************************************************************)
(* What mount_partition() has read of "sdb1", after any number of power    *)
(* failures on the way: its super block, with the root inode and the root  *)
(* directory on the disk, but the inode bitmap in place of the block       *)
(* bitmap, and in place of the inode bitmap what was there before.         *)
(***************************************************************************)
THEOREM MountIsAsWritten == ASSUME Chained, Roomy, Apart PROVE FsSpec => []MountedAsWritten
<1>1. FsInit => FsInv /\ MediaInv /\ BareInv
  BY InitFs
<1>2. FsInv /\ MediaInv /\ BareInv /\ [FsNext]_fsVars => FsInv' /\ MediaInv' /\ BareInv'
  BY FsStep, MediaStep, BareStep DEF FsInv
<1>3. FsInv /\ MediaInv /\ BareInv => MountedAsWritten
  BY MountReads DEF FsInv
<1> QED BY <1>1, <1>2, <1>3, PTL DEF FsSpec

-----------------------------------------------------------------------------
(* What partition_scan() finds: the tables hold the partitions it has       *)
(* passed, and the list goes through them.                                  *)

\* The places of the tables, and those of Linux and logical partitions.
Pos(d) == (DOMAIN d) \X (1..MaxPrim)

LinuxAt(d) == {x \in Pos(d) : x[1] = 0 /\ d[x[1]][x[2]].type = "linux"}

LogicAt(d) == {x \in Pos(d) : x[1] # 0 /\ d[x[1]][x[2]].type = "logic"}

Want(d) == LinuxAt(d) \cup LogicAt(d)

PartAt(d, x) == [start |-> x[1] + d[x[1]][x[2]].start, cnt |-> d[x[1]][x[2]].cnt]

Earlier(x, y) == x[1] < y[1] \/ (x[1] = y[1] /\ x[2] < y[2])

(***************************************************************************)
(* The list holds the slots in use, in the order of the disk.              *)
(***************************************************************************)
ListHolds(q, pts, lk) ==
  /\ Chain(lk, Places(partition_list, q), Len(q))
  /\ \A s \in Slot : pts[s].cnt # 0 <=> \E k \in 1..Len(q) : q[k] = s
  /\ \A j, k \in 1..Len(q) : j < k => pts[q[j]].start < pts[q[k]].start

(***************************************************************************)
(* What the tables hold when the places S of partitions are behind the     *)
(* scan: the Linux ones of S, and as many of the logical ones as fit, from *)
(* the first on.                                                           *)
(***************************************************************************)
Holds(d, S, pts, p, l) ==
  /\ \A s \in 0..(MaxPrim - 1) : pts[s].cnt # 0 =>
       s < p /\ \E x \in S \cap LinuxAt(d) : pts[s] = PartAt(d, x)
  /\ \A x \in S \cap LinuxAt(d) : \E s \in 0..(MaxPrim - 1) : pts[s] = PartAt(d, x)
  /\ \A k \in 0..(MaxLogic - 1) :
       IF k < l THEN \E x \in S \cap LogicAt(d) : pts[MaxPrim + k] = PartAt(d, x)
       ELSE pts[MaxPrim + k].cnt = 0
  /\ \A x \in LogicAt(d) :
       \/ l < MaxLogic /\ x \in S
       \/ \E k \in 0..(l - 1) : PartAt(d, x).start < pts[MaxPrim + k].start
       => \E k \in 0..(l - 1) : pts[MaxPrim + k] = PartAt(d, x)

FoundBy(d, S, pts, p, l, lk) ==
  Holds(d, S, pts, p, l) /\ \E q \in Seq(Slot) : ListHolds(q, pts, lk)

\* The places that the scan has passed: all, once it comes back from a link.
Seen == {x \in Want(disk) : Behind(top) \/ Earlier(x, <<top.lba, top.idx>>)}

FoundInv ==
  phase = "scan" /\ Conforming => FoundBy(disk, Seen, parts, p_no, l_no, links)

\* The scan is over, and nothing is formatted yet.
scanned == phase = (IF more_channels THEN "second" ELSE "fs") /\ part_idx = 0 /\ written = 0

ScannedInv ==
  scanned /\ Conforming =>
    \E p \in Nat, l \in 0..MaxLogic : FoundBy(disk, Want(disk), parts, p, l, links)

\* The parts of a disk.
LEMMA PlacesAre ==
  ASSUME Chained, NEW d \in Disks, NEW x \in Want(d)
  PROVE  /\ x = <<x[1], x[2]>> /\ x[1] \in DOMAIN d /\ x[1] \in Nat /\ x[2] \in 1..MaxPrim
         /\ x[2] \in Nat /\ d[x[1]][x[2]] \in Entry
         /\ d[x[1]][x[2]].type \in {"linux", "logic"}
         /\ PartAt(d, x) \in [start : Nat, cnt : Nat]
         /\ x \in LinuxAt(d) <=> x[1] = 0
         /\ x \in LogicAt(d) <=> x[1] # 0
<1>1. Tables(d) /\ MaxPrim \in Nat
  BY PartitionAssumption DEF Chained
<1>2. /\ x = <<x[1], x[2]>> /\ x[1] \in DOMAIN d /\ x[2] \in 1..MaxPrim
      /\ \/ x[1] = 0 /\ d[x[1]][x[2]].type = "linux"
         \/ x[1] # 0 /\ d[x[1]][x[2]].type = "logic"
      /\ x \in Pos(d)
  BY DEF Want, LinuxAt, LogicAt, Pos
<1>3. d[x[1]][x[2]] \in Entry /\ x[1] \in Nat /\ x[2] \in Nat
  BY <1>1, <1>2 DEF Tables
<1>4. PartAt(d, x) \in [start : Nat, cnt : Nat]
  <2>1. d[x[1]][x[2]].start \in Nat /\ d[x[1]][x[2]].cnt \in Nat
    BY <1>3 DEF Entry
  <2> QED BY <1>3, <2>1 DEF PartAt
<1>5. /\ x \in LinuxAt(d) <=> x[1] = 0
      /\ x \in LogicAt(d) <=> x[1] # 0
  BY <1>2 DEF LinuxAt, LogicAt
<1> QED BY <1>2, <1>3, <1>4, <1>5

\* Partitions in the order of their places.
LEMMA PlacesInOrder ==
  ASSUME Chained, Ordered, NEW d \in Disks, NEW x \in Want(d), NEW y \in Want(d)
  PROVE  /\ Earlier(x, y) => PartAt(d, x).start < PartAt(d, y).start
         /\ Earlier(x, y) \/ Earlier(y, x) \/ x = y
<1>1. /\ x = <<x[1], x[2]>> /\ x[1] \in DOMAIN d /\ x[1] \in Nat
      /\ x[2] \in 1..MaxPrim /\ x[2] \in Nat
      /\ y = <<y[1], y[2]>> /\ y[1] \in DOMAIN d /\ y[1] \in Nat
      /\ y[2] \in 1..MaxPrim /\ y[2] \in Nat
      /\ {d[x[1]][x[2]].type, d[y[1]][y[2]].type} \subseteq {"linux", "logic"}
  BY PlacesAre
<1>2. Earlier(x, y) => x[1] + d[x[1]][x[2]].start < y[1] + d[y[1]][y[2]].start
  BY <1>1 DEF Ordered, InOrder, Earlier
<1>3. Earlier(x, y) \/ Earlier(y, x) \/ x = y
  BY <1>1 DEF Earlier
<1> QED BY <1>2, <1>3 DEF PartAt

\* A partition has sectors.
LEMMA PlaceSize ==
  ASSUME Chained, Roomy, NEW d \in Disks, NEW x \in Want(d) PROVE PartAt(d, x).cnt # 0
<1>1. /\ x[1] \in DOMAIN d /\ x[2] \in 1..MaxPrim /\ d[x[1]][x[2]].type \in {"linux", "logic"}
      /\ PartAt(d, x).cnt \in Nat
  BY PlacesAre
<1>2. d[x[1]][x[2]].cnt >= layout_sects
  BY <1>1 DEF Roomy
<1>3. PartAt(d, x).cnt >= layout_sects
  BY <1>2 DEF PartAt
<1> QED BY <1>1, <1>3, Layout

\* A slot that was free takes the next partition of the disk.
LEMMA Listens ==
  ASSUME NEW q \in Seq(Slot), NEW pts \in [Slot -> [start : Nat, cnt : Nat]],
         NEW lk \in Pointers(Node), ListHolds(q, pts, lk),
         NEW slot \in Slot, pts[slot].cnt = 0, NEW new \in [start : Nat, cnt : Nat], new.cnt # 0,
         \A s \in Slot : pts[s].cnt # 0 => pts[s].start < new.start
  PROVE  /\ Append(q, slot) \in Seq(Slot)
         /\ ListHolds(Append(q, slot), [pts EXCEPT ![slot] = new],
                      list_append(lk, partition_list, slot))
<1> DEFINE n == Len(q)
           r == Append(q, slot)
           pts2 == [pts EXCEPT ![slot] = new]
           c == Places(partition_list, q)
           d == Spliced(c, n, n + 1, slot)
<1>1. /\ n \in Nat /\ r \in Seq(Slot) /\ Len(r) = n + 1 /\ r[n + 1] = slot
      /\ \A k \in 1..n : r[k] = q[k] /\ q[k] \in Slot
  OBVIOUS
<1>2. \A k \in 1..n : q[k] # slot /\ pts[q[k]].cnt # 0
  BY <1>1 DEF ListHolds
<1>3. /\ pts2 \in [Slot -> [start : Nat, cnt : Nat]]
      /\ \A s \in Slot : pts2[s] = IF s = slot THEN new ELSE pts[s]
  OBVIOUS
<1> HIDE DEF pts2, r
<1>4. \A k \in 1..(n + 1) : k \in 1..n \/ k = n + 1
  BY <1>1
<1>5. ASSUME NEW s \in Slot PROVE pts2[s].cnt # 0 <=> \E k \in 1..(n + 1) : r[k] = s
  <2>1. CASE s = slot
    <3>1. n + 1 \in 1..(n + 1)
      BY <1>1
    <3> QED BY <1>1, <1>3, <2>1, <3>1
  <2>2. CASE s # slot
    <3>1. pts[s].cnt # 0 <=> \E k \in 1..n : q[k] = s
      BY DEF ListHolds
    <3>2. \A k \in 1..n : k \in 1..(n + 1)
      BY <1>1
    <3> QED BY <1>1, <1>3, <1>4, <2>2, <3>1, <3>2
  <2> QED BY <2>1, <2>2
<1>6. ASSUME NEW j \in 1..(n + 1), NEW k \in 1..(n + 1), j < k
      PROVE  pts2[r[j]].start < pts2[r[k]].start
  <2>1. j \in 1..n
    BY <1>1, <1>6
  <2>2. r[j] = q[j] /\ q[j] \in Slot /\ pts2[q[j]] = pts[q[j]] /\ pts[q[j]].cnt # 0
    BY <1>1, <1>2, <1>3, <2>1
  <2>3. CASE k = n + 1
    BY <1>1, <1>3, <2>2, <2>3
  <2>4. CASE k \in 1..n
    <3>1. r[k] = q[k] /\ q[k] \in Slot /\ pts2[q[k]] = pts[q[k]]
      BY <1>1, <1>2, <1>3, <2>4
    <3>2. pts[q[j]].start < pts[q[k]].start
      BY <1>6, <2>1, <2>4 DEF ListHolds
    <3> QED BY <2>2, <3>1, <3>2
  <2> QED BY <1>4, <2>3, <2>4
<1>7. /\ c = [k \in 0..(n + 1) |-> IF k = 0 THEN header ELSE IF k = n + 1 THEN tailer ELSE q[k]]
  BY DEF Places, partition_list
<1> HIDE DEF c, n
<1>8. /\ c \in [0..(n + 1) -> Node] /\ c[n + 1] = tailer /\ c[0] = header
      /\ \A k \in 1..n : c[k] = q[k]
  <2>1. \A k \in 0..(n + 1) : c[k] = IF k = 0 THEN header ELSE IF k = n + 1 THEN tailer ELSE q[k]
    BY <1>7
  <2>2. \A k \in 0..(n + 1) : k = 0 \/ k = n + 1 \/ k \in 1..n
    BY <1>1
  <2>3. \A k \in 0..(n + 1) : c[k] \in Node
    BY <1>1, <2>1, <2>2 DEF Node
  <2>4. 0 \in 0..(n + 1) /\ n + 1 \in 0..(n + 1) /\ n + 1 # 0
        /\ \A k \in 1..n : k \in 0..(n + 1) /\ k # 0 /\ k # n + 1
    BY <1>1
  <2> QED BY <1>7, <2>1, <2>3, <2>4
<1>9. Off(slot, c, n) /\ slot \in Node
  <2>1. \A k \in 0..(n + 1) : k = 0 \/ k = n + 1 \/ k \in 1..n
    BY <1>1
  <2> QED BY <1>2, <1>8, <2>1, Nodes DEF Off, Node
<1>10. list_append(lk, partition_list, slot) = list_insert_before(lk, c[n + 1], slot)
  BY <1>8 DEF list_append, partition_list
<1>11. Chain(list_append(lk, partition_list, slot), d, n + 1)
  <2>1. Chain(lk, c, n)
    BY DEF ListHolds, c, n
  <2>2. n + 1 \in 1..(n + 1)
    BY <1>1
  <2>3. Chain(list_insert_before(lk, c[n + 1], slot), Spliced(c, n, n + 1, slot), n + 1)
    BY ONLY <1>1, <1>8, <1>9, <2>1, <2>2, InsertChain
  <2> QED BY <1>10, <2>3
<1>12. Places(partition_list, r) = d
  <2>1. \A k \in 0..(n + 2) :
          d[k] = IF k = 0 THEN header ELSE IF k = n + 2 THEN tailer ELSE r[k]
    <3> TAKE k \in 0..(n + 2)
    <3>1. d[k] = IF k < n + 1 THEN c[k] ELSE IF k = n + 1 THEN slot ELSE c[k - 1]
      BY DEF Spliced
    <3> HIDE DEF d
    <3>2. k = 0 \/ k \in 1..n \/ k = n + 1 \/ k = n + 2
      <4>1. n \in Nat /\ k \in 0..(n + 2)
        BY <1>1
      <4> QED BY ONLY <4>1
    <3>3. CASE k = 0
      BY <1>1, <1>8, <3>1, <3>3
    <3>4. CASE k \in 1..n
      BY <1>1, <1>8, <3>1, <3>4
    <3>5. CASE k = n + 1
      BY <1>1, <3>1, <3>5
    <3>6. CASE k = n + 2
      <4>1. ~(k < n + 1) /\ k # n + 1 /\ k - 1 = n + 1 /\ k # 0
        BY <1>1, <3>6
      <4> QED BY <1>8, <3>1, <3>6, <4>1
    <3> QED BY <3>2, <3>3, <3>4, <3>5, <3>6
  <2>2. Len(r) + 1 = n + 2
    BY <1>1
  <2>3. d = [k \in 0..(n + 2) |-> d[k]]
    BY DEF Spliced
  <2> HIDE DEF d
  <2>4. partition_list.header = header /\ partition_list.tailer = tailer
    BY DEF partition_list
  <2> QED BY <2>1, <2>2, <2>3, <2>4 DEF Places
<1> HIDE DEF d
<1>13. ListHolds(r, pts2, list_append(lk, partition_list, slot))
  BY <1>1, <1>5, <1>6, <1>11, <1>12 DEF ListHolds
<1> QED BY <1>1, <1>13 DEF r, pts2

\* The two tables of slots.
LEMMA SlotsAre ==
  /\ MaxPrim \in Nat /\ MaxPrim > 0 /\ MaxLogic \in Nat /\ MaxLogic > 0
  /\ Slot \subseteq Nat
  /\ \A s \in 0..(MaxPrim - 1) : s \in Slot /\ s \in Nat /\ s < MaxPrim
  /\ \A k \in 0..(MaxLogic - 1) :
       MaxPrim + k \in Slot /\ k \in Nat /\ k < MaxLogic /\ MaxPrim + k \notin 0..(MaxPrim - 1)
  /\ \A s \in Slot : s \in 0..(MaxPrim - 1) \/ \E k \in 0..(MaxLogic - 1) : s = MaxPrim + k
<1>1. MaxPrim \in Nat /\ MaxPrim > 0 /\ MaxLogic \in Nat /\ MaxLogic > 0
  BY PartitionAssumption
<1>2. ASSUME NEW s \in Slot
      PROVE  s \in 0..(MaxPrim - 1) \/ \E k \in 0..(MaxLogic - 1) : s = MaxPrim + k
  <2>1. s \in 0..(MaxPrim + MaxLogic - 1)
    BY DEF Slot
  <2>2. CASE s >= MaxPrim
    <3>1. s - MaxPrim \in 0..(MaxLogic - 1) /\ s = MaxPrim + (s - MaxPrim)
      BY <1>1, <2>1, <2>2
    <3> QED BY <3>1
  <2>3. CASE ~(s >= MaxPrim)
    BY <1>1, <2>1, <2>3
  <2> QED BY <2>2, <2>3
<1> QED BY <1>1, <1>2 DEF Slot

\* A slot in use holds a partition that the scan has passed.
LEMMA HeldPassed ==
  ASSUME NEW d, NEW S, NEW pts, NEW p, NEW l, Holds(d, S, pts, p, l),
         NEW s \in Slot, pts[s].cnt # 0
  PROVE  \E y \in S : pts[s] = PartAt(d, y)
<1>1. CASE s \in 0..(MaxPrim - 1)
  BY <1>1 DEF Holds
<1>2. CASE \E k \in 0..(MaxLogic - 1) : s = MaxPrim + k
  <2>1. PICK k \in 0..(MaxLogic - 1) : s = MaxPrim + k
    BY <1>2
  <2>2. IF k < l THEN \E x \in S \cap LogicAt(d) : pts[s] = PartAt(d, x) ELSE pts[s].cnt = 0
    BY <2>1 DEF Holds
  <2> QED BY <2>2
<1> QED BY <1>1, <1>2, SlotsAre

\* What the tables hold when a Linux partition is entered ...
LEMMA LinuxTaken ==
  ASSUME Chained, Roomy, NEW d \in Disks, NEW S \in SUBSET Want(d), NEW x \in LinuxAt(d),
         NEW pts \in [Slot -> [start : Nat, cnt : Nat]],
         NEW p \in 0..(MaxPrim - 1), NEW l \in 0..MaxLogic, Holds(d, S, pts, p, l)
  PROVE  Holds(d, S \cup {x}, [pts EXCEPT ![p] = PartAt(d, x)], p + 1, l)
<1> DEFINE pts2 == [pts EXCEPT ![p] = PartAt(d, x)]
           T == S \cup {x}
<1>1. /\ p \in Slot /\ p \in Nat
      /\ \A s \in Slot : pts2[s] = IF s = p THEN PartAt(d, x) ELSE pts[s]
      /\ \A s \in 0..(MaxPrim - 1) : s \in Slot /\ s \in Nat
      /\ \A k \in 0..(MaxLogic - 1) : MaxPrim + k \in Slot /\ MaxPrim + k # p
  BY SlotsAre
<1>2. x \in Want(d) /\ x \notin LogicAt(d)
  BY DEF Want, LinuxAt, LogicAt
<1> HIDE DEF pts2
<1>3. /\ \A y \in S : y \in T
      /\ T \cap LinuxAt(d) = (S \cap LinuxAt(d)) \cup {x}
      /\ T \cap LogicAt(d) = S \cap LogicAt(d)
      /\ \A y \in LogicAt(d) : y \in T <=> y \in S
  BY <1>2
<1> HIDE DEF T
<1>4. ASSUME NEW s \in 0..(MaxPrim - 1), pts2[s].cnt # 0
      PROVE  s < p + 1 /\ \E y \in T \cap LinuxAt(d) : pts2[s] = PartAt(d, y)
  <2>1. CASE s = p
    BY <1>1, <1>3, <2>1
  <2>2. CASE s # p
    <3>1. pts2[s] = pts[s]
      BY <1>1, <2>2
    <3>2. s < p /\ \E y \in S \cap LinuxAt(d) : pts[s] = PartAt(d, y)
      BY <1>4, <3>1 DEF Holds
    <3>3. s < p + 1
      BY <1>1, <3>2
    <3> QED BY <1>3, <3>1, <3>2, <3>3
  <2> QED BY <2>1, <2>2
<1>5. ASSUME NEW y \in T \cap LinuxAt(d)
      PROVE  \E s \in 0..(MaxPrim - 1) : pts2[s] = PartAt(d, y)
  <2>1. CASE y = x
    BY <1>1, <2>1
  <2>2. CASE y # x
    <3>1. y \in S \cap LinuxAt(d)
      BY <1>3, <2>2
    <3>2. PICK s \in 0..(MaxPrim - 1) : pts[s] = PartAt(d, y)
      BY <3>1 DEF Holds
    <3>3. CASE s # p
      BY <1>1, <3>2, <3>3
    <3>4. CASE s = p
      <4>1. pts[p].cnt = 0
        <5>1. ~(p < p)
          BY <1>1
        <5> QED BY <5>1 DEF Holds
      <4>2. PartAt(d, y).cnt # 0
        BY PlaceSize, <3>1
      <4> QED BY <3>2, <3>4, <4>1, <4>2
    <3> QED BY <3>3, <3>4
  <2> QED BY <2>1, <2>2
<1>6. \A k \in 0..(MaxLogic - 1) : pts2[MaxPrim + k] = pts[MaxPrim + k]
  BY <1>1
<1>7. \A k \in 0..(l - 1) : k \in 0..(MaxLogic - 1)
  BY SlotsAre
<1>8. Holds(d, T, pts2, p + 1, l)
  <2>1. \A k \in 0..(MaxLogic - 1) :
          IF k < l THEN \E y \in T \cap LogicAt(d) : pts2[MaxPrim + k] = PartAt(d, y)
          ELSE pts2[MaxPrim + k].cnt = 0
    BY <1>3, <1>6 DEF Holds
  <2>2. ASSUME NEW y \in LogicAt(d),
               \/ l < MaxLogic /\ y \in T
               \/ \E k \in 0..(l - 1) : PartAt(d, y).start < pts2[MaxPrim + k].start
        PROVE  \E k \in 0..(l - 1) : pts2[MaxPrim + k] = PartAt(d, y)
    <3>1. \/ l < MaxLogic /\ y \in S
          \/ \E k \in 0..(l - 1) : PartAt(d, y).start < pts[MaxPrim + k].start
      BY <1>3, <1>6, <1>7, <2>2
    <3>2. \E k \in 0..(l - 1) : pts[MaxPrim + k] = PartAt(d, y)
      BY <3>1 DEF Holds
    <3> QED BY <1>6, <1>7, <3>2
  <2> QED BY <1>4, <1>5, <2>1, <2>2 DEF Holds
<1> QED BY <1>8 DEF pts2, T

\* ... and a logical one.
LEMMA LogicTaken ==
  ASSUME Chained, Ordered, NEW d \in Disks, NEW S \in SUBSET Want(d), NEW x \in LogicAt(d),
         \A y \in S : Earlier(y, x), \A y \in Want(d) : Earlier(y, x) => y \in S,
         NEW pts \in [Slot -> [start : Nat, cnt : Nat]],
         NEW p \in Nat, NEW l \in 0..(MaxLogic - 1), Holds(d, S, pts, p, l)
  PROVE  Holds(d, S \cup {x}, [pts EXCEPT ![MaxPrim + l] = PartAt(d, x)], p, l + 1)
<1> DEFINE pts2 == [pts EXCEPT ![MaxPrim + l] = PartAt(d, x)]
           T == S \cup {x}
<1>1. /\ \A s \in Slot : pts2[s] = IF s = MaxPrim + l THEN PartAt(d, x) ELSE pts[s]
      /\ MaxPrim + l \in Slot /\ l \in Nat /\ MaxPrim \in Nat
      /\ MaxLogic \in Nat /\ l < MaxLogic
      /\ \A s \in 0..(MaxPrim - 1) : s \in Slot /\ s # MaxPrim + l
      /\ \A k \in 0..(MaxLogic - 1) : k \in Nat /\ MaxPrim + k \in Slot
                                      /\ (MaxPrim + k = MaxPrim + l <=> k = l)
  BY SlotsAre
<1>2. x \in Want(d) /\ x \notin LinuxAt(d)
  BY DEF Want, LinuxAt, LogicAt
<1> HIDE DEF pts2
<1>3. /\ \A y \in S : y \in T
      /\ T \cap LogicAt(d) = (S \cap LogicAt(d)) \cup {x}
      /\ T \cap LinuxAt(d) = S \cap LinuxAt(d)
      /\ \A y \in T : y = x \/ y \in S
  BY <1>2
<1> HIDE DEF T
<1>4. \A s \in 0..(MaxPrim - 1) : pts2[s] = pts[s]
  BY <1>1
<1>5. /\ \A s \in 0..(MaxPrim - 1) : pts2[s].cnt # 0 =>
           s < p /\ \E y \in T \cap LinuxAt(d) : pts2[s] = PartAt(d, y)
      /\ \A y \in T \cap LinuxAt(d) : \E s \in 0..(MaxPrim - 1) : pts2[s] = PartAt(d, y)
  BY <1>3, <1>4 DEF Holds
<1>6. \A k \in 0..l : k \in 0..(MaxLogic - 1) /\ (k = l \/ (k \in 0..(l - 1) /\ k < l))
  <2>1. l \in Nat /\ MaxLogic \in Nat /\ l < MaxLogic
    BY <1>1
  <2> QED BY ONLY <2>1
<1>11. \A k \in 0..(l - 1) : k \in 0..l /\ k # l
  BY <1>1
<1>7. /\ pts2[MaxPrim + l] = PartAt(d, x)
      /\ \A k \in 0..(MaxLogic - 1) : k # l => pts2[MaxPrim + k] = pts[MaxPrim + k]
  BY <1>1
<1>8. ASSUME NEW k \in 0..(MaxLogic - 1)
      PROVE  IF k < l + 1 THEN \E y \in T \cap LogicAt(d) : pts2[MaxPrim + k] = PartAt(d, y)
             ELSE pts2[MaxPrim + k].cnt = 0
  <2>1. (k < l + 1 <=> k < l \/ k = l) /\ (k = l => ~(k < l))
    BY <1>1
  <2>2. CASE k = l
    BY <1>3, <1>7, <2>1, <2>2
  <2>3. CASE k # l
    <3>1. pts2[MaxPrim + k] = pts[MaxPrim + k]
      BY <1>7, <2>3
    <3>2. IF k < l THEN \E y \in S \cap LogicAt(d) : pts[MaxPrim + k] = PartAt(d, y)
          ELSE pts[MaxPrim + k].cnt = 0
      BY DEF Holds
    <3> QED BY <1>3, <2>1, <2>3, <3>1, <3>2
  <2> QED BY <2>2, <2>3
<1>9. ASSUME NEW y \in LogicAt(d),
             \/ l + 1 < MaxLogic /\ y \in T
             \/ \E k \in 0..((l + 1) - 1) : PartAt(d, y).start < pts2[MaxPrim + k].start
      PROVE  \E k \in 0..((l + 1) - 1) : pts2[MaxPrim + k] = PartAt(d, y)
  <2>1. (l + 1) - 1 = l /\ l \in 0..l
    BY <1>1
  <2>2. CASE y = x
    BY <1>7, <2>1, <2>2
  <2>3. CASE \E k \in 0..(l - 1) : pts[MaxPrim + k] = PartAt(d, y)
    <3>1. PICK k \in 0..(l - 1) : pts[MaxPrim + k] = PartAt(d, y)
      BY <2>3
    <3>2. k \in 0..l /\ k \in 0..(MaxLogic - 1) /\ k # l
      BY <1>6, <1>11
    <3>3. pts2[MaxPrim + k] = PartAt(d, y)
      BY <1>7, <3>1, <3>2
    <3> QED BY <2>1, <3>2, <3>3
  <2>4. y \in S => \E k \in 0..(l - 1) : pts[MaxPrim + k] = PartAt(d, y)
    BY <1>1 DEF Holds
  <2>5. CASE y # x /\ PartAt(d, y).start < PartAt(d, x).start
    <3>1. y \in Want(d)
      BY DEF Want
    <3>2. PartAt(d, x).start \in Nat /\ PartAt(d, y).start \in Nat
      BY <1>2, <3>1, PlacesAre
    <3>3. ~Earlier(x, y)
      BY <1>2, <2>5, <3>1, <3>2, PlacesInOrder
    <3>4. y \in S
      BY <1>2, <2>5, <3>1, <3>3, PlacesInOrder
    <3> QED BY <2>3, <2>4, <3>4
  <2>6. CASE \E k \in 0..(l - 1) : PartAt(d, y).start < pts[MaxPrim + k].start
    <3>1. \E k \in 0..(l - 1) : pts[MaxPrim + k] = PartAt(d, y)
      BY <2>6 DEF Holds
    <3> QED BY <2>3, <3>1
  <2>7. CASE y \in T
    BY <1>3, <2>2, <2>3, <2>4, <2>7
  <2>8. CASE \E k \in 0..((l + 1) - 1) : PartAt(d, y).start < pts2[MaxPrim + k].start
    <3>1. PICK k \in 0..l : PartAt(d, y).start < pts2[MaxPrim + k].start
      BY <2>1, <2>8
    <3>2. CASE k = l
      BY <1>7, <2>2, <2>5, <3>1, <3>2
    <3>3. CASE k # l
      <4>1. k \in 0..(l - 1) /\ pts2[MaxPrim + k] = pts[MaxPrim + k]
        BY <1>6, <1>7, <3>3
      <4> QED BY <2>6, <3>1, <4>1
    <3> QED BY <3>2, <3>3
  <2> QED BY <1>9, <2>7, <2>8
<1>10. Holds(d, T, pts2, p, l + 1)
  BY <1>5, <1>8, <1>9 DEF Holds
<1> QED BY <1>10 DEF pts2, T

\* The partitions held lie before the next one of the disk.
LEMMA InFront ==
  ASSUME Chained, Ordered, NEW d \in Disks, NEW S \in SUBSET Want(d), NEW x \in Want(d),
         \A y \in S : Earlier(y, x), NEW pts, NEW p, NEW l, Holds(d, S, pts, p, l)
  PROVE  \A s \in Slot : pts[s].cnt # 0 => pts[s].start < PartAt(d, x).start
<1> SUFFICES ASSUME NEW s \in Slot, pts[s].cnt # 0 PROVE pts[s].start < PartAt(d, x).start
  OBVIOUS
<1>1. PICK y \in S : pts[s] = PartAt(d, y)
  BY HeldPassed
<1>2. y \in Want(d) /\ Earlier(y, x)
  OBVIOUS
<1> QED BY <1>1, <1>2, PlacesInOrder

\* A free slot is taken by the next partition of the disk.
LEMMA TakeLinux ==
  ASSUME Chained, Roomy, Ordered, NEW d \in Disks, NEW S \in SUBSET Want(d),
         NEW x \in LinuxAt(d), \A y \in S : Earlier(y, x),
         NEW pts \in [Slot -> [start : Nat, cnt : Nat]], NEW lk \in Pointers(Node),
         NEW p \in 0..(MaxPrim - 1), NEW l \in 0..MaxLogic, FoundBy(d, S, pts, p, l, lk)
  PROVE  FoundBy(d, S \cup {x}, [pts EXCEPT ![p] = PartAt(d, x)], p + 1, l,
                 list_append(lk, partition_list, p))
<1> DEFINE new == PartAt(d, x)
<1>1. Holds(d, S, pts, p, l)
  BY DEF FoundBy
<1>2. PICK q \in Seq(Slot) : ListHolds(q, pts, lk)
  BY DEF FoundBy
<1>3. x \in Want(d)
  BY DEF Want
<1>4. new \in [start : Nat, cnt : Nat] /\ new.cnt # 0
  BY <1>3, PlacesAre, PlaceSize
<1>5. \A s \in Slot : pts[s].cnt # 0 => pts[s].start < new.start
  BY <1>1, <1>3, InFront
<1>6. p \in Slot /\ pts[p].cnt = 0
  <2>1. p \in Slot /\ ~(p < p)
    BY SlotsAre
  <2> QED BY <1>1, <2>1 DEF Holds
<1>7. Holds(d, S \cup {x}, [pts EXCEPT ![p] = new], p + 1, l)
  BY <1>1, LinuxTaken
<1> HIDE DEF new
<1>8. /\ Append(q, p) \in Seq(Slot)
      /\ ListHolds(Append(q, p), [pts EXCEPT ![p] = new], list_append(lk, partition_list, p))
  BY <1>2, <1>4, <1>5, <1>6, Listens
<1> QED BY <1>7, <1>8 DEF FoundBy, new

LEMMA TakeLogic ==
  ASSUME Chained, Roomy, Ordered, NEW d \in Disks, NEW S \in SUBSET Want(d),
         NEW x \in LogicAt(d), \A y \in S : Earlier(y, x),
         \A y \in Want(d) : Earlier(y, x) => y \in S,
         NEW pts \in [Slot -> [start : Nat, cnt : Nat]], NEW lk \in Pointers(Node),
         NEW p \in Nat, NEW l \in 0..(MaxLogic - 1), FoundBy(d, S, pts, p, l, lk)
  PROVE  FoundBy(d, S \cup {x}, [pts EXCEPT ![MaxPrim + l] = PartAt(d, x)], p, l + 1,
                 list_append(lk, partition_list, MaxPrim + l))
<1> DEFINE new == PartAt(d, x)
           slot == MaxPrim + l
<1>1. Holds(d, S, pts, p, l)
  BY DEF FoundBy
<1>2. PICK q \in Seq(Slot) : ListHolds(q, pts, lk)
  BY DEF FoundBy
<1>3. x \in Want(d)
  BY DEF Want
<1>4. new \in [start : Nat, cnt : Nat] /\ new.cnt # 0
  BY <1>3, PlacesAre, PlaceSize
<1>5. \A s \in Slot : pts[s].cnt # 0 => pts[s].start < new.start
  BY <1>1, <1>3, InFront
<1>6. slot \in Slot /\ pts[slot].cnt = 0
  <2>1. slot \in Slot /\ ~(l < l)
    BY SlotsAre
  <2> QED BY <1>1, <2>1 DEF Holds
<1>7. Holds(d, S \cup {x}, [pts EXCEPT ![slot] = new], p, l + 1)
  BY <1>1, LogicTaken
<1> HIDE DEF new, slot
<1>8. /\ Append(q, slot) \in Seq(Slot)
      /\ ListHolds(Append(q, slot), [pts EXCEPT ![slot] = new],
                   list_append(lk, partition_list, slot))
  BY <1>2, <1>4, <1>5, <1>6, Listens
<1> QED BY <1>7, <1>8 DEF FoundBy, new, slot

\* An entry that is counted without a partition.
LEMMA CountedOn ==
  ASSUME NEW d, NEW S, NEW pts, NEW p \in Nat, NEW l, NEW lk, FoundBy(d, S, pts, p, l, lk)
  PROVE  FoundBy(d, S, pts, p + 1, l, lk)
<1>1. \A s \in 0..(MaxPrim - 1) : s \in Nat /\ (s < p => s < p + 1)
  BY SlotsAre
<1>2. Holds(d, S, pts, p, l)
  BY DEF FoundBy
<1>3. Holds(d, S, pts, p + 1, l)
  BY <1>1, <1>2 DEF Holds
<1> QED BY <1>3 DEF FoundBy

\* With the last slot of logic_parts taken, nothing more is to be found
\* behind the boot sector.
LEMMA FullTable ==
  ASSUME NEW d, NEW S \in SUBSET Want(d), LinuxAt(d) \subseteq S,
         NEW pts, NEW p, NEW l, l = MaxLogic, NEW lk, FoundBy(d, S, pts, p, l, lk)
  PROVE  FoundBy(d, Want(d), pts, p, l, lk)
<1>1. Holds(d, S, pts, p, l) /\ ~(l < MaxLogic)
  BY SlotsAre DEF FoundBy
<1>2. /\ S \cap LinuxAt(d) = Want(d) \cap LinuxAt(d)
      /\ S \cap LogicAt(d) \subseteq Want(d) \cap LogicAt(d)
  BY DEF Want
<1>3. Holds(d, Want(d), pts, p, l)
  <2>1. \A k \in 0..(MaxLogic - 1) :
          IF k < l THEN \E x \in Want(d) \cap LogicAt(d) : pts[MaxPrim + k] = PartAt(d, x)
          ELSE pts[MaxPrim + k].cnt = 0
    BY <1>1, <1>2 DEF Holds
  <2>2. \A x \in LogicAt(d) :
          \/ l < MaxLogic /\ x \in Want(d)
          \/ \E k \in 0..(l - 1) : PartAt(d, x).start < pts[MaxPrim + k].start
          => \E k \in 0..(l - 1) : pts[MaxPrim + k] = PartAt(d, x)
    BY <1>1 DEF Holds
  <2> QED BY <1>1, <1>2, <2>1, <2>2 DEF Holds
<1> QED BY <1>3 DEF FoundBy

\* The place of the entry the scan is at.
here == <<top.lba, top.idx>>

\* What a conforming disk has in an entry.
LEMMA TypesOf ==
  ASSUME Chained, ScanInv, Conforming, NEW l \in DOMAIN disk, NEW i \in 1..MaxPrim,
         disk[l][i].type # "empty"
  PROVE  /\ disk[l][i].type = "ext" => \A j \in 1..MaxPrim : disk[l][j].type # "empty" => j <= i
         /\ disk[l][i].type \notin {"ext", "other"} =>
              disk[l][i].type = IF l = 0 THEN "linux" ELSE "logic"
<1>1. DOMAIN disk[l] = 1..MaxPrim
  BY Disk DEF Tables
<1> QED BY <1>1 DEF Conforming, Used

\* Behind the link of a table the entries are empty, and a partition is of
\* the type its table has.
LEMMA AtEntry ==
  ASSUME Chained, ScanInv, Conforming, phase = "scan", top.idx <= MaxPrim
  PROVE  /\ Behind(top) => entry.type = "empty"
         /\ entry.type = "linux" => here \in LinuxAt(disk)
         /\ entry.type = "logic" => here \in LogicAt(disk)
         /\ here \in Want(disk) => entry.type \in {"linux", "logic"}
         /\ top.lba \in Nat /\ top.lba \in DOMAIN disk /\ top.idx \in 1..MaxPrim /\ top.idx \in Nat
         /\ entry = disk[top.lba][top.idx]
         /\ here[1] = top.lba /\ here[2] = top.idx
<1>1. /\ top.lba \in DOMAIN disk /\ top.idx \in 1..MaxPrim /\ entry = disk[top.lba][top.idx]
      /\ top.lba \in Nat /\ top.idx \in Nat
      /\ here[1] = top.lba /\ here[2] = top.idx /\ here \in Pos(disk)
  BY Top DEF entry, Call, here, Pos
<1>2. ASSUME Behind(top) PROVE entry.type = "empty"
  <2>1. PICK j \in 1..MaxPrim : j < top.idx /\ disk[top.lba][j].type = "ext"
    BY <1>2 DEF Behind
  <2>2. entry.type # "empty" => top.idx <= j
    BY <1>1, <2>1, TypesOf
  <2> QED BY <1>1, <2>1, <2>2
<1>3. /\ entry.type = "linux" => top.lba = 0
      /\ entry.type = "logic" => top.lba # 0
  BY <1>1, TypesOf
<1>4. here \in Want(disk) => entry.type \in {"linux", "logic"}
  BY <1>1 DEF Want, LinuxAt, LogicAt
<1> QED BY <1>1, <1>2, <1>3, <1>4 DEF LinuxAt, LogicAt

\* In front of an entry that is not empty the scan has passed what is earlier.
LEMMA SeenIs ==
  ASSUME Chained, ScanInv, Conforming, phase = "scan", top.idx <= MaxPrim, entry.type # "empty"
  PROVE  /\ ~Behind(top) /\ Seen = {x \in Want(disk) : Earlier(x, here)}
BY AtEntry DEF Seen, here

\* The loop goes on: it has passed the entry, if that is a partition.
LEMMA TurnSeen ==
  ASSUME Chained, ScanInv, Conforming, phase = "scan", top.idx <= MaxPrim, entry.type # "ext",
         stack' = advance, disk' = disk
  PROVE  Seen' = IF entry.type \in {"linux", "logic"} THEN Seen \cup {here} ELSE Seen
<1>1. /\ top.lba \in Nat /\ top.idx \in 1..MaxPrim /\ top.idx \in Nat
      /\ entry = disk[top.lba][top.idx] /\ here[1] = top.lba /\ here[2] = top.idx
  BY AtEntry
<1>2. top'.lba = top.lba /\ top'.idx = top.idx + 1
  <2>1. /\ advance[Len(stack)] = [lba |-> top.lba, idx |-> top.idx + 1]
        /\ Len(advance) = Len(stack)
    BY Advance
  <2> QED BY <2>1 DEF top
<1>3. Behind(top)' <=> Behind(top)
  <2>1. \A j \in 1..MaxPrim : j < top.idx + 1 <=> j < top.idx \/ j = top.idx
    BY <1>1
  <2> QED BY <1>1, <1>2, <2>1 DEF Behind
<1>4. Seen' = {x \in Want(disk) : Behind(top) \/ Earlier(x, <<top.lba, top.idx + 1>>)}
  BY <1>2, <1>3 DEF Seen, Want, LinuxAt, LogicAt, Pos
<1>5. ASSUME NEW x \in Want(disk)
      PROVE  Earlier(x, <<top.lba, top.idx + 1>>) <=> Earlier(x, <<top.lba, top.idx>>) \/ x = here
  <2>1. x = <<x[1], x[2]>> /\ x[1] \in Nat /\ x[2] \in Nat
    BY PlacesAre DEF ScanInv, ScanTypes
  <2> QED BY <1>1, <2>1 DEF Earlier, here
<1>6. /\ entry.type \in {"linux", "logic"} => here \in Want(disk) /\ ~Behind(top)
      /\ here \in Want(disk) => entry.type \in {"linux", "logic"}
  BY AtEntry DEF Want
<1>7. ASSUME NEW x \in Want(disk)
      PROVE  x \in Seen' <=> x \in Seen \/ (x = here /\ entry.type \in {"linux", "logic"})
  <2>1. x \in Seen' <=> Behind(top) \/ Earlier(x, <<top.lba, top.idx>>) \/ x = here
    BY <1>4, <1>5, <1>7
  <2>2. x \in Seen <=> Behind(top) \/ Earlier(x, <<top.lba, top.idx>>)
    BY <1>7 DEF Seen
  <2> QED BY <1>6, <1>7, <2>1, <2>2
<1>8. Seen' \subseteq Want(disk) /\ Seen \subseteq Want(disk)
  BY <1>4 DEF Seen
<1> QED BY <1>6, <1>7, <1>8

\* A link leads to the table whose partitions come next.
LEMMA LinkSeen ==
  ASSUME Chained, Ordered, ScanInv, Conforming, scan_extended
  PROVE  Seen' = Seen
<1> DEFINE lba == IF ext_lba_base = 0 THEN entry.start ELSE ext_lba_base + entry.start
           new == [lba |-> lba, idx |-> 1]
<1>1. /\ phase = "scan" /\ top.idx <= MaxPrim /\ entry.type = "ext" /\ disk' = disk
      /\ stack' = Append(advance, new)
  BY DEF scan_extended, at
<1>2. /\ top.lba \in DOMAIN disk /\ top.lba \in Nat /\ top.idx \in 1..MaxPrim /\ top.idx \in Nat
      /\ entry = disk[top.lba][top.idx]
      /\ ~Behind(top) /\ Scanning /\ disk \in Disks
      /\ top.lba = 0 <=> Len(stack) = 1
  BY <1>1, AtEntry, Top DEF ScanInv, ScanTypes
<1>3. Follows(disk, top.lba, lba)
  <2>1. LinkNext(disk)
    BY <1>2 DEF Ordered
  <2>2. CASE ext_lba_base = 0
    <3>1. top.lba = 0
      BY <1>2, <2>2 DEF Scanning, Counted
    <3> QED BY <1>1, <1>2, <2>1, <2>2, <3>1 DEF LinkNext
  <2>3. CASE ext_lba_base # 0
    <3>1. PICK i \in 1..MaxPrim : disk[0][i].type = "ext" /\ ext_lba_base = disk[0][i].start
      BY <1>2, <2>3 DEF Scanning, Counted
    <3>2. top.lba \in DOMAIN disk \ {0}
      BY <1>2, <2>3 DEF Scanning, Counted
    <3> QED BY <1>1, <1>2, <2>1, <2>3, <3>1, <3>2 DEF LinkNext
  <2> QED BY <2>2, <2>3
<1> HIDE DEF lba
<1>4. top'.lba = lba /\ top'.idx = 1
  <2>1. Len(advance) \in Nat /\ advance \in Seq(Call)
    BY <1>1, Advance, Top
  <2>2. Len(stack') = Len(advance) + 1 /\ stack'[Len(advance) + 1] = new
    BY <1>1, <2>1
  <2> QED BY <2>2 DEF top
<1>5. ~Behind(top)'
  BY <1>2, <1>4 DEF Behind
<1>6. Seen' = {x \in Want(disk) : Earlier(x, <<lba, 1>>)}
  BY <1>1, <1>4, <1>5 DEF Seen, Want, LinuxAt, LogicAt, Pos
<1>7. Seen = {x \in Want(disk) : Earlier(x, here)}
  BY <1>1, SeenIs
<1>8. ASSUME NEW x \in Want(disk) PROVE Earlier(x, <<lba, 1>>) <=> Earlier(x, here)
  <2>1. /\ x[1] \in Nat /\ x[2] \in Nat /\ x[2] \in 1..MaxPrim /\ x[1] \in DOMAIN disk
        /\ disk[x[1]][x[2]].type \in {"linux", "logic"}
    BY <1>2, PlacesAre
  <2>2. x[1] = top.lba => x[2] < top.idx
    <3>1. x[1] = top.lba => x[2] <= top.idx
      BY <1>1, <1>2, <2>1, TypesOf
    <3>2. x[1] = top.lba => x[2] # top.idx
      BY <1>1, <1>2, <2>1
    <3> QED BY <1>2, <2>1, <3>1, <3>2
  <2>3. /\ top.lba < lba
        /\ x[1] <= top.lba \/ x[1] >= lba
    BY <1>3, <2>1 DEF Follows
  <2>4. lba \in Nat
    <3>1. entry.start \in Nat
      BY <1>1, Top DEF Entry
    <3>2. ext_lba_base \in Nat
      <4>1. CASE ext_lba_base # 0
        <5>1. PICK i \in 1..MaxPrim : ext_lba_base = disk[0][i].start
          BY <1>2, <4>1 DEF Scanning, Counted
        <5> QED BY <5>1, Disk DEF Tables, Entry
      <4> QED BY <4>1
    <3> QED BY <3>1, <3>2 DEF lba
  <2>5. ~(x[2] < 1)
    BY <2>1
  <2>6. Earlier(x, <<lba, 1>>) <=> x[1] < lba
    BY <2>5 DEF Earlier
  <2>7. Earlier(x, here) <=> x[1] < top.lba \/ (x[1] = top.lba /\ x[2] < top.idx)
    BY DEF Earlier, here
  <2> QED BY <1>2, <2>1, <2>2, <2>3, <2>4, <2>6, <2>7
<1> QED BY <1>6, <1>7, <1>8

\* Behind a table without a link there is no table.
LEMMA EndSeen ==
  ASSUME Chained, Ordered, ScanInv, phase = "scan", top.idx > MaxPrim
  PROVE  Seen = Want(disk)
<1>1. /\ top.lba \in DOMAIN disk /\ top.lba \in Nat /\ top.idx \in Nat
      /\ disk \in Disks /\ MaxPrim \in Nat
  BY Top, Disk DEF Call, ScanInv, ScanTypes
<1>2. CASE Behind(top)
  BY <1>2 DEF Seen
<1>3. CASE ~Behind(top)
  <2>1. \A i \in 1..MaxPrim : disk[top.lba][i].type # "ext"
    <3>1. \A i \in 1..MaxPrim : i < top.idx
      BY <1>1
    <3> QED BY <1>3, <3>1 DEF Behind
  <2>2. \A m \in DOMAIN disk : m <= top.lba
    BY <1>1, <2>1 DEF Ordered, LinkNext
  <2>3. ASSUME NEW x \in Want(disk) PROVE Earlier(x, <<top.lba, top.idx>>)
    <3>1. x[1] \in Nat /\ x[1] \in DOMAIN disk /\ x[2] \in 1..MaxPrim
      BY <1>1, PlacesAre
    <3>2. x[1] <= top.lba /\ x[2] < top.idx
      BY <1>1, <2>2, <3>1
    <3> QED BY <1>1, <3>1, <3>2 DEF Earlier
  <2> QED BY <2>3 DEF Seen
<1> QED BY <1>2, <1>3

\* The caller of a call that returns is behind its link.
LEMMA LeaveSeen ==
  ASSUME Chained, ScanInv, phase = "scan", NEW p, NEW l, leave(p, l), disk' = disk, Len(stack) > 1
  PROVE  Seen' = Want(disk)
<1> DEFINE n == Len(stack)
<1>1. /\ stack \in Seq(Call) /\ n \in Nat /\ n > 0
      /\ \A k \in 1..(n - 1) : Behind(stack[k])
  BY Top DEF ScanInv, ScanTypes, Scanning
<1>2. /\ Len(stack') = n - 1
      /\ \A k \in 1..(n - 1) : stack'[k] = stack[k]
  BY <1>1, Pop DEF leave
<1>3. n - 1 \in 1..(n - 1)
  BY <1>1
<1>4. top' = stack[n - 1] /\ Behind(stack[n - 1])
  BY <1>1, <1>2, <1>3 DEF top
<1> HIDE DEF n
<1>5. Behind(top)'
  BY <1>4 DEF Behind
<1> QED BY <1>5 DEF Seen, Want, LinuxAt, LogicAt, Pos

\* The invariant of what is found, and that the second channel is one.
FoundInvs == FoundInv /\ ScannedInv /\ (phase = "second" => more_channels)

\* The scan returns from a table with everything behind it.
LEMMA FoundLeave ==
  ASSUME Chained, ScanInv, phase = "scan", NEW p \in Nat, NEW l \in 0..MaxLogic, leave(p, l),
         UNCHANGED <<disk, channel_cnt>>, FoundBy(disk, Want(disk), parts', p, l, links')
  PROVE  FoundInvs'
<1>1. CASE Len(stack) > 1
  <2>1. phase' = "scan" /\ p_no' = p /\ l_no' = l
    <3>1. Len(stack) # 1
      <4> DEFINE n == Len(stack)
      <4>1. n \in Nat /\ n > 1
        BY <1>1, Top
      <4> HIDE DEF n
      <4>2. n # 1
        BY <4>1
      <4> QED BY <4>2 DEF n
    <3> QED BY <1>1, <3>1 DEF leave
  <2>2. Seen' = Want(disk)
    BY <1>1, LeaveSeen
  <2>3. FoundBy(disk, Seen', parts', p_no', l_no', links')
    BY <2>1, <2>2
  <2>4. ScannedInv'
    BY <2>1 DEF ScannedInv, scanned
  <2>5. FoundInv'
    BY <2>3 DEF FoundInv
  <2> QED BY <2>1, <2>4, <2>5 DEF FoundInvs
<1>2. CASE ~(Len(stack) > 1)
  <2>1. phase' = IF more_channels THEN "second" ELSE "fs"
    BY <1>2 DEF leave
  <2>3. more_channels' = more_channels
    BY DEF more_channels
  <2>2. ScannedInv'
    BY DEF ScannedInv
  <2> QED BY <2>1, <2>2, <2>3 DEF FoundInvs, FoundInv
<1> QED BY <1>1, <1>2

\* A disk the code is not written for.
LEMMA FoundElse ==
  ASSUME ~Conforming, phase = "scan", NEW p, NEW l, leave(p, l), UNCHANGED <<disk, channel_cnt>>
  PROVE  FoundInvs'
<1>1. ~Conforming'
  BY DEF Conforming, Used
<1>2. phase' = "second" => more_channels'
  BY DEF leave, more_channels
<1> QED BY <1>1, <1>2 DEF FoundInvs, FoundInv, ScannedInv

\* It goes on, with what it has passed found.
LEMMA FoundTurn ==
  ASSUME phase' = "scan", Conforming' => FoundBy(disk', Seen', parts', p_no', l_no', links')
  PROVE  FoundInvs'
BY DEF FoundInvs, FoundInv, ScannedInv, scanned

\* What the invariant gives during the scan.
LEMMA FoundIn ==
  ASSUME ScanInv, phase = "scan", Conforming, FoundInvs
  PROVE  /\ FoundBy(disk, Seen, parts, p_no, l_no, links)
         /\ Seen \in SUBSET Want(disk) /\ disk \in Disks /\ p_no \in Nat /\ l_no \in 0..MaxLogic
         /\ parts \in [Slot -> [start : Nat, cnt : Nat]]
BY DEF FoundInvs, FoundInv, ScanInv, ScanTypes, Seen

LEMMA SameConforming == ASSUME disk' = disk PROVE Conforming' <=> Conforming
BY DEF Conforming, Used

LEMMA FoundLinux ==
  ASSUME Chained, Roomy, Ordered, ScanInv, LinkInv, FoundInvs, scan_linux
  PROVE  FoundInvs'
<1>1. /\ phase = "scan" /\ top.idx <= MaxPrim /\ entry.type = "linux" /\ p_no' = count_primary
      /\ stack' = advance /\ disk' = disk /\ phase' = phase /\ l_no' = l_no
  BY DEF scan_linux, at
<1> SUFFICES ASSUME Conforming PROVE FoundBy(disk', Seen', parts', p_no', l_no', links')
  BY <1>1, FoundTurn, SameConforming
<1>2. /\ here \in LinuxAt(disk) /\ top.lba \in Nat /\ here[1] = top.lba /\ here[2] = top.idx
      /\ entry = disk[top.lba][top.idx] /\ ~Behind(top)
      /\ Seen = {x \in Want(disk) : Earlier(x, here)}
  BY <1>1, AtEntry, SeenIs
<1>3. p_no \in 0..(MaxPrim - 1) /\ p_no < MaxPrim /\ ~(p_no >= MaxPrim)
  BY <1>1, PrimarySlot, Disk DEF ScanInv, ScanTypes
<1>4. p_no' = p_no + 1
  <2>1. Len(stack) = 1
    BY <1>1, <1>2, Top DEF LinuxAt
  <2>2. ext_lba_base = 0
    BY <1>1, <1>2, <2>1 DEF ScanInv, Scanning, Counted
  <2> QED BY <1>1, <2>2 DEF count_primary
<1>5. /\ parts' = [parts EXCEPT ![p_no] = PartAt(disk, here)]
      /\ links' = list_append(links, partition_list, p_no)
  BY <1>2, <1>3 DEF scan_linux, found, PartAt
<1>6. Seen' = Seen \cup {here}
  BY <1>1, TurnSeen
<1>7. links \in Pointers(Node)
  BY DEF LinkInv, Pointers
<1>8. FoundBy(disk, Seen \cup {here}, [parts EXCEPT ![p_no] = PartAt(disk, here)], p_no + 1, l_no,
              list_append(links, partition_list, p_no))
  <2>1. \A y \in Seen : Earlier(y, here)
    BY <1>2
  <2> QED BY <1>1, <1>2, <1>3, <1>7, <2>1, FoundIn, TakeLinux
<1> QED BY <1>1, <1>4, <1>5, <1>6, <1>8

LEMMA FoundLogic ==
  ASSUME Chained, Roomy, Ordered, ScanInv, LinkInv, FoundInvs, scan_logic
  PROVE  FoundInvs'
<1>1. /\ phase = "scan" /\ top.idx <= MaxPrim /\ entry.type = "logic"
      /\ UNCHANGED <<disk, channel_cnt>>
  BY DEF scan_logic, at
<1>2. /\ l_no < MaxLogic /\ ~(l_no >= MaxLogic) /\ l_no \in Nat /\ l_no \in 0..(MaxLogic - 1)
      /\ MaxLogic \in Nat
  BY <1>1, LogicSlot, Disk
<1>3. /\ found(MaxPrim + l_no)
      /\ IF logic_full THEN leave(p_no, l_no + 1)
         ELSE stack' = advance /\ l_no' = l_no + 1 /\ UNCHANGED <<p_no, phase>>
  BY <1>2 DEF scan_logic
<1> DEFINE S == Seen \cup {here}
<1>4. ASSUME Conforming
      PROVE  /\ FoundBy(disk, S, parts', p_no, l_no + 1, links')
             /\ here \in LogicAt(disk) /\ S \in SUBSET Want(disk)
             /\ Seen = {x \in Want(disk) : Earlier(x, here)}
             /\ here[1] = top.lba /\ top.lba \in Nat
  <2>1. /\ here \in LogicAt(disk) /\ top.lba \in Nat /\ here[1] = top.lba /\ here[2] = top.idx
        /\ entry = disk[top.lba][top.idx] /\ ~Behind(top)
        /\ Seen = {x \in Want(disk) : Earlier(x, here)}
    BY <1>1, <1>4, AtEntry, SeenIs
  <2>2. /\ parts' = [parts EXCEPT ![MaxPrim + l_no] = PartAt(disk, here)]
        /\ links' = list_append(links, partition_list, MaxPrim + l_no)
    BY <1>3, <2>1 DEF found, PartAt
  <2>3. links \in Pointers(Node)
    BY DEF LinkInv, Pointers
  <2>4. FoundBy(disk, S, [parts EXCEPT ![MaxPrim + l_no] = PartAt(disk, here)],
                p_no, l_no + 1, list_append(links, partition_list, MaxPrim + l_no))
    <3>1. /\ \A y \in Seen : Earlier(y, here)
          /\ \A y \in Want(disk) : Earlier(y, here) => y \in Seen
      BY <2>1
    <3> QED BY <1>1, <1>2, <1>4, <2>1, <2>3, <3>1, FoundIn, TakeLogic
  <2>5. S \in SUBSET Want(disk)
    BY <2>1 DEF Want, Seen
  <2> QED BY <2>1, <2>2, <2>4, <2>5
<1> HIDE DEF S
<1>5. CASE ~logic_full
  <2> SUFFICES ASSUME Conforming PROVE FoundBy(disk', Seen', parts', p_no', l_no', links')
    BY <1>1, <1>3, <1>5, FoundTurn, SameConforming
  <2>1. Seen' = S
    BY <1>1, <1>3, <1>5, TurnSeen DEF S
  <2> QED BY <1>1, <1>3, <1>4, <1>5, <2>1
<1>6. CASE logic_full
  <2>1. l_no + 1 = MaxLogic /\ l_no + 1 \in 0..MaxLogic
    BY <1>2, <1>6 DEF logic_full
  <2>2. CASE Conforming
    <3>1. LinuxAt(disk) \subseteq S
      <4>1. top.lba # 0
        BY <1>4, <2>2 DEF LogicAt
      <4>2. ASSUME NEW x \in LinuxAt(disk) PROVE Earlier(x, here) /\ x \in Want(disk)
        <5>1. x[1] = 0 /\ x \in Want(disk)
          BY DEF LinuxAt, Want
        <5>2. here[1] > 0
          BY <1>4, <2>2, <4>1
        <5> QED BY <5>1, <5>2 DEF Earlier
      <4> QED BY <1>4, <2>2, <4>2 DEF S
    <3>2. FoundBy(disk, Want(disk), parts', p_no, l_no + 1, links')
      BY <1>4, <2>1, <2>2, <3>1, FullTable
    <3> QED BY <1>1, <1>3, <1>6, <2>1, <2>2, <3>2, FoundIn, FoundLeave
  <2>3. CASE ~Conforming
    BY <1>1, <1>3, <1>6, <2>3, FoundElse
  <2> QED BY <2>2, <2>3
<1> QED BY <1>5, <1>6

LEMMA FoundReturn ==
  ASSUME Chained, Ordered, ScanInv, FoundInvs, scan_return PROVE FoundInvs'
<1>1. /\ phase = "scan" /\ top.idx > MaxPrim /\ leave(p_no, l_no)
      /\ UNCHANGED <<disk, channel_cnt, parts, links>>
  BY DEF scan_return
<1>2. CASE Conforming
  <2>1. FoundBy(disk, Want(disk), parts', p_no, l_no, links')
    BY <1>1, <1>2, EndSeen, FoundIn
  <2> QED BY <1>1, <1>2, <2>1, FoundIn, FoundLeave
<1>3. CASE ~Conforming
  BY <1>1, <1>3, FoundElse
<1> QED BY <1>2, <1>3

LEMMA FoundPass ==
  ASSUME Chained, Ordered, ScanInv, FoundInvs, scan_extended \/ scan_empty \/ scan_other
  PROVE  FoundInvs'
<1>1. /\ phase = "scan" /\ top.idx <= MaxPrim
      /\ UNCHANGED <<disk, phase, l_no, parts, links>>
  BY DEF scan_extended, scan_empty, scan_other, at
<1> SUFFICES ASSUME Conforming PROVE FoundBy(disk', Seen', parts', p_no', l_no', links')
  BY <1>1, FoundTurn, SameConforming
<1>2. FoundBy(disk, Seen, parts, p_no, l_no, links) /\ p_no \in Nat
  BY <1>1, FoundIn
<1>3. CASE scan_extended
  <2>1. Seen' = Seen /\ p_no' = p_no
    BY <1>3, LinkSeen DEF scan_extended
  <2> QED BY <1>1, <1>2, <2>1
<1>4. CASE scan_empty \/ scan_other
  <2>1. /\ stack' = advance /\ entry.type \in {"empty", "other"}
        /\ p_no' = p_no \/ p_no' = p_no + 1
    BY <1>4 DEF scan_empty, scan_other, at, count_primary
  <2>2. Seen' = Seen
    BY <1>1, <2>1, TurnSeen
  <2> QED BY <1>1, <1>2, <2>1, <2>2, CountedOn
<1> QED BY <1>3, <1>4

\* The list is empty.
Cleared == \E m \in Pointers(Node) : links = list_init(m, partition_list)

\* The kernel has booted: nothing is passed, and nothing found.
LEMMA FoundBooted == Chained /\ Booted /\ Cleared => FoundInvs
<1> SUFFICES ASSUME Chained, Booted, Cleared PROVE FoundInvs
  OBVIOUS
<1> PICK m \in Pointers(Node) : links = list_init(m, partition_list)
  BY DEF Cleared
<1>1. Len(stack) = 1 /\ top.lba = 0 /\ top.idx = 1 /\ disk \in Disks
  BY DEF Booted, top
<1>2. Seen = {}
  <2>1. ~Behind(top)
    BY <1>1 DEF Behind
  <2>2. ASSUME NEW x \in Want(disk) PROVE ~Earlier(x, <<top.lba, top.idx>>)
    <3>1. x[1] \in Nat /\ x[2] \in 1..MaxPrim
      BY <1>1, PlacesAre
    <3> QED BY <1>1, <3>1 DEF Earlier
  <2> QED BY <2>1, <2>2 DEF Seen
<1>3. \A s \in Slot : parts[s].cnt = 0
  BY DEF Booted
<1>4. Holds(disk, Seen, parts, 0, 0)
  <2>1. \A k \in 0..(MaxLogic - 1) : ~(k < 0) /\ parts[MaxPrim + k].cnt = 0
    BY <1>3, SlotsAre
  <2>2. \A s \in 0..(MaxPrim - 1) : parts[s].cnt = 0
    BY <1>3, SlotsAre
  <2>3. \A k : ~(k \in 0..(0 - 1))
    OBVIOUS
  <2> QED BY <1>2, <2>1, <2>2, <2>3 DEF Holds
<1>5. ListHolds(<<>>, parts, links)
  <2> DEFINE c == Places(partition_list, <<>>)
  <2>1. Len(<<>>) = 0 /\ \A k \in 1..0 : FALSE
    OBVIOUS
  <2>2. c[0] = header /\ c[1] = tailer
    BY <2>1 DEF Places, partition_list
  <2> HIDE DEF c
  <2>3. /\ links[header] = [prev |-> NULL, next |-> tailer]
        /\ links[tailer] = [prev |-> header, next |-> NULL]
    <3>1. header \in Node /\ tailer \in Node /\ header # tailer
      BY Nodes DEF Node
    <3>2. links = [m EXCEPT ![header] = [prev |-> NULL, next |-> tailer],
                            ![tailer] = [prev |-> header, next |-> NULL]]
      BY DEF list_init, partition_list
    <3> QED BY <3>1, <3>2 DEF Pointers
  <2>4. \A k \in 0..0 : k = 0
    OBVIOUS
  <2>5. \A k \in 0..1 : k = 0 \/ k = 1
    OBVIOUS
  <2>6. Chain(links, c, 0)
    BY <2>2, <2>3, <2>4, <2>5, Nodes DEF Chain
  <2> QED BY <1>3, <2>1, <2>6 DEF ListHolds, c
<1>6. FoundBy(disk, Seen, parts, p_no, l_no, links)
  <2>1. <<>> \in Seq(Slot) /\ p_no = 0 /\ l_no = 0
    BY DEF Booted
  <2> QED BY <1>4, <1>5, <2>1 DEF FoundBy
<1>7. phase = "scan"
  BY DEF Booted
<1> QED BY <1>6, <1>7 DEF FoundInvs, FoundInv, ScannedInv, scanned

LEMMA FoundStep ==
  ASSUME Chained, Roomy, Ordered, FsInv, FoundInvs, [FsNext]_fsVars PROVE FoundInvs'
<1>1. ScanInv /\ LinkInv /\ OrderInv
  BY DEF FsInv
<1>2. CASE scan_linux
  BY <1>1, <1>2, FoundLinux
<1>3. CASE scan_logic
  BY <1>1, <1>3, FoundLogic
<1>4. CASE scan_return
  BY <1>1, <1>4, FoundReturn
<1>5. CASE scan_extended \/ scan_empty \/ scan_other
  BY <1>1, <1>5, FoundPass
<1>6. CASE second_channel
  <2>1. phase = "second" /\ phase' = "fs" /\ channel_cnt' = channel_cnt
    BY <1>6 DEF second_channel
  <2>2. ~scanned'
    BY <2>1 DEF FoundInvs, scanned, more_channels
  <2> QED BY <2>1, <2>2 DEF FoundInvs, FoundInv, ScannedInv
<1>7. CASE format
  <2>1. phase' = "fs" /\ (written' # 0 \/ part_idx' # 0)
    <3>1. phase' = "fs" /\ part_idx \in Nat
      BY <1>7, Nodes DEF format, formatting
    <3>2. part_idx' = IF written' = 0 THEN part_idx + 1 ELSE part_idx
      BY <1>7 DEF format
    <3> QED BY <3>1, <3>2
  <2> QED BY <2>1 DEF FoundInvs, FoundInv, ScannedInv, scanned
<1>8. CASE format_skip
  <2>1. phase' = "fs" /\ part_idx' # 0
    BY <1>8, Nodes DEF format_skip, formatting, scanVars
  <2> QED BY <2>1 DEF FoundInvs, FoundInv, ScannedInv, scanned
<1>9. CASE mount
  <2>1. phase' = "fs" /\ part_idx' # 0
    BY <1>9, Nodes DEF mount, scanVars
  <2> QED BY <2>1 DEF FoundInvs, FoundInv, ScannedInv, scanned
<1>10. CASE power_off
  <2> DEFINE blank == [e \in Node |-> Zero]
  <2>1. links' = list_init(blank, partition_list)
    BY <1>1, <1>10 DEF power_off, LinkInv
  <2>2. blank \in Pointers(Node)
    BY DEF Pointers, Zero
  <2>3. Booted'
    BY <1>1, <1>10 DEF power_off, Booted, ScanInv, ScanTypes
  <2> HIDE DEF blank
  <2>4. Cleared' /\ Chained'
    BY <2>1, <2>2 DEF Cleared, Chained, Tables, LinkLast, LinkGood, Pointers, Node
  <2>5. (Chained /\ Booted /\ Cleared => FoundInvs)'
    BY FoundBooted, PTL
  <2> QED BY <2>3, <2>4, <2>5
<1>11. CASE UNCHANGED fsVars
  BY <1>11 DEF fsVars, scanVars, FoundInvs, FoundInv, ScannedInv, scanned, more_channels,
               Conforming, Used, Seen, Want, LinuxAt, LogicAt, Pos, Behind, top
<1> QED BY <1>2, <1>3, <1>4, <1>5, <1>6, <1>7, <1>8, <1>9, <1>10, <1>11
        DEF FsNext, scan, scan_step

\* The partitions that are expected, by their places.
LEMMA ByPlaces ==
  ASSUME Chained, ScanInv
  PROVE  /\ InTables("linux", {0}) = {PartAt(disk, x) : x \in LinuxAt(disk)}
         /\ Logical = {PartAt(disk, x) : x \in LogicAt(disk)}
<1> DEFINE those(type, m) == {j \in DOMAIN disk[m] : disk[m][j].type = type}
           new(m, i) == [start |-> m + disk[m][i].start, cnt |-> disk[m][i].cnt]
<1>1. /\ DOMAIN disk \subseteq Nat /\ 0 \in DOMAIN disk
      /\ \A m \in DOMAIN disk : DOMAIN disk[m] = 1..MaxPrim
  BY Disk DEF Tables
<1>2. ASSUME NEW type, NEW S \in SUBSET DOMAIN disk
      PROVE  InTables(type, S) =
               {PartAt(disk, x) :
                  x \in {y \in Pos(disk) : y[1] \in S /\ disk[y[1]][y[2]].type = type}}
  <2> DEFINE P == {y \in Pos(disk) : y[1] \in S /\ disk[y[1]][y[2]].type = type}
  <2>1. InTables(type, S) = UNION {{new(m, i) : i \in those(type, m)} : m \in S}
    BY DEF InTables
  <2>2. ASSUME NEW e \in InTables(type, S) PROVE \E x \in P : e = PartAt(disk, x)
    <3>1. PICK m \in S : e \in {new(m, i) : i \in those(type, m)}
      BY <2>1
    <3>2. PICK i \in those(type, m) : e = new(m, i)
      BY <3>1
    <3>3. i \in 1..MaxPrim /\ m \in DOMAIN disk /\ disk[m][i].type = type
      BY <1>1, <3>2
    <3>4. <<m, i>> \in P
      BY <3>3 DEF Pos
    <3>5. e = PartAt(disk, <<m, i>>)
      BY <3>2 DEF PartAt
    <3> QED BY <3>4, <3>5
  <2>3. ASSUME NEW x \in P PROVE PartAt(disk, x) \in InTables(type, S)
    <3>1. x[1] \in S /\ x[2] \in those(type, x[1])
      BY <1>1 DEF Pos
    <3>2. PartAt(disk, x) = new(x[1], x[2])
      BY DEF PartAt
    <3> HIDE DEF new, those, P
    <3> QED BY <2>1, <3>1, <3>2
  <2> QED BY <2>2, <2>3
<1>3. {y \in Pos(disk) : y[1] \in {0} /\ disk[y[1]][y[2]].type = "linux"} = LinuxAt(disk)
  BY DEF LinuxAt
<1>4. {y \in Pos(disk) : y[1] \in DOMAIN disk \ {0} /\ disk[y[1]][y[2]].type = "logic"}
        = LogicAt(disk)
  BY DEF LogicAt, Pos
<1> HIDE DEF those, new
<1>5. {0} \in SUBSET DOMAIN disk /\ DOMAIN disk \ {0} \in SUBSET DOMAIN disk
  BY <1>1
<1> QED BY <1>2, <1>3, <1>4, <1>5 DEF Logical

\* The logical partitions are finitely many.
LEMMA LogicalFinite ==
  ASSUME Chained, Ordered, ScanInv
  PROVE  IsFiniteSet(Logical)
<1> DEFINE f == [x \in LogicAt(disk) |-> PartAt(disk, x)]
<1>1. IsFiniteSet(DOMAIN disk)
  BY DEF Ordered, ScanInv, ScanTypes
<1>2. IsFiniteSet(1..MaxPrim)
  BY FS_Interval, Disk
<1>3. IsFiniteSet(Pos(disk))
  BY <1>1, <1>2, FS_Product DEF Pos
<1>4. IsFiniteSet(LogicAt(disk))
  <2>1. LogicAt(disk) \in SUBSET Pos(disk)
    BY DEF LogicAt
  <2> QED BY <1>3, <2>1, FS_Subset
<1>5. f \in Surjection(LogicAt(disk), Logical)
  BY ByPlaces DEF Surjection
<1> HIDE DEF f
<1> QED BY <1>4, <1>5, FS_Surjection

\* The first MaxLogic logical partitions are the first l, which are held.
LEMMA FirstHeld ==
  ASSUME Chained, Roomy, Ordered, ScanInv, NEW p \in Nat, NEW l \in 0..MaxLogic,
         FoundBy(disk, Want(disk), parts, p, l, links), NEW e \in Logical
  PROVE  (\E k \in 0..(l - 1) : parts[MaxPrim + k] = e)
           <=> Cardinality({q \in Logical : q.start < e.start}) < MaxLogic
<1> DEFINE Below == {q \in Logical : q.start < e.start}
           slot(k) == MaxPrim + k
<1>1. PICK x \in LogicAt(disk) : e = PartAt(disk, x)
  BY ByPlaces
<1>2. Holds(disk, Want(disk), parts, p, l)
  BY DEF FoundBy
<1>3. disk \in Disks /\ x \in Want(disk) /\ e.start \in Nat
  BY <1>1, PlacesAre DEF ScanInv, ScanTypes, Want
<1>4. IsFiniteSet(Below) /\ Cardinality(Below) \in Nat
  <2>1. Below \in SUBSET Logical
    OBVIOUS
  <2> QED BY <2>1, LogicalFinite, FS_Subset, FS_CardinalityType
<1>5. /\ MaxLogic \in Nat /\ l \in Nat /\ l <= MaxLogic /\ l - 1 \in Int
      /\ \A k \in 0..(l - 1) : k \in 0..(MaxLogic - 1) /\ k < l /\ slot(k) \in Slot
      /\ \A j, k \in 0..(l - 1) : slot(j) = slot(k) => j = k
  BY SlotsAre
<1> HIDE DEF slot
<1>6. \A k \in 0..(l - 1) : \E y \in LogicAt(disk) : parts[slot(k)] = PartAt(disk, y)
  BY <1>2, <1>5 DEF Holds, slot
<1>7. ASSUME NEW q \in Logical
      PROVE  /\ q.start \in Nat
             /\ \A r \in Logical : r.start = q.start => r = q
             /\ (\E k \in 0..(l - 1) : parts[slot(k)] = q)
                \/ (l = MaxLogic /\ \A k \in 0..(l - 1) : ~(q.start < parts[slot(k)].start))
  <2>1. PICK y \in LogicAt(disk) : q = PartAt(disk, y)
    BY ByPlaces
  <2>2. y \in Want(disk) /\ q.start \in Nat
    BY <1>3, <2>1, PlacesAre DEF Want
  <2>3. ASSUME NEW r \in Logical, r.start = q.start PROVE r = q
    <3>1. PICK z \in LogicAt(disk) : r = PartAt(disk, z)
      BY ByPlaces
    <3>2. z \in Want(disk)
      BY DEF Want
    <3>3. ~(q.start < r.start) /\ ~(r.start < q.start)
      BY <2>2, <2>3
    <3> QED BY <1>3, <2>1, <2>2, <3>1, <3>2, <3>3, PlacesInOrder
  <2>4. l = MaxLogic \/ l < MaxLogic
    BY <1>5
  <2> QED BY <1>2, <2>1, <2>2, <2>3, <2>4 DEF Holds, slot
<1>8. ASSUME NEW k \in 0..(l - 1), parts[slot(k)] = e PROVE Cardinality(Below) < MaxLogic
  <2> DEFINE J == (0..(l - 1)) \ {k}
             g == [q \in Below |-> CHOOSE j \in 0..(l - 1) : parts[slot(j)] = q]
  <2>1. ASSUME NEW q \in Below
        PROVE  /\ \E j \in 0..(l - 1) : parts[slot(j)] = q
               /\ g[q] \in J /\ parts[slot(g[q])] = q
    <3>1. \E j \in 0..(l - 1) : parts[slot(j)] = q
      BY <1>7, <1>8
    <3>2. g[q] \in 0..(l - 1) /\ parts[slot(g[q])] = q
      BY <3>1
    <3>3. q # e
      BY <1>3
    <3> QED BY <1>8, <3>1, <3>2, <3>3
  <2>2. g \in Injection(Below, J)
    <3>1. g \in [Below -> J]
      BY <2>1
    <3>2. \A q, r \in Below : g[q] = g[r] => q = r
      BY <2>1
    <3> HIDE DEF g, J, Below
    <3> QED BY <3>1, <3>2 DEF Injection, IsInjective
  <2>3. IsFiniteSet(0..(l - 1)) /\ Cardinality(0..(l - 1)) = l
    <3>1. 0 \in Int /\ l >= 1 /\ (l - 1) - 0 + 1 = l
      BY <1>5
    <3> QED BY <1>5, <3>1, FS_Interval
  <2>4. IsFiniteSet(J) /\ Cardinality(J) = l - 1
    BY <2>3, FS_RemoveElement
  <2> HIDE DEF J, g, Below
  <2>5. Cardinality(Below) <= l - 1
    BY <2>2, <2>4, FS_Injection
  <2> QED BY <1>4, <1>5, <2>5
<1>9. ASSUME ~\E k \in 0..(l - 1) : parts[slot(k)] = e PROVE ~(Cardinality(Below) < MaxLogic)
  <2> DEFINE g == [k \in 0..(l - 1) |-> parts[slot(k)]]
  <2>1. l = MaxLogic /\ \A k \in 0..(l - 1) : ~(e.start < parts[slot(k)].start)
    BY <1>7, <1>9
  <2>2. ASSUME NEW k \in 0..(l - 1) PROVE g[k] \in Below
    <3>1. parts[slot(k)] \in Logical
      BY <1>6, ByPlaces
    <3>2. parts[slot(k)] # e
      BY <1>9
    <3>3. parts[slot(k)].start # e.start /\ parts[slot(k)].start \in Nat
      BY <1>7, <3>1, <3>2
    <3>4. parts[slot(k)].start < e.start
      BY <1>3, <2>1, <3>3
    <3> QED BY <3>1, <3>4
  <2>3. ASSUME NEW j \in 0..(l - 1), NEW k \in 0..(l - 1), g[j] = g[k] PROVE j = k
    <3>1. PICK q \in Seq(Slot) : ListHolds(q, parts, links)
      BY DEF FoundBy
    <3>2. parts[slot(j)] = parts[slot(k)]
      BY <2>3
    <3>3. parts[slot(j)].cnt # 0 /\ parts[slot(k)].cnt # 0 /\ parts[slot(j)].start \in Nat
      <4>1. PICK y \in LogicAt(disk) : parts[slot(j)] = PartAt(disk, y)
        BY <1>6
      <4>2. y \in Want(disk)
        BY DEF Want
      <4> QED BY <1>3, <3>2, <4>1, <4>2, PlacesAre, PlaceSize
    <3>4. PICK a \in 1..Len(q) : q[a] = slot(j)
      BY <1>5, <3>1, <3>3 DEF ListHolds
    <3>5. PICK b \in 1..Len(q) : q[b] = slot(k)
      BY <1>5, <3>1, <3>3 DEF ListHolds
    <3>6. ~(a < b) /\ ~(b < a)
      <4>1. ~(parts[slot(j)].start < parts[slot(j)].start)
        BY <3>3
      <4> QED BY <3>1, <3>2, <3>4, <3>5, <4>1 DEF ListHolds
    <3>7. a = b
      BY <3>6
    <3> QED BY <1>5, <3>4, <3>5, <3>7
  <2>4. g \in Injection(0..(l - 1), Below)
    <3>1. g \in [0..(l - 1) -> Below]
      BY <2>2
    <3> HIDE DEF g, Below
    <3> QED BY <2>3, <3>1 DEF Injection, IsInjective
  <2> HIDE DEF g, Below
  <2>5. Cardinality(0..(l - 1)) = l
    <3>1. 0 \in Int /\ l >= 1 /\ (l - 1) - 0 + 1 = l /\ ~(0 > l - 1)
      BY <1>5, <2>1, SlotsAre
    <3> QED BY <1>5, <3>1, FS_Interval
  <2>6. Cardinality(0..(l - 1)) <= Cardinality(Below)
    BY <1>4, <2>4, FS_Injection
  <2> QED BY <1>4, <1>5, <2>1, <2>5, <2>6
<1> QED BY <1>8, <1>9 DEF slot

\* The tables and the list as ScanFindsAll wants them.
LEMMA FoundAll ==
  ASSUME Chained, Roomy, Ordered, ScanInv, LinkInv, NEW p \in Nat, NEW l \in 0..MaxLogic,
         FoundBy(disk, Want(disk), parts, p, l, links)
  PROVE  LET q == visited(links, partition_list)
         IN /\ {parts[s] : s \in Partitioned} = Expected
            /\ {q[i] : i \in 1..Len(q)} = Partitioned
            /\ \A i, j \in 1..Len(q) : i < j => parts[q[i]].start < parts[q[j]].start
<1>1. Holds(disk, Want(disk), parts, p, l)
  BY DEF FoundBy
<1>2. PICK q \in Seq(Slot) : ListHolds(q, parts, links)
  BY DEF FoundBy
<1>3. visited(links, partition_list) = q
  <2>1. NULL \notin Node
    <3>1. Slot \subseteq Nat
      BY SlotsAre
    <3> QED BY <3>1, PartitionAssumption DEF Node
  <2>2. q \in Seq(Node) /\ links \in Pointers(Node)
    BY DEF Node, LinkInv, Pointers
  <2>3. Places(partition_list, q) \in [0..(Len(q) + 1) -> Node]
    <3>1. Len(q) \in Nat /\ \A k \in 1..Len(q) : q[k] \in Slot
      OBVIOUS
    <3>2. ASSUME NEW k \in 0..(Len(q) + 1)
          PROVE  (IF k = 0 THEN header ELSE IF k = Len(q) + 1 THEN tailer ELSE q[k]) \in Node
      <4>1. k = 0 \/ k = Len(q) + 1 \/ k \in 1..Len(q)
        BY <3>1
      <4> QED BY <3>1, <4>1 DEF Node
    <3> QED BY <3>2 DEF Places, partition_list
  <2>4. Chain(links, Places(partition_list, q), Len(q))
    BY <1>2 DEF ListHolds
  <2> QED BY <2>1, <2>2, <2>3, <2>4, Nodes, VisitedIs
<1>4. {q[i] : i \in 1..Len(q)} = Partitioned
  BY <1>2 DEF ListHolds, Partitioned
<1>5. /\ disk \in Disks /\ LinuxAt(disk) \subseteq Want(disk) /\ LogicAt(disk) \subseteq Want(disk)
  BY DEF ScanInv, ScanTypes, Want
<1>6. \A k \in 0..(l - 1) : k \in 0..(MaxLogic - 1) /\ k < l
  BY SlotsAre
<1>7. ASSUME NEW s \in Partitioned PROVE parts[s] \in Expected
  <2>1. s \in Slot /\ parts[s].cnt # 0
    BY DEF Partitioned
  <2>2. CASE s \in 0..(MaxPrim - 1)
    BY <1>1, <2>1, <2>2, ByPlaces DEF Holds, Expected
  <2>3. CASE \E k \in 0..(MaxLogic - 1) : s = MaxPrim + k
    <3>1. PICK k \in 0..(MaxLogic - 1) : s = MaxPrim + k
      BY <2>3
    <3>2. k < l /\ \E x \in LogicAt(disk) : parts[s] = PartAt(disk, x)
      BY <1>1, <2>1, <3>1 DEF Holds
    <3>3. parts[s] \in Logical /\ k \in 0..(l - 1)
      BY <3>2, ByPlaces
    <3> QED BY <3>1, <3>3, FirstHeld DEF Expected
  <2> QED BY <2>1, <2>2, <2>3, SlotsAre
<1>8. ASSUME NEW e \in Expected PROVE \E s \in Partitioned : parts[s] = e
  <2>1. CASE e \in InTables("linux", {0})
    <3>1. PICK x \in LinuxAt(disk) : e = PartAt(disk, x)
      BY <2>1, ByPlaces
    <3>2. PICK s \in 0..(MaxPrim - 1) : parts[s] = e
      BY <1>1, <1>5, <3>1 DEF Holds
    <3>3. e.cnt # 0
      BY <1>5, <3>1, PlaceSize
    <3> QED BY <3>2, <3>3, SlotsAre DEF Partitioned
  <2>2. CASE /\ e \in Logical
             /\ Cardinality({q1 \in Logical : q1.start < e.start}) < MaxLogic
    <3>1. PICK k \in 0..(l - 1) : parts[MaxPrim + k] = e
      BY <2>2, FirstHeld
    <3>2. e.cnt # 0
      BY <1>5, <2>2, ByPlaces, PlaceSize
    <3>3. MaxPrim + k \in Slot
      BY <1>6, SlotsAre
    <3> QED BY <3>1, <3>2, <3>3 DEF Partitioned
  <2> QED BY <2>1, <2>2 DEF Expected
<1>9. {parts[s] : s \in Partitioned} = Expected
  BY <1>7, <1>8
<1> QED BY <1>2, <1>3, <1>4, <1>9 DEF ListHolds

(***************************************************************************)
(* partition_scan() finds the partitions of a disk: on a disk whose tables *)
(* hold them in order, and whose extended entries lead from a table to the *)
(* next, it enters each one, as many as there are slots, where the disk    *)
(* has it, and the list goes through them in the order of the disk.        *)
(***************************************************************************)
THEOREM ScanFindsPartitions == ASSUME Chained, Roomy, Ordered PROVE FsSpec => []ScanFindsAll
<1>1. FsInit => FsInv /\ FoundInvs
  <2> SUFFICES ASSUME FsInit PROVE FsInv /\ FoundInvs
    OBVIOUS
  <2>1. FsInv
    BY InitFs
  <2>2. Booted /\ Cleared
    <3> DEFINE blank == [e \in Node |-> Zero]
    <3>1. blank \in Pointers(Node)
      BY DEF Pointers, Zero
    <3>2. Booted /\ links = list_init(blank, partition_list)
      BY DEF FsInit, ScanInit, Booted, Node
    <3> QED BY <3>1, <3>2 DEF Cleared
  <2> QED BY <2>1, <2>2, FoundBooted
<1>2. FsInv /\ FoundInvs /\ [FsNext]_fsVars => FsInv' /\ FoundInvs'
  BY FsStep, FoundStep
<1>3. FsInv /\ FoundInvs => ScanFindsAll
  <2> SUFFICES ASSUME FsInv, FoundInvs, scanned, Conforming
               PROVE  LET q == visited(links, partition_list)
                      IN /\ {parts[s] : s \in Partitioned} = Expected
                         /\ {q[i] : i \in 1..Len(q)} = Partitioned
                         /\ \A i, j \in 1..Len(q) : i < j => parts[q[i]].start < parts[q[j]].start
    BY DEF ScanFindsAll, scanned
  <2>1. PICK p \in Nat, l \in 0..MaxLogic : FoundBy(disk, Want(disk), parts, p, l, links)
    BY DEF FoundInvs, ScannedInv
  <2> QED BY <2>1, FoundAll DEF FsInv
<1> QED BY <1>1, <1>2, <1>3, PTL DEF FsSpec
=============================================================================
