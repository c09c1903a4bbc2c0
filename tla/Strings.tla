------------------------------ MODULE Strings ------------------------------
(***************************************************************************)
(* os/kernel/string.c and the assembler it calls in os/include/x86.h, on a *)
(* memory m: a function from addresses to bytes.  A string starts at an    *)
(* address and ends at the first byte that is 0.                           *)
(***************************************************************************)
EXTENDS Integers, Sequences, FiniteSetsExt

CONSTANT Word      \* bytes movsl moves at once: 4

ASSUME StringsAssumption == Word \in Nat \ {0}

\* A byte read as a char, which is signed.
schar(b) == IF b > 127 THEN b - 256 ELSE b

strlen(m, s) == Min({a \in DOMAIN m : a >= s /\ m[a] = 0}) - s

-----------------------------------------------------------------------------
(***************************************************************************)
(* One instruction, or one assignment: the bytes at the offsets W of src   *)
(* are read, then written at the same offsets of dst.                      *)
(***************************************************************************)
move(m, dst, src, W) ==
  [a \in DOMAIN m |-> IF a - dst \in W THEN m[src + (a - dst)] ELSE m[a]]

\* The moves of the sets of offsets Ws[1], Ws[2], ... one after the other.
moves(m, dst, src, Ws) ==
  LET after[i \in 0..Len(Ws)] ==
        IF i = 0 THEN m ELSE move(after[i - 1], dst, src, Ws[i])
  IN after[Len(Ws)]

\* rep movsl, then rep movsb for the rest.
memcpy(m, dst, src, n) ==
  LET q == n \div Word
  IN moves(m, dst, src, [i \in 1..(q + (n % Word)) |->
       IF i <= q THEN Word * (i - 1)..(Word * i - 1) ELSE {Word * q + (i - q) - 1}])

\* std; rep movsb: from the last byte to the first.
backwards(m, dst, src, n) == moves(m, dst, src, [i \in 1..n |-> {n - i}])

\* Mutant: memmove() copies forwards whatever overlaps.
memmove_forward(m, dst, src, n) == memcpy(m, dst, src, n)

memmove(m, dst, src, n) ==
  IF dst < src THEN memcpy(m, dst, src, n) ELSE backwards(m, dst, src, n)

memset(m, s, c, n) == [a \in DOMAIN m |-> IF a - s \in 0..(n - 1) THEN c ELSE m[a]]

\* lodsb; stosb up to and with the 0.
strcpy(m, dst, src) == moves(m, dst, src, [i \in 1..(strlen(m, src) + 1) |-> {i - 1}])

\* src stays on its 0 once it is there.
strncpy(m, dst, src, n) ==
  LET l == strlen(m, src)
  IN memset(moves(m, dst, src, [i \in 1..(IF l < n THEN l ELSE n) |-> {i - 1}]),
            dst + l, 0, n - l)

-----------------------------------------------------------------------------
\* A loop that counts up to n at most and stops early where Stop holds.
upTo(n, Stop(_)) == CHOOSE i \in 0..n : (i = n \/ Stop(i)) /\ \A j \in 0..(i - 1) : ~Stop(j)

strnlen(m, s, n) == upTo(n, LAMBDA i : m[s + i] = 0)

\* lodsb; scasb: the bytes are compared as unsigned ones.
strcmp(m, s1, s2) ==
  LET k == upTo(strlen(m, s1), LAMBDA i : m[s1 + i] # m[s2 + i])
  IN IF m[s1 + k] = m[s2 + k] THEN 0 ELSE IF m[s1 + k] < m[s2 + k] THEN -1 ELSE 1

strncmp(m, s1, s2, n) ==
  LET k == upTo(n, LAMBDA i : m[s1 + i] = 0 \/ m[s1 + i] # m[s2 + i])
  IN IF k = n THEN 0 ELSE m[s1 + k] - m[s2 + k]

memcmp(m, v1, v2, n) ==
  LET k == upTo(n, LAMBDA i : m[v1 + i] # m[v2 + i])
  IN IF k = n THEN 0 ELSE m[v1 + k] - m[v2 + k]

\* The char is compared with the int c, which is not converted.
strfind(m, s, c) == s + upTo(strlen(m, s), LAMBDA i : schar(m[s + i]) = c)

\* strchr() returns NULL, here -1, at the 0.
strchr(m, s, c) == IF m[strfind(m, s, c)] = 0 THEN -1 ELSE strfind(m, s, c)
=============================================================================
