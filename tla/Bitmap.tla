------------------------------- MODULE Bitmap -------------------------------
(***************************************************************************)
(* os/ds/bitmap.c.  A bitmap is the set of the positions that hold a 1,    *)
(* counted from its first byte.  bitmap_len bounds the bytes bitmap_scan() *)
(* starts a run in, but neither the run nor bitmap_scan_test() nor         *)
(* bitmap_set() is kept inside it: positions from ByteBits * len on are    *)
(* the memory behind the map, which they read and write too.               *)
(***************************************************************************)
EXTENDS Integers, FiniteSets

CONSTANT ByteBits      \* 8

ASSUME BitmapAssumption == ByteBits \in Nat \ {0}

\* The positions of the byte at index i, and of a map of len bytes.
byte(i) == (ByteBits * i)..(ByteBits * i + ByteBits - 1)

positions(len) == 0..(ByteBits * len - 1)

\* bitmap_scan() does not return: its assertion has failed.
Asserts == -1

lowest(S) == CHOOSE x \in S : \A y \in S : x <= y

bitmap_init(b, len) == b \ positions(len)

bitmap_scan_test(b, bit_idx) == bit_idx \in b

\* The first 0 of a byte that is not 0xff.
first_free(b, i) == lowest(byte(i) \ b)

\* Mutant: the run is taken one bit short.
run_free_short(b, start, cnt) ==
  \A k \in 1..(cnt - 2) : ~bitmap_scan_test(b, start + k)

\* The bits behind the first one, up to cnt of them, are 0.
run_free(b, start, cnt) ==
  \A k \in 1..(cnt - 1) : ~bitmap_scan_test(b, start + k)

(***************************************************************************)
(* bitmap_scan(): each byte that is not full offers one run, the one that  *)
(* starts at its first 0; the first run that is long enough is returned.   *)
(* When no byte is left the assertion on line 29 fails before -1 can be    *)
(* returned.                                                               *)
(***************************************************************************)
bitmap_scan(b, len, cnt) ==
  LET found == {i \in 0..(len - 1) : /\ ~(byte(i) \subseteq b)
                                     /\ run_free(b, first_free(b, i), cnt)}
  IN IF found = {} THEN Asserts ELSE first_free(b, lowest(found))

bitmap_set(b, bit_idx, v) == IF v = 1 THEN b \cup {bit_idx} ELSE b \ {bit_idx}

\* The loop of bitmap_set() calls around a run, as its callers write it.
set_run(b, start, cnt, v) ==
  IF v = 1 THEN b \cup start..(start + cnt - 1) ELSE b \ (start..(start + cnt - 1))
=============================================================================
