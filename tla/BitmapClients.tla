---------------------------- MODULE BitmapClients ----------------------------
(***************************************************************************)
(* The use the memory manager makes of os/ds/bitmap.c: runs of a bitmap of *)
(* MapLen bytes are taken where bitmap_scan() finds them and bits are      *)
(* given back one at a time, any memory lying behind the map.              *)
(***************************************************************************)
EXTENDS Bitmap

CONSTANTS MapLen, MaxCnt        \* bytes of the map, longest run asked for

ASSUME ClientAssumption == MapLen \in Nat /\ MaxCnt \in Nat

VARIABLE bits

\* The positions a run can reach behind the map.
Behind == positions(MapLen + 1) \ positions(MapLen)

BitmapInit(Garbage) == \E garbage \in Garbage : bits = bitmap_init(garbage, MapLen)

take(cnt) ==
  LET s == bitmap_scan(bits, MapLen, cnt)
  IN s # Asserts /\ bits' = set_run(bits, s, cnt, 1)

give(i) == bitmap_scan_test(bits, i) /\ bits' = bitmap_set(bits, i, 0)

BitmapNext == (\E cnt \in 1..MaxCnt : take(cnt)) \/ (\E i \in positions(MapLen) : give(i))

BitmapSpec == BitmapInit(SUBSET Behind) /\ [][BitmapNext]_bits

-----------------------------------------------------------------------------
(***************************************************************************)
(* bitmap_scan() against what its callers need.  A run it returns starts   *)
(* inside the map and none of its bits is in use, whatever was taken and   *)
(* given back before.  It misses runs inside a byte that starts with       *)
(* another free bit, but its assertion never fails while the map has a     *)
(* free run ByteBits - 1 bits longer than asked for; and for one bit it    *)
(* returns the lowest 0, and fails only when the map is full.              *)
(***************************************************************************)
ScanFindsRuns ==
  LET free == positions(MapLen) \ bits
  IN /\ \A cnt \in 1..MaxCnt :
          LET s == bitmap_scan(bits, MapLen, cnt)
          IN IF s = Asserts
             THEN \A p \in free : ~(p..(p + cnt + ByteBits - 2) \subseteq free)
             ELSE s \in free /\ bits \cap s..(s + cnt - 1) = {}
     /\ free # {} => bitmap_scan(bits, MapLen, 1) = lowest(free)
=============================================================================
