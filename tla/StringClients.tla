---------------------------- MODULE StringClients ----------------------------
(***************************************************************************)
(* The use the kernel makes of string.c: it copies and compares strings in *)
(* an area of memory, with calls that keep the contract string.c states.   *)
(* Only memmove() is given areas that overlap.  What a call should leave   *)
(* behind is written in one step.                                          *)
(***************************************************************************)
EXTENDS Strings

CONSTANTS AreaLen, Bytes        \* length of the area, its contents

ASSUME AreaAssumption == AreaLen \in Nat /\ Bytes \subseteq 0..255

VARIABLES
  area,       \* the memory that holds strings
  expected    \* history: what it should be

areaVars == <<area, expected>>

Area == 0..(AreaLen - 1)

StringInit(Contents) == area \in Contents /\ expected = area

Terminated(s) == \E a \in s..(AreaLen - 1) : area[a] = 0

Disjoint(d, n, s, k) == d + n <= s \/ s + k <= d

copies(d, s, n, result) ==
  area' = result /\ expected' = move(area, d, s, 0..(n - 1))

use_memmove(d, s) ==
  \E n \in 0..(AreaLen - (IF d < s THEN s ELSE d)) : copies(d, s, n, memmove(area, d, s, n))

use_memcpy(d, s) ==
  \E n \in 0..(AreaLen - (IF d < s THEN s ELSE d)) :
    Disjoint(d, n, s, n) /\ copies(d, s, n, memcpy(area, d, s, n))

use_strcpy(d, s) ==
  /\ Terminated(s)
  /\ LET n == strlen(area, s) + 1
     IN /\ d + n <= AreaLen /\ Disjoint(d, n, s, n)
        /\ copies(d, s, n, strcpy(area, d, s))

use_strncpy(d, s) ==
  /\ Terminated(s)
  /\ \E n \in 0..(AreaLen - d) :
       LET l == Min({n, strlen(area, s) + 1})
       IN /\ Disjoint(d, n, s, l)
          /\ area' = strncpy(area, d, s, n)
          /\ expected' = [a \in Area |->
               IF a \in d..(d + n - 1) THEN IF a < d + l THEN area[s + (a - d)] ELSE 0
                                       ELSE area[a]]

StringNext ==
  \E d, s \in Area : use_memmove(d, s) \/ use_memcpy(d, s) \/ use_strcpy(d, s) \/ use_strncpy(d, s)

StringSpec == StringInit([Area -> Bytes]) /\ [][StringNext]_areaVars

-----------------------------------------------------------------------------
content(s) == [i \in 1..strlen(area, s) |-> area[s + i - 1]]

sign(n) == IF n < 0 THEN -1 ELSE IF n > 0 THEN 1 ELSE 0

(***************************************************************************)
(* The string functions do what string.c says of them: after any calls the *)
(* area is what copying in one step would leave, overlapping memmove() of  *)
(* whole words included; strcmp() is an order of the strings, strncmp()    *)
(* and memcmp() agree with it, bytes above 127 included; strchr() and      *)
(* strfind() find the first occurrence of a char.                          *)
(***************************************************************************)
StringsAgree ==
  LET Starts == {s \in Area : Terminated(s)}
  IN /\ area = expected
     /\ \A s, t \in Starts :
          LET c == strcmp(area, s, t)
              x == content(s)
              y == content(t)
          IN /\ c = -strcmp(area, t, s) /\ (c = 0 <=> x = y)
             /\ sign(strncmp(area, s, t, AreaLen)) = c
             /\ sign(memcmp(area, s, t, Min({Len(x), Len(y)}) + 1)) = c
             /\ \A n \in 0..AreaLen :
                  (strncmp(area, s, t, n) = 0) <=>
                    (SubSeq(x, 1, Min({n, Len(x)})) = SubSeq(y, 1, Min({n, Len(y)})))
     /\ \A s \in Starts : \A c \in Bytes \ {0} :
          LET at == {a \in s..(s + strlen(area, s) - 1) : area[a] = c}
          IN /\ strchr(area, s, schar(c)) = IF at = {} THEN -1 ELSE Min(at)
             /\ strfind(area, s, schar(c)) =
                  IF at = {} THEN s + strlen(area, s) ELSE Min(at)
     /\ \A s \in Starts : \A n \in 0..(AreaLen - s) :
          strnlen(area, s, n) = Min({n, strlen(area, s)})
=============================================================================
