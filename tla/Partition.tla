----------------------------- MODULE Partition -----------------------------
(***************************************************************************)
(* How the partitions of the second disk are found: partition_scan() and   *)
(* the loop of ide_init() in os/kernel/ide.c.  The code runs in one thread *)
(* at boot; Ide models its reads.                                          *)
(*                                                                         *)
(* A disk gives the partition table of its boot sector, at 0, and of each  *)
(* extended boot record.  The calls of partition_scan() are a stack; the   *)
(* list of partitions is the linked list of List, whose entries are the    *)
(* slots of prim_parts (from 0) and logic_parts (from MaxPrim).            *)
(***************************************************************************)
EXTENDS List

CONSTANTS
  header, tailer,    \* the sentinels of partition_list
  MaxPrim,           \* 4, the size of prim_parts and of a partition table
  MaxLogic,          \* 8, the size of logic_parts
  Disks              \* the disks considered: lba |-> sequence of entries

ASSUME PartitionAssumption ==
  /\ MaxPrim \in Nat \ {0} /\ MaxLogic \in Nat \ {0}
  /\ header # tailer /\ header \notin Nat /\ tailer \notin Nat
  /\ NULL \notin Nat \cup {header, tailer}

VARIABLES
  disk,         \* the partition tables on the disk
  channel_cnt,  \* 1 or 2, from the number of disks the BIOS reports
  phase,        \* "scan", then "second" channel, then "fs"
  stack,        \* the calls of partition_scan(), the last one runs
  ext_lba_base, p_no, l_no,
  parts,        \* slot |-> start_lba and sec_cnt
  links,        \* the pointers of partition_list
  held,         \* boot sector buffers from sys_malloc() not given back
  fault         \* a slot behind the tables, or a failed assertion

scanVars == <<disk, channel_cnt, phase, stack, ext_lba_base, p_no, l_no, parts, links, held, fault>>

Slot == 0..(MaxPrim + MaxLogic - 1)

partition_list == [header |-> header, tailer |-> tailer]

Zero == [prev |-> NULL, next |-> NULL]

\* ide_init() has come to partition_scan(hd, 0) for the second disk.
ScanInit ==
  /\ disk \in Disks
  /\ channel_cnt \in 1..2
  /\ phase = "scan"
  /\ stack = <<[lba |-> 0, idx |-> 1]>> /\ held = 1
  /\ ext_lba_base = 0 /\ p_no = 0 /\ l_no = 0
  /\ parts = [s \in Slot |-> [start |-> 0, cnt |-> 0]]
  /\ links = list_init([e \in Slot \cup {header, tailer} |-> Zero], partition_list)
  /\ fault = NULL

top == stack[Len(stack)]

entry == disk[top.lba][top.idx]

\* part_idx++ of the running call.
advance == [stack EXCEPT ![Len(stack)].idx = @ + 1]

\* Mutant: one turn too many.
more_channels_over == TRUE

\* The condition of the loop of ide_init() after the first channel.
more_channels == channel_cnt = 2

\* The running call returns to its caller, or to ide_init(), which resets
\* the two counters (but not ext_lba_base).
leave(p, l) ==
  /\ stack' = SubSeq(stack, 1, Len(stack) - 1)
  /\ p_no' = IF Len(stack) = 1 THEN 0 ELSE p
  /\ l_no' = IF Len(stack) = 1 THEN 0 ELSE l
  /\ phase' = IF Len(stack) > 1 THEN "scan" ELSE IF more_channels THEN "second" ELSE "fs"

at(type) ==
  /\ phase = "scan" /\ fault = NULL
  /\ top.idx <= MaxPrim /\ entry.type = type

\* 0x5: the first one met gives the base, the others are relative to it.
scan_extended ==
  /\ at("ext")
  /\ ext_lba_base' = IF ext_lba_base = 0 THEN entry.start ELSE ext_lba_base
  /\ LET lba == IF ext_lba_base = 0 THEN entry.start ELSE ext_lba_base + entry.start
     IN stack' = Append(advance, [lba |-> lba, idx |-> 1])
  /\ held' = held + 1
  /\ UNCHANGED <<disk, channel_cnt, phase, p_no, l_no, parts, links, fault>>

\* Mutant: the tag goes to the front of the list.
found_pushed(slot) ==
  /\ parts' = [parts EXCEPT ![slot] = [start |-> top.lba + entry.start, cnt |-> entry.cnt]]
  /\ links' = list_push(links, partition_list, slot)

\* The fields of a slot are set and its tag is appended.
found(slot) ==
  /\ parts' = [parts EXCEPT ![slot] = [start |-> top.lba + entry.start, cnt |-> entry.cnt]]
  /\ links' = list_append(links, partition_list, slot)

\* p_no counts the entries of the boot sector before the extended one.
count_primary == IF ext_lba_base = 0 THEN p_no + 1 ELSE p_no

\* 0x83, a Linux file system, wherever it is found.
scan_linux ==
  /\ at("linux")
  /\ p_no' = count_primary
  /\ IF p_no >= MaxPrim
     THEN fault' = "overrun" /\ UNCHANGED <<parts, links>>
     ELSE /\ found(p_no)
          /\ fault' = IF p_no' <= MaxPrim THEN NULL ELSE "assert"
  /\ stack' = advance
  /\ UNCHANGED <<disk, channel_cnt, phase, ext_lba_base, l_no, held>>

scan_empty ==
  /\ at("empty")
  /\ p_no' = count_primary
  /\ fault' = IF p_no' <= MaxPrim THEN NULL ELSE "assert"
  /\ stack' = advance
  /\ UNCHANGED <<disk, channel_cnt, phase, ext_lba_base, l_no, parts, links, held>>

\* Mutant: the scan goes on when the table is full.
logic_full_never == FALSE

logic_full == l_no + 1 >= MaxLogic

\* 0x66, a logical partition.  When the table is full the call returns
\* without sys_free().
scan_logic ==
  /\ at("logic")
  /\ IF l_no >= MaxLogic
     THEN fault' = "overrun" /\ UNCHANGED <<parts, links, l_no, stack, p_no, phase>>
     ELSE /\ found(MaxPrim + l_no)
          /\ UNCHANGED fault
          /\ IF logic_full
             THEN leave(p_no, l_no + 1)
             ELSE stack' = advance /\ l_no' = l_no + 1 /\ UNCHANGED <<p_no, phase>>
  /\ UNCHANGED <<disk, channel_cnt, ext_lba_base, held>>

\* Any other type.
scan_other ==
  /\ at("other")
  /\ stack' = advance
  /\ UNCHANGED <<disk, channel_cnt, phase, ext_lba_base, p_no, l_no, parts, links, held, fault>>

\* Mutant: the buffer is kept.
scan_return_leaks ==
  /\ phase = "scan" /\ fault = NULL /\ top.idx > MaxPrim
  /\ leave(p_no, l_no)
  /\ UNCHANGED <<disk, channel_cnt, ext_lba_base, parts, links, held, fault>>

\* The loop is over: sys_free(bs).
scan_return ==
  /\ phase = "scan" /\ fault = NULL /\ top.idx > MaxPrim
  /\ leave(p_no, l_no)
  /\ held' = held - 1
  /\ UNCHANGED <<disk, channel_cnt, ext_lba_base, parts, links, fault>>

(***************************************************************************)
(* The loop of ide_init() for the second channel: partition_list is        *)
(* initialised again, and dev_no still is 2, so no disk is looked at.      *)
(***************************************************************************)
second_channel ==
  /\ phase = "second"
  /\ links' = list_init(links, partition_list)
  /\ phase' = "fs"
  /\ UNCHANGED <<disk, channel_cnt, stack, ext_lba_base, p_no, l_no, parts, held, fault>>

scan_step ==
  \/ scan_extended \/ scan_linux \/ scan_empty \/ scan_logic \/ scan_other
  \/ scan_return \/ second_channel

-----------------------------------------------------------------------------
Partitioned == {s \in Slot : parts[s].cnt # 0}

Extent(p) == p.start..(p.start + p.cnt - 1)

Used(t) == {i \in DOMAIN t : t[i].type # "empty"}

(***************************************************************************)
(* The disks the code is written for: Linux partitions in the boot sector, *)
(* logical ones of type 0x66 in the extended boot records, and the entry   *)
(* of type 0x5, if there is one, the last of its table.                    *)
(***************************************************************************)
Conforming ==
  \A l \in DOMAIN disk : \A i \in Used(disk[l]) :
    /\ disk[l][i].type = "ext" => \A j \in Used(disk[l]) : j <= i
    /\ disk[l][i].type \notin {"ext", "other"} => disk[l][i].type = IF l = 0 THEN "linux" ELSE "logic"

\* The partitions of a type in the tables at the lbas S, in absolute sectors.
InTables(type, S) ==
  UNION {{[start |-> l + disk[l][i].start, cnt |-> disk[l][i].cnt] :
            i \in {j \in DOMAIN disk[l] : disk[l][j].type = type}} : l \in S}

Logical == InTables("logic", DOMAIN disk \ {0})

\* The first MaxLogic of them.
Expected ==
  InTables("linux", {0}) \cup
  {p \in Logical : Cardinality({q \in Logical : q.start < p.start}) < MaxLogic}

(***************************************************************************)
(* What the code relies on and does not check.  The scan, for its bounds:  *)
(* a conforming disk is Chained if its links lead to tables.               *)
(***************************************************************************)
EntryType == {"empty", "linux", "ext", "logic", "other"}

Entry == [type : EntryType, start : Nat, cnt : Nat]

\* The tables have MaxPrim entries, and the first one is at 0.
Tables(d) ==
  /\ DOMAIN d \subseteq Nat /\ 0 \in DOMAIN d
  /\ \A l \in DOMAIN d : d[l] \in [1..MaxPrim -> Entry]

\* An extended entry is the last of its table that leads to a table or needs
\* a slot of logic_parts.
LinkLast(d) ==
  \A l \in DOMAIN d : \A i, j \in 1..MaxPrim :
    d[l][i].type = "ext" /\ i < j => d[l][j].type \notin {"ext", "logic"}

\* It leads to a table, behind the boot sector, relative to the first one.
LinkGood(d) ==
  \A i \in 1..MaxPrim : d[0][i].type = "ext" =>
    /\ d[0][i].start # 0 /\ d[0][i].start \in DOMAIN d
    /\ \A l \in DOMAIN d \ {0} : \A j \in 1..MaxPrim :
         d[l][j].type = "ext" => d[0][i].start + d[l][j].start \in DOMAIN d

Chained == \A d \in Disks : Tables(d) /\ LinkLast(d) /\ LinkGood(d)

\* No two partitions overlap, unless they start at the same sector.
Apart ==
  \A d \in Disks : \A l, m \in DOMAIN d : \A i, j \in 1..MaxPrim :
    {d[l][i].type, d[m][j].type} \subseteq {"linux", "logic"} =>
      \/ l + d[l][i].start = m + d[m][j].start
      \/ l + d[l][i].start + d[l][i].cnt <= m + d[m][j].start
      \/ m + d[m][j].start + d[m][j].cnt <= l + d[l][i].start

\* The partitions lie in the order of their entries.
InOrder(d) ==
  \A l, m \in DOMAIN d : \A i, j \in 1..MaxPrim :
    /\ {d[l][i].type, d[m][j].type} \subseteq {"linux", "logic"}
    /\ l < m \/ (l = m /\ i < j)
    => l + d[l][i].start < m + d[m][j].start

\* n is the first table behind l.
Follows(d, l, n) == l < n /\ \A m \in DOMAIN d : m <= l \/ m >= n

\* An extended entry leads to the next table; without one there is none.
LinkNext(d) ==
  /\ \A i \in 1..MaxPrim : d[0][i].type = "ext" =>
       /\ Follows(d, 0, d[0][i].start)
       /\ \A l \in DOMAIN d \ {0} : \A j \in 1..MaxPrim :
            d[l][j].type = "ext" => Follows(d, l, d[0][i].start + d[l][j].start)
  /\ \A l \in DOMAIN d :
       (\A i \in 1..MaxPrim : d[l][i].type # "ext") => \A m \in DOMAIN d : m <= l

Ordered == \A d \in Disks : IsFiniteSet(DOMAIN d) /\ InOrder(d) /\ LinkNext(d)
=============================================================================
