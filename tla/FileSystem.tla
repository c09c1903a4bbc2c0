----------------------------- MODULE FileSystem -----------------------------
(***************************************************************************)
(* filesys_init() of os/kernel/fs.c: every partition that Partition found  *)
(* is formatted, in five writes, then "sdb1" is mounted.  Every write and  *)
(* read is one of Ide's, by one thread.  The power may fail between two    *)
(* writes, or later; the kernel then boots and scans the same disk again,  *)
(* and only what was written, the media, is left of the time before.       *)
(***************************************************************************)
EXTENDS Partition

CONSTANTS
  inode_bitmap_sects,   \* DIV_ROUND_UP(MAX_FILES_PER_PART, BITS_PER_SECTOR), 1
  inode_table_sects,    \* 608
  ByteBits, SECTOR_SIZE,\* 8 and 512
  CrashDisks,           \* the disks on which the power may fail ...
  MaxCrash              \* ... this often

ASSUME LayoutAssumption ==
  /\ inode_bitmap_sects \in Nat \ {0} /\ inode_table_sects \in Nat \ {0}
  /\ ByteBits \in Nat \ {0} /\ SECTOR_SIZE \in Nat \ {0}

VARIABLES
  media,      \* sector |-> what the kernel has written to it
  part_idx,   \* of filesys_init()
  written,    \* how many of the writes of partition_format() are done
  mounted,    \* cur_part with what mount_partition() read, or NULL
  crashes     \* how often the power has failed

fsVars == <<scanVars, media, part_idx, written, mounted, crashes>>

FsInit ==
  /\ ScanInit
  /\ media = [x \in {} |-> NULL]
  /\ part_idx = 0 /\ written = 0 /\ mounted = NULL
  /\ crashes = 0

DIV_ROUND_UP(x, y) == (x + y - 1) \div y

BITS_PER_SECTOR == ByteBits * SECTOR_SIZE

\* Boot sector, super block and twice the inode table; the size of the
\* partition, which free_sects should come from, is overwritten by it.
used_sects == 2 + 2 * inode_table_sects

block_bitmap_bit_len == used_sects - DIV_ROUND_UP(used_sects, BITS_PER_SECTOR)

block_bitmap_sects == DIV_ROUND_UP(block_bitmap_bit_len, BITS_PER_SECTOR)

\* Both are 1 in the code.
ASSUME BitmapAssumption == inode_bitmap_sects <= block_bitmap_sects

inode_table_lba(base) == base + 2 + block_bitmap_sects + inode_bitmap_sects

\* Mutant: the data start one table later.
data_start_lba_high(base) == inode_table_lba(base) + 2 * inode_table_sects

data_start_lba(base) == inode_table_lba(base) + inode_table_sects

super_block(base) ==
  [kind |-> "sb", base |-> base, block_bitmap |-> base + 2,
   inode_bitmap |-> base + 2 + block_bitmap_sects,
   inode_table |-> inode_table_lba(base), data_start |-> data_start_lba(base)]

\* ide_write() of n sectors, data[0] to data[n - 1].
ide_write(md, lba, n, data) ==
  [x \in DOMAIN md \cup lba..(lba + n - 1) |->
     IF x \in lba..(lba + n - 1) THEN data[x - lba] ELSE md[x]]

\* What the disk held before the kernel ever ran.
Unwritten == [kind |-> "old"]

ide_read(md, lba) == IF lba \in DOMAIN md THEN md[lba] ELSE Unwritten

\* A buffer whose bits B are 1, as n sectors.
bitmap_sectors(B, n) ==
  [j \in 0..(n - 1) |->
     [kind |-> "bits", bits |-> {b \in 0..(BITS_PER_SECTOR - 1) : b + j * BITS_PER_SECTOR \in B}]]

(***************************************************************************)
(* The buffer for the block bitmap: block 0 is taken, and everything from  *)
(* the last byte of the bitmap to the end of its sector, except the first  *)
(* bits of that byte; the loop clears one bit more than there are blocks.  *)
(***************************************************************************)
block_bitmap ==
  LET last_byte == block_bitmap_bit_len \div ByteBits
      last_bit  == block_bitmap_bit_len % ByteBits
      last_size == SECTOR_SIZE - (last_byte % SECTOR_SIZE)
  IN ({0} \cup (ByteBits * last_byte)..(ByteBits * (last_byte + last_size) - 1))
     \ (ByteBits * last_byte)..(ByteBits * last_byte + last_bit)

\* The root inode in the first sector of the table, zeros behind it.
inode_sectors(base) ==
  [j \in 0..(inode_table_sects - 1) |->
     IF j = 0 THEN [kind |-> "inodes", root |-> data_start_lba(base)] ELSE [kind |-> "zero"]]

(***************************************************************************)
(* partition_format(): the five writes in their order.  The third, of the  *)
(* inode bitmap, goes to the block bitmap's sectors.                       *)
(***************************************************************************)
partition_format(base) ==
  LET sb == super_block(base)
      write(lba, n, data) == [lba |-> lba, n |-> n, data |-> data]
  IN << write(base + 1, 1, [j \in 0..0 |-> sb]),
        write(sb.block_bitmap, block_bitmap_sects,
              bitmap_sectors(block_bitmap, block_bitmap_sects)),
        write(sb.block_bitmap, inode_bitmap_sects, bitmap_sectors({0}, inode_bitmap_sects)),
        write(sb.inode_table, inode_table_sects, inode_sectors(base)),
        write(sb.data_start, 1, [j \in 0..0 |-> [kind |-> "dir"]]) >>

\* Mutant: a partition that has a super block is left alone.
format_needed_once(base) == written # 0 \/ ide_read(media, base + 1).kind # "sb"

\* The test of the magic number is commented out: every partition is
\* formatted on every boot.
format_needed(base) == TRUE

formatting == phase = "fs" /\ fault = NULL /\ part_idx \in Slot

\* The next write for the partition whose turn it is.
format ==
  /\ formatting /\ parts[part_idx].cnt # 0 /\ format_needed(parts[part_idx].start)
  /\ LET writes == partition_format(parts[part_idx].start)
         w == writes[written + 1]
     IN /\ media' = ide_write(media, w.lba, w.n, w.data)
        /\ written' = (written + 1) % Len(writes)
        /\ part_idx' = IF written' = 0 THEN part_idx + 1 ELSE part_idx
  /\ parts' = [parts EXCEPT ![part_idx].cnt = used_sects]
  /\ UNCHANGED <<disk, channel_cnt, phase, stack, ext_lba_base, p_no, l_no, links, held,
                 fault, mounted, crashes>>

\* No partition in this slot of prim_parts or logic_parts.
format_skip ==
  /\ formatting
  /\ parts[part_idx].cnt = 0 \/ ~format_needed(parts[part_idx].start)
  /\ part_idx' = part_idx + 1
  /\ UNCHANGED <<scanVars, media, written, mounted, crashes>>

super_block_lba(base) == base + 1

\* mount_partition() of the slot named "sdb1"; of each bitmap the first
\* sector, in the code the only one.
mount_partition(slot) ==
  LET sb == ide_read(media, super_block_lba(parts[slot].start))
  IN [part |-> slot, sb |-> sb,
      blocks |-> IF sb.kind = "sb" THEN ide_read(media, sb.block_bitmap) ELSE sb,
      inodes |-> IF sb.kind = "sb" THEN ide_read(media, sb.inode_bitmap) ELSE sb]

\* list_traversal(&partition_list, mount_partition, "sdb1")
mount ==
  /\ phase = "fs" /\ fault = NULL /\ part_idx \notin Slot /\ mounted = NULL
  /\ list_find(links, partition_list, 0)
  /\ mounted' = mount_partition(0)
  /\ UNCHANGED <<scanVars, media, part_idx, written, crashes>>

(***************************************************************************)
(* The power fails and the kernel boots.  Before the first write this is   *)
(* the beginning again, and left out.                                      *)
(***************************************************************************)
power_off ==
  /\ disk \in CrashDisks /\ crashes < MaxCrash
  /\ DOMAIN media # {}
  /\ UNCHANGED <<disk, channel_cnt, media>>
  /\ phase' = "scan" /\ fault' = NULL /\ held' = 1
  /\ stack' = <<[lba |-> 0, idx |-> 1]>>
  /\ ext_lba_base' = 0 /\ p_no' = 0 /\ l_no' = 0
  /\ parts' = [s \in Slot |-> [start |-> 0, cnt |-> 0]]
  /\ links' = list_init([e \in DOMAIN links |-> Zero], partition_list)
  /\ part_idx' = 0 /\ written' = 0 /\ mounted' = NULL
  /\ crashes' = crashes + 1

scan == scan_step /\ UNCHANGED <<media, part_idx, written, mounted, crashes>>

FsNext == scan \/ format \/ format_skip \/ mount \/ power_off

\* The thread that boots is not blocked for ever: Ide!IoCompletes.
FsSpec == FsInit /\ [][FsNext]_fsVars /\ WF_fsVars(scan \/ format \/ format_skip \/ mount)

-----------------------------------------------------------------------------
\* Sectors that partition_format() writes to, from the boot sector on.
layout_sects == 2 + block_bitmap_sects + inode_bitmap_sects + inode_table_sects + 1

\* Every partition is large enough for them.
Roomy ==
  \A d \in Disks : \A l \in DOMAIN d : \A i \in 1..MaxPrim :
    d[l][i].type \in {"linux", "logic"} => d[l][i].cnt >= layout_sects

(***************************************************************************)
(* The recursion through the extended boot records never leaves            *)
(* logic_parts and no assertion on p_no fails, also with more logical      *)
(* partitions than slots: the call that takes the last slot returns, and   *)
(* its callers go on with a full table, but find nothing behind their      *)
(* links that needs a slot.                                                *)
(***************************************************************************)
ScanInBounds == fault = NULL

(***************************************************************************)
(* On a conforming disk partition_scan() finds every partition, at its     *)
(* absolute place: when it returns the tables hold exactly them, and the   *)
(* linked list leads to each one once, in the order of the disk.           *)
(***************************************************************************)
ScanFindsAll ==
  phase = (IF more_channels THEN "second" ELSE "fs") /\ part_idx = 0 /\ written = 0 /\ Conforming =>
    LET q == visited(links, partition_list)
    IN /\ {parts[s] : s \in Partitioned} = Expected
       /\ {q[i] : i \in 1..Len(q)} = Partitioned
       /\ \A i, j \in 1..Len(q) : i < j => parts[q[i]].start < parts[q[j]].start

(***************************************************************************)
(* Every buffer partition_scan() has allocated is given back, unless the   *)
(* return for a full table of logical partitions was taken, which keeps    *)
(* one.                                                                    *)
(***************************************************************************)
BuffersGivenBack ==
  phase # "scan" => held = IF parts[MaxPrim + MaxLogic - 1].cnt # 0 THEN 1 ELSE 0

\* The sectors of the partition that starts at lba, by the tables on disk.
Sectors(lba) ==
  LET tables == InTables("linux", DOMAIN disk) \cup InTables("logic", DOMAIN disk)
  IN UNION {Extent(p) : p \in {q \in tables : q.start = lba}}

(***************************************************************************)
(* Formatting a partition that is large enough writes only its own         *)
(* sectors, and not its boot sector, although the layout is computed from  *)
(* a size that was overwritten.                                            *)
(***************************************************************************)
FormatStaysInside ==
  [][media' # media =>
       {x \in DOMAIN media' : x \notin DOMAIN media \/ media'[x] # media[x]}
         \subseteq Sectors(parts[part_idx].start) \ {parts[part_idx].start}]_fsVars

(***************************************************************************)
(* What is mounted is what partition_format() left on the disk, however    *)
(* often the power failed on the way: the super block of this partition,   *)
(* and from the root inode to the root directory.  The bitmaps are not what*)
(* they should be.  As block bitmap the inode bitmap is read, which the    *)
(* third write put over it, so that the blocks behind the end of the file  *)
(* system count as free; as inode bitmap, which no write ever stores at its*)
(* place, whatever the disk held before.                                   *)
(***************************************************************************)
MountedAsWritten ==
  mounted # NULL =>
    LET sb == mounted.sb
    IN /\ sb = super_block(parts[mounted.part].start)
       /\ ide_read(media, sb.inode_table).kind = "inodes"
       /\ ide_read(media, ide_read(media, sb.inode_table).root).kind = "dir"
       /\ mounted.blocks = bitmap_sectors({0}, inode_bitmap_sects)[0]
       /\ mounted.inodes = Unwritten

(***************************************************************************)
(* On a machine with one channel and a conforming disk whose first entry   *)
(* is a Linux partition, that partition is mounted in the end.             *)
(***************************************************************************)
DefaultIsMounted ==
  (Conforming /\ channel_cnt = 1 /\ disk[0][1].type = "linux") ~> mounted # NULL
=============================================================================
