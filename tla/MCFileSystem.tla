---------------------------- MODULE MCFileSystem ----------------------------
(***************************************************************************)
(* FileSystem on disks with every combination of Linux, empty and other    *)
(* entries in the boot sector, or of Linux, empty and one extended entry   *)
(* that starts a chain of one to three extended boot records.  Their first *)
(* entry is a logical or a Linux partition, the second one leads to the    *)
(* next; there are two slots for logical partitions.                       *)
(***************************************************************************)
EXTENDS FileSystem

CONSTANT PartSize        \* sectors of every partition

Base == 1 + 4 * PartSize

Types ==
  {t \in [1..4 -> {"linux", "empty", "other", "ext"}] :
     Cardinality({i \in 1..4 : t[i] = "ext"}) <= 1 /\ ~{"ext", "other"} \subseteq {t[i] : i \in 1..4}}

Chains == UNION {[1..n -> {"logic", "linux"}] : n \in 1..3}

Empty == [type |-> "empty", start |-> 0, cnt |-> 0]

\* Where extended boot record k is, relative to the first one.
Record(k) == (k - 1) * (PartSize + 1)

boot(t) ==
  [i \in 1..4 |->
     IF t[i] = "empty" THEN Empty
     ELSE [type |-> t[i], start |-> IF t[i] = "ext" THEN Base ELSE 1 + (i - 1) * PartSize,
           cnt |-> PartSize]]

record(c, k) ==
  << [type |-> c[k], start |-> 1, cnt |-> PartSize],
     IF k < Len(c) THEN [type |-> "ext", start |-> Record(k + 1), cnt |-> PartSize + 1] ELSE Empty,
     Empty, Empty >>

MCDisks ==
  {[l \in {0} |-> boot(t)] : t \in {u \in Types : \A i \in 1..4 : u[i] # "ext"}} \cup
  {[l \in {0} \cup {Base + Record(k) : k \in 1..Len(c)} |->
      IF l = 0 THEN boot(t) ELSE record(c, (l - Base) \div (PartSize + 1) + 1)] :
     t \in {u \in Types : \E i \in 1..4 : u[i] = "ext"}, c \in Chains}

\* The power fails on disks with Linux partitions and one logical one.
MCCrashDisks ==
  {d \in MCDisks : \A l \in DOMAIN d : l # 0 => d[l][1].type = "logic" /\ d[l][2].type = "empty"}
    \cap {d \in MCDisks : d[0][1].type = "linux" /\ d[0][2].type = "empty"}

\* These disks are among those that the theorems of StructureProofs are about.
ASSUME DisksAssumption == Chained /\ Roomy /\ Apart /\ Ordered
=============================================================================
