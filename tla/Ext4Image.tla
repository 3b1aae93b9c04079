----------------------------- MODULE Ext4Image -----------------------------
(***************************************************************************)
(* ext4_create_img: an empty ext4 file system of a fixed geometry, written *)
(* structure by structure.  The layout is computed in several places that  *)
(* must agree: the block bitmaps, the counts in the group descriptors, the *)
(* total in the superblock, the resize inode's map of the reserved blocks. *)
(* Blocks are numbers, a bitmap is the set of the blocks it marks.         *)
(***************************************************************************)
EXTENDS Integers, Sequences, FiniteSets

CONSTANTS
  BLOCKS, GROUPS, BLKS_PER_GRP, INODES_PER_GRP, FLEX_GRP_SIZE,
  IT_BLKS_PER_GRP, RESERVED_GDT,   \* ext4/util.h
  Journal,          \* the journal's blocks, 16384
  DescsPerBlock,    \* group descriptors in a block, BLK_SIZE / DESC_SIZE
  MaxWriteFaults    \* bound on the system calls that fail

ASSUME Ext4Assumption ==
  /\ {BLOCKS, BLKS_PER_GRP, INODES_PER_GRP, FLEX_GRP_SIZE, IT_BLKS_PER_GRP,
      RESERVED_GDT, DescsPerBlock} \subseteq Nat \ {0}
  /\ Journal \in Nat /\ Journal > 1
  /\ MaxWriteFaults \in Nat

Groups == 0 .. GROUPS - 1
FLEX_META == 2 * FLEX_GRP_SIZE + FLEX_GRP_SIZE * IT_BLKS_PER_GRP
RESV_GDT_BLKS == 3 + RESERVED_GDT

\* How the numbers of ext4/util.h fit together; nothing in the code tests it.
\* compute_used_blks counts five flex groups, each group's metadata is within the
\* first group of its flex group, and free counts have 16 bits.
ASSUME GeometryAssumption ==
  /\ GROUPS = 5 * FLEX_GRP_SIZE /\ FLEX_GRP_SIZE % 2 = 0
  /\ BLOCKS = GROUPS * BLKS_PER_GRP /\ BLKS_PER_GRP < 65536
  /\ RESV_GDT_BLKS + FLEX_META + 2 <= BLKS_PER_GRP
  /\ FLEX_META + Journal <= BLKS_PER_GRP
  /\ GROUPS <= 2 * DescsPerBlock

-----------------------------------------------------------------------------
(* Where things are.                                                       *)

GrpFlexFirst(g) == (g \div FLEX_GRP_SIZE) * FLEX_GRP_SIZE
GrpFlexBase(g) == GrpFlexFirst(g) * BLKS_PER_GRP

\* The metadata of a flex group lies at its start, in the first one behind the
\* superblock and the descriptors.
MetaBase(g) == IF GrpFlexFirst(g) = 0 THEN RESV_GDT_BLKS ELSE GrpFlexBase(g)
GrpBbBlk(g) == MetaBase(g) + g - GrpFlexFirst(g)
GrpIbBlk(g) == MetaBase(g) + FLEX_GRP_SIZE + g - GrpFlexFirst(g)
GrpItBlk(g) == MetaBase(g) + 2 * FLEX_GRP_SIZE + (g - GrpFlexFirst(g)) * IT_BLKS_PER_GRP

IsPower(n, b) ==
  LET reduced[m \in 1 .. n] == IF m % b = 0 THEN reduced[m \div b] ELSE m
  IN  n > 0 /\ reduced[n] = 1

HasSuper(g) == g <= 1 \/ (g % 2 = 1 /\ \E b \in {3, 5, 7} : IsPower(g, b))
Backups == {g \in Groups \ {0} : HasSuper(g)}

RootBlk == RESV_GDT_BLKS + FLEX_META
DindirBlk == RootBlk + 1
JnlGroup == GrpFlexFirst(GROUPS - 1)
JnlStart == JnlGroup * BLKS_PER_GRP + FLEX_META

-----------------------------------------------------------------------------
(* What is said about it.                                                  *)

\* bb_mark_meta and bb_mark_journal: the bits of a group's bitmap.
Marks(g) ==
  UNION { IF g = 0 THEN (0 .. RESV_GDT_BLKS + FLEX_META - 1) \cup {RootBlk, DindirBlk} ELSE {},
          IF g # 0 /\ g = GrpFlexFirst(g) THEN 0 .. FLEX_META - 1 ELSE {},
          IF HasSuper(g) /\ g # GrpFlexFirst(g) THEN 0 .. 2 + RESERVED_GDT ELSE {},
          IF g = JnlGroup
            THEN (JnlStart - g * BLKS_PER_GRP) .. (JnlStart - g * BLKS_PER_GRP + Journal - 1)
            ELSE {} }

\* gdt_count_used.
GdtCountUsed(g) ==
  LET first == g = GrpFlexFirst(g)
  IN  (IF first /\ g = 0 THEN RESV_GDT_BLKS + FLEX_META + 2 ELSE 0)
      + (IF first /\ g # 0 THEN GrpFlexBase(g) + FLEX_META - g * BLKS_PER_GRP ELSE 0)
      + (IF HasSuper(g) /\ ~first THEN 3 + RESERVED_GDT ELSE 0)
      + (IF g = JnlGroup THEN Journal ELSE 0)

GdtFree(g) ==
  LET size == IF g < GROUPS - 1 THEN BLKS_PER_GRP ELSE BLOCKS - g * BLKS_PER_GRP
  IN  IF GdtCountUsed(g) < size THEN (size - GdtCountUsed(g)) % 65536 ELSE 0
BlockUninit(g) == GdtCountUsed(g) = 0 /\ g # GROUPS - 1

\* Inodes in use, from 1: the bitmap, the descriptors' count, the table.
InodeMarks(g) == IF g = 0 THEN (1 .. 10) \cup {12} ELSE {}
GdtFreeInodes(g) == IF g = 0 THEN INODES_PER_GRP - 11 ELSE INODES_PER_GRP
InodesWritten == {2, 7, 8, 12}

\* compute_used_blks: the total of the superblock.
ComputeUsedBlks ==
  5 * FLEX_META + 5 + RESERVED_GDT + Cardinality(Backups) * RESERVED_GDT
    + 3 * Cardinality(Backups) + Journal

\* The blocks the resize inode reaches through its double indirect block: of
\* each reserved descriptor block its copies in the backup groups.
ReservedGdt == {DindirBlk} \cup 3 .. 2 + RESERVED_GDT
ResizeReach ==
  ReservedGdt \cup {blk + g * BLKS_PER_GRP : blk \in 3 .. 2 + RESERVED_GDT, g \in Backups}
ResizeNblks == 1 + RESERVED_GDT + Cardinality(Backups) * RESERVED_GDT

\* Every structure, with its first block and its number of blocks.
Extents ==
  { <<"super", 0, 0, 1>>, <<"gdt", 0, 1, 2>>, <<"root", 0, RootBlk, 1>>,
    <<"journal", 0, JnlStart, Journal>> }
    \cup { <<"bb", g, GrpBbBlk(g), 1>> : g \in Groups }
    \cup { <<"ib", g, GrpIbBlk(g), 1>> : g \in Groups }
    \cup { <<"it", g, GrpItBlk(g), IT_BLKS_PER_GRP>> : g \in Groups }
    \cup { <<"resize", blk, blk, 1>> : blk \in ReservedGdt }
    \cup { <<"backup", g, g * BLKS_PER_GRP, 3>> : g \in Backups }

-----------------------------------------------------------------------------
(* Writing it.                                                             *)

VARIABLES
  at,       \* the next function of do_writes, "create" before and "end" after
  done,     \* how many writes of each function have reached the file
  buffer,   \* the descriptors in memory: "junk", "counts", with checksums "sums"
  gdt,      \* the descriptors in the file
  sums,     \* the bitmaps that were in the file when they were checksummed
  backup,   \* the superblocks in the file and the descriptors when copied
  file,     \* "absent", "open" while being written, "kept"
  writefaults

imagevars == <<at, done, buffer, gdt, sums, backup, file, writefaults>>

\* Mutant: the backups are made before the bitmaps are written.
OrderBackupsEarly ==
  <<"super", "gdt", "csum", "bb", "ib", "root", "journal", "inodes", "resize">>

\* do_writes: the calls are joined by |, so each is made whatever the one
\* before returned.  They are evaluated from left to right, as gcc and clang do.
Order == <<"super", "gdt", "bb", "ib", "root", "journal", "inodes", "resize", "csum">>
Parts == {Order[i] : i \in 1 .. Len(Order)}

\* The writes of each function.
Writes == [super |-> 1, gdt |-> 1, bb |-> GROUPS, ib |-> GROUPS, root |-> 1,
           journal |-> Journal, inodes |-> 1, resize |-> RESERVED_GDT + 1,
           csum |-> 1 + 2 * Cardinality(Backups)]

ImageInit ==
  /\ at = "create"
  /\ done = [p \in Parts |-> 0]
  /\ buffer = "junk"
  /\ gdt = "none"
  /\ sums = [bb |-> 0, ib |-> 0]
  /\ backup = [super |-> 0, gdt |-> "none"]
  /\ file = "absent"
  /\ writefaults = 0

Following == [p \in Parts |->
  LET i == CHOOSE k \in 1 .. Len(Order) : Order[k] = p
  IN  IF i = Len(Order) THEN "close" ELSE Order[i + 1]]

FaultIf(failed) ==
  /\ failed => writefaults < MaxWriteFaults
  /\ writefaults' = IF failed THEN writefaults + 1 ELSE writefaults

\* open with O_EXCL, ftruncate, gen_uuid: after a failure nothing is left.
CreateImage ==
  /\ at = "create"
  /\ \E failed \in BOOLEAN :
       /\ FaultIf(failed)
       /\ at' = IF failed THEN "end" ELSE Order[1]
       /\ file' = IF failed THEN "absent" ELSE "open"
  /\ UNCHANGED <<done, buffer, gdt, sums, backup>>

\* A function that writes and nothing else returns at its first failure.
WritePart(p) ==
  /\ at = p /\ p \notin {"gdt", "csum"}
  /\ \E n \in {0, 1, Writes[p] \div 2, Writes[p] - 1, Writes[p]} :
       /\ FaultIf(n < Writes[p])
       /\ done' = [done EXCEPT ![p] = n]
  /\ at' = Following[p]
  /\ UNCHANGED <<buffer, gdt, sums, backup, file>>

\* write_gdt fills the buffer whether or not its write succeeds.
WriteGdt ==
  /\ at = "gdt"
  /\ buffer' = "counts"
  /\ \E n \in {0, 1} :
       /\ FaultIf(n = 0)
       /\ done' = [done EXCEPT !["gdt"] = n]
       /\ gdt' = IF n = 1 THEN "counts" ELSE gdt
  /\ at' = Following["gdt"]
  /\ UNCHANGED <<sums, backup, file>>

\* write_csum_backups: the bitmaps are read back and checksummed, then the
\* descriptors are written again, then copied with the superblock.
WriteCsumBackups ==
  /\ at = "csum"
  /\ \E n \in {0, 1, Writes["csum"] - 1, Writes["csum"]}, reads \in BOOLEAN :
       /\ ~reads => n = 0
       /\ FaultIf(n < Writes["csum"])
       /\ done' = [done EXCEPT !["csum"] = n]
       /\ buffer' = IF reads THEN "sums" ELSE buffer
       /\ sums' = IF reads THEN [bb |-> done["bb"], ib |-> done["ib"]] ELSE sums
       /\ gdt' = IF n > 0 THEN "sums" ELSE gdt
       /\ backup' = IF n > 1 THEN [super |-> done["super"], gdt |-> "sums"] ELSE backup
  /\ at' = Following["csum"]
  /\ UNCHANGED file

\* The file stays if every call returned 0, else it is unlinked.
Close ==
  /\ at = "close"
  /\ at' = "end"
  /\ file' = IF done = Writes THEN "kept" ELSE "absent"
  /\ UNCHANGED <<done, buffer, gdt, sums, backup, writefaults>>

ImageNext ==
  \/ CreateImage \/ WriteGdt \/ WriteCsumBackups \/ Close
  \/ \E p \in Parts : WritePart(p)

ImageSpec == ImageInit /\ [][ImageNext]_imagevars

-----------------------------------------------------------------------------
(* Soundness.                                                              *)

Bitmap == [g \in Groups |-> Marks(g)]

\* What the descriptors of the first groups say is free.
FreeBefore[k \in 0 .. GROUPS] == IF k = 0 THEN 0 ELSE FreeBefore[k - 1] + GdtFree(k - 1)

\* Bitmaps, descriptors and superblock agree on what is in use.
CountsAgree ==
  /\ \A g \in Groups :
       /\ Bitmap[g] \subseteq 0 .. BLKS_PER_GRP - 1
       /\ GdtFree(g) = BLKS_PER_GRP - Cardinality(Bitmap[g])
       /\ BlockUninit(g) => Bitmap[g] = {}
       /\ GdtFreeInodes(g) = INODES_PER_GRP - Cardinality(InodeMarks(g))
  /\ BLOCKS - ComputeUsedBlks = FreeBefore[GROUPS]
  /\ InodesWritten \subseteq InodeMarks(0)

\* No structure lies on another one, each is inside the image and marked.
NoOverlap ==
  \A e \in Extents :
    /\ e[3] + e[4] <= BLOCKS
    /\ \A b \in e[3] .. e[3] + e[4] - 1 : b % BLKS_PER_GRP \in Bitmap[b \div BLKS_PER_GRP]
    /\ \A f \in Extents : f = e \/ e[3] + e[4] <= f[3] \/ f[3] + f[4] <= e[3]

\* The resize inode owns as many blocks as it says, all of them reserved.
ResizeSound ==
  /\ Cardinality(ResizeReach) = ResizeNblks
  /\ \A b \in ResizeReach \ {DindirBlk} : b % BLKS_PER_GRP \in 3 .. 2 + RESERVED_GDT
  /\ \A b \in ResizeReach : b % BLKS_PER_GRP \in Bitmap[b \div BLKS_PER_GRP]

\* The descriptors fit their two blocks.
LayoutSound == CountsAgree /\ NoOverlap /\ ResizeSound /\ GROUPS <= 2 * DescsPerBlock

\* An image that ext4_create_img keeps is a sound file system: everything has
\* been written, the checksums cover the bitmaps as they are in the file, the
\* backups equal the primary superblock and descriptors, and all counts agree.
ImageSound ==
  file = "kept" =>
    /\ done = Writes
    /\ gdt = "sums"
    /\ sums = [bb |-> GROUPS, ib |-> GROUPS]
    /\ backup = [super |-> 1, gdt |-> gdt]
    /\ LayoutSound
=============================================================================
