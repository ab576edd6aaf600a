------------------------------- MODULE Format -------------------------------
(***************************************************************************)
(* mkfs: format_with_size computes the geometry of a volume from its number*)
(* of sectors, allocates the blocks of the empty structures and writes     *)
(* them one group after the other, any of which may fail.  Sizes, block    *)
(* numbers and limits are the code's own; a structure is its identifier    *)
(* and the pointers in it, a bitmap block the range of data blocks it has  *)
(* marked as free.  The readers at the end are the ones a mount uses.      *)
(***************************************************************************)
EXTENDS Integers, FiniteSets

CONSTANT Sizes          \* numbers of sectors to format with (total_blocks)

\* mkfs refuses less than 64 sectors; TLC's integers end at 2^31 - 1.
ASSUME SizesAssumption ==
  \A n \in Sizes : n \in Nat /\ 64 <= n /\ n <= 2147483647

VARIABLES
  total,                \* total_blocks
  phase,                \* the write that comes next, or how the format ended
  disk                  \* what has been written: boot block, root cluster, blocks

fvars == <<total, phase, disk>>

SectorSize == 512
FirstReserved == 2
RootDirAnode == 5
MaxSmallBitmapIndex == 4
MaxBitmapIndex == 103
MaxNumReserved == 4096 + 255 * 1024 * 8
MaxSmallDisk == (MaxSmallBitmapIndex + 1) * 253 * 253 * 32
MaxDisk1K == (MaxBitmapIndex + 1) * 253 * 253 * 32
MaxDisk2K == (MaxBitmapIndex + 1) * 509 * 509 * 32

\* A variant: rounding down.
DivFloor(a, b) == a \div b
DivCeil(a, b) == (a + b - 1) \div b
AtMost(a, b) == IF a < b THEN a ELSE b
AtLeast(a, b) == IF a > b THEN a ELSE b

\* The reserved block size: 1 KiB unless the bitmap index would not reach.
ResBlockSize(n) ==
  CASE n > MaxDisk2K -> 4096
    [] n > MaxDisk1K /\ n <= MaxDisk2K -> 2048
    [] n <= MaxDisk1K -> 1024

\* calc_num_reserved: the number of reserved blocks grows by 14/16, later by
\* 10/16, each time the disk doubles.
Doublings == 0..21
Grown(t, m) == t + (t * m) \div 16
Taken[j \in Doublings] ==
  IF j = 0 THEN 32 ELSE Grown(Taken[j - 1], IF j > 9 THEN 10 ELSE 14)
Rounds(n) == Cardinality({j \in 0..20 : 1024 * 2^j < n})
\* A variant: no growth with the disk.
CalcNumReservedFlat(n, rbs) == 32
CalcNumReserved(n, rbs) ==
  LET taken == Taken[Rounds(n)] \div (rbs \div 1024)
      capped == AtMost(AtLeast(taken - 1, 0), MaxNumReserved)
  IN  AtLeast(32 * DivCeil(capped, 32), 32)

\* A variant: the rootblock's own sector counted as room for the bitmap.
BitmapKilobytesNoRoot(numreserved) ==
  1 + DivCeil(AtLeast(numreserved \div 32 - 253, 0), 256)

\* Kilobytes the reserved bitmap needs in the root cluster: the first sector
\* is the rootblock and 12 bytes are a header, which leaves 125 longwords.
BitmapKilobytes(numreserved) ==
  1 + DivCeil(AtLeast(numreserved \div 32 - 125, 0), 256)

\* The geometry of a volume of n sectors.
Geometry(n) ==
  LET rbs == ResBlockSize(n)
      cluster == rbs \div SectorSize
      num == CalcNumReserved(n, rbs)
      resbm == DivCeil(1024 * BitmapKilobytes(num), rbs)
      last == cluster * num + FirstReserved - 1
      perIndex == rbs \div 4 - 3
      data == n - (last + 1)
      bitmaps == DivCeil(data, perIndex * 32)
  IN  [large |-> n > MaxSmallDisk, rbs |-> rbs, rescluster |-> cluster,
       num |-> num, resbm |-> resbm, last |-> last, data |-> data,
       perIndex |-> perIndex, bitmaps |-> bitmaps,
       indexes |-> DivCeil(bitmaps, perIndex)]

\* Blocks taken from the reserved area: extension, bitmap blocks, bitmap index
\* blocks, anode index, anode block and root directory, in this order.
Needed(g) == 1 + g.bitmaps + g.indexes + 3

\* ReservedAllocator::alloc: nothing is freed, so the k-th call (from 0)
\* returns the k-th block after the root cluster until there is none left.
Allocated(g, k) == FirstReserved + (g.resbm + k) * g.rescluster
ExtBlk(g) == Allocated(g, 0)
BitmapNr(g, seq) == Allocated(g, 1 + seq)
BitmapIndexNr(g, seq) == Allocated(g, 1 + g.bitmaps + seq)
AnodeIndexBlk(g) == Allocated(g, 1 + g.bitmaps + g.indexes)
AnodeBlk(g) == Allocated(g, 2 + g.bitmaps + g.indexes)
RootDirBlock(g) == Allocated(g, 3 + g.bitmaps + g.indexes)

-----------------------------------------------------------------------------

\* A group of blocks at equal distances: the bitmap blocks, whose seq-th one has
\* bits bits of which those of the first "free" blocks are set, and the
\* pointers of an index block.
NoGroup == [first |-> 0, step |-> 1, count |-> 0]
Member(group, i) == group.first + i * group.step

Blank == [boot |-> FALSE, root |-> [id |-> "--"], res |-> <<>>, bitmaps |-> NoGroup]

FormatInit == total \in Sizes /\ phase = "start" /\ disk = Blank

Put(res, new) ==
  [b \in DOMAIN res \cup DOMAIN new |-> IF b \in DOMAIN new THEN new[b] ELSE res[b]]
At(blk, content) == [b \in {blk} |-> content]
WriteRes(from, to, new) ==
  /\ phase = from /\ phase' = to
  /\ disk' = [disk EXCEPT !.res = Put(@, new)]
  /\ UNCHANGED total

\* "disk too small": the reserved area leaves no data block.
TooSmall(g) == total <= g.last + 1

Refuse ==
  /\ phase = "start" /\ TooSmall(Geometry(total))
  /\ phase' = "refused"
  /\ UNCHANGED <<total, disk>>

WriteBoot ==
  /\ phase = "start" /\ ~TooSmall(Geometry(total))
  /\ phase' = "allocate"
  /\ disk' = [disk EXCEPT !.boot = TRUE]
  /\ UNCHANGED total

\* The bitmap, index, anode and directory blocks are allocated after the boot
\* block is written; alloc may return "out of reserved blocks".
AllocateAll ==
  LET g == Geometry(total)
  IN  /\ phase = "allocate"
      /\ phase' = IF Needed(g) <= g.num - g.resbm THEN "root" ELSE "full"
      /\ UNCHANGED <<total, disk>>

\* The root cluster: counters, reserved bitmap and the top of both indexes.
\* Only words that fit into the cluster are written.
NewRoot(n) ==
  LET g == Geometry(n)
      words == (g.resbm * g.rbs - SectorSize - 12) \div 4
      top == IF g.large THEN g.indexes ELSE AtMost(g.indexes, MaxSmallBitmapIndex + 1)
      used == g.resbm + Needed(g)
  IN  [id |-> "PFS", large |-> g.large, last |-> g.last, rbs |-> g.rbs,
       rblkcluster |-> g.resbm * g.rescluster, disksize |-> n,
       reservedFree |-> g.num - used, freeFrom |-> used, freeTo |-> AtMost(g.num, 32 * words) - 1,
       blocksfree |-> g.data, ext |-> ExtBlk(g),
       bitmapindex |-> [i \in 0..(top - 1) |-> BitmapIndexNr(g, i)],
       indexblock |-> IF g.large THEN 0 ELSE AnodeIndexBlk(g)]

NewExt(g) ==
  At(ExtBlk(g), [id |-> "EX", superindex |-> IF g.large THEN AnodeIndexBlk(g) ELSE 0])

\* The seq-th bitmap index block points to the next perIndex bitmap blocks.
BitmapIndex(g, seq) ==
  [id |-> "MI",
   ptr |-> [first |-> BitmapNr(g, seq * g.perIndex), step |-> g.rescluster,
            count |-> AtMost(g.perIndex, g.bitmaps - seq * g.perIndex)]]
NewBitmapIndexes(g) ==
  [b \in {BitmapIndexNr(g, seq) : seq \in 0..(g.indexes - 1)} |->
     BitmapIndex(g, (b - BitmapIndexNr(g, 0)) \div g.rescluster)]

\* Every data block free; the bits after the last one stay clear.
NewBitmaps(g) ==
  [first |-> BitmapNr(g, 0), step |-> g.rescluster, count |-> g.bitmaps,
   bits |-> g.perIndex * 32, free |-> g.data]

NewAnodeIndex(g) ==
  At(AnodeIndexBlk(g), [id |-> "IB", ptr |-> [first |-> AnodeBlk(g), step |-> 0, count |-> 1]])
NewAnodes(g) ==
  At(AnodeBlk(g), [id |-> "AB", anode |-> [a \in {RootDirAnode} |-> RootDirBlock(g)]])
NewRootDir(g) == At(RootDirBlock(g), [id |-> "DB"])

WriteRoot ==
  /\ phase = "root" /\ phase' = "ext"
  /\ disk' = [disk EXCEPT !.root = NewRoot(total)]
  /\ UNCHANGED total
WriteExt == WriteRes("ext", "bitmapindex", NewExt(Geometry(total)))
WriteBitmapIndexes == WriteRes("bitmapindex", "bitmaps", NewBitmapIndexes(Geometry(total)))
WriteBitmaps ==
  /\ phase = "bitmaps" /\ phase' = "anodeindex"
  /\ disk' = [disk EXCEPT !.bitmaps = NewBitmaps(Geometry(total))]
  /\ UNCHANGED total
WriteAnodeIndex == WriteRes("anodeindex", "anodes", NewAnodeIndex(Geometry(total)))
WriteAnodes == WriteRes("anodes", "rootdir", NewAnodes(Geometry(total)))
WriteRootDir == WriteRes("rootdir", "flush", NewRootDir(Geometry(total)))

Flush == phase = "flush" /\ phase' = "done" /\ UNCHANGED <<total, disk>>

Writing == {"start", "root", "ext", "bitmapindex", "bitmaps", "anodeindex",
            "anodes", "rootdir", "flush"}

\* Any write or the sync fails: format returns and leaves what it wrote.
WriteFails ==
  /\ phase \in Writing /\ (phase = "start" => ~TooSmall(Geometry(total)))
  /\ phase' = "failed"
  /\ UNCHANGED <<total, disk>>

FormatNext ==
  \/ Refuse
  \/ WriteBoot
  \/ AllocateAll
  \/ WriteRoot
  \/ WriteExt
  \/ WriteBitmapIndexes
  \/ WriteBitmaps
  \/ WriteAnodeIndex
  \/ WriteAnodes
  \/ WriteRootDir
  \/ Flush
  \/ WriteFails

-----------------------------------------------------------------------------
(* What a mount reads. *)

InGroup(blk, group) ==
  /\ blk >= group.first /\ (blk - group.first) % group.step = 0
  /\ (blk - group.first) \div group.step < group.count

IdOf(blk) ==
  CASE blk \in DOMAIN disk.res -> disk.res[blk].id
    [] blk \notin DOMAIN disk.res /\ InGroup(blk, disk.bitmaps) -> "BM"
    [] OTHER -> "--"

\* The data blocks that bitmap block blk marks as free.
FreeIn(blk) ==
  LET m == disk.bitmaps
      seq == (blk - m.first) \div m.step
  IN  [from |-> seq * m.bits, to |-> AtMost((seq + 1) * m.bits, m.free) - 1]

\* Volume::from_device: a rootblock with the magic, and its extension.
Opens == disk.root.id = "PFS" /\ IdOf(disk.root.ext) = "EX"

\* read_index_entry reads word 3 + off of a block of whatever kind; in an anode
\* block word 3 still belongs to the header and is 0.
IndexEntry(blk, off) ==
  IF IdOf(blk) \in {"IB", "MI"} /\ off < disk.res[blk].ptr.count
  THEN Member(disk.res[blk].ptr, off) ELSE 0

\* Rootblock::parse: the index words that the mode gives to the bitmap, 0 where
\* none was written.
ParsedBitmapIndex(i) ==
  LET most == IF disk.root.large THEN MaxBitmapIndex ELSE MaxSmallBitmapIndex
  IN  IF i <= most /\ i \in DOMAIN disk.root.bitmapindex THEN disk.root.bitmapindex[i] ELSE 0

\* RootblockExt::parse: the first word of its superindex.
ParsedSuperindex == disk.res[disk.root.ext].superindex

\* get_bitmap_block
GetBitmapBlock(seq) ==
  LET ipb == disk.root.rbs \div 4 - 3
  IN  IndexEntry(ParsedBitmapIndex(seq \div ipb), seq % ipb)

\* A variant: the superindex in both modes.
FirstAnodeBlockSuper == IndexEntry(IndexEntry(ParsedSuperindex, 0), 0)

\* resolve_anode_block for the anodes of sequence number 0.
FirstAnodeBlock ==
  IF disk.root.large
  THEN IndexEntry(IndexEntry(ParsedSuperindex, 0), 0)
  ELSE IndexEntry(disk.root.indexblock, 0)

ListedRootDir ==
  IF IdOf(FirstAnodeBlock) = "AB" THEN disk.res[FirstAnodeBlock].anode[RootDirAnode] ELSE 0

-----------------------------------------------------------------------------
(* Properties *)

\* A format that is refused, or that runs out of reserved blocks after it wrote
\* the boot block, has not touched the disk: calc_num_reserved always reserves
\* enough for the bitmap of the data area it leaves.
RefusalIsClean == phase \in {"refused", "full"} => disk = Blank

\* The formatted volume fits: reserved and data area share the disk without a
\* gap, every structure has a block of its own inside the reserved area and
\* outside the root cluster, and the reserved bitmap in the cluster has a bit
\* for every reserved block, set exactly for the free ones it counts.
FormatFits ==
  phase = "done" =>
    LET r == disk.root
        m == disk.bitmaps
        width == r.rbs \div SectorSize
        first == FirstReserved + r.rblkcluster
        Inside(b) == first <= b /\ b + width - 1 <= r.last
    IN  /\ r.last + 1 + r.blocksfree = total /\ r.blocksfree > 0
        /\ \A b \in DOMAIN disk.res : Inside(b) /\ ~InGroup(b, m)
        /\ Inside(m.first) /\ Inside(Member(m, m.count - 1))
        /\ r.freeTo - r.freeFrom + 1 = r.reservedFree
        /\ (r.reservedFree + m.count + Cardinality(DOMAIN disk.res)) * width
             = r.last - first + 1

\* The bitmap a mount finds through the index has one block per sequence
\* number, and together they mark exactly the data blocks as free, as many as
\* blocksfree says.
BitmapCoversData ==
  phase = "done" =>
    LET bits == (disk.root.rbs \div 4 - 3) * 32
        count == (disk.root.blocksfree + bits - 1) \div bits
    IN  /\ \A seq \in 0..(count - 1) :
             LET blk == GetBitmapBlock(seq)
             IN  /\ IdOf(blk) = "BM"
                 /\ FreeIn(blk) = [from |-> seq * bits,
                      to |-> AtMost((seq + 1) * bits, disk.root.blocksfree) - 1]
        /\ GetBitmapBlock(count) = 0

\* "SUPERINDEX support - handles large volumes": a volume that format reports
\* as done opens and its root directory is found through the anode index.
RootDirReadable == phase = "done" => Opens /\ IdOf(ListedRootDir) = "DB"

\* The same for volumes without a superindex.
SmallRootDirReadable ==
  phase = "done" /\ ~disk.root.large => Opens /\ IdOf(ListedRootDir) = "DB"
=============================================================================
