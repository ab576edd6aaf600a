------------------------------- MODULE Volume -------------------------------
(***************************************************************************)
(* The on-disk structures of a PFS3 volume and how they are read           *)
(* (crates/libpfs3/src/volume.rs, anode.rs, dir.rs, util.rs): anode        *)
(* lookup, anode chains, directory listing, path lookup, file reading.     *)
(*                                                                         *)
(* "res" maps each reserved block to its content, a record whose field "k" *)
(* is the block id:                                                        *)
(*   AB  anode block       slots: offset -> [cs, bn, nx]                   *)
(*   IB  index block       ptr: offset -> anode block, 0: none             *)
(*   SB  superindex block  ptr: offset -> index block, 0: none             *)
(*   BM  bitmap block      free: the data blocks whose bit is set          *)
(*   DB  directory block   es: the packed entries, in order                *)
(*   DD  deldir block      slots: index -> [anode, size, name]             *)
(*   --  anything else                                                     *)
(* "data" maps each data block to the file content it holds.  The readers  *)
(* go through the block cache; ReservedStore shows that a cached image is  *)
(* the device's, so they read the device here.                             *)
(***************************************************************************)
EXTENDS Integers, Sequences, FiniteSets, SequencesExt

CONSTANTS
  Names,         \* file names
  Fold,          \* Names -> their ASCII case folding
  NumData,       \* data blocks, right after the reserved area
  BitsPerBitmap, \* data blocks per bitmap block
  NumReserved,   \* reserved blocks are 1..NumReserved
  AnodesPerBlock,
  Stride,        \* anodenr = seqnr * Stride + offset
  UserFirst,     \* ANODE_USERFIRST
  RootDir,       \* ANODE_ROOTDIR
  IndexPerBlock, \* pointers an index or superindex block has room for
  Large,         \* MODE_SUPERINDEX: superindex -> index -> anode block
  MaxSeqnr,      \* sequence numbers alloc_anode tries (256 in the code)
  MaxChainLen,   \* MAX_CHAIN_LEN: anodes in a chain
  DirCapacity,   \* entries per directory block
  DelDirSlots    \* entries of the deldir, 0 when MODE_DELDIR is off

ASSUME VolumeAssumption ==
  /\ Fold \in [Names -> Nat]
  /\ {NumData, BitsPerBitmap, NumReserved, DirCapacity, IndexPerBlock,
      AnodesPerBlock, Stride, MaxSeqnr, MaxChainLen} \subseteq Nat \ {0}
  /\ RootDir \in 1..(UserFirst - 1)
  /\ UserFirst \in 2..(AnodesPerBlock - 1)
  /\ AnodesPerBlock <= Stride
  /\ DelDirSlots \in Nat /\ Large \in BOOLEAN

ResBlocks == 1..NumReserved
BitmapStart == NumReserved + 1   \* Writer.bitmapstart: lastreserved + 1
DataBlocks == BitmapStart..(NumReserved + NumData)
NumBitmaps == (NumData + BitsPerBitmap - 1) \div BitsPerBitmap

\* The blocks format lays out, in its order: the bitmap blocks, the anode
\* index block, the first anode block, the root directory block.  Those it
\* never rewrites (rootblock extension, bitmap index) are left out.  A deldir
\* block and a usable superindex are only found on volumes formatted by AmigaOS.
BitmapBlk(i) == i
IndexBlk == NumBitmaps + 1
FirstAnodeBlk == NumBitmaps + 2
RootDirBlk == NumBitmaps + 3
DelDirBlk == NumBitmaps + 4
SuperBlk == NumBitmaps + (IF DelDirSlots > 0 THEN 5 ELSE 4)
FixedBlocks == 1..(IF Large THEN SuperBlk ELSE SuperBlk - 1)

\* format refuses a volume that has no room for them.
ASSUME LayoutAssumption == FixedBlocks \subseteq ResBlocks

EOF == 0
NoAnode == [cs |-> 0, bn |-> 0, nx |-> 0]
NoSlot == [anode |-> 0, size |-> 0, name |-> ""]
Unused == [k |-> "--"]

\* Outside the reserved area nothing has the id of a reserved block.
BlockAt(res, b) == IF b \in ResBlocks THEN res[b] ELSE Unused

\* util::name_eq_ci
NameEq(a, b) == Fold[a] = Fold[b]

-----------------------------------------------------------------------------
(* Anodes *)

\* The index block for a sequence number, 0 if there is none: in the rootblock
\* (one entry here) or in the superindex block (superindex[0]).
IndexBlockOf(res, seqnr) ==
  LET n == seqnr \div IndexPerBlock
  IN  IF Large THEN IF n < IndexPerBlock THEN res[SuperBlk].ptr[n] ELSE 0
      ELSE IF n = 0 THEN IndexBlk ELSE 0

\* AnodeReader::resolve_anode_block.  (read_index_entry does not look at the
\* block's id; what it reads in a block of another kind counts as no pointer.)
PointerIn(res, idx, i) ==
  IF BlockAt(res, idx).k = "IB" THEN BlockAt(res, idx).ptr[i] ELSE 0
ResolveAnodeBlock(res, seqnr) ==
  PointerIn(res, IndexBlockOf(res, seqnr), seqnr % IndexPerBlock)

SeqOfAnode(nr) == nr \div Stride
OffOfAnode(nr) == nr % Stride

\* AnodeReader::get_anode succeeds.
IsAnodeBlock(res, blk) == BlockAt(res, blk).k = "AB"
HasAnode(res, nr) ==
  /\ IsAnodeBlock(res, ResolveAnodeBlock(res, SeqOfAnode(nr)))
  /\ OffOfAnode(nr) < AnodesPerBlock

Numbered(nr, a) == [nr |-> nr, cs |-> a.cs, bn |-> a.bn, nx |-> a.nx]
GetAnode(res, nr) ==
  Numbered(nr, res[ResolveAnodeBlock(res, SeqOfAnode(nr))].slots[OffOfAnode(nr)])

\* AnodeReader::get_chain: follow next to EOF; a missing anode, a cycle or
\* more than MAX_CHAIN_LEN anodes are errors (a cycle is longer than any limit).
NoChain == [ok |-> FALSE, chain |-> <<>>]
Linked(a, rest) == IF rest.ok THEN [ok |-> TRUE, chain |-> <<a>> \o rest.chain] ELSE NoChain
GetChain(res, head) ==
  LET walk[n \in 0..MaxChainLen] ==
        [nr \in Nat |->
           IF nr = EOF THEN [ok |-> TRUE, chain |-> <<>>]
           ELSE IF n = 0 \/ ~HasAnode(res, nr) THEN NoChain
           ELSE Linked(GetAnode(res, nr), walk[n - 1][GetAnode(res, nr).nx])]
  IN  walk[MaxChainLen][head]

\* The block numbers of one anode, and of a chain, in order.
Extent(a) == [i \in 1..a.cs |-> a.bn + i - 1]
BlocksOf(chain) == FlattenSeq([i \in DOMAIN chain |-> Extent(chain[i])])

-----------------------------------------------------------------------------
(* Directories *)

\* dir::list_entries of a directory whose chain could be read.
EntriesIn(res, blks) ==
  FlattenSeq([i \in DOMAIN blks |->
                IF BlockAt(res, blks[i]).k = "DB" THEN BlockAt(res, blks[i]).es ELSE <<>>])

ListDir(res, dirAnode) ==
  LET Listed(c) == [ok |-> c.ok, es |-> EntriesIn(res, BlocksOf(c.chain))]
  IN  Listed(GetChain(res, dirAnode))

\* The index of the first entry with the name, 0 if there is none.
Find(es, name) == SelectInSeq(es, LAMBDA e : NameEq(e.name, name))
FindDir(es, name) ==
  SelectInSeq(es, LAMBDA e : NameEq(e.name, name) /\ e.type = "dir")

-----------------------------------------------------------------------------
(* Files *)

\* dev.read_block: a block's content stands for its bytes; a block outside the
\* data area has no file's content.
ReadBlock(data, b) == IF b \in DataBlocks THEN data[b] ELSE <<>>

\* Volume::read_file_data: the chain's blocks up to the size.
ReadFileData(res, data, anode, size) ==
  LET ReadBlocks(blks) == [i \in 1..Min({size, Len(blks)}) |-> ReadBlock(data, blks[i])]
  IN  ReadBlocks(BlocksOf(GetChain(res, anode).chain))

\* Volume::list_deldir: the slots in use, the empty ones skipped.
ListDelDir(res) ==
  IF DelDirSlots = 0 THEN <<>>
  ELSE SelectSeq([i \in 1..DelDirSlots |-> res[DelDirBlk].slots[i]],
                 LAMBDA s : s.anode # 0)
=============================================================================
