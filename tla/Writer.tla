------------------------------- MODULE Writer -------------------------------
(***************************************************************************)
(* The writable volume (crates/libpfs3/src/writer.rs): block and anode     *)
(* allocation, anode chains, directory entries, the deldir, and the public *)
(* operations built from them, each ending in update_rootblock.            *)
(*                                                                         *)
(* Helpers are functions of a record s: the device (res, data, root), the  *)
(* writer's memory (pend, free, rbm, bfree, rfree), whether a "?" has not  *)
(* fired yet (ok), the helper's Ok value (ret) and the fault to inject     *)
(* (fuel, sticky).  One thread runs an operation to its end, so an         *)
(* operation is one step; an I/O error or the death of the process may cut *)
(* it before any of its device accesses.                                   *)
(***************************************************************************)
EXTENDS Volume

CONSTANTS
  Versions,   \* what distinguishes the contents of two writes
  MaxBlocks,  \* bound: blocks of content in one write
  Ops,        \* the operations the run exercises
  Parents,    \* the parent paths used: <<>> the root, <<n>> a directory
  VfsCaller,  \* TRUE: the caller looks names up first, as the kernel does
  MaxOps,     \* bound: operations
  MaxIo,      \* bound: device accesses after which a fault may hit
  MaxFaults,  \* bound: I/O errors
  MaxKills    \* bound: deaths of the process

ASSUME WriterAssumption ==
  MaxBlocks \in Nat \ {0} /\ {MaxOps, MaxIo, MaxFaults, MaxKills} \subseteq Nat

VARIABLES
  device,  \* [res, data, root], root = [bfree, rfree, rbm] the root cluster
  mem,     \* Writer: [pend, free, rbm, bfree, rfree]
  last,    \* the last operation and whether it returned Ok
  count,   \* [ops, faults, kills]
  shown    \* auxiliary: the device as its users see it

vars == <<device, mem, last, count, shown>>

-----------------------------------------------------------------------------
(* The "?" operator and loops that it may leave. *)

Err(s) == [s EXCEPT !.ok = FALSE]
Then(s, F(_)) == IF s.ok THEN F(s) ELSE s
Ret(s, v) == [s EXCEPT !.ret = v]
Ignore(s) == [s EXCEPT !.ok = TRUE]   \* let _ = ...

ForEach(s, q, F(_, _)) ==
  LET run[i \in 0..Len(q)] ==
        IF i = 0 THEN s
        ELSE LET t == run[i - 1] IN IF t.ok THEN F(t, q[i]) ELSE t
  IN  run[Len(q)]

\* A device access: fails when the fuel is used up, once or from then on.
Io(s) ==
  IF s.fuel = 0 THEN [s EXCEPT !.ok = FALSE, !.hit = TRUE,
                               !.fuel = IF s.sticky THEN 0 ELSE -1]
  ELSE IF s.fuel > 0 THEN [s EXCEPT !.fuel = @ - 1]
  ELSE s

-----------------------------------------------------------------------------
(* Reserved blocks: pending list, reserved bitmap. *)

Pending(s, b) == {i \in DOMAIN s.pend : s.pend[i].blk = b}

RawRead(s, b) ==
  IF Pending(s, b) = {} THEN BlockAt(s.res, b) ELSE s.pend[Min(Pending(s, b))].c

WriteReserved(s, b, c) ==
  IF Pending(s, b) = {}
    THEN [s EXCEPT !.pend = Append(@, [blk |-> b, c |-> c])]
    ELSE [s EXCEPT !.pend[Min(Pending(s, b))].c = c]

\* A raw read goes to the device unless the block is pending.
ReadIo(s, b) == IF Pending(s, b) = {} THEN Io(s) ELSE s

\* Read-modify-write of a reserved block.
Patch(s, b, c) == Then(ReadIo(s, b), LAMBDA t : WriteReserved(t, b, c))

\* Bits of the reserved bitmap are handed out lowest first.
AllocReservedBlock(s) ==
  IF s.rbm = {} THEN Err(s)
  ELSE Ret([s EXCEPT !.rbm = @ \ {Min(s.rbm)}, !.rfree = @ - 1], Min(s.rbm))

FreeReservedBlock(s, b) ==
  IF b \in ResBlocks THEN [s EXCEPT !.rbm = @ \cup {b}, !.rfree = @ + 1] ELSE s

-----------------------------------------------------------------------------
(* Data bitmap *)

BitmapOf(b) == ((b - BitmapStart) \div BitsPerBitmap) + 1
BitmapRange(i) == {b \in DataBlocks : BitmapOf(b) = i}

WriteDataBitmapBlock(s, i) ==
  Patch(s, BitmapBlk(i), [k |-> "BM", free |-> s.free \cap BitmapRange(i)])

\* The n smallest elements of a set of numbers, in order.
Lowest(S, n) ==
  [i \in 1..n |-> CHOOSE x \in S : Cardinality({y \in S : y < x}) = i - 1]

\* (A variant that leaves the bits set.)
AllocDataBlocksKeepsBits(s, n) ==
  IF Cardinality(s.free) < n THEN Err(s)
  ELSE Ret([s EXCEPT !.bfree = @ - n], Lowest(s.free, n))

\* (A variant that counts blocks before it knows that there are enough.)
AllocDataBlocksCountsFirst(s, n) ==
  LET enough == Cardinality(s.free) >= n
      taken == Lowest(s.free, IF enough THEN n ELSE Cardinality(s.free))
      t == [s EXCEPT !.bfree = @ - n, !.free = @ \ ToSet(taken)]
  IN  IF enough THEN Ret(WriteDataBitmapBlock(t, 1), taken) ELSE Err(t)

\* alloc_data_blocks takes the lowest set bits, writing back every bitmap
\* block it has gone through since its first find.  Running out of bits is
\* DiskFull: the bits taken so far stay cleared and blocksfree unchanged.
AllocDataBlocks(s, n) ==
  LET enough == Cardinality(s.free) >= n
      taken == Lowest(s.free, IF enough THEN n ELSE Cardinality(s.free))
      lastBm == IF enough THEN BitmapOf(taken[n]) ELSE NumBitmaps
      passed == IF taken = <<>> THEN <<>>
                ELSE [i \in 1..(lastBm - BitmapOf(taken[1]) + 1) |->
                        BitmapOf(taken[1]) + i - 1]
      Take(t, i) ==
        WriteDataBitmapBlock([t EXCEPT !.free = @ \ (ToSet(taken) \cap BitmapRange(i))], i)
  IN  Then(ForEach(s, passed, Take),
           LAMBDA t : IF enough THEN Ret([t EXCEPT !.bfree = @ - n], taken)
                                ELSE Err(t))

\* (A variant that forgets the counter, and one that marks the next block.)
FreeDataBlockUncounted(s, b) ==
  IF b \notin DataBlocks THEN s
  ELSE WriteDataBitmapBlock([s EXCEPT !.free = @ \cup {b}], BitmapOf(b))

FreeDataBlockNext(s, b) ==
  IF b \notin DataBlocks THEN s
  ELSE Then(WriteDataBitmapBlock([s EXCEPT !.free = @ \cup {b + 1}], BitmapOf(b)),
            LAMBDA t : [t EXCEPT !.bfree = @ + 1])

\* free_data_block sets the bit whatever its state, then counts it.
FreeDataBlock(s, b) ==
  IF b \notin DataBlocks THEN s
  ELSE Then(WriteDataBitmapBlock([s EXCEPT !.free = @ \cup {b}], BitmapOf(b)),
            LAMBDA t : [t EXCEPT !.bfree = @ + 1])

\* dev.write_block for every block of a file's content, then dev.flush.
WriteDataBlocks(s, blks, content) ==
  Then(ForEach(s, [i \in DOMAIN blks |-> <<blks[i], content[i]>>],
         LAMBDA t, w : Then(Io(t), LAMBDA u : [u EXCEPT !.data[w[1]] = w[2]])),
       Io)

-----------------------------------------------------------------------------
(* Anodes.  The index and the chains are looked up on the device (through  *)
(* the cache), never in the pending list; anode blocks are read through it. *)

\* Fallible chain lookup, then F on the chain.
WithChain(s, head, F(_, _)) ==
  LET Got(t, c) == IF t.ok /\ c.ok THEN F(t, c.chain) ELSE Err(t)
  IN  Got(Io(s), GetChain(s.res, head))

WriteAnodeFields(s, nr, cs, bn, nx) ==
  LET WriteIn(blk) ==
        Patch(s, blk, [RawRead(s, blk) EXCEPT
                !.slots[OffOfAnode(nr)] = [cs |-> cs, bn |-> bn, nx |-> nx]])
  IN  WriteIn(ResolveAnodeBlock(s.res, SeqOfAnode(nr)))

ClearAnodes(s, chain) ==
  ForEach(s, chain, LAMBDA t, a : WriteAnodeFields(t, a.nr, 0, 0, 0))

ClearAnodeChain(s, head) ==
  WithChain(s, head, ClearAnodes)

FreeExtents(s, chain) == ForEach(s, BlocksOf(chain), FreeDataBlock)

FreeDataChain(s, head) ==
  WithChain(s, head, FreeExtents)

FreeAnodeChainReserved(s, head) ==
  WithChain(s, head, LAMBDA t, chain :
    ForEach(t, BlocksOf(chain), FreeReservedBlock))

\* Block by block and anode by anode, in chain order.
FreeAndClearAnodes(s, chain) ==
  ForEach(s, chain, LAMBDA t, a :
    Then(ForEach(t, Extent(a), FreeDataBlock),
         LAMBDA u : WriteAnodeFields(u, a.nr, 0, 0, 0)))

\* An index or superindex block with entry i set.
Pointing(c, i, blk) == [c EXCEPT !.ptr[i] = blk]
NoPointers == [i \in 0..(IndexPerBlock - 1) |-> 0]

\* (A variant that forgets the superindex.)
AllocIndexBlockUnlinked(s, seqnr, blk) ==
  Then(AllocReservedBlock(s), LAMBDA t :
    WriteReserved(t, t.ret,
      Pointing([k |-> "IB", ptr |-> NoPointers], seqnr % IndexPerBlock, blk)))

\* Large mode: a new index block with its first entry, and the superindex's.
AllocIndexBlock(s, seqnr, blk) ==
  Then(AllocReservedBlock(s), LAMBDA t :
    Patch(WriteReserved(t, t.ret,
            Pointing([k |-> "IB", ptr |-> NoPointers], seqnr % IndexPerBlock, blk)),
          SuperBlk,
          Pointing(RawRead(t, SuperBlk), seqnr \div IndexPerBlock, t.ret)))

\* A new anode block for seqnr: reserved block, empty image, index entry.  A
\* full index is DiskFull after the reserved block has been taken.
AllocAnodeBlock(s, seqnr) ==
  LET Register(t, idx, blk) ==
        IF idx # 0
          THEN Patch(t, idx, Pointing(RawRead(t, idx), seqnr % IndexPerBlock, blk))
        ELSE IF Large /\ seqnr < IndexPerBlock * IndexPerBlock
          THEN AllocIndexBlock(t, seqnr, blk)
        ELSE Err(t)
  IN  Then(AllocReservedBlock(s), LAMBDA t :
        Ret(Register(WriteReserved(t, t.ret,
               [k |-> "AB", slots |-> [o \in 0..(AnodesPerBlock - 1) |-> NoAnode]]),
               IndexBlockOf(s.res, seqnr), t.ret), t.ret))

FreeOffsets(c, seqnr) ==
  {o \in 0..(AnodesPerBlock - 1) :
     /\ seqnr * Stride + o >= UserFirst
     /\ c.slots[o].cs = 0 /\ c.slots[o].bn = 0}

\* Anode a at an offset of a block; the helper's value is its number.
FillAnode(s, seqnr, blk, off, a) ==
  Ret(WriteReserved(s, blk, [RawRead(s, blk) EXCEPT !.slots[off] = a]),
      seqnr * Stride + off)

\* alloc_anode takes the first free slot of the first block that has one; the
\* first sequence number without an anode block gets a new one.
AllocAnode(s, cs, bn, nx) ==
  LET a == [cs |-> cs, bn |-> bn, nx |-> nx]
      Usable(q, blk) == \/ blk = 0
                        \/ /\ RawRead(s, blk).k = "AB"
                           /\ FreeOffsets(RawRead(s, blk), q) # {}
      seqs == {q \in 0..(MaxSeqnr - 1) : Usable(q, ResolveAnodeBlock(s.res, q))}
      AllocIn(q, blk) ==
        IF blk = 0
          THEN Then(AllocAnodeBlock(s, q), LAMBDA t :
                 FillAnode(t, q, t.ret, UserFirst, a))
          ELSE Then(ReadIo(s, blk), LAMBDA t :
                 FillAnode(t, q, blk, Min(FreeOffsets(RawRead(s, blk), q)), a))
      AllocFirst(q) == AllocIn(q, ResolveAnodeBlock(s.res, q))
  IN  IF seqs = {} THEN Err(s) ELSE AllocFirst(Min(seqs))

\* create_anode_chain: one anode per run of consecutive blocks, allocated
\* from the last run to the first.
CreateAnodeChain(s, blks) ==
  LET starts == {i \in DOMAIN blks : i = 1 \/ blks[i] # blks[i - 1] + 1}
      RunLen(i) == Cardinality({j \in DOMAIN blks :
                     j >= i /\ \A h \in i + 1..j : h \notin starts})
      runs == Reverse(Lowest(starts, Cardinality(starts)))
  IN  ForEach(Ret(s, EOF), runs, LAMBDA t, i : AllocAnode(t, RunLen(i), blks[i], t.ret))

AppendToAnodeChain(s, head, new) ==
  WithChain(s, head, LAMBDA t, chain :
    IF chain = <<>> THEN Err(t)
    ELSE LET tail == chain[Len(chain)]
         IN  WriteAnodeFields(t, tail.nr, tail.cs, tail.bn, new))

ExtendAnodeChain(s, head, blk) ==
  Then(AllocAnode(s, 1, blk, EOF), LAMBDA t : AppendToAnodeChain(t, head, t.ret))

\* (A variant that frees one block too many.)
TruncateAnodeChainOneMore(s, head, keep) ==
  WithChain(s, head, LAMBDA t, chain :
    FreeExtents(t, <<[chain[1] EXCEPT !.cs = 1]>>))

\* truncate_anode_chain keeps the first "keep" blocks: the anode in which the
\* keep-th block lies becomes the tail, cut if need be, the rest is freed.
TruncateAnodeChain(s, head, keep) ==
  WithChain(s, head, LAMBDA s1, chain :
    LET upto(i) == Len(BlocksOf(SubSeq(chain, 1, i)))
        cut == SelectInSeq([i \in DOMAIN chain |-> upto(i)], LAMBDA n : n >= keep)
        a == chain[cut]
        rest == SubSeq(chain, cut + 1, Len(chain))
        left == keep - upto(cut - 1)
    IN  IF cut = 0 THEN s1
        ELSE Then(ForEach(s1, SubSeq(Extent(a), left + 1, a.cs), FreeDataBlock),
               LAMBDA t : Then(WriteAnodeFields(t, a.nr, left, a.bn, EOF),
                 LAMBDA u : FreeAndClearAnodes(u, rest))))

-----------------------------------------------------------------------------
(* Directory entries.  The chain comes from the device, the blocks through *)
(* the pending list.                                                       *)

\* find_dir_entry: <<block, index>> of the first match, <<>> if none.
Locate(s, chain, name) ==
  LET Matches(b) == RawRead(s, b).k = "DB" /\ Find(RawRead(s, b).es, name) > 0
      At(blks, i) == IF i = 0 THEN <<>>
                     ELSE <<blks[i], Find(RawRead(s, blks[i]).es, name)>>
  IN  At(BlocksOf(chain), SelectInSeq(BlocksOf(chain), Matches))

\* Find the entry, replace the block's entries by F of them.
EditDirEntry(s, dir, name, F(_, _)) ==
  LET Edit(t, at) ==
        IF at = <<>> THEN Err(t)
        ELSE Patch(t, at[1], [RawRead(t, at[1]) EXCEPT !.es = F(@, at[2])])
  IN  WithChain(s, dir, LAMBDA t, chain : Edit(t, Locate(t, chain, name)))

\* (A variant that keeps the old size of a file that shrinks.)
UpdateDirEntrySizeGrows(s, dir, name, size) ==
  EditDirEntry(s, dir, name, LAMBDA es, i :
    [es EXCEPT ![i].size = IF @ > size THEN @ ELSE size])

UpdateDirEntrySize(s, dir, name, size) ==
  EditDirEntry(s, dir, name, LAMBDA es, i : [es EXCEPT ![i].size = size])

\* (A variant that removes the last entry of the block.)
RemoveDirEntryLast(s, dir, name) ==
  EditDirEntry(s, dir, name, LAMBDA es, i : RemoveAt(es, Len(es)))

RemoveDirEntry(s, dir, name) ==
  EditDirEntry(s, dir, name, LAMBDA es, i : RemoveAt(es, i))

\* add_dir_entry: the first directory block with room, else a new block at
\* the end of the directory's chain.
AddDirEntry(s, dir, e) ==
  LET HasRoom(t, b) == /\ RawRead(t, b).k = "DB"
                       /\ Len(RawRead(t, b).es) < DirCapacity
      AddTo(t, b) == Patch(t, b, [RawRead(t, b) EXCEPT !.es = Append(@, e)])
      Grow(t) ==
        Then(AllocReservedBlock(t), LAMBDA u :
          ExtendAnodeChain(WriteReserved(u, u.ret, [k |-> "DB", es |-> <<e>>]),
                           dir, u.ret))
      AddIn(t, blks, i) == IF i = 0 THEN Grow(t) ELSE AddTo(t, blks[i])
  IN  WithChain(s, dir, LAMBDA t, chain :
        AddIn(t, BlocksOf(chain),
              SelectInSeq(BlocksOf(chain), LAMBDA b : HasRoom(t, b))))

-----------------------------------------------------------------------------
(* Commit *)

\* (A variant that leaves the reserved bitmap of the cluster as it was.)
UpdateRootblockStaleBitmap(s) ==
  LET t == ForEach([s EXCEPT !.pend = <<>>], s.pend, LAMBDA t, p :
             [t EXCEPT !.res[p.blk] = p.c])
  IN  [t EXCEPT !.root.bfree = t.bfree, !.root.rfree = t.rfree]

\* (A variant that writes the pending blocks last to first.)
UpdateRootblockReversed(s) ==
  Then(ForEach([s EXCEPT !.pend = <<>>], Reverse(s.pend), LAMBDA t, p :
         Then(Io(t), LAMBDA u : [u EXCEPT !.res[p.blk] = p.c])),
       LAMBDA t : Then(Io(t), LAMBDA u :
         Io([u EXCEPT !.root =
               [bfree |-> u.bfree, rfree |-> u.rfree, rbm |-> u.rbm]])))

\* update_rootblock: the pending list is taken, its blocks are written in
\* order, then the root cluster, then a sync that may fail too late to matter.
\* An error drops what was not written.
UpdateRootblock(s) ==
  Then(ForEach([s EXCEPT !.pend = <<>>], s.pend, LAMBDA t, p :
         Then(Io(t), LAMBDA u : [u EXCEPT !.res[p.blk] = p.c])),
       LAMBDA t : Then(Io(t), LAMBDA u :
         Io([u EXCEPT !.root =
               [bfree |-> u.bfree, rfree |-> u.rfree, rbm |-> u.rbm]])))

-----------------------------------------------------------------------------
(* Operations on files *)

\* Content of n blocks written as version v; an empty file still gets a block.
Content(v, n) == [i \in 1..n |-> <<v, i>>]
Sectors(content) == IF content = <<>> THEN <<<<0, 0>>>> ELSE content

Entry(name, type, anode, size, prot) ==
  [name |-> name, type |-> type, anode |-> anode, size |-> size, prot |-> prot]

\* write_file_in_no_commit, and create_softlink_in up to its commit: blocks,
\* data, anodes, entry.
AddFileNoCommit(s, dir, name, type, content) ==
  LET sectors == Sectors(content)
  IN  Then(AllocDataBlocks(s, Len(sectors)), LAMBDA t :
        Then(WriteDataBlocks(t, t.ret, sectors), LAMBDA u :
          Then(CreateAnodeChain(u, t.ret), LAMBDA v :
            AddDirEntry(v, dir, Entry(name, type, v.ret, Len(content), 0)))))

\* (A variant that replaces the file instead of overwriting it.)
OverwriteFileInReplaces(s, dir, name, anode, content) ==
  Then(Then(Then(Then(FreeDataChain(s, anode),
                      LAMBDA t : ClearAnodeChain(t, anode)),
                 LAMBDA t : RemoveDirEntry(t, dir, name)),
            LAMBDA t : AddFileNoCommit(t, dir, name, "file", content)),
       UpdateRootblock)

\* overwrite_file_in: in place as far as the old chain goes, then shrink the
\* chain or allocate and append the rest.
OverwriteFileIn(s, dir, name, anode, content) ==
  LET sectors == Sectors(content)
      n == Len(sectors)
  IN  WithChain(s, anode, LAMBDA s1, chain :
        LET old == BlocksOf(chain)
            reuse == IF n < Len(old) THEN n ELSE Len(old)
            extra == SubSeq(sectors, Len(old) + 1, n)
            Resize(t) ==
              IF n <= Len(old) THEN TruncateAnodeChain(t, anode, n)
              ELSE Then(AllocDataBlocks(t, n - Len(old)), LAMBDA u :
                     Then(WriteDataBlocks(u, u.ret, extra), LAMBDA v :
                       Then(CreateAnodeChain(v, u.ret), LAMBDA x :
                         AppendToAnodeChain(x, anode, x.ret))))
        IN  Then(Then(Then(WriteDataBlocks(s1, SubSeq(old, 1, reuse), sectors),
                           Resize),
                      LAMBDA t : UpdateDirEntrySize(t, dir, name, Len(content))),
                 UpdateRootblock))

\* (A variant that always creates.)
WriteFileInCreates(s, dir, name, content) ==
  Then(AddFileNoCommit(s, dir, name, "file", content), UpdateRootblock)

\* write_file_in: an entry of type file is overwritten.  A failed lookup, for
\* whatever reason, counts as "no such file".
WriteFileIn(s, dir, name, content) ==
  LET Lookup(ok, c) == IF ok /\ c.ok THEN Locate(s, c.chain, name) ELSE <<>>
      Found(at) == IF at = <<>> THEN Entry(name, "", 0, 0, 0)
                   ELSE RawRead(s, at[1]).es[at[2]]
      Write(t, e) ==
        IF e.type = "file" THEN OverwriteFileIn(t, dir, name, e.anode, content)
        ELSE Then(AddFileNoCommit(Ignore(t), dir, name, "file", content),
                  UpdateRootblock)
  IN  Write(Io(s), Found(Lookup(Io(s).ok, GetChain(s.res, dir))))

CreateSoftlinkIn(s, dir, name, content) ==
  Then(AddFileNoCommit(s, dir, name, "soft", content), UpdateRootblock)

CreateHardlink(s, dir, name, anode) ==
  Then(AddDirEntry(s, dir, Entry(name, "link", anode, 0, 0)), UpdateRootblock)

CreateDirIn(s, dir, name) ==
  Then(AllocReservedBlock(s), LAMBDA t :
    Then(AllocAnode(t, 1, t.ret, EOF), LAMBDA u :
      Then(AddDirEntry(WriteReserved(u, t.ret, [k |-> "DB", es |-> <<>>]),
                       dir, Entry(name, "dir", u.ret, 0, 0)),
           UpdateRootblock)))

UpdateDirEntryProtection(s, dir, name, prot) ==
  Then(EditDirEntry(s, dir, name, LAMBDA es, i : [es EXCEPT ![i].prot = prot]),
       UpdateRootblock)

-----------------------------------------------------------------------------
(* Deleting, renaming, undeleting *)

DelDirEntry(e) == [anode |-> e.anode, size |-> e.size, name |-> e.name]

\* (A variant that does not look for an empty slot.)
MoveToDelDirFirstSlot(s, e) ==
  LET slots == RawRead(s, DelDirBlk).slots
  IN  IF DelDirSlots = 0 THEN Ret(s, FALSE)
      ELSE Ret(WriteReserved(s, DelDirBlk,
                 [k |-> "DD", slots |-> [slots EXCEPT ![1] = DelDirEntry(e)]]), TRUE)

\* move_to_deldir: the first empty slot, else slot 1, whose file is freed.  It
\* returns a Boolean: I/O errors make it look elsewhere or give up.
MoveToDelDir(s, e) ==
  LET s1 == ReadIo(s, DelDirBlk)
      slots == RawRead(s, DelDirBlk).slots
      empty == IF s1.ok THEN SelectInSeq(slots, LAMBDA d : d.anode = 0) ELSE 0
      Store(t, i) ==
        Ret(WriteReserved(t, DelDirBlk, [k |-> "DD", slots |-> [slots EXCEPT ![i] = DelDirEntry(e)]]),
            TRUE)
      s2 == ReadIo(Ignore(s1), DelDirBlk)
      evicted == Ignore(ClearAnodeChain(Ignore(FreeDataChain(s2, slots[1].anode)),
                                        slots[1].anode))
  IN  IF DelDirSlots = 0 THEN Ret(s, FALSE)
      ELSE IF empty > 0 THEN Store(s1, empty)
      ELSE IF ~s2.ok THEN Ret(Ignore(s2), FALSE)
      ELSE Store(IF slots[1].anode # 0 THEN evicted ELSE s2, 1)

\* (A variant that removes the entry only.)
DeleteInKeepsBlocks(s, dir, name) ==
  Then(RemoveDirEntry(s, dir, name), UpdateRootblock)

\* delete_in: a directory must be empty and gives its reserved blocks back; a
\* file goes to the deldir or has its blocks and anodes freed.
FreeDir(s, anode) ==
  Then(FreeAnodeChainReserved(s, anode), LAMBDA t : ClearAnodeChain(t, anode))

FreeFile(s, anode) ==
  Then(FreeDataChain(s, anode), LAMBDA t : ClearAnodeChain(t, anode))

IsEmptyDir(l) == l.ok /\ l.es = <<>>

Release(s, e) ==
  LET Moved(t) == IF t.ret THEN t ELSE FreeFile(t, e.anode)
  IN  IF e.type # "dir" THEN Moved(MoveToDelDir(s, e))
      ELSE IF IsEmptyDir(ListDir(s.res, e.anode))
        THEN Then(Io(s), LAMBDA t : FreeDir(t, e.anode))
      ELSE Err(s)

\* The entry of a name in a listing, as a set.
EntryIn(l, name) == {l.es[i] : i \in {Find(l.es, name)} \ {0}}

\* Run F on the entry a lookup finds, after the access it took.
OnEntry(s, found, F(_, _)) ==
  Then(Io(s), LAMBDA t : IF found = {} THEN Err(t)
                         ELSE F(t, CHOOSE e \in found : TRUE))

DeleteIn(s, dir, name) ==
  OnEntry(s, EntryIn(ListDir(s.res, dir), name), LAMBDA t, e :
    Then(Then(Release(t, e), LAMBDA u : RemoveDirEntry(u, dir, name)),
         UpdateRootblock))

\* rename_in: an existing target is deleted first, in a commit of its own.
RenameIn(s, srcDir, srcName, dstDir, dstName) ==
  LET ClearTarget(t) ==
        IF t.ok /\ EntryIn(ListDir(s.res, dstDir), dstName) # {}
          THEN DeleteIn(t, dstDir, dstName) ELSE Ignore(t)
  IN  OnEntry(s, EntryIn(ListDir(s.res, srcDir), srcName), LAMBDA t, e :
        Then(Then(Then(ClearTarget(Io(t)), LAMBDA u :
                         AddDirEntry(u, dstDir,
                           Entry(dstName, e.type, e.anode, e.size, e.prot))),
                  LAMBDA u : RemoveDirEntry(u, srcDir, srcName)),
             UpdateRootblock))

\* undelete of deldir slot idx: the content is copied to a new file, the old
\* anodes are cleared, the slot is emptied.
Undelete(s, idx, dir, name) ==
  LET slot == RawRead(s, DelDirBlk).slots[idx]
      IsFree(l) == l.ok /\ Find(l.es, name) = 0
      EmptySlot(t) ==
        Patch(t, DelDirBlk,
              [k |-> "DD", slots |-> [RawRead(t, DelDirBlk).slots EXCEPT ![idx] = NoSlot]])
      Restore(t, content) ==
        Then(Then(Then(AddFileNoCommit(t, dir, name, "file", content),
                       LAMBDA u : Ignore(ClearAnodeChain(u, slot.anode))),
                  EmptySlot),
             UpdateRootblock)
  IN  Then(ReadIo(s, DelDirBlk), LAMBDA t :
        IF slot.anode = 0 \/ ~IsFree(ListDir(s.res, dir)) THEN Err(t)
        ELSE WithChain(t, slot.anode, LAMBDA u, chain :
               Restore(u, ReadFileData(s.res, s.data, slot.anode, slot.size))))

-----------------------------------------------------------------------------
(* What is reachable on the volume *)

SubDirs(es) == {es[i].anode : i \in {j \in DOMAIN es : es[j].type = "dir"}}

\* Directories two levels deep (Parents reaches no deeper).
WithSubDirs(res, dirs) ==
  dirs \cup UNION {SubDirs(ListDir(res, d).es) : d \in dirs}
DirHeads(res) == WithSubDirs(res, WithSubDirs(res, {RootDir}))

FileHeads(res) ==
  UNION {{es[i].anode : i \in {j \in DOMAIN es : es[j].type # "dir"}} :
           es \in {ListDir(res, d).es : d \in DirHeads(res)}}
    \cup {sl.anode : sl \in ToSet(ListDelDir(res))}

BlocksAt(res, head) == ToSet(BlocksOf(GetChain(res, head).chain))

DataInUse(res) == UNION {BlocksAt(res, h) : h \in FileHeads(res)}

ReservedInUse(res) ==
  LET seqs == 0..(IndexPerBlock * IndexPerBlock - 1)
  IN  FixedBlocks \cup UNION {BlocksAt(res, h) : h \in DirHeads(res)}
        \cup (UNION {{IndexBlockOf(res, q), ResolveAnodeBlock(res, q)} : q \in seqs} \ {0})

\* What callers see of the device: entries, chains and the deldir.
UserAnodes ==
  {q * Stride + o : q \in 0..(MaxSeqnr - 1), o \in UserFirst..(AnodesPerBlock - 1)}

EntriesOf(res) ==
  LET all == UNION {{<<d, e>> : e \in ToSet(ListDir(res, d).es)} : d \in DirHeads(res)}
      At(x) == (CHOOSE y \in all : <<y[1], Fold[y[2].name]>> = x)[2]
      Node(e) == [type |-> e.type, anode |-> e.anode, size |-> e.size, prot |-> e.prot]
  IN  [x \in {<<y[1], Fold[y[2].name]>> : y \in all} |-> Node(At(x))]

\* The content of each file.
Chains(res, data) ==
  LET DataOf(blks) == [i \in DOMAIN blks |-> ReadBlock(data, blks[i])]
      ChainOf(a) == DataOf(BlocksOf(GetChain(res, a).chain))
      ChainsOf(files) == [a \in UserAnodes |-> IF a \in files THEN ChainOf(a) ELSE <<>>]
  IN  ChainsOf(FileHeads(res))

Bin(res) ==
  LET Slot(d) == IF d.anode = 0 THEN <<>>
                 ELSE <<[anode |-> d.anode, size |-> d.size, key |-> Fold[d.name]]>>
  IN  [i \in 1..DelDirSlots |-> Slot(res[DelDirBlk].slots[i])]

Seen(res, data) ==
  [entries |-> EntriesOf(res), chains |-> Chains(res, data), bin |-> Bin(res)]

-----------------------------------------------------------------------------
(* The state machine *)

LoadDataBitmap(res) == UNION {res[BitmapBlk(i)].free : i \in 1..NumBitmaps}
LoadReservedBitmap(root) == root.rbm

\* Writer::open
Loaded(res, root) ==
  [pend |-> <<>>, free |-> LoadDataBitmap(res), rbm |-> LoadReservedBitmap(root),
   bfree |-> root.bfree, rfree |-> root.rfree]

\* A freshly formatted volume.
FormattedRes ==
  [b \in ResBlocks |->
     IF b = FirstAnodeBlk
       THEN [k |-> "AB", slots |-> [o \in 0..(AnodesPerBlock - 1) |->
               IF o = RootDir THEN [cs |-> 1, bn |-> RootDirBlk, nx |-> EOF]
                              ELSE NoAnode]]
     ELSE IF b = IndexBlk
       THEN [k |-> "IB", ptr |-> [q \in 0..(IndexPerBlock - 1) |->
               IF q = 0 THEN FirstAnodeBlk ELSE 0]]
     ELSE IF b = RootDirBlk THEN [k |-> "DB", es |-> <<>>]
     ELSE IF b \in {BitmapBlk(i) : i \in 1..NumBitmaps}
       THEN [k |-> "BM", free |-> BitmapRange(b - BitmapBlk(0))]
     ELSE IF Large /\ b = SuperBlk
       THEN [k |-> "SB", ptr |-> [q \in 0..(IndexPerBlock - 1) |->
               IF q = 0 THEN IndexBlk ELSE 0]]
     ELSE IF b \in FixedBlocks
       THEN [k |-> "DD", slots |-> [i \in 1..DelDirSlots |-> NoSlot]]
     ELSE Unused]

FormattedRoot ==
  [bfree |-> NumData, rbm |-> ResBlocks \ FixedBlocks,
   rfree |-> NumReserved - Cardinality(FixedBlocks)]

Init ==
  /\ device = [res |-> FormattedRes, root |-> FormattedRoot,
               data |-> [b \in DataBlocks |-> <<0, 0>>]]
  /\ mem = Loaded(FormattedRes, FormattedRoot)
  /\ last = [op |-> "open", ok |-> TRUE]
  /\ count = [ops |-> 0, faults |-> 0, kills |-> 0]
  /\ shown = Seen(device.res, device.data)

Start(fuel, sticky) ==
  [res |-> device.res, root |-> device.root, data |-> device.data,
   pend |-> mem.pend, free |-> mem.free, rbm |-> mem.rbm,
   bfree |-> mem.bfree, rfree |-> mem.rfree,
   ok |-> TRUE, ret |-> 0, fuel |-> fuel, sticky |-> sticky, hit |-> FALSE]

Kept(r) == [pend |-> r.pend, free |-> r.free, rbm |-> r.rbm,
            bfree |-> r.bfree, rfree |-> r.rfree]

\* The operation's effect, and its result.
Settle(tag, r, kind) ==
  /\ device' = [res |-> r.res, root |-> r.root, data |-> r.data]
  /\ mem' = IF kind = "kills" THEN Loaded(r.res, r.root) ELSE Kept(r)
  /\ last' = [op |-> tag, ok |-> r.ok]
  /\ count' = [count EXCEPT ![kind] = @ + 1]
  /\ shown' = Seen(r.res, r.data)

\* Run an operation: to its end, into an I/O error, or until the process dies
\* and the volume is opened again.
Perform(tag, Op(_)) ==
  \/ Settle(tag, Op(Start(-1, FALSE)), "ops")
  \/ /\ count.faults < MaxFaults
     /\ \E n \in 0..MaxIo : \E r \in {Op(Start(n, FALSE))} :
          r.hit /\ Settle(tag, r, "faults")
  \/ /\ count.kills < MaxKills
     /\ \E n \in 0..MaxIo : \E r \in {Op(Start(n, TRUE))} :
          r.hit /\ Settle(tag, r, "kills")

\* split_path: the anode of the parent directory, 0 if there is none.
SplitPath(res, p) ==
  LET Child(es, i) == IF i = 0 THEN 0 ELSE es[i].anode
      In(es) == Child(es, FindDir(es, p[1]))
  IN  IF p = <<>> THEN RootDir ELSE In(ListDir(res, RootDir).es)

InDir(s, p, F(_, _)) ==
  LET Enter(d) == IF d = 0 THEN Err(s) ELSE F(s, d)
  IN  Enter(SplitPath(s.res, p))

\* What the caller sees at p/n: the entry type, "" if there is none.
TypeAt(p, n) ==
  LET Entries(d) == IF d = 0 THEN {} ELSE EntryIn(ListDir(device.res, d), n)
      TypeOf(found) == IF found = {} THEN "" ELSE (CHOOSE e \in found : TRUE).type
  IN  TypeOf(Entries(SplitPath(device.res, p)))

Allowed(op) == op \in Ops /\ count.ops + count.faults + count.kills < MaxOps

WriteFile ==
  \E p \in Parents, n \in Names, v \in Versions, k \in 0..MaxBlocks :
    /\ Allowed("write")
    /\ VfsCaller => TypeAt(p, n) \in {"", "file"}
    /\ Perform("write", LAMBDA s : InDir(s, p, LAMBDA t, d :
         WriteFileIn(t, d, n, Content(v, k))))

CreateSoftlink ==
  \E p \in Parents, n \in Names, v \in Versions :
    /\ Allowed("softlink")
    /\ VfsCaller => TypeAt(p, n) = ""
    /\ Perform("softlink", LAMBDA s : InDir(s, p, LAMBDA t, d :
         CreateSoftlinkIn(t, d, n, Content(v, 1))))

CreateDir ==
  \E p \in Parents, n \in Names :
    /\ Allowed("mkdir")
    /\ VfsCaller => TypeAt(p, n) = ""
    /\ Perform("mkdir", LAMBDA s : InDir(s, p, LAMBDA t, d :
         CreateDirIn(t, d, n)))

Delete ==
  \E p \in Parents, n \in Names :
    /\ Allowed("delete")
    /\ VfsCaller => TypeAt(p, n) # ""
    /\ Perform("delete", LAMBDA s : InDir(s, p, LAMBDA t, d : DeleteIn(t, d, n)))

\* The kernel refuses to rename a directory into itself or onto a file, and
\* drops a rename between two names of one inode.
VfsRename(p, n, q, m) ==
  /\ <<p, Fold[n]>> # <<q, Fold[m]>>
  /\ q # Append(p, n)
  /\ \E src \in {TypeAt(p, n)} \ {""}, dst \in {TypeAt(q, m)} :
       dst # "" => (src = "dir" <=> dst = "dir")

Rename ==
  \E p, q \in Parents, n, m \in Names :
    /\ Allowed("rename")
    /\ VfsCaller => VfsRename(p, n, q, m)
    /\ Perform("rename", LAMBDA s : InDir(s, p, LAMBDA t, d :
         InDir(t, q, LAMBDA u, e : RenameIn(u, d, n, e, m))))

Protect ==
  \E p \in Parents, n \in Names :
    /\ Allowed("protect")
    /\ Perform("protect", LAMBDA s : InDir(s, p, LAMBDA t, d :
         UpdateDirEntryProtection(t, d, n, 1)))

\* "pfs3 undelete": the k-th entry of list_deldir, by name or by its index in
\* that list, which is passed on as the slot number.
UndeleteEntry(k, p, n) ==
  /\ k <= Len(ListDelDir(device.res))
  /\ Perform("undelete", LAMBDA s : InDir(s, p, LAMBDA t, d : Undelete(t, k, d, n)))

UndeleteNamed ==
  \E k \in 1..DelDirSlots, p \in Parents, n \in Names :
    Allowed("undelete") /\ UndeleteEntry(k, p, n)

\* The library's create_hardlink, on the anode of a file that is there.
Hardlink ==
  \E p \in Parents, n, m \in Names :
    /\ Allowed("link")
    /\ TypeAt(<<>>, m) = "file"
    /\ VfsCaller => TypeAt(p, n) = ""
    /\ Perform("link", LAMBDA s : InDir(s, p, LAMBDA t, d :
         LET es == ListDir(s.res, RootDir).es
         IN  CreateHardlink(t, d, n, es[Find(es, m)].anode)))

\* The process ends and the volume is opened again, as every CLI command does.
Reopen ==
  /\ mem # Loaded(device.res, device.root)
  /\ mem' = Loaded(device.res, device.root)
  /\ last' = [op |-> "open", ok |-> TRUE]
  /\ UNCHANGED <<device, count, shown>>

Next ==
  \/ WriteFile
  \/ CreateSoftlink
  \/ CreateDir
  \/ Delete
  \/ Rename
  \/ Protect
  \/ UndeleteNamed
  \/ Hardlink
  \/ Reopen

Spec == Init /\ [][Next]_vars

-----------------------------------------------------------------------------
(* Properties *)

AllContents == {Content(v, n) : v \in Versions, n \in 0..MaxBlocks}

\* The blocks that keep their kind for ever: the bitmap, the index, the deldir
\* and the superindex.  The others are handed out, given back and handed out.
Pinned ==
  (1..NumBitmaps) \cup {IndexBlk} \cup (IF DelDirSlots > 0 THEN {DelDirBlk} ELSE {})
    \cup (IF Large THEN {SuperBlk} ELSE {})
Spare == ResBlocks \ Pinned

\* An anode's blocks are never those.
Slot == {a \in [cs : Nat, bn : Nat, nx : Nat] :
           \A j \in 0..(a.cs - 1) : a.bn + j \in Spare \cup DataBlocks}
Entries == [name : Names, type : {"file", "dir", "soft", "link"}, anode : Nat,
            size : Nat, prot : Nat]

AnodeBlocks == [k : {"AB"}, slots : [0..(AnodesPerBlock - 1) -> Slot]]
IndexBlocks == [k : {"IB"}, ptr : [0..(IndexPerBlock - 1) -> Nat]]
SuperBlocks == [k : {"SB"}, ptr : [0..(IndexPerBlock - 1) -> {0, IndexBlk} \cup Spare]]
BitmapBlocks == [k : {"BM"}, free : SUBSET DataBlocks]
DirBlocks == [k : {"DB"}, es : Seq(Entries)]
DelDirBlocks == [k : {"DD"}, slots : [1..DelDirSlots ->
                   [anode : Nat, size : Nat, name : Names \cup {""}]]]
SpareBlocks == AnodeBlocks \cup IndexBlocks \cup DirBlocks \cup {Unused}

\* What block b may hold.
Fits(b, c) ==
  /\ b \in 1..NumBitmaps => c \in BitmapBlocks /\ c.free \subseteq BitmapRange(b)
  /\ b = IndexBlk => c \in IndexBlocks
  /\ DelDirSlots > 0 /\ b = DelDirBlk => c \in DelDirBlocks
  /\ Large /\ b = SuperBlk => c \in SuperBlocks
  /\ b \in Spare => c \in SpareBlocks

DiskOK(R) == R = [b \in ResBlocks |-> R[b]] /\ \A b \in ResBlocks : Fits(b, R[b])

\* The pending list: a block is on it once.
PendOK(p) ==
  /\ p \in Seq([blk : ResBlocks, c : BitmapBlocks \cup DelDirBlocks \cup SuperBlocks \cup SpareBlocks])
  /\ \A i \in 1..Len(p) : Fits(p[i].blk, p[i].c)
  /\ \A i, j \in 1..Len(p) : p[i].blk = p[j].blk => i = j

RootOK(root) == root.bfree \in Int /\ root.rfree \in Int /\ root.rbm \subseteq Spare

DataVal == (Versions \X (1..MaxBlocks)) \cup {<<0, 0>>, <<>>}

\* Type invariant, of the device and of the Writer struct, with a fault or a kill
\* at any device access: each block, written or pending, holds what its place
\* allows, no anode covers a pinned block or leaves the volume, no bitmap block
\* frees a data block of another, and no pinned block is ever handed out.
TypeOK ==
  /\ DiskOK(device.res) /\ RootOK(device.root) /\ PendOK(mem.pend)
  /\ device.data \in [DataBlocks -> DataVal]
  /\ mem.free \subseteq DataBlocks /\ mem.rbm \subseteq Spare
  /\ mem.bfree \in Int /\ mem.rfree \in Int

\* Every chain reachable from a directory entry or a deldir slot ends, and no
\* two of them share an anode or a block, within a chain or across chains
\* (alloc_anode, create_anode_chain, append_to_anode_chain).
NoCrossLink ==
  LET heads == DirHeads(device.res) \cup FileHeads(device.res)
      chain == [h \in heads |-> GetChain(device.res, h)]
      blocks == [h \in heads |-> BlocksOf(chain[h].chain)]
      anodes == [h \in heads |-> {a.nr : a \in ToSet(chain[h].chain)}]
  IN  /\ \A h \in heads : chain[h].ok /\ IsInjective(blocks[h])
      /\ \A g, h \in heads : g # h =>
           /\ anodes[g] \cap anodes[h] = {}
           /\ ToSet(blocks[g]) \cap ToSet(blocks[h]) = {}

\* No block that a file, a deldir entry, a directory or the index uses is
\* free, neither for this process nor for the next one that opens the volume.
NoDangling ==
  LET next == Loaded(device.res, device.root)
  IN  /\ DataInUse(device.res) \cap (mem.free \cup next.free) = {}
      /\ ReservedInUse(device.res) \cap (mem.rbm \cup next.rbm) = {}

\* Nothing leaks: outside an operation a block is free or in use.
NoLeak ==
  /\ mem.free \cup DataInUse(device.res) = DataBlocks
  /\ mem.rbm \cup ReservedInUse(device.res) = ResBlocks

\* write.rs test free_block_count_matches_bitmap: "rootblock free=... but
\* bitmap says ...": blocksfree is the number of set bits.
FreeCountExact ==
  /\ mem.bfree = Cardinality(mem.free)
  /\ mem.rfree = Cardinality(mem.rbm)

\* Whatever runs out or is refused, the counter never falls below the number of
\* set bits, so "blocksfree -= count" cannot wrap.
FreeCountNoWrap == mem.bfree >= Cardinality(mem.free) /\ mem.rfree >= 0

\* Once an operation returned Ok, closing and reopening the volume loses
\* nothing: no write is pending and the device has both bitmaps and counters.
DurableOnOk == last.ok => mem = Loaded(device.res, device.root)

\* A name, up to case, occurs at most once in a directory: write_file_in
\* "Check if file already exists - if so, overwrite it".
UniqueNames ==
  \A d \in DirHeads(device.res) :
    LET es == ListDir(device.res, d).es
    IN  \A i, j \in DOMAIN es : NameEq(es[i].name, es[j].name) => i = j

\* "Filename or index from `pfs3 deldir`": what is undeleted is the content of
\* the entry the user picked from the list.
UndeleteRestores ==
  [][\A k \in 1..DelDirSlots, p \in Parents, n \in Names :
       UndeleteEntry(k, p, n) /\ last'.ok =>
         LET es == ListDir(device'.res, SplitPath(device'.res, p)).es
             e == es[Find(es, n)]
             d == ListDelDir(device.res)[k]
         IN  ReadFileData(device'.res, device'.data, e.anode, e.size)
               = ReadFileData(device.res, device.data, d.anode, d.size)]_vars

\* The volume implements NodeStore: whatever an operation does to blocks,
\* anodes and bitmaps, its caller sees a file created, replaced, moved, removed
\* or restored as a whole, or nothing, or the torn overwrite of a full disk.
\* An entry keeps its anode through every write, chmod and rename
\* (overwrite_file_in: "The anode number stays stable - safe for FUSE inode
\* caching"), and a new anode is one that nothing else refers to.
Nodes == INSTANCE NodeStore WITH
           Root <- RootDir, Anodes <- UserAnodes, Keys <- {Fold[n] : n \in Names},
           NumSlots <- DelDirSlots, Zero <- <<0, 0>>,
           entries <- shown.entries, chains <- shown.chains, trash <- shown.bin
ImplementsNodeStore ==
  Nodes!NodeInit /\ [][Nodes!NodeNext(AllContents, {1})]_<<shown.entries, shown.chains, shown.bin>>
=============================================================================
