# Verification of pfs3

TLA+ models of `libpfs3`, the library that reads and writes Amiga PFS3 volumes, and
of the FUSE driver, checker and formatter built on it, with TLC runs on small
instances and, for every part of them, TLAPS proofs of what holds for every
instance. Paths are relative to the repository
(`crates/libpfs3/src/` unless said otherwise).

## The system

One process has a volume open and runs one operation at a time: the CLI opens,
operates and exits; the FUSE driver holds one mutex around every request. There
is no journal. What makes the library hard is not concurrency inside it but what
cuts an operation short: I/O errors that "?" passes up from any device access,
disks that fill up, processes that die and power that fails between two sector
writes, and the next operation, in this process or in one that reopens the
volume, that builds on what was left behind. In the driver the requests of several
clients interleave, and they meet in tables that are kept beside the volume: inodes,
names by spelling, one write buffer per inode.

| Component | State | Operations | Correct when |
|---|---|---|---|
| Block cache (`cache.rs`) | images by block, generation stamps | `read_reserved`, `invalidate` | a cached image is the device's; bounded; evicts the oldest |
| Reserved store (`writer.rs` 1205-1289) | `pending_writes` | `write_reserved`, `read_reserved_raw`, `flush_pending`, `update_rootblock` | writes are read back; the root cluster is written last, over durable blocks |
| Volume reader (`volume.rs`, `anode.rs`, `dir.rs`, `bitmap.rs`) | the open device | anode lookup, chains, listing, reading | follows the structures the writer leaves |
| Writer (`writer.rs`) | both bitmaps, counters, pending list | write, overwrite, mkdir, links, rename, delete, protect, undelete | blocks and anodes have one owner, none leaks, counters agree, names are unique, users see whole files |
| Deldir | a block of slots | `move_to_deldir`, `undelete`, `list_deldir` | what was deleted last can be restored |
| Formatter (`format.rs`, `src/cmd/mkfs.rs`) | the blocks written so far | `format_with_size` | an empty, consistent volume that a mount can read, or an untouched disk |
| Checker (`src/cmd/check.rs`) | counters of one scan | scan, repair | a clean report means a readable tree; a repair costs nothing intact but what the scan could not read, and leaves nothing to repair |
| FUSE driver (`crates/pfs3-fuse`) | inode table, name cache, write buffers, snapshot of the deldir | about 20 requests | tables say what the volume says; a close writes what its client wrote |
| Entry codec (`ondisk/direntry.rs`, `writer.rs` 474-579, 1085-1196) | bytes of directory blocks | build, parse, patch, remove | fields stay inside their entry and read back |
| Protection bits (`util.rs`) | none | parse and show specs | round trips |
| RDB, dates, CLI | none | pure functions, printing | |

They interact by calls. The writer reads chains and the index through the cache
and the device, and blocks through its pending list first: the two views differ
within an operation. All state that survives is on the device: reserved blocks
(anode, index, bitmap, directory and deldir blocks), the root cluster (counters
and reserved bitmap) and data blocks.

The hazards, each at its line, are listed in `PROJECT.json`.

## Modules

| Module | Models | Form |
|---|---|---|
| `BlockCache` | `cache.rs` | operators on a cache record; the u64 stamps are kept as the order they induce |
| `BlockStore` | what the store promises | abstract: the writer's view, the device, what may survive |
| `ReservedStore` | pending list, commit, cache, device | state machine, one action per sector write, sync, failure and crash |
| `ReservedStoreProofs`, `ReservedStoreRefinement`, `WriterProofs`, `CheckProofs`, `FuseProofs`, `FormatProofs`, `LayoutProofs` | | theorems |
| `Volume` | structures and readers | operators on the device image |
| `NodeStore` | what a volume promises its callers | abstract: entries, the chain of blocks behind each anode, the deldir |
| `Writer` | `writer.rs`, the CLI's undelete | state machine, one action per public operation; refines `NodeStore` |
| `Fuse` | `crates/pfs3-fuse` | state machine over `NodeStore`, one action per request |
| `Check` | `src/cmd/check.rs` | state machine over `Writer`: scan, then one commit per repair |
| `Format` | `format.rs`, what a mount reads | state machine, one action per group of writes, on numbers of real size |
| `DirBlock` | entries in directory blocks, protection bits | operators and one action per operation on a directory |
| `Layout` | `Format`, then `DirBlock` with the block size the format chose | composition |
| `MCWriter`, `MCFuse`, `MCCheck`, `MCLayout` | | values for constants a `.cfg` cannot write |

**ReservedStore.** `dev` is the device by sector, `surv` the values each sector
may have after a power loss (the synced one and every one written since), `root`
and `rootSurv` the same for the root cluster, whose content is abstracted to the
number of the commit that wrote it. `pc`, `queue` and `sector` say where
`update_rootblock` is. A commit is `BeginFlush` (`mem::take`), `WriteSector` per
sector, `FlushSync`, `RootWrite`, `RootSync`; `WriteSectorFails`, `SyncFails` and
`RootWriteFails` are the "?" exits, after which what the local list held is gone;
`Crash` picks a survivor for every sector and empties the memory. The auxiliary
variables `accepted`, `target`, `committed`, `suspect` and `lost` are read by no
step.

**Writer.** An operation runs to its end on one thread, so it is one action; its
body is written as the code is, as functions of a record with the device, the
writer's memory and an `ok` flag for "?". `Then` sequences two fallible steps,
`Ignore` is `let _ =`, `ForEach` a loop that "?" may leave. Every device access
passes `Io`, and `Perform` runs the operation without a fault, with one access
failing, or with the process dead from some access on and the volume reopened.
Block content is its kind and fields (see `Volume`); a file's content is a
sequence with one value per block, a file of n blocks has size n and an empty
file still owns a block. The cache is left out because `CacheCoherent` shows that
it only repeats the device; that is not true after a write failed half way, so
the stale reads of a block in `suspect` are not in this model. Reads of several
blocks count as one access, and a data or reserved block is written in one. A reserved block of another kind than its reader expects (which only a block with two
owners can come to be) has no entries, pointers or slots, and a patch leaves it alone;
the code would read and write its bytes all the same. `get_chain` gives up after
`MaxChainLen` anodes, a million in the code, 30 in the runs.
`VfsCaller = TRUE` restricts calls to what the kernel lets through to a FUSE file
system or a careful CLI user passes (names looked up first, no rename of a
directory into itself); `FALSE` calls the library without such checks.
`shown` is the entries, chains and trash as `Volume` reads them, the refinement
mapping to `NodeStore`.

**NodeStore** is the contract between the library and its callers: an operation that
returns `Ok` creates, overwrites, moves, removes or restores one file as a whole; an
overwrite that fails may leave the old size with the new beginning (`Torn`); a new
anode is one nothing refers to and an entry keeps its anode, which the driver turns
into inode numbers. `Writer` is shown to implement it and `Fuse` is built on it, so
that what is shown of the driver rests on operations the library was shown to have.

**Fuse.** `inodes`, `nameCache`, `writeBufs` and `deldir` are the fields of `FsInner`;
every handler takes the mutex first and keeps it, so each is one action. What the
kernel guarantees is in the guards: it addresses inodes that a reply named, creates
names whose lookup failed, unlinks and renames names whose lookup succeeded, checks
`rename(2)` and the modes (`DefaultPermissions`), and sends one `RELEASE` per `OPEN`
or `CREATE`. File contents are sequences of blocks. A protection is two bits, one for
RWED and one for HSPA.

An operation of the library may return `Err` after it changed the volume: the device
fails later in the same commit, or the next commit writes what the failed one left
pending. The handler then replies with an error and keeps its tables.

| Action | What the volume has after the `Err` |
|---|---|
| `CreateFails` | the new entry |
| `RemoveFails` | the entry is gone, its file deleted |
| `RemoveFailsHalfWay` | the entry is there, its file deleted |
| `RenameFailsHalfWay` | the target is gone, nothing is moved |
| `RenameFails` | the entry is moved, or is there under both names |
| `ReleaseFails` | some or all of the blocks of the buffer, the size of before |
| `ReleaseFailsLate` | the whole file |
| `SetProtFails` | the new bits |

`OpenWriteReadFails` is the read error of `open` that is taken for an empty file. A
failure that changes nothing is a request that was not made.

Three variables only observe. `want` is what the client of an open file expects in it.
`stale` has the name cache keys the driver leaves behind: other spellings of a name
removed or moved, and the names of an unlink, rmdir or rename that failed with the
volume changed. `spoilt` has the inodes that were used in a way the driver makes no
promise for: open twice with a writer among them, moved or removed while open,
truncated to nothing or by a `truncate(2)` without an open handle, or hit by an
operation that failed. A file that another file's buffer is closed over, or whose entry
gets another's bits, goes into `spoilt` in that same step: what the driver does to it
is not excluded by any property. The properties are about all the other keys and
inodes.

The model stops when the volume is `Lost`: a directory's blocks were overwritten with a
file's data (`DirLost`), or a failed operation left two entries with one anode, an
entry of a deleted file or a file without blocks (`Entangled`). The properties are
still checked in that last state.

`CacheFaithful` speaks of the place an inode number stands for (its anode and a key),
and not of the parent's record in the table: `rmdir` under a stale key drops the record
of a directory that is still there, which takes five requests to reach and came up in
the proof. `DeldirInoBase` stands for 2^31, from which the inodes of `.Trashcan` are
numbered.

**Check.** The scan is a set of operators on the device; a repair runs the writer's
own `RemoveDirEntry` and `UpdateRootblock` through `Perform`, so each may fail or be
killed at any access. The reads of the scan fail as well: the listing of any directory,
the chain of any entry, either bitmap; `unread` is the set of those that did. A listing
that fails is an error and an empty directory. A chain that cannot be read is an error
like a broken one: the entry goes into `broken_files` and a directory is not entered.
The data bitmap counts as 0 free blocks, and of the reserved one nothing is compared
(`SKIP`). `Damage` makes an anode in use point to itself, the way a chain
breaks that `get_chain` reports. The writer works before the check, not after: what an
unchecked volume does to later writes is the subject of `Writer`'s runs.

**Format.** The numbers are the code's: sectors, the tables of `calc_num_reserved`,
the limits `MAXSMALLDISK` and `MAXBITMAPINDEX`, reserved blocks of 1, 2 and 4 KiB. The
allocator hands blocks out in order because nothing is ever freed. A group of blocks
at equal distances (bitmap blocks, pointers in an index block) is its first member,
distance and count. The readers follow pointers block by block as `from_device`,
`get_bitmap_block` and `resolve_anode_block` do.

**DirBlock.** An entry is its fields, its length and the offsets its extra fields were
written at; a reader that looks at another offset finds nothing, so the three walks
over the optional fields (building, parsing, patching) are compared byte by byte.
A spec parses to a set: the one protection it means, or none when it is refused, as the
empty one is. `ByteLen` and `ReadBack` say how long a name is in UTF-8 and what its stored bytes read
as in Latin-1. `Low` stands for 2^32. `made` is what the callers were told. `Used` are
directories that AmigaOS may have left, with comments and extra fields; they have to be
sound (`SoundDir`), which `UsedAssumption` states and TLC evaluates for those of the run.
No name that a caller passes reads back as another one that is passed
(`NamesAssumption`): two names that differ after byte 107 are not in one instance.

Names of the form `...KeepsBits`, `...Reversed` (commented "a variant") are
definitions with a deliberate mistake. Nothing uses them except `mutants` in
`PROJECT.json`: put in the place of the definition they vary they make TLC report
the property named there.

## Runs

`tlc -workers 2 -config X.cfg M`. No run uses symmetry. All configurations but
`ReservedStore_faults` switch deadlock checking off because the number of operations
is bounded and a volume may be left alone; `ReservedStore` never stops (a cached read
is always possible between commits).

| Configuration | Module | Question | Result |
|---|---|---|---|
| `ReservedStore_faults` | `ReservedStore` | two commits, an I/O error, a power loss, in every order: cache coherence and bound, reading back, root barrier, what a crash may expose, refinement of `BlockStore` | holds |
| `Writer_ops` | `MCWriter` | four operations of six kinds in the root and a subdirectory, no faults; refinement of `NodeStore` | holds |
| `Writer_full` | `MCWriter` | writes into DiskFull, a deldir that fills, evicts and gives back; refinement of `NodeStore` | holds |
| `Writer_super` | `MCWriter` | superindex mode: new anode blocks and a new index block; unchecked calls, hard links | holds |
| `Writer_create` | `MCWriter` | creations cut by two I/O errors and two deaths of the process | holds |
| `Fuse` | `MCFuse` | four requests of any clients and any number of lookups and closes: tables against volume, what a close writes, chmod, and that buffers drain, with an operation that fails before or after it changed the volume | holds |
| `Check` | `MCCheck` | a volume written, killed or damaged, then checked and repaired; any one read of the scan fails or the repair is interrupted | holds |
| `Layout` | `MCLayout` | 17 disks around every boundary formatted with any write failing; three changes to new directories and to ones AmigaOS left | holds |
| `Writer_crosslink` | `MCWriter` | a new file whose directory block and anode block are both full | violated: one anode number twice |
| `Writer_undelete_index` | `MCWriter` | two undeletes by index | violated: another file comes back |
| `Fuse_retry` | `MCFuse` | a close that fails, then another open | violated: the kept buffer is replaced |
| `Layout_large` | `MCLayout` | the smallest disk with a superindex, and one sector less | violated: the root directory is not found |

The violated properties state what a comment or the documentation of the repository
says; `findings` quotes it. Those runs use the smallest instance on which the case
happens.

**What the passing runs do not claim.** `FreeCountExact` and `NoLeak` hold while no
write fails and nothing is undeleted. `alloc_data_blocks` clears bits as it goes and
returns DiskFull without setting them again, while `blocksfree` is reduced only on
success, so with `FreeCountExact` among its invariants `Writer_full` fails;
it checks `FreeCountNoWrap` instead, which in turn is not an invariant once an I/O
error has dropped a bitmap image and the volume is reopened. `undelete` copies the
content to new blocks and clears the old anodes under the comment "Free old anode
chain" (`writer.rs` 281) but never frees their blocks: with `NoLeak`, `Writer_full` fails.

`NoCrossLink` and `NoDangling` survive faults when files are only created or
overwritten at the same size (`Writer_create`), because allocation queues the bitmap
block before any block that refers to the new blocks. With deletes they do not: add
`"delete"` to `Ops` there and an I/O error in the commit leaves the entry on the device
while the bitmap in memory has its blocks free, so that the next file shares them; a
death of the process in the commit does the same, the bitmap block being written
before the directory block. An I/O error in the lookup of `write_file_in` counts as "no
such file" and costs `UniqueNames`. A power loss in a commit leaves some of its blocks
and not others; `CrashMixesTwoCommits` is what remains true. The comments at
`writer.rs` 37 and 1209 call the commit atomic; the README of the repository says that
it is not.

For the driver, the exceptions of `stale` and `spoilt` are the limits: emptying either
makes TLC report the corresponding case (a file truncated to nothing keeps its content
on the volume, a close under a name that was given to another file sets that file's
size, a name removed under one spelling is still answered under another). `Fuse` stops
at the point where the volume is `Lost`. What clients lose is the code's doing and
excepted, not excluded: a second open or a reader's close while a file is being
written, a file moved, removed or created over while open and the file its buffer is
then written over, a truncate of a closed file, a read error at open. Of a failed
operation, the names it was given and the files they stand for are excepted, and
nothing else is: whatever is made in the freed place afterwards has a true name and
record. An `rmdir` cut between the blocks of the directory and its entry (an entry that
leads to a directory without blocks) is not represented, nor is a deldir that cannot be
read, which the snapshot shows as empty.

For the checker, `CleanMeansSound` is all that a clean report means. The "bitmap
cross-reference" compares two counters; blocks of files that the bitmap has as free,
and lost blocks, are not noticed, and `force_remove_entry` leaves blocks of the removed
entry allocated. When the reserved bitmap cannot be read the command prints `SKIP`,
counts nothing and leaves `reserved_free` unchecked; when the data bitmap cannot be read,
`blocksfree` is compared with 0 and `--repair` stores that 0. `CleanMeansSound` excepts
each counter exactly then. Any error of `validate_anode_chain` puts the entry in
`broken_files`, a passing error of the device too, and `--repair` then removes an intact
entry with all that is below it; `RepairKeepsHealthy` excepts exactly those entries.
`RepairConverges` is about repairs in which nothing failed, from a scan that read
everything.

For the layout, a name longer than 107 bytes or not in ASCII does not read back and is
not found again; `FoundAgain` states that it harms no other entry. A file that grows
past 4 GiB in place whose entry has no field for the upper half reads as its size
modulo 4 GiB (`SizeReadsBack` names exactly this case). The string that `getxattr` shows
has dashes and is not itself a valid spec; `ShownBitsRestore` is about its letters, and
only where there are any: an entry that denies RWED and has no HSPA bit shows none, and
`parse_amiga_protection` refuses the empty spec.

**Bounds.** Constants named `Max...` bound operations, commits, errors, crashes and
content; the others are sizes of the volume. Two blocks of two sectors and two
commits suffice to interleave an old image, a new one and a torn one in every way;
one error and one crash are enough to leave residue and trip over it in the second
commit. For `Writer`, four operations reach create, fill, delete, reuse; eight data
blocks in two bitmap blocks make an allocation span bitmap blocks, and with
`DirCapacity = 2` the third name extends the directory. Anode numbers use `Stride`
larger than `AnodesPerBlock` in `Writer_ops` (split mode) and equal to it elsewhere.
Directories are listed two levels deep and operations reach one level.

For `Fuse`, four requests are an open, a write, something another client does, and one
more; lookups of names and closes are not counted. Two handles give a reader beside a
writer and two writers; three anodes over two names and a trashed file make an anode
number come back for another file; "a" and "A" are one name. One operation fails, with
three requests before or after it to meet what it left. For `Check`, three
operations, one kill, one bad anode and one error in the check itself, of a read of the
scan or of an access of a repair, with a kill of the repair in place of one of the
writer; no operation or repair makes more than `MaxIo` = 16 accesses. For `Layout`, the sizes are the smallest disk, one
below and above each size at which the number of reserved blocks, the size of the
root cluster, the number of bitmap or index blocks, the mode or the reserved block size
changes, and the largest TLC's integers hold; three changes suffice to fill a directory
block that AmigaOS left nearly full, to remove an entry from its middle and to add
another, and `Low` = 4 puts sizes on both sides of the 32-bit limit.

**Fairness.** In `Fuse`, weak fairness of `RELEASE` alone: the kernel sends it when the
last reference to a handle is closed, at the latest when the process that opened it
ends, and the handler is a finite piece of code under a mutex that every handler gives
back. It justifies `BuffersDrain`. Elsewhere none is assumed and no liveness is claimed:
every operation is a finite loop in one thread, and whether another is called is up to
the user.

## Proofs

`tlapm M.tla` for each of the seven modules. The theorems hold for every value of the
constants that satisfies the named assumptions of the modules.

**`ReservedStoreProofs`, `ReservedStoreRefinement`.** From finite blocks, positive sizes,
a `NoImage` that is not an image, and some data.

* `TypeCorrect`, `OneImagePerBlock`, `CacheCoherence`: the type invariant, one image
  per block, coherence. Coherence needs the other two: only because the queue has one
  image per block is the block in flight the only one the cache may differ on.
* `CacheStaysBounded`: an image enters a full cache only over the oldest one, and an
  image replaced or invalidated leaves no second one.
* `WritesAreReadBack`, `RootIsBarrier`: by the inductive invariant `CommitInv`, which
  says what an interrupted commit has done: the target of the commit is what was
  accepted (except for lost blocks), blocks no longer in the queue are on the device,
  the head is there up to `sector`, and after the sync every sector has one survivor,
  the target's. Root stamps of the current commit can only exist from then on.
* `CrashMixesTwo`: by `MixInv`, every survivor of a sector is the committed or the
  target value while no error has occurred; an error breaks this because the dropped
  commit's sectors stay in `surv` while `target` moves on.
* `FlushedFirst`: from `CommitInv`. When the flush is done the device is the target of
  the commit, and the target is what was accepted except for lost blocks.
* `StoreRefinement`: `ReservedStore` implements `BlockStore` under the mapping that
  takes the view of a block from the queue, else the pending list, else the device
  (`RefInv`; one image per block in queue and pending list makes the view a function).

**`WriterProofs`.** From `VolumeAssumption` (positive sizes; anode and index blocks as many
as `format` has room for), `LayoutAssumption` (the blocks `format` places are reserved
blocks) and `WriterAssumption`. Both index modes, split anodes or not, any number of
operations, blocks, names and deldir slots, callers that check first or not.

* `WriterTyped` (`TypeOK`), for any number of I/O errors and kills: each bitmap, index,
  deldir and superindex block keeps its kind, on the device and in the pending list;
  every other reserved block holds an anode, index or directory block or none; no anode
  covers a block of the first group or leaves the volume; neither bitmap has a bit
  outside its area.
* `WriterDurable` (`DurableOnOk`), with `MaxFaults = 0`: an I/O error is the one thing that
  can leave a bitmap in memory that its block on the device does not have, and a later
  commit of another operation would not repair that. A kill cannot: memory is gone.
* `WriterNoWrap` (`FreeCountNoWrap`), with `MaxFaults = 0` and `MaxKills = 0`, as in the
  runs: a kill between the bitmap blocks and the root cluster leaves more bits set than
  counted.

`TypeOK` does not carry itself over a step, let alone over one device access: whether a
chain can be followed depends on what every block of the index holds. The inductive
invariant is `Steady(m)`, "the record an operation would start with is `Good(m)`", with
a level `m` that says how much the constants allow. `Good(0)`: every block of the device,
and every image in the pending list, is one that `Fits` its place (the bitmap, index,
deldir and superindex blocks are of their kind for ever, with bits of their own range
and pointers into the reserved area only; any other block is an anode, index or directory
block or unused), pending blocks are distinct, and the reserved bitmap never offers a block
of the first group. That is also why `TypeOK` survives a volume whose chains are crossed
or whose bitmaps are stale. `Good(1)` adds `Sync`: each bitmap block as the writer sees it
is the bitmap in memory. `Good(2)` adds `Counted`: both counters, in memory and in the root
cluster, are at least the number of bits.

A public operation makes many device accesses, each of which may be the last, so the argument follows the code's call tree and not the actions: one lemma per helper
("called in a `Good(m)` state with arguments of its type it ends in one"), from `Io` and
`WriteReserved` to `WriteFileIn`; each loop is a function on `0..Len(q)` whose
value exists by `Iterate` and keeps `Good` by `Climb`, in place of an induction theorem. A
helper that commits ends `Done`: `ok` only if the device has everything (`Committed`).
`Perform` then gives each action a state of the level, or of level 0 after a fault, and
`Reopen` a state that is `Good` because `Loaded` reads only what `Fits`. TLC agrees that
`Inv` is an invariant on the instances of `Writer_full` and, with errors and kills,
`Writer_create`; it is not a run of its own.

**`CheckProofs`.** From the same assumptions: any volume that `Writer` leaves, with anodes
made to loop, repairs that fail or are killed at any access, checked again and again.

* `CleanReportSound` (`CleanMeansSound`). `CheckInv` has `Steady(0)`, because repairs are
  the writer's own operations on a volume that may be broken, and that a clean report is
  the report of the device as it is now: a repair that ended leaves either a report with
  findings or nothing to report. It holds whichever reads of the scan failed: a failed
  listing or chain is an error, so a scan without errors has seen the whole tree
  (`WholeTree`), and a failed bitmap is the exception stated. The rest is about the scan: a sequence of blocks without
  duplicates, claimed node by node, gives each node blocks of its own (`FlattenApart`), and
  a file whose size fits its blocks reads at that size (`ScanSound`).

**`FuseProofs`.** From `BoundsAssumption`, `InodesApart` (anode numbers below the ones of
`.Trashcan`) and `MountedAssumption` (the mounted volume has no two entries with one
anode, and none with the anode of a deleted file: there are no hard links). Any number
of requests, handles, failures, anodes, names and slots.

* `TypeCorrect`, `TrashInodesStayCurrent`, `CacheStaysFaithful`, `ReadsStayCurrent`,
  `ChmodKeepsTheFlags`, `CloseIsExact`. None of the properties carries itself over a
  step. `FuseInv` does, until an operation fails half way and entangles the volume, where
  the model stops with the properties still true (`Inv`). `FuseInv` says that the volume
  stays sound (`StoreOK`); a name that is not stale leads to what is there (`NamesOK`),
  and its record has that name and the entry's type (`RecordsOK`); a record that is not
  spoilt has its entry's place, type, protection and size (`PlacesOK`, `SizesOK`); a
  buffer that is not spoilt is the one of an open file, is what its client wrote, and
  will be written to that file's own entry (`BuffersOK`). The last is why a close is
  exact: other files may have been moved, removed or reused since the open, and
  operations on them may have failed.

**`FormatProofs`.** From `SizesAssumption`: any number of sectors from 64 to 2^31 - 1.

* `FormatRefusesCleanly`, `FormatLaysOutFittingVolume`, `FormatMakesBitmapCoverData`,
  `FormatMakesRootDirReadable`. `calc_num_reserved` is a staircase with 24 steps for
  these sizes; on each step the roundings of the geometry are linear arithmetic, which
  gives enough reserved blocks for the structures and enough room in the root cluster
  and the indexes for their bits and pointers (`Sizing`, `Sound`). `FormatInv` says what
  is on the disk in each phase; the readers of a mount are then evaluated on the
  finished disk. The run has 17 sizes, the theorems every one.

**`LayoutProofs`.** From `NamesAssumption`, `DirAssumption` and `UsedAssumption`, on top of
`FormatInv` for the block size of a new volume. Any names, sizes, specs, number of
changes and blocks.

* `EntriesStayInside`, `SizesReadBack`, `FilesAreFoundAgain`, `ShownBitsAlwaysRestore`,
  by the invariant `SoundDir`: blocks end inside their size, entries are well formed, each
  is what its caller was told, no anode and no name in use occurs twice. Well formed
  means that the flags follow name and comment and the flagged fields follow the flags;
  `WalksAgree` shows that the reader's walk, which skips a field that does not fit, and
  the writer's, which gives up there, then both end at the upper half of the size.
  `EndPosAppend`, `EndPosRemove` and `EndPosPatch` say where a block ends after each
  change; `AddSpots`, `RemoveSpots` and `PatchSpots` where each entry went. Without
  "no name twice" the first entry found could be another file's.

**Only model-checked.** `BuffersDrain` is liveness. `RootDirReadable` and the other
properties of the violated runs are false. `NoCrossLink`, `NoDangling`, `NoLeak`,
`FreeCountExact` and `UniqueNames` do not hold of `Writer` for all constants: a directory
block and an anode block that are full at the same time cross-link a chain
(`Writer_crosslink`), a hard link shares its target's blocks, and faults, DiskFull and
undeletes break the counters (see above). A theorem would need hypotheses on the sizes
that exclude the first, which nothing in the code does, and an invariant that relates
chains, index, bitmaps and the pending list to each other. `RepairConverges` and
`RepairKeepsHealthy` rest on the same structure (a repair removes an entry by its name,
from a directory whose blocks no other file may share), and the refinement of `NodeStore`
by `Writer` needs all of it.

## Not modelled

Partition tables (`rdb.rs`: a list read once), dates (nothing depends on them), the CLI
around the library calls. Of the writer, `set_volume_name`; of the reader,
`read_file_range`, of which `Fuse` has only that it reads up to the size in the inode
table; of the driver, `statfs` and the read-only mount, in which no handler changes
anything but the tables of `lookup` and `readdir`. `Fuse` does not move files out of the
deldir (no request undeletes) and has no soft links (no handler creates one). Names of
deldir entries are cut at 16 bytes, which no model has. Bits of the bitmaps beyond the
last block are assumed clear in `Writer`; `BitmapCoversData` shows that `format` leaves
them so. `Format` starts from a blank disk: reformatting one with an old volume writes
the new root cluster first, and what an interruption then leaves is not modelled.

## Plan

1. `ReservedStore`, its abstraction and its proofs: done.
2. `Volume`, `Writer`, `NodeStore`: done for the operations listed above.
3. `Fuse`, `Check`, `Format`, `DirBlock`: done.
4. Proofs of the commit protocol, the driver, the formatter and the directory: done.
5. Proofs of the writer's shape, durability and counters, and of a clean report: done.
6. Proofs still worth having: the ownership of blocks by anodes, on top of `Good`, for
   volumes in which no directory extension and anode block allocation can coincide.
