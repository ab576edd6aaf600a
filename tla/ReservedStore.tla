--------------------------- MODULE ReservedStore ---------------------------
(***************************************************************************)
(* How the writer reads and writes reserved blocks and commits them:       *)
(* read_reserved_raw, write_reserved, flush_pending and update_rootblock   *)
(* of crates/libpfs3/src/writer.rs, over the block cache (cache.rs) and a  *)
(* block device whose sectors become durable at dev.flush().               *)
(*                                                                         *)
(* One thread drives it, so its steps interleave only with I/O errors and  *)
(* crashes; a commit is cut at every sector it writes.                     *)
(***************************************************************************)
EXTENDS BlockCache, Integers, Sequences

CONSTANTS
  Data,         \* contents of a reserved block
  Rescluster,   \* sectors per reserved block
  RootSectors,  \* sectors of the root cluster
  MaxCommits,   \* bound: update_rootblock calls
  MaxFaults,    \* bound: I/O errors
  MaxCrashes    \* bound: power losses

ASSUME ResclusterPositive == Rescluster \in Nat \ {0}
ASSUME RootSectorsPositive == RootSectors \in Nat \ {0}
ASSUME BoundsNat == MaxCommits \in Nat /\ MaxFaults \in Nat /\ MaxCrashes \in Nat

Sectors == 1..Rescluster
Image == [Sectors -> Data]
ASSUME NoImageOutside == NoImage \notin Image
ASSUME DataNonEmpty == Data # {}

\* All sectors of a block that was written as one image.
Whole(d) == [s \in Sectors |-> d]

VARIABLES
  dev,        \* what the device returns, sector by sector
  surv,       \* per sector, the values that may survive a power loss
  cache,      \* Volume.cache
  pending,    \* Writer.pending_writes
  queue,      \* flush_pending's local "writes", what is left of it
  sector,     \* next sector of Head(queue) to write
  pc,         \* where update_rootblock is; "idle" outside it
  root,       \* per sector of the root cluster, the commit that wrote it
  rootSurv,   \* the same, as it may survive a power loss
  commits,    \* number of the latest commit (abstracts the datestamp)
  faults, crashes

\* Observations that no step reads.
VARIABLES
  accepted,   \* per block, the image of the last Ok(()) of write_reserved
  target,     \* what the latest commit set out to make durable
  committed,  \* what the last successful commit made durable
  suspect,    \* blocks whose device write failed half way
  lost        \* blocks whose accepted image a failed commit dropped

coreVars == <<dev, surv, cache, pending, queue, sector, pc>>
rootVars == <<root, rootSurv, commits>>
ghostVars == <<accepted, target, committed, suspect, lost>>
vars == <<coreVars, rootVars, faults, crashes, ghostVars>>

Write == [blk : Blocks, data : Data]

Init ==
  /\ dev \in {[b \in Blocks |-> Whole(d)] : d \in Data}
  /\ surv = [b \in Blocks |-> [s \in Sectors |-> {dev[b][s]}]]
  /\ cache = EmptyCache
  /\ pending = <<>> /\ queue = <<>> /\ sector = 1 /\ pc = "idle"
  /\ root = [s \in 1..RootSectors |-> 0]
  /\ rootSurv = [s \in 1..RootSectors |-> {0}]
  /\ commits = 0 /\ faults = 0 /\ crashes = 0
  /\ accepted = dev /\ target = dev /\ committed = dev
  /\ suspect = {} /\ lost = {}

\* read_reserved_raw: the pending image if there is one, else the device,
\* past the cache.
RawRead(b) ==
  IF \E i \in DOMAIN pending : pending[i].blk = b
    THEN Whole(pending[CHOOSE i \in DOMAIN pending : pending[i].blk = b].data)
    ELSE dev[b]

\* BlockCache::read_reserved by the anode and directory readers.  A failed
\* device read leaves the cache as it was.
CachedRead(b) ==
  /\ pc = "idle"
  /\ cache' = ReadThrough(cache, b, dev[b])
  /\ UNCHANGED <<dev, surv, pending, queue, sector, pc, rootVars,
                 faults, crashes, ghostVars>>

\* The pending list after write_reserved: an image already listed for the
\* block is replaced where it stands.
\* (First a variant that always appends.)
UpsertAppend(p, b, d) == Append(p, [blk |-> b, data |-> d])
Upsert(p, b, d) ==
  IF \E i \in DOMAIN p : p[i].blk = b
    THEN [i \in DOMAIN p |-> IF p[i].blk = b THEN [blk |-> b, data |-> d]
                                             ELSE p[i]]
    ELSE Append(p, [blk |-> b, data |-> d])

WriteReserved(b, d) ==
  /\ pc = "idle"
  /\ pending' = Upsert(pending, b, d)
  /\ cache' = Invalidate(cache, b)
  /\ accepted' = [accepted EXCEPT ![b] = Whole(d)]
  /\ suspect' = suspect \ {b}
  /\ lost' = lost \ {b}
  /\ UNCHANGED <<dev, surv, queue, sector, pc, rootVars, faults, crashes,
                 target, committed>>

\* update_rootblock enters flush_pending, which takes the pending list.
BeginFlush ==
  /\ pc = "idle"
  /\ commits < MaxCommits
  /\ queue' = pending
  /\ pending' = <<>>
  /\ sector' = 1
  /\ pc' = "flush"
  /\ commits' = commits + 1
  /\ target' = [b \in Blocks |-> RawRead(b)]
  /\ UNCHANGED <<dev, surv, cache, root, rootSurv, faults, crashes,
                 accepted, committed, suspect, lost>>

\* The device takes one sector of the block at the head of the queue.
\* (First a variant that writes every sector to the place of the first.)
PutSectorFirst(b, s, d) ==
  /\ dev' = [dev EXCEPT ![b][1] = d]
  /\ surv' = [surv EXCEPT ![b][1] = @ \cup {d}]
PutSector(b, s, d) ==
  /\ dev' = [dev EXCEPT ![b][s] = d]
  /\ surv' = [surv EXCEPT ![b][s] = @ \cup {d}]

\* write_reserved_blocks writes sector by sector; once the last one is
\* written flush_pending invalidates the block and goes on to the next.
\* (First a variant that keeps the block cached.)
WriteSectorNoInvalidate ==
  /\ pc = "flush" /\ queue # <<>>
  /\ PutSector(Head(queue).blk, sector, Head(queue).data)
  /\ IF sector < Rescluster
       THEN sector' = sector + 1 /\ UNCHANGED <<queue, cache, suspect>>
       ELSE /\ sector' = 1
            /\ queue' = Tail(queue)
            /\ UNCHANGED cache
            /\ suspect' = suspect \ {Head(queue).blk}
  /\ UNCHANGED <<pending, pc, rootVars, faults, crashes, accepted, target,
                 committed, lost>>
WriteSector ==
  /\ pc = "flush" /\ queue # <<>>
  /\ PutSector(Head(queue).blk, sector, Head(queue).data)
  /\ IF sector < Rescluster
       THEN sector' = sector + 1 /\ UNCHANGED <<queue, cache, suspect>>
       ELSE /\ sector' = 1
            /\ queue' = Tail(queue)
            /\ cache' = Invalidate(cache, Head(queue).blk)
            /\ suspect' = suspect \ {Head(queue).blk}
  /\ UNCHANGED <<pending, pc, rootVars, faults, crashes, accepted, target,
                 committed, lost>>

AllDurable == [b \in Blocks |-> [s \in Sectors |-> {dev[b][s]}]]

\* dev.flush() at the end of flush_pending.
\* (First a variant without it.)
FlushWithoutSync ==
  /\ pc = "flush" /\ queue = <<>>
  /\ pc' = "root"
  /\ UNCHANGED <<dev, surv, cache, pending, queue, sector, rootVars, faults,
                 crashes, ghostVars>>
FlushSync ==
  /\ pc = "flush" /\ queue = <<>>
  /\ surv' = AllDurable
  /\ pc' = "root"
  /\ UNCHANGED <<dev, cache, pending, queue, sector, rootVars, faults,
                 crashes, ghostVars>>

\* The root cluster is read, patched (datestamp, counters, reserved bitmap)
\* and written; the sectors in S have reached the device.
\* (First a variant that stamps it with the commit after this one.)
PutRootNext(S) ==
  /\ root' = [s \in 1..RootSectors |-> IF s \in S THEN commits + 1 ELSE root[s]]
  /\ rootSurv' = [s \in 1..RootSectors |-> rootSurv[s] \cup {root'[s]}]
PutRoot(S) ==
  /\ root' = [s \in 1..RootSectors |-> IF s \in S THEN commits ELSE root[s]]
  /\ rootSurv' = [s \in 1..RootSectors |->
                    IF s \in S THEN rootSurv[s] \cup {commits} ELSE rootSurv[s]]

RootWrite ==
  /\ pc = "root"
  /\ PutRoot(1..RootSectors)
  /\ pc' = "rootsync"
  /\ UNCHANGED <<dev, surv, cache, pending, queue, sector, commits, faults,
                 crashes, ghostVars>>

RootSync ==
  /\ pc = "rootsync"
  /\ surv' = AllDurable
  /\ rootSurv' = [s \in 1..RootSectors |-> {root[s]}]
  /\ pc' = "idle"
  /\ committed' = target
  /\ UNCHANGED <<dev, cache, pending, queue, sector, root, commits, faults,
                 crashes, accepted, target, suspect, lost>>

-----------------------------------------------------------------------------
(* I/O errors: "?" leaves update_rootblock at once.  The list taken from   *)
(* pending_writes is a local, so what it still held is gone.               *)

Fail ==
  /\ faults < MaxFaults
  /\ faults' = faults + 1
  /\ pc' = "idle"
  /\ queue' = <<>>
  /\ sector' = 1
  /\ UNCHANGED <<cache, pending, commits, crashes, accepted, target, committed>>

\* A sector write of flush_pending fails, before or after the device took it.
WriteSectorFails ==
  /\ pc = "flush" /\ queue # <<>>
  /\ \/ UNCHANGED <<dev, surv>>
     \/ PutSector(Head(queue).blk, sector, Head(queue).data)
  /\ Fail
  /\ suspect' = suspect \cup {Head(queue).blk}
  /\ lost' = lost \cup {queue[i].blk : i \in DOMAIN queue}
  /\ UNCHANGED <<root, rootSurv>>

\* A sync fails: nothing more is known to be durable.
SyncFails ==
  /\ (pc = "flush" /\ queue = <<>>) \/ pc = "rootsync"
  /\ Fail
  /\ UNCHANGED <<dev, surv, root, rootSurv, suspect, lost>>

\* Reading the root cluster fails, or writing it does after some sectors.
RootWriteFails ==
  /\ pc = "root"
  /\ \E S \in SUBSET (1..RootSectors) : PutRoot(S)
  /\ Fail
  /\ UNCHANGED <<dev, surv, suspect, lost>>

\* Power loss and reopen: every sector holds a value it had since the last
\* sync; the writer's memory starts empty.
Crash ==
  /\ crashes < MaxCrashes
  /\ crashes' = crashes + 1
  /\ dev' \in [Blocks -> Image]
  /\ \A b \in Blocks : \A s \in Sectors : dev'[b][s] \in surv[b][s]
  /\ surv' = [b \in Blocks |-> [s \in Sectors |-> {dev'[b][s]}]]
  /\ root' \in [1..RootSectors -> 0..MaxCommits]
  /\ \A s \in 1..RootSectors : root'[s] \in rootSurv[s]
  /\ rootSurv' = [s \in 1..RootSectors |-> {root'[s]}]
  /\ cache' = EmptyCache
  /\ pending' = <<>> /\ queue' = <<>> /\ sector' = 1 /\ pc' = "idle"
  /\ accepted' = dev' /\ target' = dev' /\ committed' = dev'
  /\ suspect' = {} /\ lost' = {}
  /\ UNCHANGED <<commits, faults>>

Next ==
  \/ \E b \in Blocks : CachedRead(b)
  \/ \E b \in Blocks, d \in Data : WriteReserved(b, d)
  \/ BeginFlush
  \/ WriteSector
  \/ FlushSync
  \/ RootWrite
  \/ RootSync
  \/ WriteSectorFails
  \/ SyncFails
  \/ RootWriteFails
  \/ Crash

Spec == Init /\ [][Next]_vars

-----------------------------------------------------------------------------
\* Type invariant of the store (state of Writer, BlockCache and the device).
TypeOK ==
  /\ dev \in [Blocks -> Image]
  /\ surv \in [Blocks -> [Sectors -> SUBSET Data]]
  /\ cache \in [img : [Blocks -> Image \cup {NoImage}],
                older : SUBSET (Blocks \X Blocks)]
  /\ pending \in Seq(Write) /\ queue \in Seq(Write)
  /\ sector \in Sectors
  /\ pc \in {"idle", "flush", "root", "rootsync"}
  /\ root \in [1..RootSectors -> 0..MaxCommits]
  /\ rootSurv \in [1..RootSectors -> SUBSET (0..MaxCommits)]
  /\ commits \in 0..MaxCommits
  /\ faults \in 0..MaxFaults /\ crashes \in 0..MaxCrashes
  /\ accepted \in [Blocks -> Image] /\ target \in [Blocks -> Image]
  /\ committed \in [Blocks -> Image]
  /\ suspect \subseteq Blocks /\ lost \subseteq Blocks

OneEntryPerBlock(p) ==
  \A i, j \in DOMAIN p : p[i].blk = p[j].blk => i = j

\* write_reserved keeps at most one pending image per block, so that
\* flush_pending writes no block twice and the reverse scan of
\* read_reserved_raw has one answer.
PendingDistinct == OneEntryPerBlock(pending) /\ OneEntryPerBlock(queue)

\* The block whose sectors flush_pending is writing right now.
InFlight(b) == pc = "flush" /\ queue # <<>> /\ Head(queue).blk = b

\* A cached image never differs from the device, in any order of reads,
\* writes and commits, except for the block in flight and for blocks whose
\* write failed half way (those stay cached: the "?" skips the invalidate).
CacheCoherent ==
  \A b \in Blocks :
    \/ cache.img[b] = NoImage
    \/ cache.img[b] = dev[b]
    \/ b \in suspect
    \/ InFlight(b)

\* Between operations read_reserved_raw returns the image last accepted by
\* write_reserved, through dedup, commits and crashes, unless a failed commit
\* dropped it.
ReadYourWrites ==
  pc = "idle" => \A b \in Blocks : RawRead(b) = accepted[b] \/ b \in lost

\* "Write rootblock cluster last": if any sector of the root cluster can
\* survive with the latest commit's stamp, every reserved block survives with
\* exactly the image that commit set out to write, whatever errors occurred.
RootBarrier ==
  (\E s \in 1..RootSectors : commits \in rootSurv[s])
    => \A b \in Blocks : \A s \in Sectors : surv[b][s] = {target[b][s]}

\* The cache never exceeds its capacity and always has exactly one entry to
\* evict: the generation stamps order the entries totally.
CacheBounded ==
  /\ Cardinality(Held(cache)) <= Capacity
  /\ Held(cache) # {} => \E k \in Held(cache) : Oldest(cache) = {k}

\* writer.rs:37 "Pending reserved block writes, flushed ... before rootblock
\* update": when the root cluster is about to be written, the device has the
\* latest accepted image of every block that no failed commit has dropped.
FlushedBeforeRoot ==
  pc = "root" => \A b \in Blocks : dev[b] = accepted[b] \/ b \in lost

\* Without I/O errors a power loss never exposes an image that belongs to
\* neither the last commit nor the interrupted one: each sector is from one
\* of the two.
CrashMixesTwoCommits ==
  [][crashes' # crashes /\ faults = 0 =>
       \A b \in Blocks : \A s \in Sectors :
         dev'[b][s] \in {committed[b][s], target[b][s]}]_vars

-----------------------------------------------------------------------------
\* The writer's view of a block while a commit is under way: the image still
\* queued, the pending one, or the device's.
View(b) ==
  IF \E i \in DOMAIN queue : queue[i].blk = b
    THEN Whole(queue[CHOOSE i \in DOMAIN queue : queue[i].blk = b].data)
    ELSE RawRead(b)

Store == INSTANCE BlockStore WITH
  view <- [b \in Blocks |-> View(b)], disk <- dev, since <- surv

\* The pending list, the cache and the commit phases implement BlockStore:
\* sectors of the device only move to the writer's view of them, and failures
\* and power losses do no more than it allows.
ImplementsBlockStore == Store!StoreSpec
=============================================================================
