------------------------ MODULE ReservedStoreProofs ------------------------
(***************************************************************************)
(* Proofs about ReservedStore for every value of its constants: any number *)
(* of blocks and sectors, any cache capacity, any number of commits, I/O   *)
(* errors and power losses.                                                *)
(***************************************************************************)
EXTENDS ReservedStore, SequenceTheorems, FiniteSetTheorems, TLAPS

CacheType ==
  [img : [Blocks -> Image \cup {NoImage}], older : SUBSET (Blocks \X Blocks)]

-----------------------------------------------------------------------------
(* The block cache *)

\* Removing an entry gives a cache (BlockCache::invalidate).
LEMMA InvalidateType ==
  ASSUME NEW c \in CacheType, NEW b
  PROVE  Invalidate(c, b) \in CacheType
BY DEF CacheType, Invalidate, OlderWithout

\* What invalidate and eviction do to images: they only make them disappear.
LEMMA InvalidateImages ==
  ASSUME NEW c \in CacheType, NEW b
  PROVE  /\ \A a \in Blocks : \/ Invalidate(c, b).img[a] = NoImage
                              \/ Invalidate(c, b).img[a] = c.img[a]
         /\ b \in Blocks => Invalidate(c, b).img[b] = NoImage
BY DEF CacheType, Invalidate

\* Eviction gives a cache with no new image, whichever entry goes.
LEMMA MakeRoomImages ==
  ASSUME NEW c \in CacheType
  PROVE  /\ MakeRoom(c) \in CacheType
         /\ \A a \in Blocks : \/ MakeRoom(c).img[a] = NoImage
                              \/ MakeRoom(c).img[a] = c.img[a]
<1>1. CASE Cardinality(Held(c)) >= Capacity
  BY <1>1, InvalidateType, InvalidateImages DEF MakeRoom
<1>2. CASE ~(Cardinality(Held(c)) >= Capacity)
  BY <1>2 DEF MakeRoom
<1> QED BY <1>1, <1>2

\* A read through the cache gives a cache in which every image was there
\* before or is the one just read (BlockCache::read_reserved).
LEMMA ReadThroughImages ==
  ASSUME NEW c \in CacheType, NEW b \in Blocks, NEW image \in Image
  PROVE  /\ ReadThrough(c, b, image) \in CacheType
         /\ \A a \in Blocks : \/ ReadThrough(c, b, image).img[a] = NoImage
                              \/ ReadThrough(c, b, image).img[a] = c.img[a]
                              \/ a = b /\ ReadThrough(c, b, image).img[a] = image
<1>1. CASE c.img[b] # NoImage
  <2>1. Touch(c, b) \in CacheType
    BY DEF Touch, CacheType, OlderWithout, Held
  <2>2. Touch(c, b).img = c.img
    BY DEF Touch, CacheType
  <2> QED BY <1>1, <2>1, <2>2 DEF ReadThrough
<1>2. CASE c.img[b] = NoImage
  <2> DEFINE m == MakeRoom(c)
  <2>1. m \in CacheType
    BY MakeRoomImages
  <2>2. Insert(c, b, image) \in CacheType
    BY <2>1 DEF Insert, CacheType, Held
  <2>3. Insert(c, b, image).img = [m.img EXCEPT ![b] = image]
    BY DEF Insert
  <2>4. \A a \in Blocks : m.img[a] = NoImage \/ m.img[a] = c.img[a]
    BY MakeRoomImages
  <2>5. \A a \in Blocks : \/ Insert(c, b, image).img[a] = NoImage
                          \/ Insert(c, b, image).img[a] = c.img[a]
                          \/ a = b /\ Insert(c, b, image).img[a] = image
    BY <2>1, <2>3, <2>4 DEF CacheType
  <2> QED BY <1>2, <2>2, <2>5 DEF ReadThrough
<1> QED BY <1>1, <1>2

LEMMA EmptyCacheType == EmptyCache \in CacheType
BY DEF EmptyCache, CacheType

-----------------------------------------------------------------------------
(* The pending list *)

LEMMA WholeType == ASSUME NEW d \in Data PROVE Whole(d) \in Image
BY DEF Whole, Image

LEMMA EntryType ==
  ASSUME NEW p \in Seq(Write), NEW i \in DOMAIN p
  PROVE  p[i] \in Write /\ p[i].blk \in Blocks /\ p[i].data \in Data
<1>1. i \in 1..Len(p)
  BY LenProperties
<1>2. p[i] \in Write
  BY <1>1, ElementOfSeq
<1> QED BY <1>2 DEF Write

\* write_reserved keeps the pending list a list of writes.
LEMMA UpsertType ==
  ASSUME NEW p \in Seq(Write), NEW b \in Blocks, NEW d \in Data
  PROVE  Upsert(p, b, d) \in Seq(Write)
<1> DEFINE w == [blk |-> b, data |-> d]
<1>1. w \in Write
  BY DEF Write
<1>2. CASE \E i \in DOMAIN p : p[i].blk = b
  <2> DEFINE e(i) == IF p[i].blk = b THEN w ELSE p[i]
  <2>1. DOMAIN p = 1..Len(p) /\ Len(p) \in Nat
    BY LenProperties
  <2>2. Upsert(p, b, d) = [i \in 1..Len(p) |-> e(i)]
    BY <1>2, <2>1 DEF Upsert
  <2>3. \A i \in 1..Len(p) : e(i) \in Write
    BY <1>1, <2>1, EntryType
  <2> HIDE DEF e
  <2>4. [i \in 1..Len(p) |-> e(i)] \in Seq(Write)
    BY <2>1, <2>3, IsASeq
  <2> QED BY <2>2, <2>4
<1>3. CASE ~ \E i \in DOMAIN p : p[i].blk = b
  BY <1>1, <1>3 DEF Upsert
<1> QED BY <1>2, <1>3

\* The image read_reserved_raw returns.
LEMMA RawReadType == ASSUME TypeOK, NEW b \in Blocks PROVE RawRead(b) \in Image
<1>1. CASE \E i \in DOMAIN pending : pending[i].blk = b
  <2> DEFINE i == CHOOSE i \in DOMAIN pending : pending[i].blk = b
  <2>1. i \in DOMAIN pending
    BY <1>1
  <2>2. pending[i].data \in Data
    BY <2>1, EntryType DEF TypeOK
  <2> QED BY <1>1, <2>2, WholeType DEF RawRead
<1>2. CASE ~ \E i \in DOMAIN pending : pending[i].blk = b
  BY <1>2 DEF RawRead, TypeOK
<1> QED BY <1>1, <1>2

-----------------------------------------------------------------------------
(* Type correctness *)

LEMMA PutSectorType ==
  ASSUME TypeOK, NEW b \in Blocks, NEW s \in Sectors, NEW d \in Data,
         PutSector(b, s, d)
  PROVE  dev' \in [Blocks -> Image] /\ surv' \in [Blocks -> [Sectors -> SUBSET Data]]
BY DEF TypeOK, PutSector, Image

LEMMA PutRootType ==
  ASSUME TypeOK, NEW S, PutRoot(S)
  PROVE  /\ root' \in [1..RootSectors -> 0..MaxCommits]
         /\ rootSurv' \in [1..RootSectors -> SUBSET (0..MaxCommits)]
BY DEF TypeOK, PutRoot

LEMMA HeadOfQueue ==
  ASSUME TypeOK, queue # <<>>
  PROVE  Head(queue).blk \in Blocks /\ Head(queue).data \in Data
         /\ Tail(queue) \in Seq(Write)
<1>1. Head(queue) \in Write /\ Tail(queue) \in Seq(Write)
  BY HeadTailProperties DEF TypeOK
<1> QED BY <1>1 DEF Write

LEMMA AllDurableType ==
  ASSUME TypeOK PROVE AllDurable \in [Blocks -> [Sectors -> SUBSET Data]]
BY DEF TypeOK, AllDurable, Image

LEMMA InitTypeOK == Init => TypeOK
<1> SUFFICES ASSUME Init PROVE TypeOK
  OBVIOUS
<1>1. dev \in [Blocks -> Image]
  BY WholeType DEF Init
<1>2. cache \in CacheType
  BY EmptyCacheType DEF Init
<1>3. surv \in [Blocks -> [Sectors -> SUBSET Data]]
  BY <1>1 DEF Init, Image
<1> QED
  BY <1>1, <1>2, <1>3, BoundsNat, ResclusterPositive DEF Init, TypeOK, CacheType, Sectors

\* Every step preserves the type invariant.
LEMMA NextTypeOK == TypeOK /\ [Next]_vars => TypeOK'
<1> SUFFICES ASSUME TypeOK, [Next]_vars PROVE TypeOK'
  OBVIOUS
<1> USE DEF rootVars, ghostVars
<1>0. cache \in CacheType
  BY DEF TypeOK, CacheType
<1>1. ASSUME NEW b \in Blocks, CachedRead(b) PROVE TypeOK'
  <2>1. cache' \in CacheType
    BY <1>0, <1>1, ReadThroughImages DEF CachedRead, TypeOK
  <2> QED BY <1>1, <2>1 DEF CachedRead, TypeOK, CacheType
<1>2. ASSUME NEW b \in Blocks, NEW d \in Data, WriteReserved(b, d) PROVE TypeOK'
  <2>1. cache' \in CacheType
    BY <1>0, <1>2, InvalidateType DEF WriteReserved
  <2>2. pending' \in Seq(Write)
    BY <1>2, UpsertType DEF WriteReserved, TypeOK
  <2>3. accepted' \in [Blocks -> Image]
    BY <1>2, WholeType DEF WriteReserved, TypeOK
  <2> QED BY <1>2, <2>1, <2>2, <2>3 DEF WriteReserved, TypeOK, CacheType
<1>3. CASE BeginFlush
  <2>1. target' \in [Blocks -> Image]
    BY <1>3, RawReadType DEF BeginFlush
  <2>2. commits' \in 0..MaxCommits /\ sector' \in Sectors
    BY <1>3, BoundsNat, ResclusterPositive DEF BeginFlush, TypeOK, Sectors
  <2>3. pending' \in Seq(Write) /\ queue' \in Seq(Write)
    BY <1>3 DEF BeginFlush, TypeOK
  <2> QED BY <1>3, <2>1, <2>2, <2>3 DEF BeginFlush, TypeOK
<1>4. CASE WriteSector
  <2>1. dev' \in [Blocks -> Image] /\ surv' \in [Blocks -> [Sectors -> SUBSET Data]]
    BY <1>4, HeadOfQueue, PutSectorType DEF WriteSector, TypeOK
  <2>2. cache' \in CacheType
    BY <1>0, <1>4, InvalidateType DEF WriteSector
  <2>3. queue' \in Seq(Write) /\ suspect' \subseteq Blocks
    BY <1>4, HeadOfQueue DEF WriteSector, TypeOK
  <2>4. sector' \in Sectors
    BY <1>4, ResclusterPositive DEF WriteSector, TypeOK, Sectors
  <2> QED BY <2>4, <1>4, <2>1, <2>2, <2>3 DEF WriteSector, TypeOK, CacheType
<1>5. CASE FlushSync
  BY <1>5, AllDurableType DEF FlushSync, TypeOK
<1>6. CASE RootWrite
  BY <1>6, PutRootType DEF RootWrite, TypeOK
<1>7. CASE RootSync
  BY <1>7, AllDurableType DEF RootSync, TypeOK
<1>8. ASSUME Fail PROVE faults' \in 0..MaxFaults /\ sector' \in Sectors /\ queue' \in Seq(Write)
  BY <1>8, BoundsNat, ResclusterPositive DEF Fail, TypeOK, Sectors
<1>9. CASE WriteSectorFails
  <2>1. dev' \in [Blocks -> Image] /\ surv' \in [Blocks -> [Sectors -> SUBSET Data]]
    BY <1>9, HeadOfQueue, PutSectorType DEF WriteSectorFails, TypeOK
  <2>2. suspect' \subseteq Blocks /\ lost' \subseteq Blocks
    BY <1>9, HeadOfQueue, EntryType DEF WriteSectorFails, TypeOK
  <2> QED BY <1>8, <1>9, <2>1, <2>2 DEF WriteSectorFails, Fail, TypeOK
<1>10. CASE SyncFails
  BY <1>8, <1>10 DEF SyncFails, Fail, TypeOK
<1>11. CASE RootWriteFails
  BY <1>8, <1>11, PutRootType DEF RootWriteFails, Fail, TypeOK
<1>12. CASE Crash
  <2>1. cache' \in CacheType
    BY <1>12, EmptyCacheType DEF Crash
  <2>2. surv' \in [Blocks -> [Sectors -> SUBSET Data]]
    BY <1>12 DEF Crash, Image
  <2>3. crashes' \in 0..MaxCrashes /\ sector' \in Sectors
    BY <1>12, BoundsNat, ResclusterPositive DEF Crash, TypeOK, Sectors
  <2>4. rootSurv' \in [1..RootSectors -> SUBSET (0..MaxCommits)]
    BY <1>12 DEF Crash
  <2> QED BY <1>12, <2>1, <2>2, <2>3, <2>4 DEF Crash, TypeOK, CacheType
<1>13. CASE UNCHANGED vars
  BY <1>13 DEF vars, coreVars, TypeOK
<1> QED
  BY <1>1, <1>2, <1>3, <1>4, <1>5, <1>6, <1>7, <1>9, <1>10, <1>11, <1>12, <1>13 DEF Next

\* The state of the writer, the cache and the device keeps its type through
\* every operation, I/O error and power loss.
THEOREM TypeCorrect == Spec => []TypeOK
BY InitTypeOK, NextTypeOK, PTL DEF Spec

-----------------------------------------------------------------------------
(* One pending image per block *)

\* What write_reserved leaves in the list: block b has the image d, once, and
\* the other blocks have what they had.
LEMMA UpsertEntries ==
  ASSUME NEW p \in Seq(Write), NEW b \in Blocks, NEW d \in Data,
         OneEntryPerBlock(p)
  PROVE  LET u == Upsert(p, b, d)
         IN  /\ OneEntryPerBlock(u)
             /\ \E i \in DOMAIN u : u[i] = [blk |-> b, data |-> d]
             /\ \A a \in Blocks : a # b =>
                  /\ \A i \in DOMAIN u : u[i].blk = a =>
                       i \in DOMAIN p /\ p[i] = u[i]
                  /\ \A i \in DOMAIN p : p[i].blk = a =>
                       i \in DOMAIN u /\ u[i] = p[i]
<1> DEFINE w == [blk |-> b, data |-> d]
           u == Upsert(p, b, d)
<1>1. DOMAIN p = 1..Len(p) /\ Len(p) \in Nat
  BY LenProperties
<1>2. CASE \E i \in DOMAIN p : p[i].blk = b
  <2>1. u = [i \in DOMAIN p |-> IF p[i].blk = b THEN w ELSE p[i]]
    BY <1>2 DEF Upsert
  <2>2. DOMAIN u = DOMAIN p
    BY <2>1
  <2>3. \A i \in DOMAIN p : u[i] = IF p[i].blk = b THEN w ELSE p[i]
    BY <2>1
  <2>4. \A i \in DOMAIN p : u[i].blk = p[i].blk
    BY <2>3
  <2> HIDE DEF u
  <2>5. OneEntryPerBlock(u)
    BY <2>2, <2>4 DEF OneEntryPerBlock
  <2> QED BY <1>2, <2>2, <2>3, <2>4, <2>5 DEF u
<1>3. CASE ~ \E i \in DOMAIN p : p[i].blk = b
  <2>1. u = Append(p, w)
    BY <1>3 DEF Upsert
  <2>2. w \in Write
    BY DEF Write
  <2>3. Len(u) = Len(p) + 1 /\ u \in Seq(Write)
    BY <2>1, <2>2, AppendProperties
  <2>4. DOMAIN u = 1..(Len(p) + 1)
    BY <2>3, LenProperties
  <2>5. \A i \in 1..(Len(p) + 1) : u[i] = IF i <= Len(p) THEN p[i] ELSE w
    BY <1>1, <2>1, <2>2, AppendProperties
  <2> HIDE DEF u
  <2>6. w.blk = b
    OBVIOUS
  <2> HIDE DEF w
  <2>7. OneEntryPerBlock(u)
    BY <1>1, <1>3, <2>4, <2>5, <2>6 DEF OneEntryPerBlock
  <2>8. \E i \in DOMAIN u : u[i] = w
    BY <1>1, <2>4, <2>5
  <2>9. ASSUME NEW a \in Blocks, a # b
        PROVE  /\ \A i \in DOMAIN u : u[i].blk = a => i \in DOMAIN p /\ p[i] = u[i]
               /\ \A i \in DOMAIN p : p[i].blk = a => i \in DOMAIN u /\ u[i] = p[i]
    BY <1>1, <2>4, <2>5, <2>6, <2>9
  <2> QED BY <2>7, <2>8, <2>9 DEF u, w
<1> QED BY <1>2, <1>3

LEMMA TailDistinct ==
  ASSUME NEW q \in Seq(Write), q # <<>>, OneEntryPerBlock(q)
  PROVE  OneEntryPerBlock(Tail(q))
<1>1. Tail(q) \in Seq(Write) /\ Len(Tail(q)) = Len(q) - 1 /\ Len(q) \in Nat
      /\ \A i \in 1..Len(Tail(q)) : Tail(q)[i] = q[i + 1]
  BY HeadTailProperties, LenProperties
<1>2. DOMAIN Tail(q) = 1..Len(Tail(q)) /\ DOMAIN q = 1..Len(q)
  BY <1>1, LenProperties
<1>3. ASSUME NEW i \in DOMAIN Tail(q), NEW j \in DOMAIN Tail(q),
             Tail(q)[i].blk = Tail(q)[j].blk
      PROVE  i = j
  <2>1. i + 1 \in DOMAIN q /\ j + 1 \in DOMAIN q
    BY <1>1, <1>2
  <2>2. q[i + 1].blk = q[j + 1].blk
    BY <1>1, <1>2, <1>3
  <2>3. i + 1 = j + 1
    BY <2>1, <2>2 DEF OneEntryPerBlock
  <2> QED BY <1>2, <2>3
<1> QED BY <1>3 DEF OneEntryPerBlock

LEMMA EmptyDistinct == OneEntryPerBlock(<<>>)
BY DEF OneEntryPerBlock

LEMMA NextPendingDistinct ==
  ASSUME TypeOK, PendingDistinct, [Next]_vars
  PROVE  PendingDistinct'
<1> USE DEF PendingDistinct
<1>1. ASSUME NEW b \in Blocks, NEW d \in Data, WriteReserved(b, d) PROVE PendingDistinct'
  <2>1. OneEntryPerBlock(pending')
    BY <1>1, UpsertEntries DEF WriteReserved, TypeOK
  <2> QED BY <1>1, <2>1 DEF WriteReserved, OneEntryPerBlock
<1>2. CASE BeginFlush
  <2>1. queue' = pending /\ pending' = <<>>
    BY <1>2 DEF BeginFlush
  <2> QED BY <2>1, EmptyDistinct DEF OneEntryPerBlock
<1>3. CASE WriteSector
  <2>1. pending' = pending /\ (queue' = queue \/ queue' = Tail(queue)) /\ queue # <<>>
    BY <1>3 DEF WriteSector
  <2>2. OneEntryPerBlock(Tail(queue))
    BY <2>1, TailDistinct DEF TypeOK
  <2> QED BY <2>1, <2>2 DEF OneEntryPerBlock
<1>4. CASE WriteSectorFails \/ SyncFails \/ RootWriteFails \/ Crash
  <2>1. queue' = <<>> /\ (pending' = pending \/ pending' = <<>>)
    BY <1>4 DEF WriteSectorFails, SyncFails, RootWriteFails, Crash, Fail
  <2> QED BY <2>1, EmptyDistinct DEF OneEntryPerBlock
<1>5. CASE (\E b \in Blocks : CachedRead(b)) \/ FlushSync \/ RootWrite \/ RootSync
            \/ UNCHANGED vars
  <2>1. UNCHANGED <<pending, queue>>
    BY <1>5 DEF CachedRead, FlushSync, RootWrite, RootSync, vars, coreVars
  <2> QED BY <2>1 DEF OneEntryPerBlock
<1> QED BY <1>1, <1>2, <1>3, <1>4, <1>5 DEF Next

\* write_reserved's dedup holds in every interleaving with commits that fail
\* half way and with crashes: no commit writes a block twice.
THEOREM OneImagePerBlock == Spec => []PendingDistinct
<1>1. Init => PendingDistinct
  BY EmptyDistinct DEF Init, PendingDistinct
<1> QED BY <1>1, TypeCorrect, NextPendingDistinct, PTL DEF Spec

-----------------------------------------------------------------------------
(* Cache coherence *)

LEMMA NextCacheCoherent ==
  ASSUME TypeOK, CacheCoherent, [Next]_vars
  PROVE  CacheCoherent'
<1>0. cache \in CacheType
  BY DEF TypeOK, CacheType
<1>1. ASSUME NEW b \in Blocks, CachedRead(b) PROVE CacheCoherent'
  <2>1. dev[b] \in Image
    BY DEF TypeOK
  <2>2. \A a \in Blocks : \/ cache'.img[a] = NoImage \/ cache'.img[a] = cache.img[a]
                          \/ a = b /\ cache'.img[a] = dev[b]
    BY <1>0, <1>1, <2>1, ReadThroughImages DEF CachedRead
  <2>3. UNCHANGED <<dev, suspect, pc, queue>>
    BY <1>1 DEF CachedRead, ghostVars
  <2> QED BY <2>2, <2>3 DEF CacheCoherent, InFlight
<1>2. ASSUME NEW b \in Blocks, NEW d \in Data, WriteReserved(b, d) PROVE CacheCoherent'
  <2>1. cache' = Invalidate(cache, b) /\ suspect' = suspect \ {b}
        /\ UNCHANGED <<dev, queue>> /\ pc = "idle"
    BY <1>2 DEF WriteReserved
  <2>2. /\ cache'.img[b] = NoImage
        /\ \A a \in Blocks : cache'.img[a] = NoImage \/ cache'.img[a] = cache.img[a]
    BY <1>0, <2>1, InvalidateImages
  <2>3. \A a \in Blocks : ~InFlight(a)
    BY <2>1 DEF InFlight
  <2> QED BY <2>1, <2>2, <2>3 DEF CacheCoherent
<1>3. CASE BeginFlush
  <2>1. UNCHANGED <<dev, cache, suspect>> /\ pc = "idle"
    BY <1>3 DEF BeginFlush
  <2>2. \A a \in Blocks : ~InFlight(a)
    BY <2>1 DEF InFlight
  <2> QED BY <2>1, <2>2 DEF CacheCoherent
<1>4. CASE WriteSector
  <2> DEFINE h == Head(queue).blk
  <2>1. h \in Blocks
    BY <1>4, HeadOfQueue DEF WriteSector
  <2>2. \A a \in Blocks : a # h => dev'[a] = dev[a] /\ ~InFlight(a)
    BY <1>4, <2>1 DEF WriteSector, PutSector, TypeOK, InFlight
  <2>3. CASE sector < Rescluster
    <3>1. UNCHANGED <<cache, suspect, pc, queue>>
      BY <1>4, <2>3 DEF WriteSector
    <3>2. InFlight(h)'
      BY <1>4, <3>1 DEF WriteSector, InFlight
    <3> QED BY <2>2, <3>1, <3>2 DEF CacheCoherent
  <2>4. CASE ~(sector < Rescluster)
    <3>1. cache' = Invalidate(cache, h) /\ suspect' = suspect \ {h}
      BY <1>4, <2>4 DEF WriteSector
    <3>2. /\ cache'.img[h] = NoImage
          /\ \A a \in Blocks : cache'.img[a] = NoImage \/ cache'.img[a] = cache.img[a]
      BY <1>0, <2>1, <3>1, InvalidateImages
    <3> QED BY <2>2, <3>1, <3>2 DEF CacheCoherent
  <2> QED BY <2>3, <2>4
<1>5. CASE WriteSectorFails
  <2> DEFINE h == Head(queue).blk
  <2>1. h \in Blocks /\ UNCHANGED cache /\ suspect' = suspect \cup {h}
    BY <1>5, HeadOfQueue DEF WriteSectorFails, Fail
  <2>2. \A a \in Blocks : a # h => dev'[a] = dev[a] /\ ~InFlight(a)
    BY <1>5, <2>1 DEF WriteSectorFails, PutSector, TypeOK, InFlight
  <2> QED BY <2>1, <2>2 DEF CacheCoherent
<1>6. CASE FlushSync \/ RootWrite \/ RootSync \/ SyncFails \/ RootWriteFails
  <2>1. UNCHANGED <<dev, cache, suspect>>
    BY <1>6 DEF FlushSync, RootWrite, RootSync, SyncFails, RootWriteFails, Fail, ghostVars
  <2>2. \A a \in Blocks : ~InFlight(a)
    BY <1>6 DEF FlushSync, RootWrite, RootSync, SyncFails, RootWriteFails, InFlight
  <2> QED BY <2>1, <2>2 DEF CacheCoherent
<1>7. CASE Crash
  BY <1>7 DEF Crash, CacheCoherent, EmptyCache
<1>8. CASE UNCHANGED vars
  BY <1>8 DEF vars, coreVars, ghostVars, CacheCoherent, InFlight
<1> QED BY <1>1, <1>2, <1>3, <1>4, <1>5, <1>6, <1>7, <1>8 DEF Next

\* Readers behind the cache see what the device holds, for any cache size and
\* any number of blocks, commits, errors and crashes; the only stale image is
\* that of a block whose write failed half way.
THEOREM CacheCoherence == Spec => []CacheCoherent
<1>1. Init => CacheCoherent
  BY DEF Init, CacheCoherent, EmptyCache
<1> QED BY <1>1, TypeCorrect, NextCacheCoherent, PTL DEF Spec

-----------------------------------------------------------------------------
(* The bound of the cache and its order of use *)

\* The generation stamps order the entries of the HashMap totally, and only
\* entries have one.
StampsOrder(c) ==
  /\ \A x, y \in Blocks : <<x, y>> \in c.older => x \in Held(c) /\ y \in Held(c)
  /\ \A x \in Held(c) : <<x, x>> \notin c.older
  /\ \A x, y \in Held(c) : x # y => <<x, y>> \in c.older \/ <<y, x>> \in c.older
  /\ \A x, y, z \in Held(c) :
       <<x, y>> \in c.older /\ <<y, z>> \in c.older => <<x, z>> \in c.older

\* What keeps the cache bounded: order and capacity.
LruInv(c) == StampsOrder(c) /\ Cardinality(Held(c)) <= Capacity

LEMMA HeldFinite ==
  ASSUME NEW c
  PROVE  IsFiniteSet(Held(c)) /\ Cardinality(Held(c)) \in Nat
<1>1. Held(c) \in SUBSET Blocks
  BY DEF Held
<1>2. IsFiniteSet(Held(c))
  BY <1>1, BlocksFinite, FS_Subset
<1> QED BY <1>2, FS_CardinalityType

\* Removing an entry removes its stamp and keeps the order of the others.
LEMMA InvalidateLru ==
  ASSUME NEW c \in CacheType, StampsOrder(c), NEW b \in Blocks
  PROVE  /\ Held(Invalidate(c, b)) = Held(c) \ {b}
         /\ StampsOrder(Invalidate(c, b))
<1> DEFINE m == Invalidate(c, b)
<1>1. Held(m) = Held(c) \ {b}
  BY DEF Held, Invalidate, CacheType
<1>2. \A x, y \in Blocks : <<x, y>> \in m.older <=> <<x, y>> \in c.older /\ x # b /\ y # b
  BY DEF Invalidate, OlderWithout
<1>3. Held(c) \subseteq Blocks
  BY DEF Held
<1> HIDE DEF m
<1>4. StampsOrder(m)
  BY <1>1, <1>2, <1>3 DEF StampsOrder
<1> QED BY <1>1, <1>4 DEF m

\* The oldest entry exists and is the only one of its kind: the predecessors of
\* the entries are finite sets, of which one is minimal.
LEMMA OneOldest ==
  ASSUME NEW c \in CacheType, StampsOrder(c), Held(c) # {}
  PROVE  \E k \in Held(c) : Oldest(c) = {k}
<1> DEFINE H == Held(c)
           Before(k) == {j \in H : <<j, k>> \in c.older}
           T == {Before(k) : k \in H}
<1>1. H \subseteq Blocks /\ IsFiniteSet(H)
  BY HeldFinite DEF Held
<1>2. IsWellFoundedOn(StrictSubsetOrdering(H), FiniteSubsetsOf(H))
  BY FS_StrictSubsetOrderingWellFounded
<1>3. FiniteSubsetsOf(H) = SUBSET H
  BY <1>1, FS_FiniteSubsetsOfFinite
<1>4. T \subseteq SUBSET H /\ T # {}
  OBVIOUS
<1>5. \E s \in T : \A t \in T : ~ (<<t, s>> \in StrictSubsetOrdering(H))
  <2> HIDE DEF T, H
  <2> QED BY <1>2, <1>3, <1>4, WFMin
<1>6. PICK k \in H : \A j \in H : ~ (<<Before(j), Before(k)>> \in StrictSubsetOrdering(H))
  BY <1>5
<1>7. \A j \in H : <<j, k>> \notin c.older
  <2> SUFFICES ASSUME NEW j \in H, <<j, k>> \in c.older PROVE FALSE
    OBVIOUS
  <2>1. Before(j) \subseteq Before(k)
    BY DEF StampsOrder
  <2>2. j \in Before(k) /\ j \notin Before(j)
    BY DEF StampsOrder
  <2>3. <<Before(j), Before(k)>> \in StrictSubsetOrdering(H)
    BY <2>1, <2>2 DEF StrictSubsetOrdering
  <2> QED BY <1>6, <2>3
<1>8. \A i \in H : i # k => <<k, i>> \in c.older
  BY <1>7 DEF StampsOrder
<1>9. Oldest(c) = {k}
  BY <1>7, <1>8 DEF Oldest
<1> QED BY <1>9

\* After making room an entry can be added.
LEMMA MakeRoomLru ==
  ASSUME NEW c \in CacheType, LruInv(c)
  PROVE  /\ MakeRoom(c) \in CacheType
         /\ StampsOrder(MakeRoom(c))
         /\ Held(MakeRoom(c)) \subseteq Held(c)
         /\ Cardinality(Held(MakeRoom(c))) < Capacity
<1>0. MakeRoom(c) \in CacheType
  BY MakeRoomImages
<1>1. CASE Cardinality(Held(c)) >= Capacity
  <2> DEFINE o == CHOOSE k \in Oldest(c) : TRUE
  <2>1. Held(c) # {}
    BY <1>1, CapacityPositive, FS_EmptySet
  <2>2. o \in Held(c)
    BY <2>1, OneOldest DEF LruInv
  <2>3. o \in Blocks
    BY <2>2 DEF Held
  <2>4. MakeRoom(c) = Invalidate(c, o)
    BY <1>1 DEF MakeRoom
  <2> HIDE DEF o
  <2>5. Held(MakeRoom(c)) = Held(c) \ {o} /\ StampsOrder(MakeRoom(c))
    BY <2>3, <2>4, InvalidateLru DEF LruInv
  <2>6. Cardinality(Held(c) \ {o}) = Cardinality(Held(c)) - 1
    BY <2>2, HeldFinite, FS_RemoveElement
  <2> QED BY <1>0, <2>5, <2>6, HeldFinite, CapacityPositive DEF LruInv
<1>2. CASE ~(Cardinality(Held(c)) >= Capacity)
  BY <1>0, <1>2, HeldFinite, CapacityPositive DEF MakeRoom, LruInv
<1> QED BY <1>1, <1>2

\* A read through the cache keeps it ordered and within its capacity: a hit
\* moves an entry to the end, a miss makes room before it adds one.
LEMMA ReadThroughLru ==
  ASSUME NEW c \in CacheType, LruInv(c), NEW b \in Blocks, NEW image \in Image
  PROVE  LruInv(ReadThrough(c, b, image))
<1> DEFINE n == ReadThrough(c, b, image)
<1>1. CASE c.img[b] # NoImage
  <2>1. n = Touch(c, b)
    BY <1>1 DEF ReadThrough
  <2>2. Held(n) = Held(c)
    BY <2>1 DEF Held, Touch
  <2>3. \A x, y \in Blocks :
          <<x, y>> \in n.older <=> \/ <<x, y>> \in c.older /\ x # b /\ y # b
                                   \/ x \in Held(c) /\ x # b /\ y = b
    BY <2>1 DEF Touch, OlderWithout
  <2>4. Held(c) \subseteq Blocks /\ b \in Held(c)
    BY <1>1 DEF Held
  <2> HIDE DEF n
  <2>5. /\ \A x, y \in Blocks : <<x, y>> \in n.older => x \in Held(n) /\ y \in Held(n)
        /\ \A x \in Held(n) : <<x, x>> \notin n.older
    BY <2>2, <2>3, <2>4 DEF LruInv, StampsOrder
  <2>6. \A x, y \in Held(n) : x # y => <<x, y>> \in n.older \/ <<y, x>> \in n.older
    BY <2>2, <2>3, <2>4 DEF LruInv, StampsOrder
  <2>7. ASSUME NEW x \in Held(n), NEW y \in Held(n), NEW z \in Held(n),
               <<x, y>> \in n.older, <<y, z>> \in n.older
        PROVE  <<x, z>> \in n.older
    <3>1. <<x, y>> \in c.older /\ x # b /\ y # b
      BY <2>2, <2>3, <2>4, <2>7
    <3>2. (<<y, z>> \in c.older /\ z # b) \/ z = b
      BY <2>2, <2>3, <2>4, <2>7
    <3> QED BY <2>2, <2>3, <2>4, <3>1, <3>2 DEF LruInv, StampsOrder
  <2>8. StampsOrder(n)
    BY <2>5, <2>6, <2>7 DEF StampsOrder
  <2> QED BY <2>2, <2>8 DEF LruInv, n
<1>2. CASE c.img[b] = NoImage
  <2> DEFINE m == MakeRoom(c)
  <2>1. n = Insert(c, b, image)
    BY <1>2 DEF ReadThrough
  <2>2. /\ m \in CacheType /\ StampsOrder(m)
        /\ Held(m) \subseteq Held(c) /\ Cardinality(Held(m)) < Capacity
    BY MakeRoomLru
  <2>3. b \notin Held(m)
    BY <1>2, <2>2 DEF Held
  <2>4. n = [img |-> [m.img EXCEPT ![b] = image], older |-> m.older \cup (Held(m) \X {b})]
    BY <2>1 DEF Insert
  <2> HIDE DEF m, n
  <2>5. image # NoImage
    BY NoImageOutside
  <2>6. Held(n) = Held(m) \cup {b}
    BY <2>2, <2>4, <2>5 DEF Held, CacheType
  <2>7. \A x, y \in Blocks :
          <<x, y>> \in n.older <=> <<x, y>> \in m.older \/ (x \in Held(m) /\ y = b)
    BY <2>4
  <2>8. Cardinality(Held(n)) = Cardinality(Held(m)) + 1
    BY <2>3, <2>6, HeldFinite, FS_AddElement
  <2>9. Held(m) \subseteq Blocks
    BY DEF Held
  <2>10. StampsOrder(n)
    BY <2>2, <2>3, <2>6, <2>7, <2>9 DEF StampsOrder
  <2> QED BY <2>2, <2>8, <2>10, HeldFinite, CapacityPositive DEF LruInv, n
<1> QED BY <1>1, <1>2

\* Invalidation keeps a bounded cache bounded.
LEMMA InvalidateBounded ==
  ASSUME NEW c \in CacheType, LruInv(c), NEW b \in Blocks
  PROVE  LruInv(Invalidate(c, b))
<1>1. Held(Invalidate(c, b)) = Held(c) \ {b} /\ StampsOrder(Invalidate(c, b))
  BY InvalidateLru DEF LruInv
<1>2. Cardinality(Held(c) \ {b}) <= Cardinality(Held(c))
  <2>1. IsFiniteSet(Held(c)) /\ Cardinality(Held(c)) \in Nat
    BY HeldFinite
  <2> QED BY <2>1, FS_RemoveElement
<1>3. Cardinality(Held(Invalidate(c, b))) <= Cardinality(Held(c))
  BY <1>1, <1>2
<1> QED BY <1>1, <1>3, HeldFinite, CapacityPositive DEF LruInv

LEMMA EmptyCacheBounded == LruInv(EmptyCache)
<1>1. Held(EmptyCache) = {} /\ EmptyCache.older = {}
  BY DEF Held, EmptyCache
<1> QED BY <1>1, FS_EmptySet, CapacityPositive DEF LruInv, StampsOrder

LEMMA NextCacheBounded ==
  ASSUME TypeOK, LruInv(cache), [Next]_vars
  PROVE  LruInv(cache')
<1>0. cache \in CacheType
  BY DEF TypeOK, CacheType
<1>1. ASSUME NEW b \in Blocks, CachedRead(b) PROVE LruInv(cache')
  BY <1>0, <1>1, ReadThroughLru DEF CachedRead, TypeOK
<1>2. ASSUME NEW b \in Blocks, NEW d \in Data, WriteReserved(b, d) PROVE LruInv(cache')
  BY <1>0, <1>2, InvalidateBounded DEF WriteReserved
<1>3. CASE WriteSector
  <2>1. Head(queue).blk \in Blocks
    BY <1>3, HeadOfQueue DEF WriteSector
  <2>2. cache' = cache \/ cache' = Invalidate(cache, Head(queue).blk)
    BY <1>3 DEF WriteSector
  <2> QED BY <1>0, <2>1, <2>2, InvalidateBounded
<1>4. CASE BeginFlush \/ FlushSync \/ RootWrite \/ RootSync \/ SyncFails
             \/ RootWriteFails \/ WriteSectorFails \/ UNCHANGED vars
  <2>1. UNCHANGED cache
    BY <1>4 DEF BeginFlush, FlushSync, RootWrite, RootSync, SyncFails, RootWriteFails,
                WriteSectorFails, Fail, vars, coreVars
  <2> QED BY <2>1
<1>5. CASE Crash
  BY <1>5, EmptyCacheBounded DEF Crash
<1> QED BY <1>1, <1>2, <1>3, <1>4, <1>5 DEF Next

\* The cache never exceeds its capacity and always has exactly one entry to
\* evict, for any capacity and any order of hits, misses, invalidations and
\* evictions (BlockCache::read_reserved, "Evict if at capacity").
THEOREM CacheStaysBounded == Spec => []CacheBounded
<1>1. Init => LruInv(cache)
  BY EmptyCacheBounded DEF Init
<1>2. TypeOK /\ LruInv(cache) /\ [Next]_vars => LruInv(cache)'
  BY NextCacheBounded
<1>3. TypeOK /\ LruInv(cache) => CacheBounded
  <2>1. TypeOK => cache \in CacheType
    BY DEF TypeOK, CacheType
  <2> QED BY <2>1, OneOldest DEF LruInv, CacheBounded
<1> QED BY <1>1, <1>2, <1>3, TypeCorrect, PTL DEF Spec

-----------------------------------------------------------------------------
(* The commit.  CommitInv says where each phase of update_rootblock has     *)
(* brought the device on its way to target, and that the root cluster does  *)
(* not carry the number of a commit that is still flushing.                 *)

Queued(b) == \E i \in DOMAIN queue : queue[i].blk = b

RootNumbers ==
  /\ \A s \in 1..RootSectors : root[s] \in rootSurv[s]
  /\ \A s \in 1..RootSectors : \A n \in rootSurv[s] : n <= commits
  /\ pc \in {"flush", "root"} => \A s \in 1..RootSectors : commits \notin rootSurv[s]

TargetIsAccepted ==
  pc # "idle" => /\ pending = <<>>
                 /\ \A b \in Blocks : target[b] = accepted[b] \/ b \in lost

FlushProgress ==
  pc = "flush" =>
    /\ \A i \in DOMAIN queue : target[queue[i].blk] = Whole(queue[i].data)
    /\ \A b \in Blocks : ~Queued(b) => dev[b] = target[b]
    /\ queue # <<>> => \A s \in Sectors : s < sector =>
         dev[Head(queue).blk][s] = target[Head(queue).blk][s]

FlushDone ==
  pc \in {"root", "rootsync"} =>
    \A b \in Blocks : /\ dev[b] = target[b]
                      /\ \A s \in Sectors : surv[b][s] = {target[b][s]}

CommitInv ==
  /\ TypeOK /\ PendingDistinct
  /\ RootNumbers /\ TargetIsAccepted /\ FlushProgress /\ FlushDone
  /\ RootBarrier /\ ReadYourWrites

\* The scan of read_reserved_raw has one answer.
LEMMA ListedOnce ==
  ASSUME NEW p \in Seq(Write), OneEntryPerBlock(p), NEW i \in DOMAIN p
  PROVE  (CHOOSE j \in DOMAIN p : p[j].blk = p[i].blk) = i
BY DEF OneEntryPerBlock

\* read_reserved_raw: the one listed image, or the device's.
LEMMA RawReadValue ==
  ASSUME TypeOK, PendingDistinct, NEW b \in Blocks
  PROVE  /\ \A i \in DOMAIN pending : pending[i].blk = b =>
              RawRead(b) = Whole(pending[i].data)
         /\ (\A i \in DOMAIN pending : pending[i].blk # b) => RawRead(b) = dev[b]
<1>1. ASSUME NEW i \in DOMAIN pending, pending[i].blk = b
      PROVE  RawRead(b) = Whole(pending[i].data)
  <2>1. pending \in Seq(Write) /\ OneEntryPerBlock(pending)
    BY DEF PendingDistinct, TypeOK
  <2>2. (CHOOSE j \in DOMAIN pending : pending[j].blk = b) = i
    BY <1>1, <2>1, ListedOnce
  <2> QED BY <1>1, <2>2 DEF RawRead
<1> QED BY <1>1 DEF RawRead

LEMMA EmptyRawRead ==
  ASSUME pending = <<>>, NEW b \in Blocks PROVE RawRead(b) = dev[b]
BY DEF RawRead

LEMMA CommitInvInit == Init => CommitInv
<1> SUFFICES ASSUME Init PROVE CommitInv
  OBVIOUS
<1>1. TypeOK /\ PendingDistinct
  BY InitTypeOK, EmptyDistinct DEF Init, PendingDistinct
<1>2. RootNumbers /\ TargetIsAccepted /\ FlushProgress /\ FlushDone
  BY DEF Init, RootNumbers, TargetIsAccepted, FlushProgress, FlushDone
<1>3. RootBarrier
  BY <1>1 DEF Init, RootBarrier, TypeOK
<1>4. ReadYourWrites
  BY EmptyRawRead DEF Init, ReadYourWrites
<1> QED BY <1>1, <1>2, <1>3, <1>4 DEF CommitInv

\* write_reserved changes what read_reserved_raw returns for its block only.
LEMMA ReadAfterWrite ==
  ASSUME CommitInv, NEW b \in Blocks, NEW d \in Data, WriteReserved(b, d)
  PROVE  \A a \in Blocks : RawRead(a)' = IF a = b THEN Whole(d) ELSE RawRead(a)
<1> USE DEF CommitInv
<1>0. TypeOK' /\ PendingDistinct'
  BY NextTypeOK, NextPendingDistinct DEF Next
<1>1. pending' = Upsert(pending, b, d) /\ UNCHANGED dev
  BY DEF WriteReserved
<1>2. /\ \E i \in DOMAIN pending' : pending'[i] = [blk |-> b, data |-> d]
      /\ \A a \in Blocks : a # b =>
           /\ \A i \in DOMAIN pending' : pending'[i].blk = a =>
                i \in DOMAIN pending /\ pending[i] = pending'[i]
           /\ \A i \in DOMAIN pending : pending[i].blk = a =>
                i \in DOMAIN pending' /\ pending'[i] = pending[i]
  BY <1>1, UpsertEntries DEF PendingDistinct, TypeOK
<1>3. ASSUME NEW a \in Blocks, a = b PROVE RawRead(a)' = Whole(d)
  <2>1. PICK i \in DOMAIN pending' : pending'[i] = [blk |-> b, data |-> d]
    BY <1>2
  <2>2. pending'[i].blk = a /\ pending'[i].data = d
    BY <1>3, <2>1
  <2>3. (RawRead(a) = Whole(pending[i].data))'
    BY <1>0, <2>2, ListedOnce DEF RawRead, PendingDistinct, TypeOK, Whole
  <2> QED BY <2>2, <2>3 DEF Whole
<1>4. ASSUME NEW a \in Blocks, a # b PROVE RawRead(a)' = RawRead(a)
  <2>1. CASE \E i \in DOMAIN pending : pending[i].blk = a
    <3>1. PICK i \in DOMAIN pending : pending[i].blk = a
      BY <2>1
    <3>2. i \in DOMAIN pending' /\ pending'[i] = pending[i]
      BY <1>2, <1>4, <3>1
    <3>3. RawRead(a) = Whole(pending[i].data)
      BY <3>1, RawReadValue
    <3>4. pending' \in Seq(Write) /\ OneEntryPerBlock(pending')
      BY <1>0 DEF PendingDistinct, TypeOK, OneEntryPerBlock
    <3>5. (CHOOSE j \in DOMAIN pending' : pending'[j].blk = a) = i
      BY <3>1, <3>2, <3>4, ListedOnce
    <3>6. (RawRead(a) = Whole(pending[i].data))'
      BY <3>1, <3>2, <3>5 DEF RawRead, Whole
    <3> QED BY <3>2, <3>3, <3>6 DEF Whole
  <2>2. CASE ~ \E i \in DOMAIN pending : pending[i].blk = a
    <3>1. ~ \E i \in DOMAIN pending' : pending'[i].blk = a
      BY <1>2, <1>4, <2>2
    <3> QED BY <1>1, <2>2, <3>1 DEF RawRead
  <2> QED BY <2>1, <2>2
<1> QED BY <1>3, <1>4

LEMMA WriteThenRead ==
  ASSUME CommitInv, NEW b \in Blocks, NEW d \in Data, WriteReserved(b, d)
  PROVE  ReadYourWrites'
<1>1. accepted' = [accepted EXCEPT ![b] = Whole(d)] /\ lost' = lost \ {b} /\ pc = "idle"
  BY DEF WriteReserved
<1>2. \A a \in Blocks : RawRead(a) = accepted[a] \/ a \in lost
  BY <1>1 DEF CommitInv, ReadYourWrites
<1>3. accepted \in [Blocks -> Image]
  BY DEF CommitInv, TypeOK
<1> QED BY <1>1, <1>2, <1>3, ReadAfterWrite DEF ReadYourWrites

\* The device and the queue after one more sector of the head of the queue.
LEMMA SectorProgress ==
  ASSUME CommitInv, WriteSector
  PROVE  FlushProgress'
<1> USE DEF CommitInv
<1> DEFINE h == Head(queue)
<1>1. queue # <<>> /\ pc = "flush" /\ pc' = "flush" /\ UNCHANGED target
      /\ h.blk \in Blocks /\ h.data \in Data /\ sector \in Sectors
  BY HeadOfQueue DEF WriteSector, TypeOK
<1>2. queue \in Seq(Write) /\ Len(queue) \in Nat \ {0} /\ DOMAIN queue = 1..Len(queue)
      /\ h = queue[1]
  BY <1>1, EmptySeq, LenProperties DEF TypeOK
<1>3. target[h.blk] = Whole(h.data)
  BY <1>1, <1>2 DEF FlushProgress
<1>4. /\ \A b \in Blocks : b # h.blk => dev'[b] = dev[b]
      /\ \A s \in Sectors : dev'[h.blk][s] = IF s = sector THEN h.data ELSE dev[h.blk][s]
      /\ dev' \in [Blocks -> Image]
  BY <1>1, PutSectorType DEF WriteSector, PutSector, TypeOK, Image
<1>5. \A s \in Sectors : target[h.blk][s] = h.data
  BY <1>3 DEF Whole
<1>6. \A s \in Sectors : s < sector => dev[h.blk][s] = target[h.blk][s]
  BY <1>1 DEF FlushProgress
<1>7. \A s \in Sectors : s <= sector => dev'[h.blk][s] = target[h.blk][s]
  <2> TAKE s \in Sectors
  <2>1. s \in Int /\ sector \in Int
    BY <1>1 DEF Sectors
  <2> QED BY <1>4, <1>5, <1>6, <2>1
<1>8. CASE sector < Rescluster
  <2>1. sector' = sector + 1 /\ UNCHANGED queue
    BY <1>8 DEF WriteSector
  <2>2. \A s \in Sectors : s < sector' => dev'[h.blk][s] = target[h.blk][s]
    BY <1>1, <1>7, <2>1 DEF Sectors
  <2>3. \A b \in Blocks : ~Queued(b) => b # h.blk
    BY <1>2 DEF Queued
  <2>4. \A b \in Blocks : Queued(b)' <=> Queued(b)
    BY <2>1 DEF Queued
  <2>5. \A b \in Blocks : ~Queued(b)' => dev'[b] = target'[b]
    BY <1>1, <1>4, <2>3, <2>4 DEF FlushProgress
  <2>6. \A i \in DOMAIN queue : target[queue[i].blk] = Whole(queue[i].data)
    BY <1>1 DEF FlushProgress
  <2> QED BY <1>1, <2>1, <2>2, <2>5, <2>6 DEF FlushProgress, Whole
<1>9. CASE ~(sector < Rescluster)
  <2>1. sector' = 1 /\ queue' = Tail(queue) /\ sector = Rescluster
    BY <1>1, <1>9, ResclusterPositive DEF WriteSector, Sectors
  <2>2. queue' \in Seq(Write) /\ Len(queue') = Len(queue) - 1
        /\ \A i \in 1..Len(queue') : queue'[i] = queue[i + 1]
    BY <1>1, <1>2, <2>1, HeadTailProperties
  <2>3. DOMAIN queue' = 1..Len(queue')
    BY <2>2, LenProperties
  <2>4. ASSUME NEW i \in DOMAIN queue'
        PROVE  target[queue'[i].blk] = Whole(queue'[i].data)
    <3>1. i + 1 \in DOMAIN queue /\ queue'[i] = queue[i + 1]
      BY <1>2, <2>2, <2>3
    <3>2. target[queue[i + 1].blk] = Whole(queue[i + 1].data)
      BY <1>1, <3>1 DEF FlushProgress
    <3> QED BY <3>1, <3>2
  <2>5. dev'[h.blk] = target[h.blk]
    <3>1. \A s \in Sectors : dev'[h.blk][s] = target[h.blk][s]
      BY <1>7, <2>1 DEF Sectors
    <3>2. dev'[h.blk] \in Image /\ target[h.blk] \in Image
      BY <1>1, <1>4 DEF TypeOK
    <3> QED BY <3>1, <3>2 DEF Image
  <2>6. ASSUME NEW b \in Blocks, ~Queued(b)' PROVE dev'[b] = target[b]
    <3>1. CASE b = h.blk
      BY <2>5, <3>1
    <3>2. CASE b # h.blk
      <4>1. ASSUME NEW i \in DOMAIN queue, queue[i].blk = b PROVE FALSE
        <5>1. i # 1
          BY <1>2, <3>2, <4>1
        <5>2. i - 1 \in DOMAIN queue' /\ queue'[i - 1] = queue[i]
          BY <1>2, <2>2, <2>3, <5>1
        <5> QED BY <2>6, <4>1, <5>2 DEF Queued
      <4>2. ~Queued(b)
        BY <4>1 DEF Queued
      <4> QED BY <1>1, <1>4, <3>2, <4>2 DEF FlushProgress
    <3> QED BY <3>1, <3>2
  <2>7. \A s \in Sectors : ~(s < sector')
    BY <2>1 DEF Sectors
  <2> QED BY <1>1, <2>4, <2>6, <2>7 DEF FlushProgress, Whole
<1> QED BY <1>8, <1>9

\* What a commit sets out to write is the pending image of each block, or the
\* device's, and that is what was accepted.
LEMMA BeginFlushProgress ==
  ASSUME CommitInv, BeginFlush
  PROVE  FlushProgress' /\ TargetIsAccepted' /\ RootNumbers'
<1> USE DEF CommitInv
<1>1. pc = "idle" /\ queue' = pending /\ pending' = <<>> /\ sector' = 1 /\ pc' = "flush"
      /\ commits' = commits + 1 /\ target' = [b \in Blocks |-> RawRead(b)]
      /\ UNCHANGED <<dev, root, rootSurv, accepted, lost>>
  BY DEF BeginFlush
<1>2. \A i \in DOMAIN queue' : target'[queue'[i].blk] = Whole(queue'[i].data)
  BY <1>1, RawReadValue, EntryType DEF TypeOK
<1>3. \A b \in Blocks : ~Queued(b)' => dev'[b] = target'[b]
  BY <1>1, RawReadValue DEF Queued
<1>4. \A s \in Sectors : ~(s < sector')
  BY <1>1 DEF Sectors
<1>5. FlushProgress'
  BY <1>2, <1>3, <1>4 DEF FlushProgress, Whole
<1>6. TargetIsAccepted'
  BY <1>1 DEF ReadYourWrites, TargetIsAccepted
<1>7. RootNumbers'
  <2>1. \A s \in 1..RootSectors : \A n \in rootSurv[s] : n <= commits /\ n \in Nat
    BY DEF RootNumbers, TypeOK
  <2>2. commits \in Nat
    BY DEF TypeOK
  <2> QED BY <1>1, <2>1, <2>2 DEF RootNumbers
<1> QED BY <1>5, <1>6, <1>7

\* While the commit's number is in no root sector, RootBarrier says nothing.
LEMMA NoNumberNoBarrier ==
  ASSUME \A s \in 1..RootSectors : commits \notin rootSurv[s]
  PROVE  RootBarrier
BY DEF RootBarrier

LEMMA CommitInvNext == CommitInv /\ [Next]_vars => CommitInv'
<1> SUFFICES ASSUME CommitInv, [Next]_vars PROVE CommitInv'
  OBVIOUS
<1> USE DEF CommitInv
<1>0. TypeOK' /\ PendingDistinct'
  BY NextTypeOK, NextPendingDistinct
<1>1. ASSUME NEW b \in Blocks, CachedRead(b) PROVE CommitInv'
  <2>1. UNCHANGED <<dev, surv, pending, queue, sector, pc, rootVars, ghostVars>>
    BY <1>1 DEF CachedRead
  <2>2. RootNumbers' /\ TargetIsAccepted'
    BY <2>1 DEF rootVars, ghostVars, RootNumbers, TargetIsAccepted
  <2>3. FlushProgress'
    BY <2>1 DEF ghostVars, FlushProgress, Queued
  <2>4. FlushDone' /\ RootBarrier'
    BY <2>1 DEF rootVars, ghostVars, FlushDone, RootBarrier
  <2>5. ReadYourWrites'
    BY <2>1 DEF ghostVars, ReadYourWrites, RawRead
  <2> QED BY <1>0, <2>2, <2>3, <2>4, <2>5
<1>2. ASSUME NEW b \in Blocks, NEW d \in Data, WriteReserved(b, d) PROVE CommitInv'
  <2>1. ReadYourWrites'
    BY <1>2, WriteThenRead
  <2>2. UNCHANGED <<dev, surv, pc, root, rootSurv, commits, target>> /\ pc = "idle"
    BY <1>2 DEF WriteReserved, rootVars
  <2> QED
    BY <1>0, <2>1, <2>2 DEF RootNumbers, TargetIsAccepted, FlushProgress, FlushDone, RootBarrier
<1>3. CASE BeginFlush
  <2>1. FlushProgress' /\ TargetIsAccepted' /\ RootNumbers' /\ pc' = "flush"
    BY <1>3, BeginFlushProgress DEF BeginFlush
  <2>2. RootBarrier'
    BY <2>1 DEF RootNumbers, RootBarrier
  <2> QED BY <1>0, <2>1, <2>2 DEF FlushDone, ReadYourWrites
<1>4. CASE WriteSector
  <2>1. pc = "flush" /\ UNCHANGED <<pending, pc, rootVars, accepted, target, lost>>
    BY <1>4 DEF WriteSector
  <2>2. RootNumbers' /\ TargetIsAccepted'
    BY <2>1 DEF RootNumbers, TargetIsAccepted, rootVars
  <2>3. RootBarrier'
    BY <2>1, <2>2 DEF RootNumbers, RootBarrier
  <2>4. FlushProgress'
    BY <1>4, SectorProgress
  <2> QED BY <1>0, <2>1, <2>2, <2>3, <2>4 DEF FlushDone, ReadYourWrites
<1>5. CASE FlushSync
  <2>1. pc = "flush" /\ queue = <<>> /\ pc' = "root" /\ surv' = AllDurable
        /\ UNCHANGED <<dev, pending, rootVars, accepted, target, lost>>
    BY <1>5 DEF FlushSync, ghostVars
  <2>2. \A b \in Blocks : dev[b] = target[b]
    BY <2>1 DEF FlushProgress, Queued
  <2>3. FlushDone'
    BY <2>1, <2>2 DEF FlushDone, AllDurable
  <2>4. RootNumbers' /\ TargetIsAccepted'
    BY <2>1 DEF RootNumbers, TargetIsAccepted, rootVars
  <2>5. RootBarrier'
    BY <2>1, <2>4 DEF RootNumbers, RootBarrier
  <2> QED BY <1>0, <2>1, <2>3, <2>4, <2>5 DEF FlushProgress, ReadYourWrites
<1>6. ASSUME NEW S, PutRoot(S), UNCHANGED commits
      PROVE  \A s \in 1..RootSectors :
               root'[s] \in rootSurv'[s] /\ \A n \in rootSurv'[s] : n <= commits'
  BY <1>6 DEF PutRoot, RootNumbers, TypeOK
<1>7. CASE RootWrite
  <2>1. pc = "root" /\ pc' = "rootsync"
        /\ UNCHANGED <<dev, surv, pending, commits, accepted, target, lost>>
    BY <1>7 DEF RootWrite, ghostVars
  <2>2. RootNumbers'
    BY <1>6, <1>7, <2>1 DEF RootNumbers, RootWrite
  <2>3. FlushDone' /\ TargetIsAccepted'
    BY <2>1 DEF FlushDone, TargetIsAccepted
  <2>4. RootBarrier'
    BY <2>1, <2>3 DEF FlushDone, RootBarrier
  <2> QED BY <1>0, <2>1, <2>2, <2>3, <2>4 DEF FlushProgress, ReadYourWrites
<1>8. ASSUME pc \in {"root", "rootsync"}, pc' = "idle",
             UNCHANGED <<dev, pending, commits, accepted, target, lost>>,
             surv' = surv \/ surv' = AllDurable
      PROVE  RootBarrier' /\ ReadYourWrites'
  <2>1. \A b \in Blocks : dev[b] = target[b] /\ \A s \in Sectors : surv'[b][s] = {target[b][s]}
    BY <1>8 DEF FlushDone, AllDurable
  <2>2. pending' = <<>> /\ \A b \in Blocks : target[b] = accepted[b] \/ b \in lost
    BY <1>8 DEF TargetIsAccepted
  <2>3. ReadYourWrites'
    BY <1>8, <2>1, <2>2 DEF ReadYourWrites, RawRead
  <2> QED BY <1>8, <2>1, <2>3 DEF RootBarrier
<1>9. CASE RootSync
  <2>1. RootNumbers'
    <3>1. \A s \in 1..RootSectors : root[s] <= commits
      BY DEF RootNumbers
    <3> QED BY <1>9, <3>1 DEF RootSync, RootNumbers
  <2>2. RootBarrier' /\ ReadYourWrites'
    BY <1>8, <1>9 DEF RootSync
  <2> QED
    BY <1>0, <1>9, <2>1, <2>2 DEF RootSync, TargetIsAccepted, FlushProgress, FlushDone
<1>10. CASE WriteSectorFails
  <2>1. pc = "flush" /\ pc' = "idle" /\ queue # <<>>
        /\ UNCHANGED <<pending, commits, root, rootSurv, accepted, target>>
        /\ lost' = lost \cup {queue[i].blk : i \in DOMAIN queue}
    BY <1>10 DEF WriteSectorFails, Fail
  <2>2. RootNumbers' /\ RootBarrier'
    BY <2>1 DEF RootNumbers, RootBarrier
  <2>3. \A b \in Blocks : b \notin lost' => dev'[b] = dev[b] /\ ~Queued(b)
    <3>1. Queued(Head(queue).blk)
      BY <2>1, EmptySeq, LenProperties DEF Queued, TypeOK
    <3>2. Head(queue).blk \in Blocks /\ Head(queue).blk \in lost'
      BY <2>1, <3>1, HeadOfQueue DEF Queued
    <3> QED BY <1>10, <2>1, <3>2 DEF WriteSectorFails, PutSector, TypeOK, Queued
  <2>4. ReadYourWrites'
    BY <2>1, <2>3 DEF ReadYourWrites, RawRead, TargetIsAccepted, FlushProgress
  <2> QED BY <1>0, <2>1, <2>2, <2>4 DEF TargetIsAccepted, FlushProgress, FlushDone
<1>11. CASE SyncFails
  <2>1. pc' = "idle" /\ UNCHANGED <<dev, surv, root, rootSurv, pending, commits, accepted, target, lost>>
    BY <1>11 DEF SyncFails, Fail
  <2>2. RootNumbers'
    BY <2>1 DEF RootNumbers
  <2>3. CASE pc = "flush"
    <3>1. queue = <<>>
      BY <1>11, <2>3 DEF SyncFails
    <3>2. RootBarrier'
      BY <2>1, <2>3 DEF RootNumbers, RootBarrier
    <3>3. ReadYourWrites'
      BY <2>1, <2>3, <3>1 DEF ReadYourWrites, RawRead, TargetIsAccepted, FlushProgress, Queued
    <3> QED BY <1>0, <2>1, <2>2, <3>2, <3>3 DEF TargetIsAccepted, FlushProgress, FlushDone
  <2>4. CASE pc = "rootsync"
    BY <1>0, <1>8, <2>1, <2>2, <2>4 DEF TargetIsAccepted, FlushProgress, FlushDone
  <2> QED BY <1>11, <2>3, <2>4 DEF SyncFails
<1>12. CASE RootWriteFails
  <2>1. pc = "root" /\ pc' = "idle"
        /\ UNCHANGED <<dev, surv, pending, commits, accepted, target, lost>>
    BY <1>12 DEF RootWriteFails, Fail
  <2>2. RootNumbers'
    BY <1>6, <1>12, <2>1 DEF RootNumbers, RootWriteFails
  <2> QED BY <1>0, <1>8, <2>1, <2>2 DEF TargetIsAccepted, FlushProgress, FlushDone
<1>13. CASE Crash
  <2>1. pc' = "idle" /\ UNCHANGED commits /\ pending' = <<>> /\ accepted' = dev' /\ target' = dev'
        /\ surv' = [b \in Blocks |-> [s \in Sectors |-> {dev'[b][s]}]]
    BY <1>13 DEF Crash
  <2>2. RootNumbers'
    BY <1>13, <2>1 DEF Crash, RootNumbers
  <2>3. RootBarrier' /\ ReadYourWrites'
    BY <2>1 DEF RootBarrier, ReadYourWrites, RawRead
  <2> QED BY <1>0, <2>1, <2>2, <2>3 DEF TargetIsAccepted, FlushProgress, FlushDone
<1>14. CASE UNCHANGED vars
  BY <1>0, <1>14 DEF vars, coreVars, rootVars, ghostVars, RootNumbers, TargetIsAccepted,
     FlushProgress, FlushDone, RootBarrier, ReadYourWrites, Queued, RawRead, Whole
<1> QED
  BY <1>1, <1>2, <1>3, <1>4, <1>5, <1>7, <1>9, <1>10, <1>11, <1>12, <1>13, <1>14 DEF Next

LEMMA CommitInvariant == Spec => []CommitInv
BY CommitInvInit, CommitInvNext, PTL DEF Spec

\* "Write rootblock cluster last": a root cluster that carries the latest
\* commit's number, even in one surviving sector, vouches for every reserved
\* block of that commit, whatever I/O errors and crashes came before.
THEOREM RootIsBarrier == Spec => []RootBarrier
BY CommitInvariant, PTL DEF CommitInv

\* Between operations the writer reads back what it was last asked to write,
\* except for blocks that a failed flush_pending dropped.
THEOREM WritesAreReadBack == Spec => []ReadYourWrites
BY CommitInvariant, PTL DEF CommitInv

-----------------------------------------------------------------------------
(* Crashes without I/O errors *)

\* Without errors the device may survive, between commits, in one state only,
\* and during a commit with the old or the new value of each sector.
MixInv ==
  faults = 0 =>
    /\ \A b \in Blocks : \A s \in Sectors :
         surv[b][s] \subseteq {committed[b][s], target[b][s]}
    /\ pc = "idle" => \A b \in Blocks : \A s \in Sectors :
         surv[b][s] \subseteq {committed[b][s]}

LEMMA MixInvNext ==
  ASSUME CommitInv, MixInv, [Next]_vars
  PROVE  MixInv'
<1> SUFFICES ASSUME faults' = 0 PROVE MixInv'
  BY DEF MixInv
<1>1. ASSUME NEW b \in Blocks, CachedRead(b) PROVE MixInv'
  BY <1>1 DEF CachedRead, ghostVars, MixInv
<1>2. ASSUME NEW b \in Blocks, NEW d \in Data, WriteReserved(b, d) PROVE MixInv'
  BY <1>2 DEF WriteReserved, MixInv
<1>3. CASE BeginFlush
  BY <1>3 DEF BeginFlush, MixInv
<1>4. CASE WriteSector
  <2> DEFINE h == Head(queue)
  <2>1. pc = "flush" /\ queue # <<>> /\ UNCHANGED <<pc, committed, target, faults>>
        /\ surv' = [surv EXCEPT ![h.blk][sector] = @ \cup {h.data}]
    BY <1>4 DEF WriteSector, PutSector
  <2>2. target[h.blk] = Whole(h.data) /\ h.blk \in Blocks /\ sector \in Sectors
    BY <2>1, HeadOfQueue, EmptySeq, LenProperties DEF CommitInv, FlushProgress, TypeOK
  <2>3. target[h.blk][sector] = h.data
    BY <2>2 DEF Whole
  <2>4. surv \in [Blocks -> [Sectors -> SUBSET Data]]
    BY DEF CommitInv, TypeOK
  <2>5. \A b \in Blocks : \A s \in Sectors :
          surv'[b][s] \subseteq surv[b][s] \cup {target[b][s]}
    BY <2>1, <2>2, <2>3, <2>4
  <2> QED BY <2>1, <2>5 DEF MixInv
<1>5. CASE FlushSync
  <2>1. \A b \in Blocks : dev[b] = target[b]
    BY <1>5 DEF FlushSync, CommitInv, FlushProgress, Queued
  <2> QED BY <1>5, <2>1 DEF FlushSync, AllDurable, MixInv, ghostVars
<1>6. CASE RootWrite
  BY <1>6 DEF RootWrite, ghostVars, MixInv
<1>7. CASE RootSync
  <2>1. \A b \in Blocks : dev[b] = target[b]
    BY <1>7 DEF RootSync, CommitInv, FlushDone
  <2> QED BY <1>7, <2>1 DEF RootSync, AllDurable, MixInv
<1>8. CASE WriteSectorFails \/ SyncFails \/ RootWriteFails
  BY <1>8 DEF WriteSectorFails, SyncFails, RootWriteFails, Fail, CommitInv, TypeOK
<1>9. CASE Crash
  BY <1>9 DEF Crash, MixInv
<1>10. CASE UNCHANGED vars
  BY <1>10 DEF vars, coreVars, ghostVars, MixInv
<1> QED
  BY <1>1, <1>2, <1>3, <1>4, <1>5, <1>6, <1>7, <1>8, <1>9, <1>10 DEF Next

\* Only a power loss counts a crash.
LEMMA OnlyCrashCounts ==
  ASSUME [Next]_vars, crashes' # crashes PROVE Crash
BY DEF Next, vars, coreVars, rootVars, CachedRead, WriteReserved, BeginFlush, WriteSector,
   FlushSync, RootWrite, RootSync, WriteSectorFails, SyncFails, RootWriteFails, Fail

\* Without I/O errors every sector found after a power loss is of the last
\* finished commit or of the one that was under way.
THEOREM CrashMixesTwo == Spec => CrashMixesTwoCommits
<1>1. Init => MixInv
  BY DEF Init, MixInv
<1>2. Spec => []MixInv
  BY <1>1, CommitInvariant, MixInvNext, PTL DEF Spec
<1>3. ASSUME MixInv, [Next]_vars
      PROVE  crashes' # crashes /\ faults = 0 =>
               \A b \in Blocks : \A s \in Sectors :
                 dev'[b][s] \in {committed[b][s], target[b][s]}
  <2> SUFFICES ASSUME crashes' # crashes, faults = 0,
                      NEW b \in Blocks, NEW s \in Sectors
               PROVE  dev'[b][s] \in {committed[b][s], target[b][s]}
    OBVIOUS
  <2>1. Crash
    BY <1>3, OnlyCrashCounts
  <2>2. dev'[b][s] \in surv[b][s]
    BY <2>1 DEF Crash
  <2> QED BY <1>3, <2>2 DEF MixInv
<1> QED BY <1>2, <1>3, PTL DEF Spec, CrashMixesTwoCommits

-----------------------------------------------------------------------------
(* The flush before the root cluster *)

\* "Pending reserved block writes, flushed ... before rootblock update" holds
\* whatever errors occurred, of every block no failed commit dropped.
THEOREM FlushedFirst == Spec => []FlushedBeforeRoot
<1>1. CommitInv => FlushedBeforeRoot
  BY DEF CommitInv, TypeOK, TargetIsAccepted, FlushDone, FlushedBeforeRoot
<1> QED BY <1>1, CommitInvariant, PTL
=============================================================================
