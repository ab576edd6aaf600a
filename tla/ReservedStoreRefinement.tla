---------------------- MODULE ReservedStoreRefinement ----------------------
(***************************************************************************)
(* The pending list, the cache and the phases of update_rootblock          *)
(* implement the write-behind store of BlockStore, for every value of the  *)
(* constants.  The writer's view of a block is its pending image between   *)
(* operations and the commit's target inside one; that the two agree at    *)
(* every change of phase is what makes the steps stutter or map.           *)
(***************************************************************************)
EXTENDS ReservedStoreProofs

\* flush_pending's list is empty outside flush_pending.
QueueInv == pc # "flush" => queue = <<>>

LEMMA QueueInvNext ==
  ASSUME QueueInv, [Next]_vars PROVE QueueInv'
BY DEF QueueInv, Next, vars, coreVars, CachedRead, WriteReserved, BeginFlush, WriteSector,
   FlushSync, RootWrite, RootSync, WriteSectorFails, SyncFails, RootWriteFails, Fail, Crash

RefInv == CommitInv /\ QueueInv

LEMMA RefInvariant == Spec => []RefInv
<1>1. Init => QueueInv
  BY DEF Init, QueueInv
<1>2. Spec => []QueueInv
  BY <1>1, QueueInvNext, PTL DEF Spec
<1> QED BY <1>2, CommitInvariant, PTL DEF RefInv

\* The writer's view inside and outside a commit.
LEMMA ViewOutside ==
  ASSUME QueueInv, pc # "flush", NEW b \in Blocks PROVE View(b) = RawRead(b)
BY DEF QueueInv, View

LEMMA ViewInside ==
  ASSUME RefInv, pc # "idle", NEW b \in Blocks PROVE View(b) = target[b]
<1> USE DEF RefInv, CommitInv
<1>1. pending = <<>>
  BY DEF TargetIsAccepted
<1>2. RawRead(b) = dev[b]
  BY <1>1, EmptyRawRead
<1>3. CASE pc = "flush"
  <2>1. CASE Queued(b)
    <3>1. PICK i \in DOMAIN queue : queue[i].blk = b
      BY <2>1 DEF Queued
    <3>2. queue \in Seq(Write) /\ OneEntryPerBlock(queue)
      BY DEF TypeOK, PendingDistinct
    <3>3. (CHOOSE j \in DOMAIN queue : queue[j].blk = b) = i
      BY <3>1, <3>2, ListedOnce
    <3>4. View(b) = Whole(queue[i].data)
      BY <3>1, <3>3 DEF View
    <3>5. target[b] = Whole(queue[i].data)
      BY <1>3, <3>1 DEF FlushProgress
    <3> QED BY <3>4, <3>5
  <2>2. CASE ~Queued(b)
    BY <1>2, <1>3, <2>2 DEF View, Queued, FlushProgress
  <2> QED BY <2>1, <2>2
<1>4. CASE pc # "flush"
  BY <1>2, <1>4, ViewOutside DEF FlushDone, TypeOK
<1> QED BY <1>3, <1>4

\* The abstract view as a function of the phase.
Shown == [b \in Blocks |-> IF pc = "idle" THEN RawRead(b) ELSE target[b]]

ViewInv == [b \in Blocks |-> View(b)] = Shown

LEMMA ViewIsShown == RefInv => ViewInv
BY ViewOutside, ViewInside DEF RefInv, Shown, ViewInv

LEMMA ShownType == ASSUME RefInv PROVE Shown \in [Blocks -> Image]
BY RawReadType DEF RefInv, CommitInv, TypeOK, Shown

\* Steps the abstract store does not see.
LEMMA StutterSteps ==
  ASSUME RefInv, RefInv',
         (\E b \in Blocks : CachedRead(b)) \/ BeginFlush \/ RootWrite \/ SyncFails
           \/ RootWriteFails \/ UNCHANGED vars
  PROVE  UNCHANGED <<Shown, dev, surv>>
<1> USE DEF RefInv, CommitInv
<1>1. ASSUME UNCHANGED <<pc, pending, dev, target, surv>> PROVE UNCHANGED <<Shown, dev, surv>>
  BY <1>1 DEF Shown, RawRead, Whole
<1>2. ASSUME NEW b \in Blocks, CachedRead(b) PROVE UNCHANGED <<Shown, dev, surv>>
  BY <1>1, <1>2 DEF CachedRead, ghostVars
<1>3. CASE BeginFlush
  BY <1>3 DEF BeginFlush, Shown
<1>4. CASE RootWrite
  BY <1>4 DEF RootWrite, ghostVars, Shown
<1>5. CASE SyncFails \/ RootWriteFails
  <2>1. pc # "idle" /\ pc' = "idle" /\ UNCHANGED <<dev, surv, pending, target>>
    BY <1>5 DEF SyncFails, RootWriteFails, Fail
  <2>2. \A b \in Blocks : dev[b] = target[b]
    BY <1>5 DEF SyncFails, RootWriteFails, FlushProgress, FlushDone, Queued
  <2>3. \A b \in Blocks : RawRead(b)' = dev[b]
    BY <2>1 DEF RawRead, TargetIsAccepted
  <2> QED BY <2>1, <2>2, <2>3 DEF Shown
<1>6. CASE UNCHANGED vars
  BY <1>1, <1>6 DEF vars, coreVars, ghostVars
<1> QED BY <1>2, <1>3, <1>4, <1>5, <1>6

\* write_reserved is Put.
LEMMA WriteIsPut ==
  ASSUME RefInv, NEW b \in Blocks, NEW d \in Data, WriteReserved(b, d)
  PROVE  Shown' = [Shown EXCEPT ![b] = Whole(d)] /\ UNCHANGED <<dev, surv>>
<1>1. pc = "idle" /\ pc' = "idle" /\ UNCHANGED <<dev, surv>>
  BY DEF WriteReserved
<1>2. \A a \in Blocks : RawRead(a)' = IF a = b THEN Whole(d) ELSE RawRead(a)
  BY ReadAfterWrite DEF RefInv
<1> QED BY <1>1, <1>2 DEF Shown

\* A sector write is Persist: it brings the view of that sector to the device.
LEMMA SectorIsPersist ==
  ASSUME RefInv, WriteSector
  PROVE  \E b \in Blocks, s \in Sectors :
           /\ dev' = [dev EXCEPT ![b][s] = Shown[b][s]]
           /\ surv' = [surv EXCEPT ![b][s] = @ \cup {Shown[b][s]}]
           /\ Shown' = Shown
<1> USE DEF RefInv, CommitInv
<1> DEFINE h == Head(queue)
<1>1. pc = "flush" /\ queue # <<>> /\ UNCHANGED <<pc, target>> /\ PutSector(h.blk, sector, h.data)
  BY DEF WriteSector
<1>2. h.blk \in Blocks /\ sector \in Sectors
  BY <1>1, HeadOfQueue DEF TypeOK
<1>3. target[h.blk] = Whole(h.data)
  BY <1>1, EmptySeq, LenProperties DEF FlushProgress, TypeOK
<1>4. Shown[h.blk][sector] = h.data
  BY <1>1, <1>2, <1>3 DEF Shown, Whole
<1>5. Shown' = Shown
  BY <1>1 DEF Shown
<1> HIDE DEF h
<1> QED BY <1>1, <1>2, <1>4, <1>5 DEF PutSector

\* The two syncs of a commit are Sync.
LEMMA SyncIsSync ==
  ASSUME RefInv, FlushSync \/ RootSync
  PROVE  surv' = AllDurable /\ UNCHANGED <<Shown, dev>>
<1> USE DEF RefInv, CommitInv
<1>1. CASE FlushSync
  BY <1>1 DEF FlushSync, ghostVars, Shown
<1>2. CASE RootSync
  <2>1. pc = "rootsync" /\ pc' = "idle" /\ UNCHANGED <<dev, pending, target>> /\ surv' = AllDurable
    BY <1>2 DEF RootSync
  <2>2. \A b \in Blocks : RawRead(b)' = dev[b] /\ dev[b] = target[b]
    BY <2>1 DEF RawRead, TargetIsAccepted, FlushDone
  <2> QED BY <2>1, <2>2 DEF Shown
<1> QED BY <1>1, <1>2

\* A failed sector write is Forget: the blocks still queued fall back to what
\* the device has, the others keep their image.
LEMMA FailureIsForget ==
  ASSUME RefInv, WriteSectorFails
  PROVE  \E gone \in SUBSET Blocks :
           /\ \/ UNCHANGED <<dev, surv>>
              \/ \E b \in gone, s \in Sectors :
                   /\ dev' = [dev EXCEPT ![b][s] = Shown[b][s]]
                   /\ surv' = [surv EXCEPT ![b][s] = @ \cup {Shown[b][s]}]
           /\ Shown' = [b \in Blocks |-> IF b \in gone THEN dev'[b] ELSE Shown[b]]
<1> USE DEF RefInv, CommitInv
<1> DEFINE h == Head(queue)
           gone == {b \in Blocks : Queued(b)}
<1>1. pc = "flush" /\ pc' = "idle" /\ queue # <<>> /\ UNCHANGED <<pending, target>>
      /\ (UNCHANGED <<dev, surv>> \/ PutSector(h.blk, sector, h.data))
  BY DEF WriteSectorFails, Fail
<1>2. h.blk \in Blocks /\ sector \in Sectors
  BY <1>1, HeadOfQueue DEF TypeOK
<1>3. 1 \in DOMAIN queue /\ h = queue[1]
  BY <1>1, EmptySeq, LenProperties DEF TypeOK
<1>4. h.blk \in gone /\ target[h.blk] = Whole(h.data)
  BY <1>1, <1>2, <1>3 DEF Queued, FlushProgress
<1>5. Shown[h.blk][sector] = h.data
  BY <1>1, <1>2, <1>4 DEF Shown, Whole
<1>6. \A b \in Blocks : b \notin gone => dev'[b] = dev[b] /\ dev[b] = target[b]
  BY <1>1, <1>2, <1>4 DEF PutSector, FlushProgress, TypeOK
<1>7. \A b \in Blocks : RawRead(b)' = dev'[b]
  BY <1>1 DEF RawRead, TargetIsAccepted
<1>8. Shown' = [b \in Blocks |-> IF b \in gone THEN dev'[b] ELSE Shown[b]]
  BY <1>1, <1>6, <1>7 DEF Shown
<1>9. \/ UNCHANGED <<dev, surv>>
      \/ \E b \in gone, s \in Sectors :
           /\ dev' = [dev EXCEPT ![b][s] = Shown[b][s]]
           /\ surv' = [surv EXCEPT ![b][s] = @ \cup {Shown[b][s]}]
  <2> HIDE DEF h, gone
  <2> QED BY <1>1, <1>2, <1>4, <1>5 DEF PutSector
<1>10. gone \in SUBSET Blocks
  OBVIOUS
<1> HIDE DEF gone
<1> QED BY <1>8, <1>9, <1>10

\* Every step of the store is a step of the abstract store or a stutter.
LEMMA StepRefines ==
  ASSUME RefInv, RefInv', ViewInv, ViewInv', [Next]_vars
  PROVE  [Store!StoreNext]_(Store!storeVars)
<1>0. [b \in Blocks |-> View(b)] = Shown /\ [b \in Blocks |-> View(b)]' = Shown'
  BY DEF ViewInv
<1>1. ASSUME NEW b \in Blocks, NEW d \in Data, WriteReserved(b, d) PROVE Store!StoreNext
  <2>1. Store!Put(b, d)
    BY <1>0, <1>1, WriteIsPut DEF Store!Put, Whole
  <2> QED BY <2>1 DEF Store!StoreNext
<1>2. CASE WriteSector
  <2>1. \E b \in Blocks, s \in Sectors : Store!Persist(b, s)
    BY <1>0, <1>2, SectorIsPersist DEF Store!Persist
  <2> QED BY <2>1 DEF Store!StoreNext
<1>3. CASE FlushSync \/ RootSync
  <2>1. Store!Sync
    BY <1>0, <1>3, SyncIsSync DEF Store!Sync, AllDurable
  <2> QED BY <2>1 DEF Store!StoreNext
<1>4. CASE WriteSectorFails
  <2>1. Store!Forget
    <3>1. PICK gone \in SUBSET Blocks :
             /\ \/ UNCHANGED <<dev, surv>>
                \/ \E b \in gone, s \in Sectors :
                     /\ dev' = [dev EXCEPT ![b][s] = Shown[b][s]]
                     /\ surv' = [surv EXCEPT ![b][s] = @ \cup {Shown[b][s]}]
             /\ Shown' = [b \in Blocks |-> IF b \in gone THEN dev'[b] ELSE Shown[b]]
      BY <1>4, FailureIsForget
    <3> DEFINE V == [b \in Blocks |-> View(b)]
    <3>2. V = Shown /\ V' = Shown'
      BY <1>0
    <3> HIDE DEF V
    <3>3. \/ UNCHANGED <<dev, surv>>
          \/ \E b \in gone, s \in Sectors :
               /\ dev' = [dev EXCEPT ![b][s] = V[b][s]]
               /\ surv' = [surv EXCEPT ![b][s] = @ \cup {V[b][s]}]
      BY <3>1, <3>2, Zenon
    <3>4. V' = [b \in Blocks |-> IF b \in gone THEN dev'[b] ELSE V[b]]
      BY <3>1, <3>2, Zenon
    <3> QED BY <3>1, <3>3, <3>4, Zenon DEF Store!Forget, V
  <2> QED BY <2>1 DEF Store!StoreNext
<1>5. CASE Crash
  <2>1. pc' = "idle" /\ pending' = <<>>
    BY <1>5 DEF Crash
  <2>2. \A b \in Blocks : RawRead(b)' = dev'[b]
    BY <2>1 DEF RawRead
  <2>3. dev' \in [Blocks -> Image]
    BY <1>5 DEF Crash
  <2>4. Shown' = dev'
    BY <2>1, <2>2, <2>3 DEF Shown
  <2>5. Store!PowerLoss
    BY <1>0, <1>5, <2>4 DEF Crash, Store!PowerLoss, Store!Image, Image
  <2> QED BY <2>5 DEF Store!StoreNext
<1>6. CASE (\E b \in Blocks : CachedRead(b)) \/ BeginFlush \/ RootWrite \/ SyncFails
             \/ RootWriteFails \/ UNCHANGED vars
  BY <1>0, <1>6, StutterSteps DEF Store!storeVars
<1> QED BY <1>1, <1>2, <1>3, <1>4, <1>5, <1>6 DEF Next

\* ReservedStore implements BlockStore: sectors of the device only move to the
\* writer's view of them, errors forget whole blocks, crashes go back to a
\* value since the last sync.
THEOREM StoreRefinement == Spec => ImplementsBlockStore
<1>1. Init => Store!StoreInit
  <2> SUFFICES ASSUME Init PROVE Store!StoreInit
    OBVIOUS
  <2>1. dev \in [Blocks -> Image]
    BY InitTypeOK DEF TypeOK
  <2>2. \A b \in Blocks : View(b) = dev[b]
    BY DEF Init, View, RawRead
  <2> QED BY <2>1, <2>2 DEF Init, Store!StoreInit, Store!Image, Image
<1>2. Spec => []ViewInv
  BY RefInvariant, ViewIsShown, PTL
<1> QED
  BY <1>1, <1>2, RefInvariant, StepRefines, PTL DEF Spec, ImplementsBlockStore, Store!StoreSpec
=============================================================================
