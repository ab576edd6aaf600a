----------------------------- MODULE FuseProofs -----------------------------
(***************************************************************************)
(* The safety of the driver's tables, proved for every number of requests, *)
(* handles, anodes, names and deldir slots and every volume without hard   *)
(* links that is mounted.                                                  *)
(*                                                                         *)
(* CacheFaithful, ReadsAreCurrent and CloseExact do not carry themselves   *)
(* from step to step.  What does is FuseInv: the volume gives no two       *)
(* entries one anode, an inode number and its record say the same anode, a *)
(* name that is not stale leads to the entry that is there, the record of  *)
(* an inode that is not spoilt has the place, type, protection and size    *)
(* of its entry, and a buffer that is not spoilt belongs to an open file   *)
(* and will be written back to its own entry.  An operation that fails     *)
(* half way may leave a volume on which two entries share an anode or an   *)
(* entry is of a deleted file; Inv says that the properties hold there     *)
(* too, where the model stops.                                             *)
(*                                                                         *)
(* First the facts about inode numbers, the anode a new entry gets and the *)
(* deldir listing; then what the pieces of several handlers (refreshing    *)
(* .Trashcan, deleting an entry, entering a file in the table, filling a   *)
(* buffer) keep; then one lemma per handler; last the theorems.            *)
(***************************************************************************)
EXTENDS Fuse, FiniteSetTheorems, SequenceTheorems, WellFoundedInduction, TLAPS
-----------------------------------------------------------------------------
(* The inductive invariant *)

Nodes == {RootIno} \cup FileInos

\* The inode of an entry, and where the name of a cache key stands.
Ino(y) == AnodeToIno(entries[y].anode)
Place(x) == <<InoToAnode(x[1]), Fold[x[2]]>>

\* The volume: no two entries share an anode, and none has one of the deldir.
EntriesTyped ==
  /\ DOMAIN entries \subseteq ({Root} \cup Anodes) \X Keys
  /\ \A y \in DOMAIN entries :
       entries[y] \in [type : Kinds, anode : Anodes, size : 0..MaxSize, prot : 0..3]
AnodesApart ==
  \A y, z \in DOMAIN entries : entries[y].anode = entries[z].anode => y = z
ChainsTyped == chains \in [Anodes -> Seq(Content)]
TrashTyped ==
  /\ DOMAIN trash = Slots
  /\ \A s \in Slots : trash[s] = <<>> \/ \E d \in Deleted : trash[s] = <<d>>
TrashApart ==
  \A s \in Slots, y \in DOMAIN entries :
    trash[s] # <<>> => trash[s][1].anode # entries[y].anode
StoreOK == EntriesTyped /\ AnodesApart /\ ChainsTyped /\ TrashTyped /\ TrashApart

BufferInfo == [dir : Anodes \cup {Root}, key : Keys \cup {0}, data : Seq(Content)]

\* The table: what an inode number says, the record says.
TableOK ==
  /\ TypeOK
  /\ RootIno \in DOMAIN inodes
  /\ \A i \in DOMAIN inodes \cap Nodes :
       inodes[i].anode = InoToAnode(i) /\ inodes[i].parent \in Nodes
  /\ \A x \in DOMAIN nameCache \ FileKeys : nameCache[x] \in {DeldirIno(t) : t \in Slots}
  /\ \A t \in Slots : DeldirIno(t) \in DOMAIN inodes => inodes[DeldirIno(t)].kind = "file"
  /\ deldir \in Seq(Deleted)
  /\ handles \in [FileInos -> [r : Nat, w : Nat]]
  /\ \A i \in DOMAIN writeBufs : writeBufs[i] \in BufferInfo

\* A key that is not stale names the file that the volume has there.
NamesOK ==
  \A x \in FileKeys \ stale :
    Place(x) \in DOMAIN entries /\ nameCache[x] = Ino(Place(x))

\* The record of an inode that is named has that name, and the type of the
\* entry there.
RecordsOK ==
  \A x \in FileKeys \ stale :
    nameCache[x] \in DOMAIN inodes =>
      /\ inodes[nameCache[x]].parent = x[1] /\ inodes[nameCache[x]].key = Fold[x[2]]
      /\ inodes[nameCache[x]].kind = entries[Place(x)].type

\* The record of an entry has its place, its type and its protection, unless
\* it is spoilt.
PlacesOK ==
  \A y \in DOMAIN entries : Ino(y) \in DOMAIN inodes \ spoilt =>
    /\ <<InoToAnode(inodes[Ino(y)].parent), inodes[Ino(y)].key>> = y
    /\ inodes[Ino(y)].kind = entries[y].type
    /\ inodes[Ino(y)].prot = entries[y].prot

\* Without a buffer the sizes of record and entry read the same.
SameRead(y) ==
  ReadChain(entries[y].anode, inodes[Ino(y)].size) = ReadChain(entries[y].anode, entries[y].size)
SizesOK ==
  \A y \in DOMAIN entries :
    Ino(y) \in DOMAIN inodes \ (spoilt \cup DOMAIN writeBufs) /\ entries[y].type = "file" =>
      SameRead(y)

\* A buffer that is not spoilt belongs to an open file, is written back to its
\* entry and holds what its client wants there; an empty one hides no size.
BufferOK(i) ==
  LET y == <<writeBufs[i].dir, writeBufs[i].key>>
  IN  /\ i \in DOMAIN inodes /\ OpenHandles(i) > 0
      /\ y \in DOMAIN entries /\ Ino(y) = i
      /\ i \in DOMAIN want /\ want[i] = writeBufs[i].data
      /\ writeBufs[i].data = <<>> => inodes[i].size = 0 \/ SameRead(y)
BuffersOK == \A i \in DOMAIN writeBufs \ spoilt : BufferOK(i)

FuseInv ==
  /\ StoreOK /\ TableOK /\ TrashInodesCurrent
  /\ NamesOK /\ RecordsOK /\ PlacesOK /\ SizesOK /\ BuffersOK

\* An operation that failed half way may leave the volume entangled.  The model
\* stops there, and what it promises still holds.
StoppedInv ==
  Entangled /\ TypeOK /\ TrashInodesCurrent /\ CacheFaithful /\ ReadsAreCurrent
Inv == FuseInv \/ StoppedInv

-----------------------------------------------------------------------------
(* Inode numbers *)

\* The inodes of files, of the root, of .Trashcan and of deleted files are
\* apart, and an inode number tells its anode.
LEMMA InodeNumbers ==
  /\ \A a \in Anodes : AnodeToIno(a) \in FileInos /\ InoToAnode(AnodeToIno(a)) = a
  /\ \A i \in FileInos : InoToAnode(i) \in Anodes /\ AnodeToIno(InoToAnode(i)) = i
  /\ AnodeToIno(Root) = RootIno /\ InoToAnode(RootIno) = Root
  /\ RootIno \notin FileInos /\ TrashIno \notin FileInos /\ TrashIno # RootIno
  /\ \A i, j \in Nodes : InoToAnode(i) = InoToAnode(j) => i = j
  /\ \A t \in Slots : DeldirIno(t) \notin Nodes
  /\ Nodes \subseteq Nat /\ TrashIno \in Nat
  /\ Root \notin Anodes
<1> USE InodesApart DEF RootIno, TrashIno, AnodeToIno, InoToAnode, FileInos, Nodes
<1>1. \A i \in FileInos : \E a \in Anodes : i = a + 100
  OBVIOUS
<1>2. \A a \in Anodes : AnodeToIno(a) \in FileInos /\ InoToAnode(AnodeToIno(a)) = a
  OBVIOUS
<1>3. \A i \in FileInos : InoToAnode(i) \in Anodes /\ AnodeToIno(InoToAnode(i)) = i
  BY <1>1
<1>4. \A t \in Slots : DeldirIno(t) \notin Nodes
  BY BoundsAssumption DEF DeldirIno, Slots
<1>5. \A i, j \in Nodes : InoToAnode(i) = InoToAnode(j) => i = j
  BY <1>1
<1> QED BY <1>2, <1>3, <1>4, <1>5

-----------------------------------------------------------------------------
(* The volume *)

\* A set of numbers that is not empty has a least one.
LEMMA LeastNumber ==
  ASSUME NEW S \in SUBSET Nat, S # {}
  PROVE  \E m \in S : \A n \in S : m <= n
<1> DEFINE R == OpToRel(<, Nat)
<1>1. IsWellFoundedOn(R, Nat)
  BY NatLessThanWellFounded, Zenon
<1>2. \A m, n \in Nat : <<m, n>> \in R <=> m < n
  BY DEF OpToRel
<1> HIDE DEF R
<1>3. PICK m \in S : \A n \in S : ~(<<n, m>> \in R)
  BY <1>1, WFMin
<1>4. ASSUME NEW n \in S PROVE m <= n
  <2>1. m \in Nat /\ n \in Nat
    OBVIOUS
  <2>2. ~(n < m)
    BY <1>2, <1>3, <2>1
  <2> QED BY <2>1, <2>2
<1> QED BY <1>4

\* move_to_deldir finds a slot.
LEMMA SlotExists ==
  ASSUME Slots # {}
  PROVE  Slot \in Slots
<1> DEFINE empty == {s \in Slots : trash[s] = <<>>}
<1>1. Slots \subseteq Nat /\ 1 \in Slots
  BY BoundsAssumption DEF Slots
<1>2. CASE empty # {}
  <2>1. \E s \in empty : \A j \in empty : s <= j
    BY <1>1, <1>2, LeastNumber
  <2> QED BY <1>2, <2>1 DEF Slot
<1>3. CASE empty = {}
  BY <1>1, <1>3 DEF Slot
<1> QED BY <1>2, <1>3

\* An anode that is not in use belongs to no entry and to no deldir slot.
LEMMA FreeAnode ==
  ASSUME StoreOK, NEW a \in Anodes \ InUse
  PROVE  /\ \A y \in DOMAIN entries : entries[y].anode # a
         /\ \A s \in Slots : trash[s] # <<>> => trash[s][1].anode # a
<1>1. ASSUME NEW s \in Slots, trash[s] # <<>> PROVE trash[s][1].anode # a
  <2>1. PICK d \in Deleted : trash[s] = <<d>>
    BY <1>1 DEF StoreOK, TrashTyped
  <2>2. 1 \in DOMAIN trash[s]
    BY <2>1
  <2>3. trash[s][1].anode \in InUse
    BY <2>2 DEF InUse
  <2> QED BY <2>3
<1> QED BY <1>1 DEF InUse

LEMMA DirsTyped ==
  ASSUME StoreOK
  PROVE  Dirs \subseteq {Root} \cup Anodes
BY DEF Dirs, StoreOK, EntriesTyped

\* Each operation of the volume keeps it sound.
LEMMA CreateKeepsStore ==
  ASSUME StoreOK, NEW d, NEW k \in Keys, NEW type \in {"file", "dir"}, NEW a, Create(d, k, type, a, <<>>)
  PROVE  StoreOK'
<1> DEFINE new == [type |-> type, anode |-> a, size |-> 0, prot |-> 0]
<1>1. /\ d \in {Root} \cup Anodes /\ a \in Anodes
      /\ entries' = With(entries, <<d, k>>, new) /\ UNCHANGED trash
      /\ chains' = [chains EXCEPT ![a] = IF type = "dir" THEN <<>> ELSE <<Zero>>]
  BY DirsTyped DEF Create, Blocks
<1>2. /\ \A y \in DOMAIN entries : entries[y].anode # a
      /\ \A s \in Slots : trash[s] # <<>> => trash[s][1].anode # a
  BY FreeAnode DEF Create
<1>3. new \in [type : Kinds, anode : Anodes, size : 0..MaxSize, prot : 0..3]
  BY <1>1, BoundsAssumption DEF Kinds
<1> HIDE DEF new
<1>4. EntriesTyped'
  BY <1>1, <1>3 DEF StoreOK, EntriesTyped, With
<1>5. AnodesApart'
  BY <1>1, <1>2 DEF StoreOK, AnodesApart, With, new
<1>6. ChainsTyped'
  <2>1. <<>> \in Seq(Content) /\ <<Zero>> \in Seq(Content)
    BY DEF Content
  <2> QED BY <1>1, <2>1 DEF StoreOK, ChainsTyped
<1>7. TrashTyped' /\ TrashApart'
  BY <1>1, <1>2 DEF StoreOK, TrashTyped, TrashApart, With, new
<1> QED BY <1>4, <1>5, <1>6, <1>7 DEF StoreOK

\* The node of a deleted entry: the deldir gets it, and loses no entry's node.
LEMMA DiscardKeepsTrash ==
  ASSUME StoreOK, NEW y \in DOMAIN entries, NEW k \in Keys, Discard(k, entries[y])
  PROVE  /\ ChainsTyped' /\ TrashTyped'
         /\ \A s \in Slots, z \in DOMAIN entries \ {y} :
              trash'[s] # <<>> => trash'[s][1].anode # entries[z].anode
         /\ \A z \in DOMAIN entries \ {y} :
              chains'[entries[z].anode] = chains[entries[z].anode]
<1> DEFINE e == entries[y]
           del == [anode |-> e.anode, size |-> e.size, key |-> k]
           evicted == {trash[Slot][j] : j \in DOMAIN trash[Slot]}
<1>1. /\ e \in [type : Kinds, anode : Anodes, size : 0..MaxSize, prot : 0..3]
      /\ \A z \in DOMAIN entries \ {y} : entries[z].anode \in Anodes /\ entries[z].anode # e.anode
  BY DEF StoreOK, EntriesTyped, AnodesApart
<1>2. CASE e.type = "dir"
  BY <1>2 DEF Discard, StoreOK, ChainsTyped, TrashTyped, TrashApart
<1>3. CASE e.type # "dir" /\ Slots = {}
  <2>1. chains' = [chains EXCEPT ![e.anode] = <<>>] /\ UNCHANGED trash
    BY <1>3 DEF Discard
  <2> QED BY <1>1, <1>3, <2>1 DEF StoreOK, ChainsTyped, TrashTyped
<1>4. CASE e.type # "dir" /\ Slots # {}
  <2>1. /\ trash' = [trash EXCEPT ![Slot] = <<del>>]
        /\ chains' = [a \in DOMAIN chains |->
                        IF \E t \in evicted : t.anode = a THEN <<>> ELSE chains[a]]
    BY <1>4 DEF Discard
  <2>2. Slot \in Slots
    BY <1>4, SlotExists
  <2>3. del \in Deleted
    BY <1>1 DEF Deleted
  <2>4. ASSUME NEW t \in evicted, NEW z \in DOMAIN entries PROVE t.anode # entries[z].anode
    BY <2>2 DEF StoreOK, TrashTyped, TrashApart
  <2> HIDE DEF evicted
  <2>5. ChainsTyped'
    BY <2>1 DEF StoreOK, ChainsTyped
  <2>6. TrashTyped'
    BY <2>1, <2>2, <2>3 DEF StoreOK, TrashTyped
  <2>7. \A s \in Slots, z \in DOMAIN entries \ {y} :
          trash'[s] # <<>> => trash'[s][1].anode # entries[z].anode
    BY <1>1, <2>1, <2>2 DEF StoreOK, TrashTyped, TrashApart
  <2>8. \A z \in DOMAIN entries \ {y} : chains'[entries[z].anode] = chains[entries[z].anode]
    BY <1>1, <2>1, <2>4 DEF StoreOK, ChainsTyped
  <2> QED BY <2>5, <2>6, <2>7, <2>8
<1> QED BY <1>2, <1>3, <1>4

LEMMA DeleteKeepsStore ==
  ASSUME StoreOK, NEW d, NEW k \in Keys, DeleteIn(d, k)
  PROVE  StoreOK'
<1>1. /\ <<d, k>> \in DOMAIN entries /\ entries' = Without(entries, <<d, k>>)
      /\ Discard(k, entries[<<d, k>>])
  BY DEF DeleteIn, Removable, Has
<1>2. /\ ChainsTyped' /\ TrashTyped'
      /\ \A s \in Slots, z \in DOMAIN entries \ {<<d, k>>} :
           trash'[s] # <<>> => trash'[s][1].anode # entries[z].anode
  BY <1>1, DiscardKeepsTrash
<1>3. EntriesTyped' /\ AnodesApart'
  BY <1>1 DEF StoreOK, EntriesTyped, AnodesApart, Without
<1>4. TrashApart'
  BY <1>1, <1>2 DEF TrashApart, Without
<1> QED BY <1>2, <1>3, <1>4 DEF StoreOK

LEMMA RenameKeepsStore ==
  ASSUME StoreOK, NEW d, NEW k \in Keys, NEW e, NEW l \in Keys, RenameIn(d, k, e, l)
  PROVE  StoreOK'
<1>1. /\ <<d, k>> \in DOMAIN entries /\ e \in {Root} \cup Anodes /\ <<d, k>> # <<e, l>>
      /\ entries' = With(Without(entries, <<d, k>>), <<e, l>>, entries[<<d, k>>])
  BY DirsTyped DEF RenameIn, Has
<1>2. EntriesTyped' /\ AnodesApart'
  <2>1. <<e, l>> \in ({Root} \cup Anodes) \X Keys
    BY <1>1
  <2>2. DOMAIN entries' = (DOMAIN entries \ {<<d, k>>}) \cup {<<e, l>>}
        /\ entries'[<<e, l>>] = entries[<<d, k>>]
        /\ \A y \in DOMAIN entries \ {<<d, k>>, <<e, l>>} : entries'[y] = entries[y]
    BY <1>1 DEF With, Without
  <2>3. \A y \in DOMAIN entries' : \E z \in DOMAIN entries :
          /\ entries'[y] = entries[z]
          /\ z = IF y = <<e, l>> THEN <<d, k>> ELSE y
    BY <1>1, <2>2
  <2>4. EntriesTyped'
    BY <2>1, <2>2, <2>3 DEF StoreOK, EntriesTyped
  <2>5. ASSUME NEW v \in DOMAIN entries', NEW w \in DOMAIN entries',
               entries'[v].anode = entries'[w].anode
        PROVE  v = w
    <3>1. PICK y \in DOMAIN entries :
            entries'[v] = entries[y] /\ y = IF v = <<e, l>> THEN <<d, k>> ELSE v
      BY <2>3
    <3>2. PICK z \in DOMAIN entries :
            entries'[w] = entries[z] /\ z = IF w = <<e, l>> THEN <<d, k>> ELSE w
      BY <2>3
    <3>3. y = z
      BY <2>5, <3>1, <3>2 DEF StoreOK, AnodesApart
    <3>4. v # <<d, k>> /\ w # <<d, k>>
      BY <1>1, <2>2
    <3> QED BY <3>1, <3>2, <3>3, <3>4
  <2>6. AnodesApart'
    BY <2>5 DEF AnodesApart
  <2> QED BY <2>4, <2>6
<1>3. CASE Has(e, l)
  <2>1. Discard(l, entries[<<e, l>>]) /\ <<e, l>> \in DOMAIN entries
    BY <1>3 DEF RenameIn, Has
  <2>2. /\ ChainsTyped' /\ TrashTyped'
        /\ \A s \in Slots, z \in DOMAIN entries \ {<<e, l>>} :
             trash'[s] # <<>> => trash'[s][1].anode # entries[z].anode
    BY <2>1, DiscardKeepsTrash
  <2>3. TrashApart'
    BY <1>1, <2>2 DEF TrashApart, With, Without
  <2> QED BY <1>2, <2>2, <2>3 DEF StoreOK
<1>4. CASE ~Has(e, l)
  <2>1. UNCHANGED <<chains, trash>>
    BY <1>4 DEF RenameIn
  <2>2. ChainsTyped' /\ TrashTyped' /\ TrashApart'
    BY <1>1, <2>1 DEF StoreOK, ChainsTyped, TrashTyped, TrashApart, With, Without
  <2> QED BY <1>2, <2>2 DEF StoreOK
<1> QED BY <1>3, <1>4

\* Overwriting a chain and changing one entry's size or protection.
LEMMA PutKeepsChains ==
  ASSUME ChainsTyped, NEW a, NEW c \in Seq(Content), PutChain(a, c)
  PROVE  /\ ChainsTyped'
         /\ \A b \in Anodes \ {a} : chains'[b] = chains[b]
         /\ a \in InUse /\ a \in Anodes => chains'[a] = c
BY DEF ChainsTyped, PutChain

LEMMA UpdateKeepsStore ==
  ASSUME StoreOK, ChainsTyped', UNCHANGED trash, NEW y,
         \/ UNCHANGED entries
         \/ \E n \in 0..MaxSize : entries' = [entries EXCEPT ![y].size = n]
         \/ \E n \in 0..3 : entries' = [entries EXCEPT ![y].prot = n]
  PROVE  StoreOK'
<1>1. /\ DOMAIN entries' = DOMAIN entries
      /\ \A z \in DOMAIN entries :
           /\ entries'[z].anode = entries[z].anode
           /\ entries'[z] \in [type : Kinds, anode : Anodes, size : 0..MaxSize, prot : 0..3]
  <2>1. CASE UNCHANGED entries
    BY <2>1 DEF StoreOK, EntriesTyped
  <2>2. CASE \E n \in 0..MaxSize : entries' = [entries EXCEPT ![y].size = n]
    <3>1. PICK n \in 0..MaxSize : entries' = [entries EXCEPT ![y].size = n]
      BY <2>2
    <3>2. ASSUME NEW z \in DOMAIN entries
          PROVE /\ entries'[z].anode = entries[z].anode
                /\ entries'[z] \in [type : Kinds, anode : Anodes, size : 0..MaxSize, prot : 0..3]
      BY <3>1 DEF StoreOK, EntriesTyped
    <3> QED BY <3>1, <3>2
  <2>3. CASE \E n \in 0..3 : entries' = [entries EXCEPT ![y].prot = n]
    <3>1. PICK n \in 0..3 : entries' = [entries EXCEPT ![y].prot = n]
      BY <2>3
    <3>2. ASSUME NEW z \in DOMAIN entries
          PROVE /\ entries'[z].anode = entries[z].anode
                /\ entries'[z] \in [type : Kinds, anode : Anodes, size : 0..MaxSize, prot : 0..3]
      BY <3>1 DEF StoreOK, EntriesTyped
    <3> QED BY <3>1, <3>2
  <2> QED BY <2>1, <2>2, <2>3
<1> QED BY <1>1 DEF StoreOK, EntriesTyped, AnodesApart, TrashTyped, TrashApart

-----------------------------------------------------------------------------
(* The table and the volume *)

\* A directory that requests name has a record, of the anode its number tells.
LEMMA DirNodes ==
  ASSUME TableOK, NEW p \in DirInos
  PROVE  /\ p \in DOMAIN inodes /\ p \in Nodes /\ p # TrashIno
         /\ inodes[p].anode = InoToAnode(p) /\ InoToAnode(p) \in {Root} \cup Anodes
<1>1. p \in DOMAIN inodes
  BY DEF DirInos, Named, TableOK
<1>2. p \in Nodes
  <2>1. CASE p = RootIno
    BY <2>1 DEF Nodes
  <2>2. CASE p # RootIno
    <3>1. PICK x \in DOMAIN nameCache : p = nameCache[x]
      BY <2>2 DEF DirInos, Named
    <3>2. CASE x \in FileKeys
      BY <3>1, <3>2 DEF TableOK, TypeOK, Nodes
    <3>3. CASE x \notin FileKeys
      <4>1. PICK t \in Slots : p = DeldirIno(t)
        BY <3>1, <3>3 DEF TableOK
      <4>2. inodes[p].kind = "file"
        BY <1>1, <4>1 DEF TableOK
      <4> QED BY <4>2 DEF DirInos
    <3> QED BY <3>2, <3>3
  <2> QED BY <2>1, <2>2
<1>3. inodes[p].anode = InoToAnode(p)
  BY <1>1, <1>2 DEF TableOK
<1>4. InoToAnode(p) \in {Root} \cup Anodes /\ p # TrashIno
  BY <1>2, InodeNumbers DEF Nodes
<1> QED BY <1>1, <1>2, <1>3, <1>4

\* An entry's inode is one of a file, which no other entry has.
LEMMA EntryInos ==
  ASSUME StoreOK
  PROVE  /\ \A y \in DOMAIN entries :
              /\ Ino(y) \in FileInos /\ InoToAnode(Ino(y)) = entries[y].anode
              /\ entries[y].anode \in Anodes /\ y = <<y[1], y[2]>>
              /\ \A i \in FileInos : InoToAnode(i) = entries[y].anode => i = Ino(y)
         /\ \A y, z \in DOMAIN entries : Ino(y) = Ino(z) => y = z
<1>1. \A y \in DOMAIN entries : entries[y].anode \in Anodes /\ y = <<y[1], y[2]>>
  BY DEF StoreOK, EntriesTyped
<1>2. \A y \in DOMAIN entries :
        /\ Ino(y) \in FileInos /\ InoToAnode(Ino(y)) = entries[y].anode
        /\ \A i \in FileInos : InoToAnode(i) = entries[y].anode => i = Ino(y)
  BY <1>1, InodeNumbers DEF Ino
<1>3. \A y, z \in DOMAIN entries : Ino(y) = Ino(z) => y = z
  BY <1>2 DEF StoreOK, AnodesApart
<1> QED BY <1>1, <1>2, <1>3

\* Two keys of the name cache with the same place are spellings of one name.
LEMMA KeyPlaces ==
  ASSUME TypeOK
  PROVE  /\ \A x \in FileKeys : x = <<x[1], x[2]>> /\ x[1] \in Nodes /\ x[2] \in Names
         /\ \A x \in FileKeys, p \in Nodes, n \in Names :
              Place(x) = <<InoToAnode(p), Fold[n]>> => x[1] = p /\ Fold[x[2]] = Fold[n]
         /\ \A x \in FileKeys, z \in FileKeys :
              Place(x) = Place(z) => x[1] = z[1] /\ Fold[x[2]] = Fold[z[2]]
<1>1. \A x \in FileKeys : x = <<x[1], x[2]>> /\ x[1] \in Nodes /\ x[2] \in Names
  BY DEF TypeOK, Nodes
<1>2. \A x \in FileKeys, p \in Nodes, n \in Names :
        Place(x) = <<InoToAnode(p), Fold[n]>> => x[1] = p /\ Fold[x[2]] = Fold[n]
  BY <1>1, InodeNumbers DEF Place
<1>3. \A x \in FileKeys, z \in FileKeys :
        Place(x) = Place(z) => x[1] = z[1] /\ Fold[x[2]] = Fold[z[2]]
  BY <1>1, InodeNumbers DEF Place
<1> QED BY <1>1, <1>2, <1>3

\* What is read of a chain.
LEMMA ReadTyped ==
  ASSUME ChainsTyped, NEW a \in Anodes, NEW size \in 0..MaxSize
  PROVE  /\ ReadChain(a, size) \in Seq(Content) /\ Len(ReadChain(a, size)) <= MaxSize
         /\ size = 0 => ReadChain(a, size) = <<>>
<1> DEFINE c == chains[a]
           n == Least(size, Len(c))
<1>1. c \in Seq(Content) /\ Len(c) \in Nat
  BY DEF ChainsTyped
<1>2. n \in 0..Len(c) /\ n <= size /\ n \in Nat
  BY <1>1, BoundsAssumption DEF Least
<1>3. SubSeq(c, 1, n) \in Seq(Content) /\ Len(SubSeq(c, 1, n)) = n
  <2> HIDE DEF c, n
  <2> QED BY <1>1, <1>2, SubSeqProperties
<1>4. ReadChain(a, size) = SubSeq(c, 1, n)
  BY DEF ReadChain
<1>5. size = 0 => SubSeq(c, 1, n) = <<>>
  <2> HIDE DEF c
  <2>1. size = 0 => n = 0
    BY <1>2, BoundsAssumption
  <2> HIDE DEF n
  <2> QED BY <1>3, <2>1, EmptySeq
<1> HIDE DEF c, n
<1> QED BY <1>2, <1>3, <1>4, <1>5, BoundsAssumption

\* The entry that names a file is the one whose inode it has.
LEMMA EntryOfIno ==
  ASSUME StoreOK, NEW y \in DOMAIN entries
  PROVE  /\ HasEntry(entries[y].anode) /\ EntryOf(entries[y].anode) = y
         /\ DiskContent(entries[y].anode) = ReadChain(entries[y].anode, entries[y].size)
<1>1. HasEntry(entries[y].anode) /\ EntryOf(entries[y].anode) = y
  BY DEF HasEntry, EntryOf, StoreOK, AnodesApart
<1>2. y = <<y[1], y[2]>>
  BY DEF StoreOK, EntriesTyped
<1> QED BY <1>1, <1>2 DEF DiskContent, ContentAt, AnodeOf

\* list_deldir lists the slots in use: the n-th one exists.
LEMMA ListDeldirTyped ==
  ASSUME NEW bin, \A s \in Slots : bin[s] = <<>> \/ \E d \in Deleted : bin[s] = <<d>>
  PROVE  ListDeldir(bin) \in Seq(Deleted) /\ Len(ListDeldir(bin)) <= NumSlots
<1> DEFINE used == {s \in Slots : bin[s] # <<>>}
           Upto(m) == {j \in used : j <= m}
           Nth(n) == CHOOSE i \in used : Cardinality(Upto(i)) = n
<1>1. used \subseteq 1..NumSlots /\ NumSlots \in Nat
  BY BoundsAssumption DEF Slots
<1>2. /\ IsFiniteSet(used) /\ Cardinality(used) <= NumSlots
      /\ Cardinality(used) \in Nat
  <2>1. IsFiniteSet(1..NumSlots) /\ Cardinality(1..NumSlots) = NumSlots
    BY <1>1, FS_Interval
  <2> HIDE DEF used
  <2> QED BY <1>1, <2>1, FS_Subset, FS_CardinalityType
<1>3. ASSUME NEW m \in Nat PROVE IsFiniteSet(Upto(m)) /\ Cardinality(Upto(m)) \in Nat
  <2>1. Upto(m) \subseteq used
    OBVIOUS
  <2> HIDE DEF used, Upto
  <2> QED BY <1>2, <2>1, FS_Subset, FS_CardinalityType
<1>4. ASSUME NEW n \in 1..Cardinality(used)
      PROVE  \E i \in used : Cardinality(Upto(i)) = n
  <2> DEFINE S == {m \in 0..NumSlots : Cardinality(Upto(m)) >= n}
  <2>1. NumSlots \in S
    <3>1. Upto(NumSlots) = used
      BY <1>1
    <3> HIDE DEF used, Upto
    <3> QED BY <1>1, <1>2, <3>1
  <2>2. S \in SUBSET Nat
    BY <1>1
  <2>3. PICK m \in S : \A i \in S : m <= i
    <3> HIDE DEF S
    <3> QED BY <2>1, <2>2, LeastNumber
  <2>4. m # 0
    <3>1. Upto(0) = {}
      BY <1>1
    <3>2. Cardinality(Upto(0)) = 0
      BY <3>1, FS_EmptySet
    <3> HIDE DEF Upto, used
    <3>3. 0 \notin S
      BY <1>2, <3>2
    <3> QED BY <3>3
  <2>5. m \in 1..NumSlots /\ m - 1 \in Nat /\ m \in Nat
    BY <1>1, <2>4
  <2>6. Cardinality(Upto(m)) >= n /\ Cardinality(Upto(m - 1)) < n
    <3>1. m - 1 \notin S
      <4> HIDE DEF S
      <4> QED BY <2>2, <2>3
    <3>2. Cardinality(Upto(m - 1)) \in Nat
      BY <1>3, <2>5
    <3> HIDE DEF Upto, used
    <3> QED BY <1>1, <1>2, <2>5, <3>1, <3>2
  <2>7. m \in used
    <3> SUFFICES ASSUME m \notin used PROVE FALSE
      OBVIOUS
    <3>1. Upto(m) = Upto(m - 1)
      BY <1>1, <2>5
    <3>2. Cardinality(Upto(m)) \in Nat
      BY <1>3, <2>5
    <3> HIDE DEF Upto, used
    <3> QED BY <1>2, <2>6, <3>1, <3>2
  <2>8. Cardinality(Upto(m)) = Cardinality(Upto(m - 1)) + 1
    <3>1. Upto(m) = Upto(m - 1) \cup {m} /\ m \notin Upto(m - 1)
      BY <1>1, <2>5, <2>7
    <3>2. IsFiniteSet(Upto(m - 1))
      BY <1>3, <2>5
    <3> HIDE DEF Upto, used
    <3> QED BY <3>1, <3>2, FS_AddElement
  <2>9. Cardinality(Upto(m)) = n
    <3>1. Cardinality(Upto(m - 1)) \in Nat
      BY <1>3, <2>5
    <3> HIDE DEF Upto, used
    <3> QED BY <1>2, <2>6, <2>8, <3>1
  <2> QED BY <2>7, <2>9
<1>5. ASSUME NEW n \in 1..Cardinality(used) PROVE bin[Nth(n)][1] \in Deleted
  <2>1. Nth(n) \in used
    <3> HIDE DEF used, Upto
    <3> QED BY <1>4
  <2> HIDE DEF Nth
  <2> QED BY <2>1
<1>6. ListDeldir(bin) = [n \in 1..Cardinality(used) |-> bin[Nth(n)][1]]
  BY DEF ListDeldir
<1> HIDE DEF used, Nth
<1>7. ListDeldir(bin) \in [1..Cardinality(used) -> Deleted]
  BY <1>5, <1>6
<1>8. ListDeldir(bin) \in Seq(Deleted)
  BY <1>2, <1>7, SeqDef
<1>9. Len(ListDeldir(bin)) = Cardinality(used)
  BY <1>2, <1>7, <1>8, LenProperties
<1> QED BY <1>2, <1>8, <1>9

\* A mounted volume with a fresh table.
LEMMA InitInv == Init => FuseInv
<1> SUFFICES ASSUME Init PROVE FuseInv
  OBVIOUS
<1>1. StoreOK
  BY MountedAssumption DEF Init, Sound, StoreOK, EntriesTyped, AnodesApart, ChainsTyped,
     TrashTyped, TrashApart
<1>2. /\ DOMAIN inodes = {RootIno}
      /\ inodes[RootIno] = [anode |-> Root, parent |-> RootIno, key |-> 0, kind |-> "dir",
                            size |-> 0, prot |-> 0]
      /\ DOMAIN nameCache = {} /\ DOMAIN writeBufs = {} /\ spoilt = {}
      /\ handles = [i \in FileInos |-> [r |-> 0, w |-> 0]]
      /\ deldir = ListDeldir(trash)
  BY DEF Init, MakeAttr
<1>3. deldir \in Seq(Deleted) /\ Len(deldir) <= NumSlots
  BY <1>1, <1>2, ListDeldirTyped DEF StoreOK, TrashTyped
<1>4. inodes[RootIno] \in InodeInfo
  BY <1>2, BoundsAssumption DEF InodeInfo, Kinds, RootIno
<1>5. \A t \in Slots : DeldirIno(t) # RootIno
  BY InodeNumbers DEF Nodes
<1>6. \A y \in DOMAIN entries : Ino(y) # RootIno
  BY <1>1, EntryInos, InodeNumbers
<1>7. TypeOK
  BY <1>2, <1>3, <1>4 DEF TypeOK, FileKeys
<1>8. TableOK
  BY <1>2, <1>3, <1>5, <1>7, InodeNumbers DEF TableOK, Nodes, FileKeys
<1>9. TrashInodesCurrent
  BY <1>2, <1>5 DEF TrashInodesCurrent
<1>10. NamesOK /\ RecordsOK /\ BuffersOK
  BY <1>2 DEF NamesOK, RecordsOK, BuffersOK, FileKeys
<1>11. PlacesOK /\ SizesOK
  BY <1>2, <1>6 DEF PlacesOK, SizesOK
<1> QED BY <1>1, <1>8, <1>9, <1>10, <1>11 DEF FuseInv

-----------------------------------------------------------------------------
(* Every request keeps the invariant *)

LEMMA StoreUnchanged ==
  ASSUME StoreOK, UNCHANGED store
  PROVE  StoreOK'
BY DEF store, StoreOK, EntriesTyped, AnodesApart, ChainsTyped, TrashTyped, TrashApart

\* What SameRead looks at.
LEMMA SameReadFrame ==
  ASSUME NEW y, entries'[y].anode = entries[y].anode, entries'[y].size = entries[y].size,
         chains'[entries[y].anode] = chains[entries[y].anode],
         inodes'[Ino(y)].size = inodes[Ino(y)].size
  PROVE  SameRead(y)' <=> SameRead(y)
BY DEF SameRead, ReadChain, Ino

\* What BufferOK looks at.
LEMMA BufferFrame ==
  ASSUME NEW j, BufferOK(j), writeBufs'[j] = writeBufs[j],
         NEW w, w = <<writeBufs[j].dir, writeBufs[j].key>>,
         w \in DOMAIN entries', Ino(w)' = j, SameRead(w)' <=> SameRead(w),
         j \in DOMAIN inodes', inodes'[j].size = inodes[j].size,
         OpenHandles(j)' = OpenHandles(j),
         j \in DOMAIN want => j \in DOMAIN want' /\ want'[j] = want[j]
  PROVE  BufferOK(j)'
<1>1. w = <<writeBufs'[j].dir, writeBufs'[j].key>>
  OBVIOUS
<1> QED BY <1>1 DEF BufferOK

\* A request that leaves the volume alone, reads some entries of a directory
\* into the table and may put the name of one of them into the name cache.
LEMMA RefreshKeepsInv ==
  ASSUME FuseInv, NEW p \in Nodes,
         UNCHANGED <<store, writeBufs, deldir, handles, want, spoilt>>,
         NEW R \in SUBSET DOMAIN entries, \A y \in R : y[1] = InoToAnode(p),
         DOMAIN inodes' = DOMAIN inodes \cup {Ino(y) : y \in R},
         \A y \in R : inodes'[Ino(y)] = MakeAttr(entries[y], p, y[2]),
         \A i \in DOMAIN inodes \ {Ino(y) : y \in R} : inodes'[i] = inodes[i],
         DOMAIN nameCache \subseteq DOMAIN nameCache',
         \A x \in DOMAIN nameCache' :
           \/ x \in DOMAIN nameCache /\ nameCache'[x] = nameCache[x] /\ (x \in stale => x \in stale')
           \/ x \in {p} \X Names /\ Place(x) \in R /\ nameCache'[x] = Ino(Place(x))
  PROVE  FuseInv'
<1> USE DEF FuseInv
<1>1. UNCHANGED <<entries, chains, trash, writeBufs, deldir, handles, want, spoilt>>
  BY DEF store
<1>2. \A y \in DOMAIN entries : Ino(y)' = Ino(y)
  BY <1>1 DEF Ino
<1>3. StoreOK'
  BY StoreUnchanged
<1>4. \A y \in R : /\ Ino(y) \in FileInos /\ y = <<InoToAnode(p), y[2]>>
                   /\ inodes'[Ino(y)].anode = InoToAnode(Ino(y))
                   /\ inodes'[Ino(y)].parent = p /\ inodes'[Ino(y)].key = y[2]
                   /\ inodes'[Ino(y)].kind = entries[y].type
                   /\ inodes'[Ino(y)].size = entries[y].size
                   /\ inodes'[Ino(y)].prot = entries[y].prot
                   /\ inodes'[Ino(y)] \in InodeInfo
  <2> SUFFICES ASSUME NEW y \in R PROVE
                   /\ Ino(y) \in FileInos /\ y = <<InoToAnode(p), y[2]>>
                   /\ inodes'[Ino(y)].anode = InoToAnode(Ino(y))
                   /\ inodes'[Ino(y)].parent = p /\ inodes'[Ino(y)].key = y[2]
                   /\ inodes'[Ino(y)].kind = entries[y].type
                   /\ inodes'[Ino(y)].size = entries[y].size
                   /\ inodes'[Ino(y)].prot = entries[y].prot
                   /\ inodes'[Ino(y)] \in InodeInfo
    OBVIOUS
  <2>1. /\ Ino(y) \in FileInos /\ InoToAnode(Ino(y)) = entries[y].anode
        /\ y = <<InoToAnode(p), y[2]>>
    BY EntryInos
  <2>2. /\ entries[y] \in [type : Kinds, anode : Anodes, size : 0..MaxSize, prot : 0..3]
        /\ y[2] \in Keys /\ p \in Nat
    BY InodeNumbers DEF StoreOK, EntriesTyped
  <2>3. MakeAttr(entries[y], p, y[2]) \in InodeInfo
    BY <2>2 DEF MakeAttr, InodeInfo
  <2> QED BY <2>1, <2>3 DEF MakeAttr
<1>5. \A i \in DOMAIN inodes' : \/ i \in DOMAIN inodes /\ inodes'[i] = inodes[i]
                                \/ \E y \in R : i = Ino(y)
  OBVIOUS
<1>6. \A t \in Slots, y \in R : DeldirIno(t) # Ino(y)
  BY <1>4, InodeNumbers DEF Nodes
<1>7. FileKeys' = {x \in DOMAIN nameCache' : x[1] # TrashIno} /\ FileKeys \subseteq FileKeys'
  BY DEF FileKeys
<1>8. \A x \in FileKeys' : \/ x \in FileKeys /\ nameCache'[x] = nameCache[x] /\ (x \in stale => x \in stale')
                           \/ x \in {p} \X Names /\ Place(x) \in R /\ nameCache'[x] = Ino(Place(x))
  BY DEF FileKeys
<1>9. TypeOK'
  <2>1. DOMAIN inodes' \subseteq {RootIno} \cup FileInos \cup {DeldirIno(t) : t \in Slots}
    BY <1>4 DEF TableOK, TypeOK
  <2>2. \A i \in DOMAIN inodes' : inodes'[i] \in InodeInfo
    BY <1>4, <1>5 DEF TableOK, TypeOK
  <2>3. FileKeys' \subseteq ({RootIno} \cup FileInos) \X Names
    BY <1>8 DEF TableOK, TypeOK, Nodes
  <2>4. \A x \in FileKeys' : nameCache'[x] \in FileInos
    BY <1>4, <1>8 DEF TableOK, TypeOK
  <2> QED BY <1>1, <2>1, <2>2, <2>3, <2>4 DEF TableOK, TypeOK
<1>10. TableOK'
  <2>1. \A i \in DOMAIN inodes' \cap Nodes :
          inodes'[i].anode = InoToAnode(i) /\ inodes'[i].parent \in Nodes
    <3> SUFFICES ASSUME NEW i \in DOMAIN inodes' \cap Nodes
                 PROVE inodes'[i].anode = InoToAnode(i) /\ inodes'[i].parent \in Nodes
      OBVIOUS
    <3>1. CASE i \in DOMAIN inodes /\ inodes'[i] = inodes[i]
      BY <3>1 DEF TableOK
    <3>2. CASE \E y \in R : i = Ino(y)
      BY <1>4, <3>2
    <3> QED BY <1>5, <3>1, <3>2
  <2>2. \A x \in DOMAIN nameCache' \ FileKeys' : nameCache'[x] \in {DeldirIno(t) : t \in Slots}
    <3> SUFFICES ASSUME NEW x \in DOMAIN nameCache' \ FileKeys'
                 PROVE nameCache'[x] \in {DeldirIno(t) : t \in Slots}
      OBVIOUS
    <3>1. x[1] = TrashIno
      BY <1>7
    <3>2. x \notin {p} \X Names
      BY <3>1, InodeNumbers DEF Nodes
    <3>3. x \in DOMAIN nameCache \ FileKeys /\ nameCache'[x] = nameCache[x]
      BY <1>7, <3>2
    <3> QED BY <3>3 DEF TableOK
  <2>3. \A t \in Slots : DeldirIno(t) \in DOMAIN inodes' => inodes'[DeldirIno(t)].kind = "file"
    BY <1>5, <1>6 DEF TableOK
  <2> QED BY <1>1, <1>9, <2>1, <2>2, <2>3 DEF TableOK
<1>11. TrashInodesCurrent'
  BY <1>1, <1>5, <1>6 DEF TrashInodesCurrent
<1>12. NamesOK'
  BY <1>1, <1>2, <1>8 DEF NamesOK
<1>13. RecordsOK'
  <2> SUFFICES ASSUME NEW x \in FileKeys' \ stale', nameCache'[x] \in DOMAIN inodes'
               PROVE  /\ inodes'[nameCache'[x]].parent = x[1]
                      /\ inodes'[nameCache'[x]].key = Fold[x[2]]
                      /\ inodes'[nameCache'[x]].kind = entries[Place(x)].type
    BY <1>1 DEF RecordsOK, Place
  <2>1. Place(x) \in DOMAIN entries /\ nameCache'[x] = Ino(Place(x))
    BY <1>1, <1>2, <1>12 DEF NamesOK
  <2>2. CASE Place(x) \in R
    <3>1. Place(x) = <<InoToAnode(p), Place(x)[2]>> /\ Place(x)[2] = Fold[x[2]]
      BY <1>4, <2>2 DEF Place
    <3>2. x[1] \in Nodes /\ InoToAnode(x[1]) = InoToAnode(p)
      BY <1>9, <3>1 DEF TypeOK, Place, Nodes
    <3>3. x[1] = p
      BY <3>2, InodeNumbers
    <3> QED BY <1>4, <2>1, <2>2, <3>1, <3>3
  <2>3. CASE Place(x) \notin R
    <3>1. x \in FileKeys \ stale /\ nameCache'[x] = nameCache[x]
      BY <1>8, <2>3
    <3>2. \A y \in R : nameCache'[x] # Ino(y)
      BY <2>1, <2>3, EntryInos
    <3>3. nameCache[x] \in DOMAIN inodes /\ inodes'[nameCache[x]] = inodes[nameCache[x]]
      BY <1>5, <3>1, <3>2
    <3> QED BY <3>1, <3>3 DEF RecordsOK
  <2> QED BY <2>2, <2>3
<1>14. \A y \in DOMAIN entries : Ino(y) \in DOMAIN inodes' =>
         \/ y \in R
         \/ Ino(y) \in DOMAIN inodes /\ inodes'[Ino(y)] = inodes[Ino(y)]
  BY <1>5, EntryInos
<1>16. PlacesOK'
  BY <1>1, <1>2, <1>4, <1>14 DEF PlacesOK
<1>17. \A y \in DOMAIN entries : Ino(y) \in DOMAIN inodes' =>
         \/ SameRead(y)'
         \/ Ino(y) \in DOMAIN inodes /\ inodes'[Ino(y)] = inodes[Ino(y)] /\ (SameRead(y)' <=> SameRead(y))
  BY <1>1, <1>2, <1>4, <1>14 DEF SameRead, ReadChain
<1>18. SizesOK'
  BY <1>1, <1>2, <1>17 DEF SizesOK
<1>19. BuffersOK'
  <2> SUFFICES ASSUME NEW j \in DOMAIN writeBufs \ spoilt PROVE BufferOK(j)'
    BY <1>1 DEF BuffersOK
  <2>1. BufferOK(j)
    BY DEF BuffersOK
  <2> QED BY <1>1, <1>2, <1>17, <2>1 DEF BufferOK, OpenHandles
<1> QED BY <1>3, <1>10, <1>11, <1>12, <1>13, <1>16, <1>18, <1>19

LEMMA LookupKeepsInv ==
  ASSUME FuseInv, NEW p \in DirInos, NEW n \in Names, Lookup(p, n)
  PROVE  FuseInv'
<1> DEFINE y == <<InoToAnode(p), Fold[n]>>
           R == {y}
<1>1. p \in Nodes /\ inodes[p].anode = InoToAnode(p)
  BY DirNodes DEF FuseInv
<1>2. /\ y \in DOMAIN entries
      /\ inodes' = With(inodes, Ino(y), MakeAttr(entries[y], p, Fold[n]))
      /\ nameCache' = With(nameCache, <<p, n>>, Ino(y))
      /\ stale' = stale \ {<<p, n>>}
      /\ UNCHANGED <<store, writeBufs, deldir, handles, want, spoilt>>
  BY <1>1 DEF Lookup, Has, Ino
<1>3. Place(<<p, n>>) = y
  BY DEF Place
<1>4. /\ R \in SUBSET DOMAIN entries /\ \A z \in R : z[1] = InoToAnode(p)
      /\ DOMAIN inodes' = DOMAIN inodes \cup {Ino(z) : z \in R}
      /\ \A z \in R : inodes'[Ino(z)] = MakeAttr(entries[z], p, z[2])
      /\ \A i \in DOMAIN inodes \ {Ino(z) : z \in R} : inodes'[i] = inodes[i]
  BY <1>2 DEF With
<1>5. /\ DOMAIN nameCache \subseteq DOMAIN nameCache'
      /\ \A x \in DOMAIN nameCache' :
           \/ x \in DOMAIN nameCache /\ nameCache'[x] = nameCache[x] /\ (x \in stale => x \in stale')
           \/ x \in {p} \X Names /\ Place(x) \in R /\ nameCache'[x] = Ino(Place(x))
  BY <1>2, <1>3 DEF With
<1> HIDE DEF y, R
<1> QED BY <1>1, <1>2, <1>4, <1>5, RefreshKeepsInv, Zenon

LEMMA ReadDirKeepsInv ==
  ASSUME FuseInv, NEW p \in DirInos, ReadDir(p)
  PROVE  FuseInv'
<1> DEFINE R == {y \in DOMAIN entries : y[1] = InoToAnode(p)}
           listed == {Ino(y) : y \in R}
           At(i) == CHOOSE y \in R : Ino(y) = i
<1>1. p \in Nodes /\ inodes[p].anode = InoToAnode(p)
  BY DirNodes DEF FuseInv
<1>2. /\ inodes' = [i \in listed \cup DOMAIN inodes |->
                      IF i \in listed THEN MakeAttr(entries[At(i)], p, At(i)[2]) ELSE inodes[i]]
      /\ UNCHANGED <<store, nameCache, writeBufs, deldir, handles, ghosts>>
  BY <1>1 DEF ReadDir, Ino
<1>3. \A y \in R : At(Ino(y)) = y
  BY EntryInos DEF FuseInv
<1>4. R \in SUBSET DOMAIN entries /\ \A y \in R : y[1] = InoToAnode(p)
  OBVIOUS
<1> HIDE DEF R, At
<1>5. /\ DOMAIN inodes' = DOMAIN inodes \cup {Ino(y) : y \in R}
      /\ \A y \in R : inodes'[Ino(y)] = MakeAttr(entries[y], p, y[2])
      /\ \A i \in DOMAIN inodes \ {Ino(y) : y \in R} : inodes'[i] = inodes[i]
  BY <1>2, <1>3
<1>6. /\ DOMAIN nameCache \subseteq DOMAIN nameCache'
      /\ \A x \in DOMAIN nameCache' :
           \/ x \in DOMAIN nameCache /\ nameCache'[x] = nameCache[x] /\ (x \in stale => x \in stale')
           \/ x \in {p} \X Names /\ Place(x) \in R /\ nameCache'[x] = Ino(Place(x))
  BY <1>2 DEF ghosts
<1>7. UNCHANGED <<store, writeBufs, deldir, handles, want, spoilt>>
  BY <1>2 DEF ghosts
<1> QED BY <1>1, <1>4, <1>5, <1>6, <1>7, RefreshKeepsInv, Zenon

\* Opening and closing a handle.
LEMMA HandleOpened ==
  ASSUME TableOK, NEW i \in FileInos,
         \/ handles' = [handles EXCEPT ![i].w = @ + 1]
         \/ handles' = [handles EXCEPT ![i].r = @ + 1]
  PROVE  /\ handles' \in [FileInos -> [r : Nat, w : Nat]]
         /\ \A j \in FileInos \ {i} : handles'[j] = handles[j]
         /\ OpenHandles(i)' > 0
<1>1. handles \in [FileInos -> [r : Nat, w : Nat]]
  BY DEF TableOK
<1>2. handles[i].r \in Nat /\ handles[i].w \in Nat
  BY <1>1
<1>3. CASE handles' = [handles EXCEPT ![i].w = @ + 1]
  <2>1. handles'[i].r = handles[i].r /\ handles'[i].w = handles[i].w + 1
    BY <1>1, <1>3
  <2>2. OpenHandles(i)' > 0
    BY <1>2, <2>1 DEF OpenHandles
  <2> QED BY <1>1, <1>2, <1>3, <2>2
<1>4. CASE handles' = [handles EXCEPT ![i].r = @ + 1]
  <2>1. handles'[i].w = handles[i].w /\ handles'[i].r = handles[i].r + 1
    BY <1>1, <1>4
  <2>2. OpenHandles(i)' > 0
    BY <1>2, <2>1 DEF OpenHandles
  <2> QED BY <1>1, <1>2, <1>4, <2>2
<1> QED BY <1>3, <1>4

LEMMA HandleClosed ==
  ASSUME TableOK, NEW i \in FileInos, Closed(i)
  PROVE  /\ handles' \in [FileInos -> [r : Nat, w : Nat]]
         /\ \A j \in FileInos \ {i} : handles'[j] = handles[j]
<1>1. handles \in [FileInos -> [r : Nat, w : Nat]]
  BY DEF TableOK
<1>2. handles[i].r \in Nat /\ handles[i].w \in Nat
  BY <1>1
<1>3. \/ handles[i].r > 0 /\ handles' = [handles EXCEPT ![i].r = @ - 1]
      \/ handles[i].w > 0 /\ handles' = [handles EXCEPT ![i].w = @ - 1]
  BY DEF Closed
<1> QED BY <1>1, <1>2, <1>3

LEMMA LookupTrashKeepsInv ==
  ASSUME FuseInv, NEW t \in DOMAIN deldir, LookupTrash(t)
  PROVE  FuseInv'
<1> USE DEF FuseInv
<1> DEFINE new == [anode |-> deldir[t].anode, parent |-> TrashIno, key |-> deldir[t].key,
                   kind |-> "file", size |-> deldir[t].size, prot |-> 0]
           x0 == <<TrashIno, deldir[t].key>>
<1>1. /\ nameCache' = With(nameCache, x0, DeldirIno(t))
      /\ inodes' = With(inodes, DeldirIno(t), new)
      /\ UNCHANGED <<store, writeBufs, deldir, handles, ghosts>>
  BY DEF LookupTrash
<1>2. UNCHANGED <<entries, chains, trash, writeBufs, deldir, handles, want, spoilt, stale>>
  BY <1>1 DEF store, ghosts
<1>3. deldir[t] \in Deleted /\ t \in Slots
  <2>1. Len(deldir) \in Nat /\ DOMAIN deldir = 1..Len(deldir) /\ deldir[t] \in Deleted
    BY LenProperties DEF TableOK
  <2> QED BY <2>1, BoundsAssumption DEF TableOK, TypeOK, Slots
<1>4. new \in InodeInfo
  BY <1>3, InodeNumbers DEF Deleted, InodeInfo, Kinds
<1>5. /\ DOMAIN inodes' = DOMAIN inodes \cup {DeldirIno(t)}
      /\ inodes'[DeldirIno(t)] = new
      /\ \A i \in DOMAIN inodes \ {DeldirIno(t)} : inodes'[i] = inodes[i]
  BY <1>1 DEF With
<1>6. /\ DOMAIN nameCache' = DOMAIN nameCache \cup {x0}
      /\ nameCache'[x0] = DeldirIno(t)
      /\ \A x \in DOMAIN nameCache \ {x0} : nameCache'[x] = nameCache[x]
      /\ x0[1] = TrashIno
  BY <1>1 DEF With
<1>7. FileKeys' = FileKeys /\ \A x \in FileKeys : nameCache'[x] = nameCache[x]
  BY <1>6 DEF FileKeys
<1>8. DeldirIno(t) \notin Nodes /\ DeldirIno(t) \notin FileInos /\ DeldirIno(t) # RootIno
  BY <1>3, InodeNumbers DEF Nodes
<1>9. \A s \in Slots : DeldirIno(s) = DeldirIno(t) => s = t
  BY <1>3, BoundsAssumption, InodesApart DEF DeldirIno, Slots
<1>10. \A y \in DOMAIN entries : /\ Ino(y)' = Ino(y) /\ Ino(y) \in FileInos
                                 /\ Ino(y) \in DOMAIN inodes' <=> Ino(y) \in DOMAIN inodes
                                 /\ Ino(y) \in DOMAIN inodes => inodes'[Ino(y)] = inodes[Ino(y)]
  BY <1>2, <1>5, <1>8, EntryInos DEF Ino
<1>11. \A y \in DOMAIN entries : Ino(y) \in DOMAIN inodes => (SameRead(y)' <=> SameRead(y))
  BY <1>2, <1>10 DEF SameRead, ReadChain
<1>12. StoreOK'
  BY <1>1, StoreUnchanged
<1>13. TypeOK'
  BY <1>2, <1>3, <1>4, <1>5, <1>7 DEF TableOK, TypeOK
<1>14. TableOK'
  <2>1. \A i \in DOMAIN inodes' \cap Nodes :
          inodes'[i].anode = InoToAnode(i) /\ inodes'[i].parent \in Nodes
    BY <1>5, <1>8 DEF TableOK
  <2>2. \A x \in DOMAIN nameCache' \ FileKeys' : nameCache'[x] \in {DeldirIno(s) : s \in Slots}
    BY <1>3, <1>6, <1>7 DEF TableOK
  <2>3. \A s \in Slots : DeldirIno(s) \in DOMAIN inodes' => inodes'[DeldirIno(s)].kind = "file"
    BY <1>5 DEF TableOK
  <2> QED BY <1>2, <1>5, <1>13, <2>1, <2>2, <2>3 DEF TableOK
<1>15. TrashInodesCurrent'
  BY <1>2, <1>5, <1>9 DEF TrashInodesCurrent
<1>16. NamesOK'
  BY <1>2, <1>7, <1>10 DEF NamesOK
<1>17. RecordsOK'
  <2> SUFFICES ASSUME NEW x \in FileKeys \ stale, nameCache[x] \in DOMAIN inodes'
               PROVE  /\ inodes'[nameCache[x]].parent = x[1]
                      /\ inodes'[nameCache[x]].key = Fold[x[2]]
                      /\ inodes'[nameCache[x]].kind = entries[Place(x)].type
    BY <1>2, <1>7 DEF RecordsOK, Place
  <2>1. nameCache[x] # DeldirIno(t)
    BY <1>8 DEF TableOK, TypeOK
  <2>2. nameCache[x] \in DOMAIN inodes /\ inodes'[nameCache[x]] = inodes[nameCache[x]]
    BY <1>5, <2>1
  <2> QED BY <2>2 DEF RecordsOK
<1>18. PlacesOK'
  BY <1>2, <1>10 DEF PlacesOK
<1>19. SizesOK'
  BY <1>2, <1>10, <1>11 DEF SizesOK
<1>20. BuffersOK'
  <2> SUFFICES ASSUME NEW j \in DOMAIN writeBufs \ spoilt PROVE BufferOK(j)'
    BY <1>2 DEF BuffersOK
  <2>1. BufferOK(j)
    BY DEF BuffersOK
  <2> QED BY <1>2, <1>10, <1>11, <2>1 DEF BufferOK, OpenHandles
<1> QED BY <1>12, <1>14, <1>15, <1>16, <1>17, <1>18, <1>19, <1>20

\* A new name: its inode is the one of a free anode, which nothing else that
\* is trusted refers to.
LEMMA NewNameKeepsInv ==
  ASSUME FuseInv, NEW p \in DirInos, NEW n \in Names, NEW a, NEW type,
         \/ type = "dir" /\ MkDir(p, n, a)
         \/ type = "file" /\ CreateFile(p, n, a)
  PROVE  FuseInv'
<1> USE DEF FuseInv
<1> DEFINE i == AnodeToIno(a)
           y == <<InoToAnode(p), Fold[n]>>
           new == [type |-> type, anode |-> a, size |-> 0, prot |-> 0]
<1>0. /\ Create(inodes[p].anode, Fold[n], type, a, <<>>) /\ Enter(p, n, a, type)
      /\ UNCHANGED deldir
  BY DEF MkDir, CreateFile
<1>1. p \in Nodes /\ p # TrashIno /\ inodes[p].anode = InoToAnode(p)
      /\ InoToAnode(p) \in {Root} \cup Anodes
  BY DirNodes
<1>2. Fold[n] \in Keys
  BY BoundsAssumption
<1>3. /\ y \notin DOMAIN entries /\ a \in Anodes \ InUse
      /\ entries' = With(entries, y, new) /\ UNCHANGED trash
      /\ \A b \in Anodes \ {a} : chains'[b] = chains[b]
  BY <1>0, <1>1 DEF Create, Has, StoreOK, ChainsTyped
<1>4. /\ inodes' = With(inodes, i, MakeAttr(new, p, Fold[n]))
      /\ nameCache' = With(nameCache, <<p, n>>, i)
      /\ stale' = stale \ {<<p, n>>}
  BY <1>0 DEF Enter
<1>5. i \in FileInos /\ InoToAnode(i) = a /\ i # RootIno
  BY <1>3, InodeNumbers
<1>6. /\ DOMAIN entries' = DOMAIN entries \cup {y} /\ entries'[y] = new
      /\ \A z \in DOMAIN entries : entries'[z] = entries[z] /\ z # y
  BY <1>3 DEF With
<1>7. \A z \in DOMAIN entries : /\ Ino(z)' = Ino(z) /\ Ino(z) # i
                                /\ chains'[entries[z].anode] = chains[entries[z].anode]
  <2> SUFFICES ASSUME NEW z \in DOMAIN entries
               PROVE /\ Ino(z)' = Ino(z) /\ Ino(z) # i
                     /\ chains'[entries[z].anode] = chains[entries[z].anode]
    OBVIOUS
  <2>1. entries[z].anode # a /\ entries[z].anode \in Anodes
    BY <1>3, FreeAnode, EntryInos
  <2>2. Ino(z) # i
    BY <1>5, <2>1, EntryInos
  <2> QED BY <1>3, <1>6, <2>1, <2>2 DEF Ino
<1>8. Ino(y)' = i
  BY <1>6 DEF Ino
<1>9. /\ DOMAIN inodes' = DOMAIN inodes \cup {i}
      /\ inodes'[i] = [anode |-> a, parent |-> p, key |-> Fold[n], kind |-> type, size |-> 0, prot |-> 0]
      /\ \A j \in DOMAIN inodes \ {i} : inodes'[j] = inodes[j]
  BY <1>4 DEF With, MakeAttr
<1>10. inodes'[i] \in InodeInfo
  <2>1. type \in Kinds
    BY DEF Kinds
  <2> QED BY <1>1, <1>2, <1>3, <1>9, <2>1, InodeNumbers, BoundsAssumption DEF InodeInfo
<1>11. /\ FileKeys' = FileKeys \cup {<<p, n>>} /\ nameCache'[<<p, n>>] = i
       /\ \A x \in DOMAIN nameCache \ {<<p, n>>} : nameCache'[x] = nameCache[x]
       /\ DOMAIN nameCache' \ FileKeys' = DOMAIN nameCache \ FileKeys
  BY <1>1, <1>4 DEF FileKeys, With
<1>12. Place(<<p, n>>) = y
  BY DEF Place
<1>13. /\ handles' \in [FileInos -> [r : Nat, w : Nat]]
       /\ \A j \in FileInos \ {i} : handles'[j] = handles[j]
       /\ type = "file" => OpenHandles(i)' > 0
  <2>1. CASE type = "dir"
    BY <2>1 DEF MkDir, TableOK
  <2>2. CASE type = "file"
    <3>1. handles' = [handles EXCEPT ![i].w = @ + 1]
      BY <2>2 DEF CreateFile
    <3> HIDE DEF i
    <3> QED BY <1>5, <2>2, <3>1, HandleOpened
  <2> QED BY <2>1, <2>2
<1>14. /\ \A j \in spoilt : j \in spoilt' \/ j = i
       /\ \A j \in DOMAIN want \ {i} : j \in DOMAIN want' /\ want'[j] = want[j]
       /\ DOMAIN writeBufs \subseteq DOMAIN writeBufs'
       /\ \A j \in DOMAIN writeBufs' \ {i} :
            j \in DOMAIN writeBufs /\ writeBufs'[j] = writeBufs[j]
       /\ type = "dir" => UNCHANGED <<writeBufs, spoilt>>
       /\ type = "file" =>
            /\ i \in DOMAIN writeBufs' /\ i \in DOMAIN want' /\ want'[i] = <<>>
            /\ writeBufs'[i] = [dir |-> InoToAnode(p), key |-> Fold[n], data |-> <<>>]
  BY <1>1 DEF MkDir, CreateFile, With
<1>15. type \in {"file", "dir"}
  OBVIOUS
<1> HIDE DEF i, y, new
<1>16. StoreOK'
  BY <1>0, <1>2, <1>15, CreateKeepsStore
<1>17. \A t \in Slots : DeldirIno(t) # i
  BY <1>5, InodeNumbers DEF Nodes
<1>18. \A j \in DOMAIN writeBufs' :
         \/ j \in DOMAIN writeBufs /\ writeBufs'[j] = writeBufs[j]
         \/ j = i /\ writeBufs'[j].data = <<>>
  BY <1>14, <1>15
<1>19. TypeOK'
  <2>1. FileKeys' \subseteq ({RootIno} \cup FileInos) \X Names
    BY <1>1, <1>11 DEF TableOK, TypeOK, Nodes
  <2>2. \A x \in FileKeys' : nameCache'[x] \in FileInos
    BY <1>5, <1>11 DEF TableOK, TypeOK, FileKeys
  <2>3. DOMAIN inodes' \subseteq {RootIno} \cup FileInos \cup {DeldirIno(t) : t \in Slots}
    BY <1>5, <1>9 DEF TableOK, TypeOK
  <2>4. \A j \in DOMAIN inodes' : inodes'[j] \in InodeInfo
    BY <1>9, <1>10 DEF TableOK, TypeOK
  <2>5. /\ DOMAIN writeBufs' \subseteq FileInos
        /\ \A j \in DOMAIN writeBufs' : Len(writeBufs'[j].data) <= MaxSize
    BY <1>5, <1>18, EmptySeq, BoundsAssumption DEF TableOK, TypeOK
  <2> QED BY <1>0, <2>1, <2>2, <2>3, <2>4, <2>5 DEF TableOK, TypeOK
<1>20. TableOK'
  <2>1. \A j \in DOMAIN inodes' \cap Nodes :
          inodes'[j].anode = InoToAnode(j) /\ inodes'[j].parent \in Nodes
    BY <1>1, <1>5, <1>9 DEF TableOK
  <2>2. \A x \in DOMAIN nameCache' \ FileKeys' : nameCache'[x] \in {DeldirIno(t) : t \in Slots}
    BY <1>11 DEF TableOK, FileKeys
  <2>3. \A t \in Slots : DeldirIno(t) \in DOMAIN inodes' => inodes'[DeldirIno(t)].kind = "file"
    BY <1>9, <1>17 DEF TableOK
  <2>4. \A j \in DOMAIN writeBufs' : writeBufs'[j] \in BufferInfo
    <3>1. type = "file" => writeBufs'[i] \in BufferInfo
      <4>1. <<>> \in Seq(Content)
        OBVIOUS
      <4>2. [dir |-> InoToAnode(p), key |-> Fold[n], data |-> <<>>] \in BufferInfo
        BY <1>1, <1>2, <4>1 DEF BufferInfo
      <4> QED BY <1>14, <4>2
    <3> QED BY <1>14, <1>15, <3>1 DEF TableOK
  <2> QED BY <1>0, <1>9, <1>13, <1>19, <2>1, <2>2, <2>3, <2>4 DEF TableOK
<1>21. TrashInodesCurrent'
  BY <1>0, <1>9, <1>17 DEF TrashInodesCurrent
<1>22. NamesOK'
  BY <1>4, <1>6, <1>7, <1>8, <1>11, <1>12 DEF NamesOK, FileKeys
<1>23. RecordsOK'
  <2> SUFFICES ASSUME NEW x \in FileKeys' \ stale', nameCache'[x] \in DOMAIN inodes'
               PROVE  /\ inodes'[nameCache'[x]].parent = x[1]
                      /\ inodes'[nameCache'[x]].key = Fold[x[2]]
                      /\ inodes'[nameCache'[x]].kind = entries'[Place(x)].type
    BY DEF RecordsOK, Place
  <2>1. CASE x = <<p, n>>
    BY <1>6, <1>9, <1>11, <1>12, <2>1 DEF new
  <2>2. CASE x # <<p, n>>
    <3>1. x \in FileKeys \ stale /\ nameCache'[x] = nameCache[x]
      BY <1>4, <1>11, <2>2 DEF FileKeys
    <3>2. nameCache[x] # i /\ Place(x) \in DOMAIN entries
      BY <1>7, <3>1 DEF NamesOK
    <3> QED BY <1>6, <1>9, <3>1, <3>2 DEF RecordsOK
  <2> QED BY <2>1, <2>2
<1>25. PlacesOK'
  <2> SUFFICES ASSUME NEW z \in DOMAIN entries', Ino(z)' \in DOMAIN inodes' \ spoilt'
               PROVE  /\ <<InoToAnode(inodes'[Ino(z)'].parent), inodes'[Ino(z)'].key>> = z
                      /\ inodes'[Ino(z)'].kind = entries'[z].type
                      /\ inodes'[Ino(z)'].prot = entries'[z].prot
    BY DEF PlacesOK
  <2>1. CASE z = y
    BY <1>6, <1>8, <1>9, <2>1 DEF y, new
  <2>2. CASE z # y
    <3>1. z \in DOMAIN entries /\ Ino(z) \in DOMAIN inodes \ spoilt
      BY <1>6, <1>7, <1>9, <1>14, <2>2
    <3> QED BY <1>6, <1>7, <1>9, <3>1 DEF PlacesOK
  <2> QED BY <2>1, <2>2
<1>26. \A z \in DOMAIN entries : Ino(z) \in DOMAIN inodes => (SameRead(z)' <=> SameRead(z))
  BY <1>6, <1>7, <1>9, SameReadFrame
<1>27. SizesOK'
  <2> SUFFICES ASSUME NEW z \in DOMAIN entries', Ino(z)' \in DOMAIN inodes' \ (spoilt' \cup DOMAIN writeBufs'),
                      entries'[z].type = "file"
               PROVE  SameRead(z)'
    BY DEF SizesOK
  <2>1. z # y
    BY <1>6, <1>8, <1>14, <1>15 DEF new
  <2>2. z \in DOMAIN entries /\ Ino(z) \in DOMAIN inodes \ (spoilt \cup DOMAIN writeBufs)
    BY <1>6, <1>7, <1>9, <1>14, <2>1
  <2> QED BY <1>6, <1>26, <2>2 DEF SizesOK
<1>28. BuffersOK'
  <2> SUFFICES ASSUME NEW j \in DOMAIN writeBufs' \ spoilt' PROVE BufferOK(j)'
    BY DEF BuffersOK
  <2>1. CASE j = i
    <3>1. type = "file"
      <4> SUFFICES ASSUME type = "dir" PROVE FALSE
        BY <1>15
      <4>1. BufferOK(i)
        BY <1>14, <2>1 DEF BuffersOK
      <4> QED BY <1>7, <4>1 DEF BufferOK
    <3>2. writeBufs'[i] = [dir |-> InoToAnode(p), key |-> Fold[n], data |-> <<>>]
      BY <1>14, <3>1
    <3>3. i \in DOMAIN want' /\ want'[i] = <<>> /\ OpenHandles(i)' > 0
      BY <1>13, <1>14, <3>1
    <3>4. <<writeBufs'[i].dir, writeBufs'[i].key>> = y
      BY <3>2 DEF y
    <3>5. writeBufs'[i].data = <<>> /\ inodes'[i].size = 0
      BY <1>9, <3>2
    <3> QED BY <1>6, <1>8, <1>9, <2>1, <3>3, <3>4, <3>5 DEF BufferOK
  <2>2. CASE j # i
    <3>1. j \in DOMAIN writeBufs \ spoilt /\ writeBufs'[j] = writeBufs[j] /\ j \in FileInos
      BY <1>14, <2>2 DEF TableOK, TypeOK
    <3>2. BufferOK(j)
      BY <3>1 DEF BuffersOK
    <3>3. handles'[j] = handles[j] /\ (j \in DOMAIN want => j \in DOMAIN want' /\ want'[j] = want[j])
      BY <1>13, <1>14, <2>2, <3>1
    <3> QED BY <1>6, <1>7, <1>9, <1>26, <2>2, <3>1, <3>2, <3>3 DEF BufferOK, OpenHandles
  <2> QED BY <2>1, <2>2
<1> QED BY <1>16, <1>20, <1>21, <1>22, <1>23, <1>25, <1>27, <1>28

\* mkdir or create fails with the entry on the device: no cache key leads to
\* it, and what record of its inode there may be is an old one.
LEMMA CreateFailsKeepsInv ==
  ASSUME FuseInv, NEW p \in DirInos, NEW n \in Names, NEW a, NEW type \in {"file", "dir"},
         CreateFails(p, n, a, type)
  PROVE  FuseInv'
<1> USE DEF FuseInv
<1>1. inodes[p].anode = InoToAnode(p) /\ Fold[n] \in Keys
  BY DirNodes, BoundsAssumption
<1>2. PICK y : y = <<InoToAnode(p), Fold[n]>>
  OBVIOUS
<1>3. PICK i : i = AnodeToIno(a)
  OBVIOUS
<1>4. /\ Create(inodes[p].anode, Fold[n], type, a, <<>>)
      /\ spoilt' = spoilt \cup {i}
      /\ UNCHANGED <<inodes, nameCache, writeBufs, deldir, handles, want, stale>>
  BY <1>3 DEF CreateFails, Fails, driver
<1>5. /\ y \notin DOMAIN entries /\ a \in Anodes \ InUse
      /\ DOMAIN entries' = DOMAIN entries \cup {y} /\ entries'[y].anode = a
      /\ \A z \in DOMAIN entries : entries'[z] = entries[z] /\ z # y
      /\ \A b \in Anodes \ {a} : chains'[b] = chains[b]
  BY <1>1, <1>2, <1>4 DEF Create, Has, With, StoreOK, ChainsTyped
<1>6. i \in FileInos /\ InoToAnode(i) = a /\ Ino(y)' = i
  BY <1>3, <1>5, InodeNumbers DEF Ino
<1>7. \A z \in DOMAIN entries : /\ Ino(z)' = Ino(z) /\ Ino(z) # i
                                /\ chains'[entries[z].anode] = chains[entries[z].anode]
  <2> SUFFICES ASSUME NEW z \in DOMAIN entries
               PROVE /\ Ino(z)' = Ino(z) /\ Ino(z) # i
                     /\ chains'[entries[z].anode] = chains[entries[z].anode]
    OBVIOUS
  <2>1. entries[z].anode # a /\ entries[z].anode \in Anodes
    BY <1>5, FreeAnode, EntryInos
  <2>2. Ino(z) # i
    BY <1>6, <2>1, EntryInos
  <2> QED BY <1>5, <2>1, <2>2 DEF Ino
<1>8. StoreOK'
  BY <1>1, <1>4, CreateKeepsStore
<1>9. TableOK' /\ TrashInodesCurrent'
  BY <1>4 DEF TableOK, TypeOK, FileKeys, TrashInodesCurrent
<1>10. NamesOK'
  BY <1>4, <1>5, <1>7 DEF NamesOK, FileKeys
<1>11. RecordsOK'
  BY <1>4, <1>5 DEF RecordsOK, NamesOK, FileKeys, Place
<1>12. PlacesOK'
  BY <1>4, <1>5, <1>6, <1>7 DEF PlacesOK
<1>13. \A z \in DOMAIN entries : SameRead(z)' <=> SameRead(z)
  BY <1>4, <1>5, <1>7, SameReadFrame
<1>14. SizesOK'
  BY <1>4, <1>5, <1>6, <1>7, <1>13 DEF SizesOK
<1>15. BuffersOK'
  <2> SUFFICES ASSUME NEW j \in DOMAIN writeBufs \ spoilt' PROVE BufferOK(j)'
    BY <1>4 DEF BuffersOK
  <2>1. BufferOK(j)
    BY <1>4 DEF BuffersOK
  <2> QED BY <1>4, <1>5, <1>7, <1>13, <2>1 DEF BufferOK, OpenHandles
<1> QED BY <1>8, <1>9, <1>10, <1>11, <1>12, <1>14, <1>15

\* What stands for a name that a request moves or removes is spoilt if a client
\* has it open.
LEMMA SpoilCovers ==
  ASSUME NEW K, Spoil(K), NEW p, NEW n, <<p, n>> \in K
  PROVE  /\ spoilt \subseteq spoilt'
         /\ Cached(p, n) /\ (Busy(nameCache[<<p, n>>]) \/ K \cap stale # {})
              => nameCache[<<p, n>>] \in spoilt'
         /\ LET y == <<inodes[p].anode, Fold[n]>>
            IN  y \in DOMAIN entries /\ (Busy(Ino(y)) \/ K \cap stale # {}) => Ino(y) \in spoilt'
<1>1. Meant(p, n) \subseteq UNION {Meant(x[1], x[2]) : x \in K}
  <2>1. Meant(p, n) \in {Meant(x[1], x[2]) : x \in K}
    <3>1. <<p, n>>[1] = p /\ <<p, n>>[2] = n
      OBVIOUS
    <3> QED BY <3>1
  <2> QED BY <2>1
<1>2. \A i \in Meant(p, n) : K \cap stale # {} \/ Busy(i) => i \in spoilt'
  BY <1>1 DEF Spoil
<1>3. Cached(p, n) => nameCache[<<p, n>>] \in Meant(p, n)
  BY DEF Cached, Meant
<1>4. <<inodes[p].anode, Fold[n]>> \in DOMAIN entries => Ino(<<inodes[p].anode, Fold[n]>>) \in Meant(p, n)
  BY DEF Ino, Meant
<1> QED BY <1>2, <1>3, <1>4 DEF Spoil

\* A trusted buffer belongs to an open file.
LEMMA BufferIsBusy ==
  ASSUME FuseInv, NEW j \in DOMAIN writeBufs \ spoilt
  PROVE  j \in FileInos /\ BufferOK(j) /\ Busy(j)
BY DEF FuseInv, TableOK, TypeOK, BuffersOK, BufferOK, Busy

\* A name is deleted from the volume: its keys are gone or stale, its inode
\* and those dropped from the table are spoilt if they are in use.
LEMMA DeleteKeepsInv ==
  ASSUME FuseInv, NEW q \in DirInos, NEW m \in Names, DeleteIn(inodes[q].anode, Fold[m]),
         UNCHANGED <<writeBufs, handles, want>>, spoilt \subseteq spoilt',
         NEW y, y = <<inodes[q].anode, Fold[m]>>, Busy(Ino(y)) => Ino(y) \in spoilt',
         DOMAIN inodes' \subseteq DOMAIN inodes,
         \A i \in DOMAIN inodes' : inodes'[i] = inodes[i],
         \A i \in (DOMAIN inodes \cap Nodes) \ DOMAIN inodes' :
           i \in FileInos /\ (Busy(i) => i \in spoilt'),
         DOMAIN nameCache' \subseteq DOMAIN nameCache,
         \A x \in DOMAIN nameCache' : nameCache'[x] = nameCache[x],
         \A x \in FileKeys' \ stale' :
           x \notin stale /\ ~(x[1] = q /\ Fold[x[2]] = Fold[m]),
         deldir' \in Seq(Deleted), Len(deldir') <= NumSlots, TrashInodesCurrent'
  PROVE  FuseInv'
<1> USE DEF FuseInv
<1>1. q \in Nodes /\ inodes[q].anode = InoToAnode(q)
  BY DirNodes
<1>2. Fold[m] \in Keys
  BY BoundsAssumption
<1>3. StoreOK'
  BY <1>2, DeleteKeepsStore
<1>4. y \in DOMAIN entries /\ entries' = Without(entries, y) /\ Discard(Fold[m], entries[y])
  BY DEF DeleteIn, Removable, Has
<1>5. /\ DOMAIN entries' = DOMAIN entries \ {y}
      /\ \A z \in DOMAIN entries' : /\ entries'[z] = entries[z] /\ Ino(z)' = Ino(z)
                                    /\ chains'[entries[z].anode] = chains[entries[z].anode]
  <2>1. \A z \in DOMAIN entries \ {y} : chains'[entries[z].anode] = chains[entries[z].anode]
    BY <1>2, <1>4, DiscardKeepsTrash
  <2> QED BY <1>4, <2>1 DEF Without, Ino
<1>6. FileKeys' \subseteq FileKeys /\ DOMAIN nameCache' \ FileKeys' \subseteq DOMAIN nameCache \ FileKeys
  BY DEF FileKeys
<1>7. TypeOK'
  BY <1>6 DEF TableOK, TypeOK, FileKeys
<1>8. TableOK'
  <2>1. RootIno \in DOMAIN inodes'
    BY InodeNumbers DEF TableOK, Nodes
  <2>2. \A x \in DOMAIN nameCache' \ FileKeys' : nameCache'[x] \in {DeldirIno(t) : t \in Slots}
    BY <1>6 DEF TableOK
  <2>3. \A i \in DOMAIN inodes' \cap Nodes :
          inodes'[i].anode = InoToAnode(i) /\ inodes'[i].parent \in Nodes
    BY DEF TableOK
  <2> QED BY <1>7, <2>1, <2>2, <2>3 DEF TableOK
<1>9. NamesOK'
  <2> SUFFICES ASSUME NEW x \in FileKeys' \ stale'
               PROVE Place(x) \in DOMAIN entries' /\ nameCache'[x] = Ino(Place(x))'
    BY DEF NamesOK
  <2>1. x \in FileKeys \ stale /\ nameCache'[x] = nameCache[x]
    BY <1>6 DEF FileKeys
  <2>2. Place(x) # y
    BY <1>1, <2>1, KeyPlaces DEF TableOK
  <2> QED BY <1>5, <2>1, <2>2 DEF NamesOK
<1>10. RecordsOK'
  BY <1>5, <1>6, <1>9 DEF RecordsOK, NamesOK, FileKeys, Place
<1>11. PlacesOK'
  BY <1>5 DEF PlacesOK
<1>12. \A z \in DOMAIN entries' : Ino(z) \in DOMAIN inodes' => (SameRead(z)' <=> SameRead(z))
  BY <1>5, SameReadFrame
<1>13. SizesOK'
  BY <1>5, <1>12 DEF SizesOK
<1>14. BuffersOK'
  <2> SUFFICES ASSUME NEW j \in DOMAIN writeBufs \ spoilt' PROVE BufferOK(j)'
    BY DEF BuffersOK
  <2>1. j \in FileInos /\ BufferOK(j) /\ Busy(j)
    BY BufferIsBusy
  <2>2. j # Ino(y) /\ j \in DOMAIN inodes'
    BY <2>1 DEF BufferOK, Nodes
  <2> QED BY <1>5, <1>12, <2>1, <2>2 DEF BufferOK, OpenHandles
<1> QED BY <1>3, <1>8, <1>9, <1>10, <1>11, <1>13, <1>14

LEMMA UnlinkKeepsInv ==
  ASSUME FuseInv, NEW p \in DirInos, NEW n \in Names, Unlink(p, n) \/ RmDir(p, n)
  PROVE  FuseInv'
<1> DEFINE i == nameCache[<<p, n>>]
           y == <<inodes[p].anode, Fold[n]>>
           dropped == {i} \cup {DeldirIno(t) : t \in Slots}
<1>1. /\ p \in Nodes /\ p # TrashIno
  BY DirNodes DEF FuseInv
<1>2. /\ Cached(p, n) /\ DeleteIn(inodes[p].anode, Fold[n]) /\ Forget(p, n) /\ Spoil({<<p, n>>})
      /\ UNCHANGED <<writeBufs, handles, want>>
  BY DEF Unlink, RmDir
<1>3. i \in FileInos
  BY <1>1, <1>2 DEF Cached, FuseInv, TableOK, TypeOK, FileKeys
<1>4. y \in DOMAIN entries
  BY <1>2 DEF DeleteIn, Removable, Has
<1>5. spoilt \subseteq spoilt' /\ (Busy(i) => i \in spoilt') /\ (Busy(Ino(y)) => Ino(y) \in spoilt')
  BY <1>2, <1>4, SpoilCovers
<1>6. /\ DOMAIN nameCache' \subseteq DOMAIN nameCache
      /\ \A x \in DOMAIN nameCache' : nameCache'[x] = nameCache[x]
  BY <1>2 DEF Forget, Without
<1>7. \A x \in FileKeys' \ stale' : x \notin stale /\ ~(x[1] = p /\ Fold[x[2]] = Fold[n])
  BY <1>2 DEF Forget, FileKeys, Without, Aliases
<1>8. StoreOK'
  BY <1>2, BoundsAssumption, DeleteKeepsStore DEF FuseInv
<1>9. /\ DOMAIN inodes' \subseteq DOMAIN inodes
      /\ \A j \in DOMAIN inodes' : inodes'[j] = inodes[j]
      /\ DOMAIN inodes \ DOMAIN inodes' \subseteq dropped
      /\ deldir' \in Seq(Deleted) /\ Len(deldir') <= NumSlots
      /\ TrashInodesCurrent'
  <2>1. CASE Unlink(p, n)
    <3>1. /\ deldir' = ListDeldir(trash')
          /\ inodes' = [j \in DOMAIN Without(inodes, i) \ {DeldirIno(t) : t \in DOMAIN deldir} |->
                          Without(inodes, i)[j]]
      BY <2>1 DEF Unlink, RebuildDeldir
    <3>2. DOMAIN deldir \subseteq Slots
      <4>1. Len(deldir) \in Nat /\ DOMAIN deldir = 1..Len(deldir) /\ Len(deldir) <= NumSlots
        BY LenProperties DEF FuseInv, TableOK, TypeOK
      <4> QED BY <4>1, BoundsAssumption DEF Slots
    <3>3. /\ DOMAIN inodes' \subseteq DOMAIN inodes
          /\ \A j \in DOMAIN inodes' : inodes'[j] = inodes[j]
          /\ DOMAIN inodes \ DOMAIN inodes' \subseteq dropped
          /\ \A t \in DOMAIN deldir : DeldirIno(t) \notin DOMAIN inodes'
      BY <3>1, <3>2 DEF Without
    <3>4. TrashInodesCurrent'
      BY <3>3 DEF FuseInv, TrashInodesCurrent
    <3>5. deldir' \in Seq(Deleted) /\ Len(deldir') <= NumSlots
      BY <1>8, <3>1, ListDeldirTyped DEF StoreOK, TrashTyped
    <3> QED BY <3>3, <3>4, <3>5
  <2>2. CASE RmDir(p, n)
    <3>1. inodes' = Without(inodes, i) /\ UNCHANGED deldir
      BY <2>2 DEF RmDir
    <3> QED BY <3>1 DEF Without, FuseInv, TrashInodesCurrent, TableOK, TypeOK
  <2> QED BY <2>1, <2>2
<1>10. \A j \in (DOMAIN inodes \cap Nodes) \ DOMAIN inodes' :
         j \in FileInos /\ (Busy(j) => j \in spoilt')
  <2>1. \A t \in Slots : DeldirIno(t) \notin Nodes
    BY InodeNumbers
  <2> QED BY <1>3, <1>5, <1>9, <2>1
<1> HIDE DEF i, dropped
<1> QED BY <1>2, <1>5, <1>6, <1>7, <1>9, <1>10, DeleteKeepsInv

\* unlink or rmdir fails with the entry gone: its keys stay, and are stale.
LEMMA RemoveFailsKeepsInv ==
  ASSUME FuseInv, NEW p \in DirInos, NEW n \in Names, RemoveFails(p, n)
  PROVE  FuseInv'
<1> DEFINE y == <<inodes[p].anode, Fold[n]>>
<1>1. /\ Cached(p, n) /\ DeleteIn(inodes[p].anode, Fold[n]) /\ Spoil({<<p, n>>})
      /\ stale' = stale \cup {<<p, n>>} \cup Aliases(p, n)
      /\ UNCHANGED <<inodes, nameCache, writeBufs, deldir, handles, want>>
  BY DEF RemoveFails, Fails, driver
<1>2. y \in DOMAIN entries
  BY <1>1 DEF DeleteIn, Removable, Has
<1>3. spoilt \subseteq spoilt' /\ (Busy(Ino(y)) => Ino(y) \in spoilt')
  <2>1. /\ spoilt \subseteq spoilt'
        /\ Cached(p, n) /\ (Busy(nameCache[<<p, n>>]) \/ {<<p, n>>} \cap stale # {})
             => nameCache[<<p, n>>] \in spoilt'
        /\ y \in DOMAIN entries /\ (Busy(Ino(y)) \/ {<<p, n>>} \cap stale # {}) => Ino(y) \in spoilt'
    BY <1>1, SpoilCovers
  <2> QED BY <1>2, <2>1
<1>4. \A x \in FileKeys' \ stale' : x \notin stale /\ ~(x[1] = p /\ Fold[x[2]] = Fold[n])
  BY <1>1 DEF FileKeys, Aliases
<1>5. deldir' \in Seq(Deleted) /\ Len(deldir') <= NumSlots /\ TrashInodesCurrent'
  BY <1>1 DEF FuseInv, TableOK, TypeOK, TrashInodesCurrent
<1> QED BY <1>1, <1>3, <1>4, <1>5, DeleteKeepsInv

LEMMA RenameFailsKeepsInv ==
  ASSUME FuseInv, NEW p \in DirInos, NEW n \in Names, NEW q \in DirInos, NEW m \in Names,
         RenameFailsHalfWay(p, n, q, m)
  PROVE  FuseInv'
<1> DEFINE y == <<inodes[q].anode, Fold[m]>>
           K == {<<p, n>>, <<q, m>>}
<1>1. /\ DeleteIn(inodes[q].anode, Fold[m]) /\ Spoil(K)
      /\ stale' = stale \cup {<<q, m>>} \cup Aliases(q, m)
      /\ UNCHANGED <<inodes, nameCache, writeBufs, deldir, handles, want>>
  BY DEF RenameFailsHalfWay, Fails, driver
<1>2. y \in DOMAIN entries
  BY <1>1 DEF DeleteIn, Removable, Has
<1>3. spoilt \subseteq spoilt' /\ (Busy(Ino(y)) => Ino(y) \in spoilt')
  <2>1. <<q, m>> \in K
    OBVIOUS
  <2> HIDE DEF K
  <2> QED BY <1>1, <1>2, <2>1, SpoilCovers
<1>4. \A x \in FileKeys' \ stale' : x \notin stale /\ ~(x[1] = q /\ Fold[x[2]] = Fold[m])
  BY <1>1 DEF FileKeys, Aliases
<1>5. deldir' \in Seq(Deleted) /\ Len(deldir') <= NumSlots /\ TrashInodesCurrent'
  BY <1>1 DEF FuseInv, TableOK, TypeOK, TrashInodesCurrent
<1> QED BY <1>1, <1>3, <1>4, <1>5, DeleteKeepsInv

\* A rename: through a key that is not stale the record follows the entry;
\* through a stale one, all that it confuses is spoilt and stale.
LEMMA RenameKeepsInv ==
  ASSUME FuseInv, NEW p \in DirInos, NEW n \in Names, NEW q \in DirInos, NEW m \in Names,
         Rename(p, n, q, m)
  PROVE  FuseInv'
<1> USE DEF FuseInv
<1> DEFINE i == nameCache[<<p, n>>]
           y == <<InoToAnode(p), Fold[n]>>
           z == <<InoToAnode(q), Fold[m]>>
           K == {<<p, n>>, <<q, m>>}
<1>1. /\ p \in Nodes /\ p # TrashIno /\ inodes[p].anode = InoToAnode(p)
      /\ q \in Nodes /\ q # TrashIno /\ inodes[q].anode = InoToAnode(q)
  BY DirNodes
<1>2. Fold[n] \in Keys /\ Fold[m] \in Keys /\ q \in Nat
  BY <1>1, BoundsAssumption, InodeNumbers
<1>3. /\ Cached(p, n) /\ <<p, Fold[n]>> # <<q, Fold[m]>>
      /\ RenameIn(InoToAnode(p), Fold[n], InoToAnode(q), Fold[m])
      /\ inodes' = [inodes EXCEPT ![i].key = Fold[m], ![i].parent = q]
      /\ nameCache' = With(Without(nameCache, <<p, n>>), <<q, m>>, i)
      /\ Spoil(K)
      /\ stale' = (stale \ {<<p, n>>, <<q, m>>}) \cup Aliases(p, n) \cup Aliases(q, m)
                    \cup Misled(p, n, q, m)
      /\ UNCHANGED <<writeBufs, deldir, handles, want>>
  BY <1>1 DEF Rename, MayRename, MoveName
<1>4. <<p, n>> \in FileKeys /\ i \in FileInos /\ i \in DOMAIN inodes
  BY <1>1, <1>3 DEF Cached, TableOK, TypeOK, FileKeys
<1>5. StoreOK'
  BY <1>2, <1>3, RenameKeepsStore
<1>6. /\ y \in DOMAIN entries /\ y # z
      /\ DOMAIN entries' = (DOMAIN entries \ {y}) \cup {z}
      /\ entries'[z] = entries[y] /\ Ino(z)' = Ino(y)
      /\ \A w \in DOMAIN entries \ {y, z} : entries'[w] = entries[w] /\ Ino(w)' = Ino(w)
  BY <1>3 DEF RenameIn, Has, With, Without, Ino
<1>7. \A w \in DOMAIN entries \ {z} : chains'[entries[w].anode] = chains[entries[w].anode]
  <2>1. CASE z \in DOMAIN entries
    <3>1. Discard(Fold[m], entries[z])
      BY <1>3, <2>1 DEF RenameIn, Has
    <3> HIDE DEF z
    <3> QED BY <1>2, <2>1, <3>1, DiscardKeepsTrash
  <2>2. CASE z \notin DOMAIN entries
    BY <1>3, <2>2 DEF RenameIn, Has
  <2> QED BY <2>1, <2>2
<1>8. /\ DOMAIN inodes' = DOMAIN inodes
      /\ inodes'[i].parent = q /\ inodes'[i].key = Fold[m]
      /\ inodes'[i] \in InodeInfo
      /\ \A j \in DOMAIN inodes :
           /\ inodes'[j].anode = inodes[j].anode /\ inodes'[j].kind = inodes[j].kind
           /\ inodes'[j].size = inodes[j].size /\ inodes'[j].prot = inodes[j].prot
      /\ \A j \in DOMAIN inodes \ {i} : inodes'[j] = inodes[j]
  <2>1. \A j \in DOMAIN inodes : inodes[j] \in InodeInfo
    BY DEF TableOK, TypeOK
  <2> HIDE DEF i
  <2> QED BY <1>2, <1>3, <1>4, <2>1 DEF InodeInfo
<1>9. /\ FileKeys' = (FileKeys \ {<<p, n>>}) \cup {<<q, m>>}
      /\ <<p, n>> # <<q, m>> /\ nameCache'[<<q, m>>] = i
      /\ \A x \in DOMAIN nameCache' \ {<<q, m>>} :
           x \in DOMAIN nameCache /\ nameCache'[x] = nameCache[x]
      /\ DOMAIN nameCache' \ FileKeys' = DOMAIN nameCache \ FileKeys
  BY <1>1, <1>3 DEF FileKeys, With, Without
<1>10. Place(<<q, m>>) = z /\ Place(<<p, n>>) = y
  BY DEF Place
\* What the step spoils, and what it makes stale.
<1>11. /\ spoilt \subseteq spoilt'
       /\ Busy(i) \/ <<p, n>> \in stale => i \in spoilt'
       /\ Busy(Ino(y)) \/ <<p, n>> \in stale => Ino(y) \in spoilt'
       /\ z \in DOMAIN entries /\ Busy(Ino(z)) => Ino(z) \in spoilt'
  <2>1. <<p, n>> \in K /\ <<q, m>> \in K /\ (<<p, n>> \in stale => K \cap stale # {})
    OBVIOUS
  <2> HIDE DEF K
  <2>2. /\ spoilt \subseteq spoilt'
        /\ Busy(i) \/ K \cap stale # {} => i \in spoilt'
        /\ Busy(Ino(y)) \/ K \cap stale # {} => Ino(y) \in spoilt'
    BY <1>1, <1>3, <1>6, <2>1, SpoilCovers
  <2>3. z \in DOMAIN entries /\ Busy(Ino(z)) => Ino(z) \in spoilt'
    BY <1>1, <1>3, <2>1, SpoilCovers
  <2> QED BY <2>1, <2>2, <2>3
<1>12. \A x \in FileKeys' \ (stale' \cup {<<q, m>>}) :
         /\ x \in FileKeys \ stale /\ nameCache'[x] = nameCache[x]
         /\ Place(x) # y /\ Place(x) # z
         /\ <<p, n>> \in stale => nameCache[x] # i
  <2> SUFFICES ASSUME NEW x \in FileKeys' \ (stale' \cup {<<q, m>>})
               PROVE  /\ x \in FileKeys \ stale /\ nameCache'[x] = nameCache[x]
                      /\ Place(x) # y /\ Place(x) # z
                      /\ <<p, n>> \in stale => nameCache[x] # i
    OBVIOUS
  <2>1. /\ x \in FileKeys /\ x \in DOMAIN nameCache /\ x # <<p, n>> /\ x # <<q, m>>
        /\ nameCache'[x] = nameCache[x]
    BY <1>9 DEF FileKeys
  <2>2. x \notin stale /\ x \notin Aliases(p, n) /\ x \notin Aliases(q, m)
        /\ x \notin Misled(p, n, q, m)
    BY <1>3, <2>1
  <2>3. ~(x[1] = p /\ Fold[x[2]] = Fold[n]) /\ ~(x[1] = q /\ Fold[x[2]] = Fold[m])
    BY <2>1, <2>2 DEF Aliases
  <2>4. Place(x) # y /\ Place(x) # z
    BY <1>1, <2>1, <2>3, KeyPlaces DEF TableOK
  <2>5. <<p, n>> \in stale => nameCache[x] # i
    BY <2>1, <2>2 DEF Misled
  <2> QED BY <2>1, <2>2, <2>4, <2>5
<1>13. <<q, m>> \notin stale' => <<p, n>> \notin stale
  BY <1>3 DEF Misled
<1>14. <<p, n>> \notin stale => i = Ino(y)
  BY <1>4, <1>10 DEF NamesOK
<1>15. i # RootIno /\ \A t \in Slots : DeldirIno(t) # i
  BY <1>4, InodeNumbers DEF Nodes
<1> HIDE DEF i, y, z, K
<1>16. TypeOK'
  <2>1. FileKeys' \subseteq ({RootIno} \cup FileInos) \X Names
    BY <1>1, <1>9 DEF TableOK, TypeOK, Nodes
  <2>2. \A x \in FileKeys' : nameCache'[x] \in FileInos
    BY <1>4, <1>9 DEF TableOK, TypeOK, FileKeys
  <2>3. \A j \in DOMAIN inodes' : inodes'[j] \in InodeInfo
    BY <1>8 DEF TableOK, TypeOK
  <2> QED BY <1>3, <1>8, <2>1, <2>2, <2>3 DEF TableOK, TypeOK
<1>17. TableOK'
  <2>1. \A j \in DOMAIN inodes' \cap Nodes :
          inodes'[j].anode = InoToAnode(j) /\ inodes'[j].parent \in Nodes
    BY <1>1, <1>8 DEF TableOK
  <2>2. \A x \in DOMAIN nameCache' \ FileKeys' : nameCache'[x] \in {DeldirIno(t) : t \in Slots}
    <3>1. <<q, m>> \in FileKeys'
      BY <1>9
    <3> QED BY <1>9, <3>1 DEF TableOK
  <2>3. \A t \in Slots : DeldirIno(t) \in DOMAIN inodes' => inodes'[DeldirIno(t)].kind = "file"
    BY <1>8 DEF TableOK
  <2> QED BY <1>3, <1>8, <1>16, <2>1, <2>2, <2>3 DEF TableOK
<1>18. TrashInodesCurrent'
  BY <1>3, <1>8 DEF TrashInodesCurrent
<1>19. NamesOK'
  <2> SUFFICES ASSUME NEW x \in FileKeys' \ stale'
               PROVE Place(x) \in DOMAIN entries' /\ nameCache'[x] = Ino(Place(x))'
    BY DEF NamesOK
  <2>1. CASE x = <<q, m>>
    BY <1>6, <1>9, <1>10, <1>13, <1>14, <2>1
  <2>2. CASE x # <<q, m>>
    BY <1>6, <1>12, <2>2 DEF NamesOK
  <2> QED BY <2>1, <2>2
<1>20. RecordsOK'
  <2> SUFFICES ASSUME NEW x \in FileKeys' \ stale', nameCache'[x] \in DOMAIN inodes'
               PROVE  /\ inodes'[nameCache'[x]].parent = x[1]
                      /\ inodes'[nameCache'[x]].key = Fold[x[2]]
                      /\ inodes'[nameCache'[x]].kind = entries'[Place(x)].type
    BY DEF RecordsOK, Place
  <2>1. CASE x = <<q, m>>
    <3>1. <<p, n>> \in FileKeys \ stale /\ Place(<<p, n>>) = y
      BY <1>4, <1>10, <1>13, <2>1
    <3>2. inodes[i].kind = entries[y].type
      BY <1>4, <3>1 DEF RecordsOK, i
    <3> QED BY <1>4, <1>6, <1>8, <1>9, <1>10, <2>1, <3>2
  <2>2. CASE x # <<q, m>>
    <3>1. /\ x \in FileKeys \ stale /\ nameCache'[x] = nameCache[x]
          /\ entries'[Place(x)] = entries[Place(x)]
      BY <1>6, <1>12, <2>2 DEF NamesOK
    <3>2. nameCache[x] # i
      <4>1. CASE <<p, n>> \in stale
        BY <1>12, <2>2, <4>1
      <4>2. CASE <<p, n>> \notin stale
        <5>1. Place(x) \in DOMAIN entries /\ nameCache[x] = Ino(Place(x)) /\ Place(x) # y
          BY <1>12, <2>2, <3>1 DEF NamesOK
        <5> QED BY <1>6, <1>14, <4>2, <5>1, EntryInos
      <4> QED BY <4>1, <4>2
    <3> QED BY <1>8, <3>1, <3>2 DEF RecordsOK
  <2> QED BY <2>1, <2>2
\* Every entry comes from one, under the same inode.
<1>21. \A w \in DOMAIN entries' : \E v \in DOMAIN entries \ {z} :
         /\ entries'[w] = entries[v] /\ Ino(w)' = Ino(v)
         /\ \/ w = z /\ v = y
            \/ w = v /\ v # y
  BY <1>6
<1>23. PlacesOK'
  <2> SUFFICES ASSUME NEW w \in DOMAIN entries', Ino(w)' \in DOMAIN inodes' \ spoilt'
               PROVE  /\ <<InoToAnode(inodes'[Ino(w)'].parent), inodes'[Ino(w)'].key>> = w
                      /\ inodes'[Ino(w)'].kind = entries'[w].type
                      /\ inodes'[Ino(w)'].prot = entries'[w].prot
    BY DEF PlacesOK
  <2>1. PICK v \in DOMAIN entries \ {z} : /\ entries'[w] = entries[v] /\ Ino(w)' = Ino(v)
                                          /\ \/ w = z /\ v = y
                                             \/ w = v /\ v # y
    BY <1>21
  <2>2. /\ Ino(v) \in DOMAIN inodes \ spoilt
        /\ <<InoToAnode(inodes[Ino(v)].parent), inodes[Ino(v)].key>> = v
        /\ inodes[Ino(v)].kind = entries[v].type /\ inodes[Ino(v)].prot = entries[v].prot
    BY <1>8, <1>11, <2>1 DEF PlacesOK
  <2>3. inodes'[Ino(w)'].kind = entries'[w].type /\ inodes'[Ino(w)'].prot = entries'[w].prot
    BY <1>8, <2>1, <2>2
  <2>4. CASE w = z /\ v = y
    <3>1. Ino(y) = i
      BY <1>11, <1>14, <2>1, <2>4
    <3> QED BY <1>8, <2>1, <2>3, <2>4, <3>1 DEF z
  <2>5. CASE w = v /\ v # y
    <3>1. Ino(v) # i
      <4>1. CASE <<p, n>> \in stale
        BY <1>11, <2>1, <4>1
      <4>2. CASE <<p, n>> \notin stale
        BY <1>6, <1>14, <2>5, <4>2, EntryInos
      <4> QED BY <4>1, <4>2
    <3> QED BY <1>8, <2>1, <2>2, <2>3, <2>5, <3>1
  <2> QED BY <2>1, <2>4, <2>5
<1>24. \A w \in DOMAIN entries', v \in DOMAIN entries \ {z} :
         entries'[w] = entries[v] /\ Ino(v) \in DOMAIN inodes => (SameRead(w)' <=> SameRead(v))
  <2> SUFFICES ASSUME NEW w \in DOMAIN entries', NEW v \in DOMAIN entries \ {z},
                      entries'[w] = entries[v], Ino(v) \in DOMAIN inodes
               PROVE SameRead(w)' <=> SameRead(v)
    OBVIOUS
  <2>1. chains'[entries[v].anode] = chains[entries[v].anode] /\ Ino(w)' = Ino(v)
    BY <1>7 DEF Ino
  <2>2. inodes'[Ino(v)].size = inodes[Ino(v)].size
    BY <1>8
  <2> QED BY <2>1, <2>2 DEF SameRead, ReadChain
<1>25. SizesOK'
  BY <1>3, <1>8, <1>11, <1>21, <1>24 DEF SizesOK
<1>26. BuffersOK'
  <2> SUFFICES ASSUME NEW j \in DOMAIN writeBufs \ spoilt' PROVE BufferOK(j)'
    BY <1>3 DEF BuffersOK
  <2>1. j \in FileInos /\ BufferOK(j) /\ Busy(j)
    BY <1>11, BufferIsBusy
  <2>2. PICK w \in DOMAIN entries : w = <<writeBufs[j].dir, writeBufs[j].key>> /\ Ino(w) = j
    BY <2>1 DEF BufferOK
  <2>3. w # y /\ w # z /\ j # i /\ j \in DOMAIN inodes
    BY <1>11, <2>1, <2>2 DEF BufferOK
  <2>4. w \in DOMAIN entries' /\ Ino(w)' = j /\ (SameRead(w)' <=> SameRead(w))
    BY <1>6, <1>24, <2>2, <2>3
  <2> QED BY <1>3, <1>8, <2>1, <2>2, <2>3, <2>4, BufferFrame DEF OpenHandles
<1> QED BY <1>5, <1>17, <1>18, <1>19, <1>20, <1>23, <1>25, <1>26

\* A rename that fails with the entry moved: the table and every key at both
\* places are old.
LEMMA RenameMovedKeepsInv ==
  ASSUME FuseInv, NEW p \in DirInos, NEW n \in Names, NEW q \in DirInos, NEW m \in Names,
         RenameFails(p, n, q, m),
         RenameIn(inodes[p].anode, Fold[n], inodes[q].anode, Fold[m])
  PROVE  FuseInv'
<1> USE DEF FuseInv
<1>1. /\ p \in Nodes /\ inodes[p].anode = InoToAnode(p) /\ Fold[n] \in Keys
      /\ q \in Nodes /\ inodes[q].anode = InoToAnode(q) /\ Fold[m] \in Keys
  BY DirNodes, BoundsAssumption
<1>2. PICK y, z : y = <<InoToAnode(p), Fold[n]>> /\ z = <<InoToAnode(q), Fold[m]>>
  OBVIOUS
<1>3. /\ spoilt' = spoilt \cup Meant(p, n) \cup Meant(q, m)
      /\ stale' = stale \cup {<<p, n>>, <<q, m>>} \cup Aliases(p, n) \cup Aliases(q, m)
      /\ UNCHANGED <<inodes, nameCache, writeBufs, deldir, handles, want>>
  BY DEF RenameFails, Fails, driver
<1>4. StoreOK'
  BY <1>1, RenameKeepsStore
<1>5. /\ y \in DOMAIN entries /\ y # z
      /\ DOMAIN entries' = (DOMAIN entries \ {y}) \cup {z} /\ Ino(z)' = Ino(y)
      /\ \A w \in DOMAIN entries \ {y, z} : entries'[w] = entries[w] /\ Ino(w)' = Ino(w)
  BY <1>1, <1>2 DEF RenameIn, Has, With, Without, Ino
<1>6. \A w \in DOMAIN entries \ {z} : chains'[entries[w].anode] = chains[entries[w].anode]
  <2>1. CASE z \in DOMAIN entries
    <3>1. Discard(Fold[m], entries[z])
      BY <1>1, <1>2, <2>1 DEF RenameIn, Has
    <3> QED BY <1>1, <2>1, <3>1, DiscardKeepsTrash
  <2>2. CASE z \notin DOMAIN entries
    BY <1>1, <1>2, <2>2 DEF RenameIn, Has
  <2> QED BY <2>1, <2>2
<1>7. spoilt \subseteq spoilt' /\ Ino(y) \in spoilt' /\ (z \in DOMAIN entries => Ino(z) \in spoilt')
  BY <1>1, <1>2, <1>3, <1>5 DEF Meant, Ino
<1>8. \A x \in FileKeys' \ stale' : x \in FileKeys \ stale /\ Place(x) # y /\ Place(x) # z
  <2> SUFFICES ASSUME NEW x \in FileKeys' \ stale'
               PROVE x \in FileKeys \ stale /\ Place(x) # y /\ Place(x) # z
    OBVIOUS
  <2>1. /\ x \in FileKeys \ stale /\ x \in DOMAIN nameCache
        /\ x # <<p, n>> /\ x # <<q, m>> /\ x \notin Aliases(p, n) /\ x \notin Aliases(q, m)
    BY <1>3 DEF FileKeys
  <2>2. ~(x[1] = p /\ Fold[x[2]] = Fold[n]) /\ ~(x[1] = q /\ Fold[x[2]] = Fold[m])
    BY <2>1 DEF Aliases
  <2> QED BY <1>1, <1>2, <2>1, <2>2, KeyPlaces DEF TableOK
<1>9. TableOK' /\ TrashInodesCurrent'
  BY <1>3 DEF TableOK, TypeOK, FileKeys, TrashInodesCurrent
<1>10. NamesOK'
  BY <1>3, <1>5, <1>8 DEF NamesOK
<1>11. RecordsOK'
  BY <1>3, <1>5, <1>8 DEF RecordsOK, NamesOK, Place
\* The entries whose inode is not spoilt are where they were.
<1>12. \A w \in DOMAIN entries' : Ino(w)' \notin spoilt' =>
         w \in DOMAIN entries \ {y, z} /\ entries'[w] = entries[w] /\ Ino(w)' = Ino(w)
  BY <1>5, <1>7
<1>13. PlacesOK'
  BY <1>3, <1>7, <1>12 DEF PlacesOK
<1>14. \A w \in DOMAIN entries \ {y, z} : SameRead(w)' <=> SameRead(w)
  BY <1>3, <1>5, <1>6, SameReadFrame
<1>15. SizesOK'
  BY <1>3, <1>7, <1>12, <1>14 DEF SizesOK
<1>16. BuffersOK'
  <2> SUFFICES ASSUME NEW j \in DOMAIN writeBufs \ spoilt' PROVE BufferOK(j)'
    BY <1>3 DEF BuffersOK
  <2>1. BufferOK(j)
    BY <1>7 DEF BuffersOK
  <2>2. PICK w \in DOMAIN entries : w = <<writeBufs[j].dir, writeBufs[j].key>> /\ Ino(w) = j
    BY <2>1 DEF BufferOK
  <2>3. w # y /\ w # z
    BY <1>7, <2>2
  <2> QED BY <1>3, <1>5, <1>14, <2>1, <2>2, <2>3 DEF BufferOK, OpenHandles
<1> QED BY <1>4, <1>9, <1>10, <1>11, <1>13, <1>15, <1>16

\* What truncating, extending and writing make of the content of a buffer.
LEMMA ResizeTyped ==
  ASSUME NEW c \in Seq(Content), NEW n \in Nat
  PROVE  Resize(c, n) \in Seq(Content) /\ Len(Resize(c, n)) = n /\ DOMAIN Resize(c, n) = 1..n
<1>1. Len(c) \in Nat /\ \A b \in 1..Len(c) : c[b] \in Content
  BY LenProperties
<1>2. Resize(c, n) \in [1..n -> Content]
  BY <1>1 DEF Resize, Content
<1>3. Resize(c, n) \in Seq(Content)
  BY <1>2, SeqDef
<1>4. DOMAIN Resize(c, n) = 1..n
  BY DEF Resize
<1>5. Len(Resize(c, n)) = n
  <2>1. Len(Resize(c, n)) \in Nat /\ 1..Len(Resize(c, n)) = 1..n
    BY <1>3, <1>4, LenProperties
  <2> QED BY <2>1
<1> QED BY <1>3, <1>4, <1>5

LEMMA PatchedTyped ==
  ASSUME NEW c \in Seq(Content), Len(c) <= MaxSize, NEW b \in 1..MaxSize, NEW v \in Bytes
  PROVE  /\ Patched(c, b, v) \in Seq(Content) /\ Patched(c, b, v) # <<>>
         /\ Len(Patched(c, b, v)) \in 0..MaxSize
<1> DEFINE n == IF b > Len(c) THEN b ELSE Len(c)
           r == Resize(c, n)
<1>1. Len(c) \in Nat
  BY LenProperties
<1>2. n \in Nat /\ n <= MaxSize /\ b \in 1..n
  BY <1>1, BoundsAssumption
<1> HIDE DEF n
<1>3. r \in Seq(Content) /\ Len(r) = n /\ DOMAIN r = 1..n
  BY <1>2, ResizeTyped
<1> HIDE DEF r
<1>4. [r EXCEPT ![b] = v] \in Seq(Content) /\ Len([r EXCEPT ![b] = v]) = n
  <2>1. v \in Content
    BY DEF Content
  <2> QED BY <1>2, <1>3, <2>1, ExceptSeq
<1>5. Patched(c, b, v) = [r EXCEPT ![b] = v]
  BY DEF Patched, r, n
<1> QED BY <1>2, <1>4, <1>5, EmptySeq, BoundsAssumption

\* The size or the protection of a record is set.
LEMMA SizeUpdate ==
  ASSUME TypeOK, NEW i, i \in DOMAIN inodes, NEW s \in 0..MaxSize,
         inodes' = [inodes EXCEPT ![i].size = s]
  PROVE  /\ DOMAIN inodes' = DOMAIN inodes
         /\ \A j \in DOMAIN inodes :
              /\ inodes'[j] \in InodeInfo
              /\ inodes'[j].anode = inodes[j].anode /\ inodes'[j].parent = inodes[j].parent
              /\ inodes'[j].key = inodes[j].key /\ inodes'[j].kind = inodes[j].kind
              /\ j # i => inodes'[j] = inodes[j]
              /\ inodes'[j].prot = inodes[j].prot
         /\ inodes'[i].size = s
<1>1. \A j \in DOMAIN inodes : inodes[j] \in InodeInfo
  BY DEF TypeOK
<1> QED BY <1>1 DEF InodeInfo

LEMMA ProtUpdate ==
  ASSUME TypeOK, NEW i, i \in DOMAIN inodes, NEW prot \in 0..3,
         inodes' = [inodes EXCEPT ![i].prot = prot]
  PROVE  /\ DOMAIN inodes' = DOMAIN inodes
         /\ \A j \in DOMAIN inodes :
              /\ inodes'[j] \in InodeInfo
              /\ inodes'[j].anode = inodes[j].anode /\ inodes'[j].parent = inodes[j].parent
              /\ inodes'[j].key = inodes[j].key /\ inodes'[j].kind = inodes[j].kind
              /\ j # i => inodes'[j] = inodes[j]
              /\ inodes'[j].size = inodes[j].size
         /\ inodes'[i].prot = prot
<1>1. \A j \in DOMAIN inodes : inodes[j] \in InodeInfo
  BY DEF TypeOK
<1> QED BY <1>1 DEF InodeInfo

\* A request on an open file changes no name, and of the table only the size
\* and the protection of one file.
LEMMA FileKeepsInv ==
  ASSUME FuseInv, NEW i \in FileInos, StoreOK', UNCHANGED <<nameCache, deldir, stale>>,
         handles' \in [FileInos -> [r : Nat, w : Nat]],
         DOMAIN entries' = DOMAIN entries,
         \A y \in DOMAIN entries :
           entries'[y].anode = entries[y].anode /\ entries'[y].type = entries[y].type,
         DOMAIN inodes' = DOMAIN inodes,
         \A j \in DOMAIN inodes :
           /\ inodes'[j] \in InodeInfo
           /\ inodes'[j].anode = inodes[j].anode /\ inodes'[j].parent = inodes[j].parent
           /\ inodes'[j].key = inodes[j].key /\ inodes'[j].kind = inodes[j].kind
           /\ j # i => inodes'[j] = inodes[j],
         DOMAIN writeBufs' \subseteq FileInos,
         \A j \in DOMAIN writeBufs' :
           writeBufs'[j] \in BufferInfo /\ Len(writeBufs'[j].data) <= MaxSize,
         PlacesOK', SizesOK', BuffersOK'
  PROVE  FuseInv'
<1> USE DEF FuseInv
<1>2. \A y \in DOMAIN entries : Ino(y)' = Ino(y)
  BY DEF Ino
<1>3. FileKeys' = FileKeys
  BY DEF FileKeys
<1>4. TypeOK'
  BY <1>3 DEF TableOK, TypeOK
<1>5. TableOK'
  BY <1>3, <1>4 DEF TableOK
<1>6. TrashInodesCurrent'
  <2>1. \A t \in Slots : DeldirIno(t) # i
    BY InodeNumbers DEF Nodes
  <2> QED BY <2>1 DEF TrashInodesCurrent
<1>7. NamesOK'
  BY <1>2, <1>3 DEF NamesOK
<1>8. RecordsOK'
  BY <1>3 DEF RecordsOK, NamesOK, Place
<1> QED BY <1>5, <1>6, <1>7, <1>8

\* If it changes no protection, no place changes.
LEMMA PlacesKept ==
  ASSUME FuseInv, DOMAIN entries' = DOMAIN entries, spoilt \subseteq spoilt',
         \A y \in DOMAIN entries :
           /\ entries'[y].anode = entries[y].anode
           /\ entries'[y].type = entries[y].type /\ entries'[y].prot = entries[y].prot,
         DOMAIN inodes' = DOMAIN inodes,
         \A j \in DOMAIN inodes : /\ inodes'[j].parent = inodes[j].parent
                                  /\ inodes'[j].key = inodes[j].key
                                  /\ inodes'[j].kind = inodes[j].kind
                                  /\ inodes'[j].prot = inodes[j].prot
  PROVE  PlacesOK'
<1>1. \A y \in DOMAIN entries : Ino(y)' = Ino(y)
  BY DEF Ino
<1> QED BY <1>1 DEF FuseInv, PlacesOK

\* Buffers and sizes of the other files.
LEMMA OthersKept ==
  ASSUME FuseInv, NEW i \in FileInos, DOMAIN entries' = DOMAIN entries, spoilt \subseteq spoilt',
         \A y \in DOMAIN entries : /\ entries'[y].anode = entries[y].anode
                                   /\ entries'[y].type = entries[y].type
                                   /\ entries'[y].size = entries[y].size \/ Ino(y) \in spoilt' \cup {i},
         \A b \in Anodes \ {InoToAnode(i)} : chains'[b] = chains[b],
         DOMAIN inodes' = DOMAIN inodes,
         \A j \in DOMAIN inodes : j # i => inodes'[j] = inodes[j],
         DOMAIN writeBufs' \cup {i} = DOMAIN writeBufs \cup {i},
         \A j \in DOMAIN writeBufs' \ {i} : writeBufs'[j] = writeBufs[j],
         \A j \in DOMAIN want \ {i} : j \in DOMAIN want' /\ want'[j] = want[j],
         \A j \in FileInos \ {i} : handles'[j] = handles[j]
  PROVE  /\ \A j \in DOMAIN writeBufs' \ (spoilt' \cup {i}) : BufferOK(j)'
         /\ \A y \in DOMAIN entries' :
              /\ Ino(y)' \in DOMAIN inodes' \ (spoilt' \cup DOMAIN writeBufs' \cup {i})
              /\ entries'[y].type = "file"
              => SameRead(y)'
<1> USE DEF FuseInv
<1>1. \A y \in DOMAIN entries : Ino(y)' = Ino(y)
  BY DEF Ino
<1>2. ASSUME NEW y \in DOMAIN entries, Ino(y) \in DOMAIN inodes \ (spoilt' \cup {i})
      PROVE  SameRead(y)' <=> SameRead(y)
  <2>1. entries[y].anode \in Anodes /\ entries[y].anode # InoToAnode(i)
    BY <1>2, EntryInos
  <2>2. /\ chains'[entries[y].anode] = chains[entries[y].anode]
        /\ entries'[y].size = entries[y].size /\ entries'[y].anode = entries[y].anode
        /\ inodes'[Ino(y)].size = inodes[Ino(y)].size
    BY <1>2, <2>1
  <2> QED BY <2>2, SameReadFrame
<1>3. ASSUME NEW j \in DOMAIN writeBufs' \ (spoilt' \cup {i}) PROVE BufferOK(j)'
  <2>1. j \in DOMAIN writeBufs \ spoilt /\ writeBufs'[j] = writeBufs[j]
    BY <1>3
  <2>2. j \in FileInos /\ BufferOK(j)
    BY <2>1, BufferIsBusy
  <2>3. PICK w \in DOMAIN entries : w = <<writeBufs[j].dir, writeBufs[j].key>> /\ Ino(w) = j
    BY <2>2 DEF BufferOK
  <2>4. j \in DOMAIN inodes /\ inodes'[j] = inodes[j]
    BY <1>3, <2>2 DEF BufferOK
  <2>5. SameRead(w)' <=> SameRead(w)
    BY <1>2, <1>3, <2>3, <2>4
  <2>6. OpenHandles(j)' = OpenHandles(j)
    BY <1>3, <2>2 DEF OpenHandles
  <2>7. j \in DOMAIN want => j \in DOMAIN want' /\ want'[j] = want[j]
    BY <1>3
  <2>8. Ino(w)' = j /\ w \in DOMAIN entries'
    BY <1>1, <2>3
  <2> QED BY <2>1, <2>2, <2>3, <2>4, <2>5, <2>6, <2>7, <2>8, BufferFrame
<1>4. ASSUME NEW y \in DOMAIN entries,
             Ino(y) \in DOMAIN inodes \ (spoilt' \cup DOMAIN writeBufs' \cup {i}),
             entries[y].type = "file"
      PROVE  SameRead(y)'
  BY <1>2, <1>4 DEF SizesOK
<1> QED BY <1>1, <1>3, <1>4

LEMMA OpenReadKeepsInv ==
  ASSUME FuseInv, NEW i \in FileInos, OpenRead(i)
  PROVE  FuseInv'
<1> USE DEF FuseInv
<1>1. /\ handles' = [handles EXCEPT ![i].r = @ + 1] /\ spoilt \subseteq spoilt'
      /\ UNCHANGED <<store, inodes, nameCache, writeBufs, deldir, want, stale>>
  BY DEF OpenRead, driver
<1>2. UNCHANGED <<entries, chains, trash>>
  BY <1>1 DEF store
<1>3. /\ handles' \in [FileInos -> [r : Nat, w : Nat]]
      /\ \A j \in FileInos \ {i} : handles'[j] = handles[j]
      /\ OpenHandles(i)' > 0
  BY <1>1, HandleOpened
<1>4. StoreOK'
  BY <1>1, StoreUnchanged
<1>5. PlacesOK'
  BY <1>1, <1>2, PlacesKept
<1>6. \A y \in DOMAIN entries : Ino(y)' = Ino(y) /\ (SameRead(y)' <=> SameRead(y))
  BY <1>1, <1>2 DEF Ino, SameRead, ReadChain
<1>7. SizesOK'
  BY <1>1, <1>2, <1>6 DEF SizesOK
<1>8. BuffersOK'
  <2> SUFFICES ASSUME NEW j \in DOMAIN writeBufs \ spoilt' PROVE BufferOK(j)'
    BY <1>1 DEF BuffersOK
  <2>1. j \in FileInos /\ BufferOK(j)
    BY <1>1, BufferIsBusy
  <2>2. OpenHandles(j)' > 0
    BY <1>3, <2>1 DEF BufferOK, OpenHandles
  <2> QED BY <1>1, <1>2, <1>6, <2>1, <2>2 DEF BufferOK
<1>9. \A j \in DOMAIN inodes : inodes'[j] \in InodeInfo
  BY <1>1 DEF TableOK, TypeOK
<1>10. /\ DOMAIN writeBufs' \subseteq FileInos
       /\ \A j \in DOMAIN writeBufs' :
            writeBufs'[j] \in BufferInfo /\ Len(writeBufs'[j].data) <= MaxSize
  BY <1>1 DEF TableOK, TypeOK
<1> QED BY <1>1, <1>2, <1>3, <1>4, <1>5, <1>7, <1>8, <1>9, <1>10, FileKeepsInv

\* A file that is opened has a record of its anode.
LEMMA OpenFileTyped ==
  ASSUME FuseInv, NEW i \in FileInos, OpenFile(i)
  PROVE  /\ i \in DOMAIN inodes /\ inodes[i].kind = "file" /\ inodes[i].size \in 0..MaxSize
         /\ inodes[i].anode = InoToAnode(i) /\ InoToAnode(i) \in Anodes
         /\ inodes[i].parent \in Nodes
<1>1. i \in DOMAIN inodes /\ inodes[i].kind = "file"
  BY DEF OpenFile, Named
<1> QED BY <1>1, InodeNumbers DEF FuseInv, TableOK, TypeOK, InodeInfo, Nodes

\* The buffer of a file that nobody else uses is written back to its entry,
\* and the content loaded is the one that the volume has.
LEMMA BufferPlace ==
  ASSUME FuseInv, NEW i \in FileInos, OpenFile(i), ~Shared(i), i \notin spoilt
  PROVE  \E y \in DOMAIN entries :
           /\ y = <<ParentAnode(i), inodes[i].key>> /\ Ino(y) = i /\ SameRead(y)
           /\ DiskContent(inodes[i].anode) = ReadChain(inodes[i].anode, inodes[i].size)
<1> USE DEF FuseInv
<1>1. /\ i \in DOMAIN inodes /\ inodes[i].kind = "file" /\ inodes[i].anode = InoToAnode(i)
      /\ inodes[i].parent \in Nodes
  BY OpenFileTyped
<1>2. /\ i \notin DOMAIN writeBufs /\ HasEntry(inodes[i].anode)
      /\ inodes[i].parent \in DOMAIN inodes
  BY DEF Shared
<1>3. PICK y \in DOMAIN entries : entries[y].anode = inodes[i].anode
  BY <1>2 DEF HasEntry
<1>4. Ino(y) = i
  BY <1>1, <1>3, EntryInos
<1>5. y = <<InoToAnode(inodes[i].parent), inodes[i].key>>
  BY <1>1, <1>4 DEF PlacesOK
<1>6. ParentAnode(i) = InoToAnode(inodes[i].parent)
  BY <1>1, <1>2 DEF ParentAnode, TableOK
<1>7. entries[y].type = "file"
  BY <1>1, <1>4 DEF PlacesOK
<1>8. SameRead(y)
  BY <1>1, <1>2, <1>4, <1>7 DEF SizesOK
<1>9. DiskContent(inodes[i].anode) = ReadChain(inodes[i].anode, inodes[i].size)
  BY <1>3, <1>4, <1>8, EntryOfIno DEF SameRead
<1> QED BY <1>4, <1>5, <1>6, <1>8, <1>9

LEMMA OpenWriteKeepsInv ==
  ASSUME FuseInv, NEW i \in FileInos,
         (\E trunc \in BOOLEAN : OpenWrite(i, trunc)) \/ OpenWriteReadFails(i)
  PROVE  FuseInv'
<1> USE DEF FuseInv
<1>1. /\ OpenFile(i) /\ handles' = [handles EXCEPT ![i].w = @ + 1] /\ spoilt \subseteq spoilt'
      /\ UNCHANGED <<store, inodes, nameCache, deldir, stale>>
  BY DEF OpenWrite, OpenWriteReadFails
<1>2. UNCHANGED <<entries, chains, trash>>
  BY <1>1 DEF store
<1>3. /\ i \in DOMAIN inodes /\ inodes[i].size \in 0..MaxSize
      /\ inodes[i].anode = InoToAnode(i) /\ InoToAnode(i) \in Anodes
  BY <1>1, OpenFileTyped
<1>4. PICK data : /\ writeBufs' = With(writeBufs, i, Buffer(i, data))
                  /\ data \in {<<>>, ReadChain(inodes[i].anode, inodes[i].size)}
                  /\ i \notin spoilt' =>
                       /\ ~Shared(i) /\ i \notin spoilt
                       /\ \/ want' = With(want, i, <<>>) /\ data = <<>>
                          \/ /\ want' = With(want, i, DiskContent(inodes[i].anode))
                             /\ data = ReadChain(inodes[i].anode, inodes[i].size)
  <2>1. CASE \E trunc \in BOOLEAN : OpenWrite(i, trunc)
    <3>1. PICK trunc \in BOOLEAN : OpenWrite(i, trunc)
      BY <2>1
    <3>2. CASE trunc
      BY <3>1, <3>2 DEF OpenWrite
    <3>3. CASE ~trunc
      BY <3>1, <3>3 DEF OpenWrite
    <3> QED BY <3>2, <3>3
  <2>2. CASE OpenWriteReadFails(i)
    BY <2>2 DEF OpenWriteReadFails
  <2> QED BY <2>1, <2>2
<1>5. data \in Seq(Content) /\ Len(data) <= MaxSize
  <2>1. <<>> \in Seq(Content) /\ Len(<<>>) <= MaxSize
    BY EmptySeq, BoundsAssumption
  <2>2. ReadChain(inodes[i].anode, inodes[i].size) \in Seq(Content)
        /\ Len(ReadChain(inodes[i].anode, inodes[i].size)) <= MaxSize
    BY <1>3, ReadTyped DEF StoreOK
  <2> QED BY <1>4, <2>1, <2>2
<1>6. /\ DOMAIN writeBufs' = DOMAIN writeBufs \cup {i}
      /\ writeBufs'[i] = [dir |-> ParentAnode(i), key |-> inodes[i].key, data |-> data]
      /\ \A j \in DOMAIN writeBufs \ {i} : writeBufs'[j] = writeBufs[j]
  BY <1>4 DEF With, Buffer
<1>7. \A j \in DOMAIN want \ {i} : j \in DOMAIN want' /\ want'[j] = want[j]
  BY DEF OpenWrite, OpenWriteReadFails, With
<1>8. /\ handles' \in [FileInos -> [r : Nat, w : Nat]]
      /\ \A j \in FileInos \ {i} : handles'[j] = handles[j]
      /\ OpenHandles(i)' > 0
  BY <1>1, HandleOpened
<1>9. StoreOK'
  BY <1>1, StoreUnchanged
<1>10. PlacesOK'
  BY <1>1, <1>2, PlacesKept
<1>11. /\ \A j \in DOMAIN writeBufs' \ (spoilt' \cup {i}) : BufferOK(j)'
       /\ \A y \in DOMAIN entries' :
            /\ Ino(y)' \in DOMAIN inodes' \ (spoilt' \cup DOMAIN writeBufs' \cup {i})
            /\ entries'[y].type = "file"
            => SameRead(y)'
  BY <1>1, <1>2, <1>6, <1>7, <1>8, OthersKept
<1>12. SizesOK'
  BY <1>6, <1>11 DEF SizesOK
<1>13. ASSUME i \notin spoilt' PROVE BufferOK(i)'
  <2>1. PICK y \in DOMAIN entries :
          /\ y = <<ParentAnode(i), inodes[i].key>> /\ Ino(y) = i /\ SameRead(y)
          /\ DiskContent(inodes[i].anode) = ReadChain(inodes[i].anode, inodes[i].size)
    BY <1>1, <1>4, <1>13, BufferPlace
  <2>2. i \in DOMAIN want' /\ want'[i] = data
    BY <1>4, <1>13, <2>1 DEF With
  <2>3. y = <<writeBufs'[i].dir, writeBufs'[i].key>> /\ writeBufs'[i].data = data
    BY <1>6, <2>1
  <2>4. Ino(y)' = i /\ SameRead(y)'
    BY <1>1, <1>2, <2>1 DEF Ino, SameRead, ReadChain
  <2> QED BY <1>1, <1>2, <1>3, <1>8, <2>2, <2>3, <2>4 DEF BufferOK
<1>14. BuffersOK'
  BY <1>11, <1>13 DEF BuffersOK
<1>15. \A j \in DOMAIN inodes : inodes'[j] \in InodeInfo
  BY <1>1 DEF TableOK, TypeOK
<1>16. /\ DOMAIN writeBufs' \subseteq FileInos
       /\ \A j \in DOMAIN writeBufs' :
            writeBufs'[j] \in BufferInfo /\ Len(writeBufs'[j].data) <= MaxSize
  <2>1. ParentAnode(i) \in Anodes \cup {Root} /\ inodes[i].key \in Keys \cup {0}
    BY <1>3 DEF ParentAnode, TableOK, TypeOK, InodeInfo
  <2>2. writeBufs'[i] \in BufferInfo
    BY <1>5, <1>6, <2>1 DEF BufferInfo
  <2> QED BY <1>5, <1>6, <2>2 DEF TableOK, TypeOK
<1> QED BY <1>1, <1>2, <1>8, <1>9, <1>10, <1>12, <1>14, <1>15, <1>16, FileKeepsInv

\* A write or a truncation changes the buffer and what its client wants alike,
\* and the size in the table.
LEMMA BufferChanged ==
  ASSUME FuseInv, NEW i \in FileInos, i \in DOMAIN writeBufs,
         NEW data \in Seq(Content), Len(data) \in 0..MaxSize,
         writeBufs' = [writeBufs EXCEPT ![i].data = data],
         inodes' = IF i \in DOMAIN inodes THEN [inodes EXCEPT ![i].size = Len(data)] ELSE inodes,
         \A j \in DOMAIN want \ {i} : j \in DOMAIN want' /\ want'[j] = want[j],
         i \in DOMAIN want /\ want[i] = writeBufs[i].data => i \in DOMAIN want' /\ want'[i] = data,
         UNCHANGED <<store, nameCache, deldir, handles, spoilt, stale>>
  PROVE  FuseInv'
<1> USE DEF FuseInv
<1>1. UNCHANGED <<entries, chains, trash, nameCache, deldir, handles, spoilt, stale>>
  BY DEF store
<1>2. /\ DOMAIN inodes' = DOMAIN inodes
      /\ \A j \in DOMAIN inodes :
           /\ inodes'[j] \in InodeInfo
           /\ inodes'[j].anode = inodes[j].anode /\ inodes'[j].parent = inodes[j].parent
           /\ inodes'[j].key = inodes[j].key /\ inodes'[j].kind = inodes[j].kind
           /\ j # i => inodes'[j] = inodes[j]
           /\ inodes'[j].prot = inodes[j].prot
      /\ i \in DOMAIN inodes => inodes'[i].size = Len(data)
  <2>1. CASE i \in DOMAIN inodes
    <3>1. inodes' = [inodes EXCEPT ![i].size = Len(data)]
      BY <2>1
    <3>2. TypeOK
      BY DEF TableOK
    <3> QED BY <2>1, <3>1, <3>2, SizeUpdate
  <2>2. CASE i \notin DOMAIN inodes
    BY <2>2 DEF TableOK, TypeOK
  <2> QED BY <2>1, <2>2
<1>3. /\ DOMAIN writeBufs' = DOMAIN writeBufs
      /\ \A j \in DOMAIN writeBufs \ {i} : writeBufs'[j] = writeBufs[j]
      /\ writeBufs'[i] = [writeBufs[i] EXCEPT !.data = data]
  OBVIOUS
<1>5. StoreOK'
  BY StoreUnchanged
<1>6. PlacesOK'
  BY <1>1, <1>2, PlacesKept
<1>7. /\ \A j \in DOMAIN writeBufs' \ (spoilt' \cup {i}) : BufferOK(j)'
      /\ \A y \in DOMAIN entries' :
           /\ Ino(y)' \in DOMAIN inodes' \ (spoilt' \cup DOMAIN writeBufs' \cup {i})
           /\ entries'[y].type = "file"
           => SameRead(y)'
  BY <1>1, <1>2, <1>3, OthersKept
<1>8. SizesOK'
  BY <1>3, <1>7 DEF SizesOK
<1>9. /\ writeBufs'[i].dir = writeBufs[i].dir /\ writeBufs'[i].key = writeBufs[i].key
      /\ writeBufs'[i].data = data /\ writeBufs'[i] \in BufferInfo
  <2>1. writeBufs[i] \in BufferInfo
    BY DEF TableOK
  <2> QED BY <1>3, <2>1 DEF BufferInfo
<1>10. ASSUME i \notin spoilt PROVE BufferOK(i)'
  <2>1. BufferOK(i)
    BY <1>10 DEF BuffersOK
  <2>2. PICK y \in DOMAIN entries : y = <<writeBufs[i].dir, writeBufs[i].key>> /\ Ino(y) = i
    BY <2>1 DEF BufferOK
  <2>3. y = <<writeBufs'[i].dir, writeBufs'[i].key>> /\ Ino(y)' = i
    BY <1>1, <1>9, <1>10, <2>2 DEF Ino
  <2>4. i \in DOMAIN want' /\ want'[i] = data
    BY <2>1 DEF BufferOK
  <2>5. data = <<>> => inodes'[i].size = 0
    BY <1>2, <2>1, EmptySeq DEF BufferOK
  <2>6. i \in DOMAIN inodes' /\ OpenHandles(i)' > 0
    BY <1>1, <1>2, <2>1 DEF BufferOK, OpenHandles
  <2> QED BY <1>1, <1>9, <2>2, <2>3, <2>4, <2>5, <2>6 DEF BufferOK
<1>11. BuffersOK'
  BY <1>1, <1>7, <1>10 DEF BuffersOK
<1>12. /\ DOMAIN writeBufs' \subseteq FileInos
       /\ \A j \in DOMAIN writeBufs' :
            writeBufs'[j] \in BufferInfo /\ Len(writeBufs'[j].data) <= MaxSize
  BY <1>3, <1>9 DEF TableOK, TypeOK
<1>13. handles' \in [FileInos -> [r : Nat, w : Nat]]
  BY <1>1 DEF TableOK
<1> QED BY <1>1, <1>2, <1>5, <1>6, <1>8, <1>11, <1>12, <1>13, FileKeepsInv

LEMMA WriteKeepsInv ==
  ASSUME FuseInv, NEW i \in FileInos, NEW b \in 1..MaxSize, NEW v \in Bytes, WriteFile(i, b, v)
  PROVE  FuseInv'
<1> DEFINE data == Patched(writeBufs[i].data, b, v)
<1>1. /\ i \in DOMAIN writeBufs
      /\ writeBufs' = [writeBufs EXCEPT ![i].data = data]
      /\ inodes' = IF i \in DOMAIN inodes THEN [inodes EXCEPT ![i].size = Len(data)] ELSE inodes
      /\ want' = IF i \in DOMAIN want THEN [want EXCEPT ![i] = Patched(@, b, v)] ELSE want
      /\ UNCHANGED <<store, nameCache, deldir, handles, spoilt, stale>>
  BY DEF WriteFile
<1>2. writeBufs[i].data \in Seq(Content) /\ Len(writeBufs[i].data) <= MaxSize
  BY <1>1 DEF FuseInv, TableOK, TypeOK, BufferInfo
<1>3. data \in Seq(Content) /\ Len(data) \in 0..MaxSize
  BY <1>2, PatchedTyped
<1>4. /\ \A j \in DOMAIN want \ {i} : j \in DOMAIN want' /\ want'[j] = want[j]
      /\ i \in DOMAIN want /\ want[i] = writeBufs[i].data => i \in DOMAIN want' /\ want'[i] = data
  BY <1>1
<1> HIDE DEF data
<1> QED BY <1>1, <1>3, <1>4, BufferChanged

LEMMA SetSizeKeepsInv ==
  ASSUME FuseInv, NEW i \in FileInos, NEW n \in 0..MaxSize, SetSize(i, n)
  PROVE  FuseInv'
<1> USE DEF FuseInv
<1>1. /\ i \in DOMAIN inodes /\ inodes' = [inodes EXCEPT ![i].size = n]
      /\ UNCHANGED <<store, nameCache, deldir, handles, stale>>
  BY DEF SetSize, Addressed
<1>2. CASE i \in DOMAIN writeBufs
  <2> DEFINE data == Resize(writeBufs[i].data, n)
  <2>1. /\ writeBufs' = [writeBufs EXCEPT ![i].data = data]
        /\ want' = IF i \in DOMAIN want THEN [want EXCEPT ![i] = Resize(@, n)] ELSE want
        /\ UNCHANGED spoilt
    BY <1>2 DEF SetSize
  <2>2. data \in Seq(Content) /\ Len(data) = n /\ Len(data) \in 0..MaxSize
    <3>1. writeBufs[i].data \in Seq(Content) /\ n \in Nat
      BY <1>2, BoundsAssumption DEF TableOK, BufferInfo
    <3>2. data \in Seq(Content) /\ Len(data) = n
      BY <3>1, ResizeTyped
    <3> QED BY <3>2
  <2>3. /\ \A j \in DOMAIN want \ {i} : j \in DOMAIN want' /\ want'[j] = want[j]
        /\ i \in DOMAIN want /\ want[i] = writeBufs[i].data => i \in DOMAIN want' /\ want'[i] = data
    BY <2>1
  <2>4. inodes' = IF i \in DOMAIN inodes THEN [inodes EXCEPT ![i].size = Len(data)] ELSE inodes
    BY <1>1, <2>2
  <2> HIDE DEF data
  <2> QED BY <1>1, <1>2, <2>1, <2>2, <2>3, <2>4, BufferChanged
<1>3. CASE i \notin DOMAIN writeBufs
  <2>1. spoilt' = spoilt \cup {i} /\ UNCHANGED <<writeBufs, want>>
    BY <1>3 DEF SetSize
  <2>2. UNCHANGED <<entries, chains, trash>>
    BY <1>1 DEF store
  <2>3. /\ DOMAIN inodes' = DOMAIN inodes
        /\ \A j \in DOMAIN inodes :
             /\ inodes'[j] \in InodeInfo
             /\ inodes'[j].anode = inodes[j].anode /\ inodes'[j].parent = inodes[j].parent
             /\ inodes'[j].key = inodes[j].key /\ inodes'[j].kind = inodes[j].kind
             /\ j # i => inodes'[j] = inodes[j]
             /\ inodes'[j].prot = inodes[j].prot
    <3>1. TypeOK
      BY DEF TableOK
    <3> QED BY <1>1, <3>1, SizeUpdate
  <2>4. StoreOK'
    BY <1>1, StoreUnchanged
  <2>5. PlacesOK'
    BY <2>1, <2>2, <2>3, PlacesKept
  <2>6. /\ \A j \in DOMAIN writeBufs' \ (spoilt' \cup {i}) : BufferOK(j)'
        /\ \A y \in DOMAIN entries' :
             /\ Ino(y)' \in DOMAIN inodes' \ (spoilt' \cup DOMAIN writeBufs' \cup {i})
             /\ entries'[y].type = "file"
             => SameRead(y)'
    BY <1>1, <2>1, <2>2, <2>3, OthersKept
  <2>7. SizesOK' /\ BuffersOK'
    BY <2>1, <2>6 DEF SizesOK, BuffersOK
  <2>8. /\ DOMAIN writeBufs' \subseteq FileInos
        /\ \A j \in DOMAIN writeBufs' :
             writeBufs'[j] \in BufferInfo /\ Len(writeBufs'[j].data) <= MaxSize
        /\ handles' \in [FileInos -> [r : Nat, w : Nat]]
    BY <1>1, <2>1 DEF TableOK, TypeOK
  <2> QED BY <1>1, <2>2, <2>3, <2>4, <2>5, <2>7, <2>8, FileKeepsInv
<1> QED BY <1>2, <1>3

\* A protection is set where the table says that the file is; if that is
\* another file's entry, that file is spoilt.
LEMMA SetProtKeepsInv ==
  ASSUME FuseInv, NEW i \in FileInos, NEW prot \in 0..3, SetProt(i, prot)
  PROVE  FuseInv'
<1> USE DEF FuseInv
<1> DEFINE par == inodes[i].parent
<1>1. /\ i \in DOMAIN inodes /\ par \in DOMAIN inodes
      /\ SetProtection(Parent(i), inodes[i].key, prot)
      /\ inodes' = [inodes EXCEPT ![i].prot = prot]
      /\ spoilt' = spoilt \cup ({AnodeToIno(AnodeOf(Parent(i), inodes[i].key))} \ {i})
      /\ UNCHANGED <<nameCache, writeBufs, deldir, handles, want, stale>>
  BY DEF SetProt, Addressed
<1>2. Parent(i) = InoToAnode(par)
  BY <1>1 DEF Parent, TableOK, Nodes
<1>3. PICK y \in DOMAIN entries :
        /\ y = <<InoToAnode(par), inodes[i].key>>
        /\ entries' = [entries EXCEPT ![y].prot = prot] /\ UNCHANGED <<chains, trash>>
        /\ spoilt' = spoilt \cup ({Ino(y)} \ {i})
  BY <1>1, <1>2 DEF SetProtection, Has, AnodeOf, Ino
<1>4. ChainsTyped'
  BY <1>3 DEF StoreOK, ChainsTyped
<1>5. StoreOK'
  BY <1>3, <1>4, UpdateKeepsStore
<1>6. /\ DOMAIN entries' = DOMAIN entries /\ entries'[y].prot = prot
      /\ \A z \in DOMAIN entries :
           /\ entries'[z].anode = entries[z].anode /\ entries'[z].type = entries[z].type
           /\ entries'[z].size = entries[z].size /\ Ino(z)' = Ino(z)
           /\ z # y => entries'[z] = entries[z]
  <2>1. \A z \in DOMAIN entries :
          entries[z] \in [type : Kinds, anode : Anodes, size : 0..MaxSize, prot : 0..3]
    BY DEF StoreOK, EntriesTyped
  <2> QED BY <1>3, <2>1 DEF Ino
<1>7. /\ DOMAIN inodes' = DOMAIN inodes
      /\ \A j \in DOMAIN inodes :
           /\ inodes'[j] \in InodeInfo
           /\ inodes'[j].anode = inodes[j].anode /\ inodes'[j].parent = inodes[j].parent
           /\ inodes'[j].key = inodes[j].key /\ inodes'[j].kind = inodes[j].kind
           /\ j # i => inodes'[j] = inodes[j]
           /\ inodes'[j].size = inodes[j].size
      /\ inodes'[i].prot = prot
  <2>1. TypeOK
    BY DEF TableOK
  <2> QED BY <1>1, <2>1, ProtUpdate
<1>8. \A z \in DOMAIN entries : Ino(z) \in DOMAIN inodes => (SameRead(z)' <=> SameRead(z))
  BY <1>3, <1>6, <1>7, SameReadFrame
<1> HIDE DEF par
<1>9. PlacesOK'
  <2> SUFFICES ASSUME NEW z \in DOMAIN entries, Ino(z) \in DOMAIN inodes \ spoilt'
               PROVE  /\ <<InoToAnode(inodes'[Ino(z)].parent), inodes'[Ino(z)].key>> = z
                      /\ inodes'[Ino(z)].kind = entries'[z].type
                      /\ inodes'[Ino(z)].prot = entries'[z].prot
    BY <1>6, <1>7 DEF PlacesOK
  <2>1. /\ <<InoToAnode(inodes[Ino(z)].parent), inodes[Ino(z)].key>> = z
        /\ inodes[Ino(z)].kind = entries[z].type
        /\ inodes[Ino(z)].prot = entries[z].prot
    BY <1>3 DEF PlacesOK
  <2>2. CASE Ino(z) = i
    <3>1. z = y
      BY <1>3, <2>1, <2>2 DEF par
    <3> QED BY <1>6, <1>7, <2>1, <2>2, <3>1
  <2>3. CASE Ino(z) # i
    <3>1. z # y
      BY <1>3, <2>3
    <3> QED BY <1>6, <1>7, <2>1, <2>3, <3>1
  <2> QED BY <2>2, <2>3
<1>10. SizesOK'
  BY <1>1, <1>3, <1>6, <1>7, <1>8 DEF SizesOK
<1>11. BuffersOK'
  <2> SUFFICES ASSUME NEW j \in DOMAIN writeBufs \ spoilt' PROVE BufferOK(j)'
    BY <1>1 DEF BuffersOK
  <2>1. BufferOK(j)
    BY <1>3 DEF BuffersOK
  <2>2. PICK w \in DOMAIN entries : w = <<writeBufs[j].dir, writeBufs[j].key>> /\ Ino(w) = j
    BY <2>1 DEF BufferOK
  <2>3. j \in DOMAIN inodes /\ inodes'[j].size = inodes[j].size /\ (SameRead(w)' <=> SameRead(w))
    BY <1>7, <1>8, <2>1, <2>2 DEF BufferOK
  <2> QED BY <1>1, <1>6, <1>7, <2>1, <2>2, <2>3, BufferFrame DEF OpenHandles
<1>12. /\ DOMAIN writeBufs' \subseteq FileInos
       /\ \A j \in DOMAIN writeBufs' :
            writeBufs'[j] \in BufferInfo /\ Len(writeBufs'[j].data) <= MaxSize
       /\ handles' \in [FileInos -> [r : Nat, w : Nat]]
  BY <1>1 DEF TableOK, TypeOK
<1> QED BY <1>1, <1>5, <1>6, <1>7, <1>9, <1>10, <1>11, <1>12, FileKeepsInv

\* The same with the reply an error: both are spoilt.
LEMMA SetProtFailsKeepsInv ==
  ASSUME FuseInv, NEW i \in FileInos, NEW prot \in 0..3, SetProtFails(i, prot)
  PROVE  FuseInv'
<1> USE DEF FuseInv
<1>1. /\ i \in DOMAIN inodes /\ inodes[i].parent \in DOMAIN inodes
      /\ SetProtection(Parent(i), inodes[i].key, prot)
      /\ spoilt' = spoilt \cup {i, AnodeToIno(AnodeOf(Parent(i), inodes[i].key))}
      /\ UNCHANGED <<inodes, nameCache, writeBufs, deldir, handles, want, stale>>
  BY DEF SetProtFails, Fails, driver, Addressed
<1>2. PICK y \in DOMAIN entries :
        /\ entries' = [entries EXCEPT ![y].prot = prot] /\ UNCHANGED <<chains, trash>>
        /\ spoilt' = spoilt \cup {i, Ino(y)}
  BY <1>1 DEF SetProtection, Has, AnodeOf, Ino
<1>3. ChainsTyped'
  BY <1>2 DEF StoreOK, ChainsTyped
<1>4. StoreOK'
  BY <1>2, <1>3, UpdateKeepsStore
<1>5. /\ DOMAIN entries' = DOMAIN entries
      /\ \A z \in DOMAIN entries :
           /\ entries'[z].anode = entries[z].anode /\ entries'[z].type = entries[z].type
           /\ entries'[z].size = entries[z].size /\ Ino(z)' = Ino(z)
           /\ z # y => entries'[z] = entries[z]
  <2>1. \A z \in DOMAIN entries :
          entries[z] \in [type : Kinds, anode : Anodes, size : 0..MaxSize, prot : 0..3]
    BY DEF StoreOK, EntriesTyped
  <2> QED BY <1>2, <2>1 DEF Ino
<1>6. PlacesOK'
  BY <1>1, <1>2, <1>5 DEF PlacesOK
<1>7. /\ \A j \in DOMAIN writeBufs' \ (spoilt' \cup {i}) : BufferOK(j)'
      /\ \A z \in DOMAIN entries' :
           /\ Ino(z)' \in DOMAIN inodes' \ (spoilt' \cup DOMAIN writeBufs' \cup {i})
           /\ entries'[z].type = "file"
           => SameRead(z)'
  BY <1>1, <1>2, <1>5, OthersKept
<1>8. SizesOK' /\ BuffersOK'
  BY <1>2, <1>7 DEF SizesOK, BuffersOK
<1>9. /\ DOMAIN writeBufs' \subseteq FileInos
      /\ \A j \in DOMAIN writeBufs' :
           writeBufs'[j] \in BufferInfo /\ Len(writeBufs'[j].data) <= MaxSize
      /\ \A j \in DOMAIN inodes : inodes'[j] \in InodeInfo
      /\ handles' \in [FileInos -> [r : Nat, w : Nat]]
  BY <1>1 DEF TableOK, TypeOK
<1> QED BY <1>1, <1>4, <1>5, <1>6, <1>8, <1>9, FileKeepsInv

\* A RELEASE that writes nothing: with an empty buffer, the size in the table
\* reads as the volume does, or the file is spoilt.
LEMMA ReleaseNothingKeepsInv ==
  ASSUME FuseInv, NEW i \in FileInos, ReleaseWithoutBuffer(i) \/ ReleaseNothing(i)
  PROVE  FuseInv'
<1> USE DEF FuseInv
<1>1. /\ Closed(i) /\ UNCHANGED <<store, inodes, nameCache, deldir, stale>>
      /\ spoilt \subseteq spoilt'
  BY DEF ReleaseWithoutBuffer, ReleaseNothing, driver, ghosts
<1>2. UNCHANGED <<entries, chains, trash>>
  BY <1>1 DEF store
<1>3. /\ handles' \in [FileInos -> [r : Nat, w : Nat]]
      /\ \A j \in FileInos \ {i} : handles'[j] = handles[j]
  BY <1>1, HandleClosed
<1>4. /\ DOMAIN writeBufs' = DOMAIN writeBufs \ {i}
      /\ \A j \in DOMAIN writeBufs' : writeBufs'[j] = writeBufs[j]
      /\ \A j \in DOMAIN want \ {i} : j \in DOMAIN want' /\ want'[j] = want[j]
  BY DEF ReleaseWithoutBuffer, ReleaseNothing, driver, ghosts, Without
<1>5. StoreOK'
  BY <1>1, StoreUnchanged
<1>6. PlacesOK'
  BY <1>1, <1>2, PlacesKept
<1>7. /\ \A j \in DOMAIN writeBufs' \ (spoilt' \cup {i}) : BufferOK(j)'
      /\ \A y \in DOMAIN entries' :
           /\ Ino(y)' \in DOMAIN inodes' \ (spoilt' \cup DOMAIN writeBufs' \cup {i})
           /\ entries'[y].type = "file"
           => SameRead(y)'
  BY <1>1, <1>2, <1>3, <1>4, OthersKept
<1>8. BuffersOK'
  BY <1>4, <1>7 DEF BuffersOK
<1>9. ASSUME NEW y \in DOMAIN entries, Ino(y) = i, i \in DOMAIN inodes \ spoilt',
             entries[y].type = "file"
      PROVE  SameRead(y)
  <2>1. CASE ReleaseWithoutBuffer(i)
    <3>1. i \notin DOMAIN writeBufs
      BY <2>1 DEF ReleaseWithoutBuffer
    <3> QED BY <1>1, <1>9, <3>1 DEF SizesOK
  <2>2. CASE ReleaseNothing(i)
    <3>1. /\ i \in DOMAIN writeBufs /\ writeBufs[i].data = <<>>
          /\ DiskContent(inodes[i].anode) = <<>>
      BY <1>9, <2>2 DEF ReleaseNothing
    <3>2. BufferOK(i)
      BY <1>1, <1>9, <3>1 DEF BuffersOK
    <3>3. inodes[i].size = 0 \/ SameRead(y)
      BY <1>9, <3>1, <3>2, EntryInos DEF BufferOK
    <3>4. inodes[i].anode = entries[y].anode /\ entries[y].anode \in Anodes
      BY <1>9, EntryInos DEF TableOK, Nodes
    <3>5. ReadChain(entries[y].anode, entries[y].size) = <<>>
      BY <3>1, <3>4, EntryOfIno
    <3>6. 0 \in 0..MaxSize
      BY BoundsAssumption
    <3>7. ReadChain(entries[y].anode, 0) = <<>>
      BY <3>4, <3>6, ReadTyped DEF StoreOK
    <3> QED BY <1>9, <3>3, <3>5, <3>7 DEF SameRead
  <2> QED BY <2>1, <2>2
<1>10. SizesOK'
  <2> SUFFICES ASSUME NEW y \in DOMAIN entries,
                      Ino(y)' \in DOMAIN inodes' \ (spoilt' \cup DOMAIN writeBufs'),
                      entries[y].type = "file"
               PROVE  SameRead(y)'
    BY <1>2 DEF SizesOK
  <2>1. Ino(y)' = Ino(y) /\ (SameRead(y)' <=> SameRead(y))
    BY <1>1, <1>2 DEF Ino, SameRead, ReadChain
  <2>2. CASE Ino(y) = i
    BY <1>1, <1>9, <2>1, <2>2
  <2>3. CASE Ino(y) # i
    BY <1>2, <1>7, <2>1, <2>3
  <2> QED BY <2>2, <2>3
<1>11. /\ DOMAIN writeBufs' \subseteq FileInos
       /\ \A j \in DOMAIN writeBufs' :
            writeBufs'[j] \in BufferInfo /\ Len(writeBufs'[j].data) <= MaxSize
       /\ \A j \in DOMAIN inodes : inodes'[j] \in InodeInfo
  BY <1>1, <1>4 DEF TableOK, TypeOK
<1> QED BY <1>1, <1>2, <1>3, <1>5, <1>6, <1>8, <1>10, <1>11, FileKeepsInv

\* What a RELEASE that writes has in its hands.
LEMMA DirtyTyped ==
  ASSUME FuseInv, NEW i \in FileInos, Dirty(i)
  PROVE  /\ i \in DOMAIN writeBufs /\ i \in DOMAIN inodes /\ writeBufs[i].data # <<>>
         /\ inodes[i].anode = InoToAnode(i) /\ InoToAnode(i) \in Anodes
         /\ writeBufs[i].data \in Seq(Content) /\ Len(writeBufs[i].data) \in 0..MaxSize
         /\ Blocks(writeBufs[i].data) = writeBufs[i].data
<1>1. i \in DOMAIN writeBufs /\ i \in DOMAIN inodes /\ writeBufs[i].data # <<>>
  BY DEF Dirty
<1>2. writeBufs[i].data \in Seq(Content) /\ Len(writeBufs[i].data) <= MaxSize
  BY <1>1 DEF FuseInv, TableOK, TypeOK, BufferInfo
<1>3. Len(writeBufs[i].data) \in 0..MaxSize
  BY <1>2, LenProperties, BoundsAssumption
<1>4. inodes[i].anode = InoToAnode(i) /\ InoToAnode(i) \in Anodes
  BY <1>1, InodeNumbers DEF FuseInv, TableOK, Nodes
<1> QED BY <1>1, <1>2, <1>3, <1>4 DEF Blocks

LEMMA ReleaseWritesKeepsInv ==
  ASSUME FuseInv, NEW i \in FileInos, ReleaseWrites(i)
  PROVE  FuseInv'
<1> USE DEF FuseInv
<1> DEFINE data == writeBufs[i].data
<1>1. /\ Closed(i) /\ Dirty(i)
      /\ OverwriteFileIn(writeBufs[i].dir, writeBufs[i].key, inodes[i].anode, data)
      /\ inodes' = [inodes EXCEPT ![i].size = Len(data)]
      /\ writeBufs' = Without(writeBufs, i) /\ want' = Without(want, i)
      /\ UNCHANGED <<nameCache, deldir, stale>>
  BY DEF ReleaseWrites
<1>2. /\ i \in DOMAIN writeBufs /\ i \in DOMAIN inodes
      /\ inodes[i].anode = InoToAnode(i) /\ InoToAnode(i) \in Anodes
      /\ data \in Seq(Content) /\ Len(data) \in 0..MaxSize /\ Blocks(data) = data
  BY <1>1, DirtyTyped
<1>3. PICK y \in DOMAIN entries :
        /\ y = <<writeBufs[i].dir, writeBufs[i].key>>
        /\ entries' = [entries EXCEPT ![y].size = Len(data)] /\ UNCHANGED trash
        /\ PutChain(InoToAnode(i), data)
        /\ spoilt' = spoilt \cup ({Ino(y)} \ {i})
  BY <1>1, <1>2 DEF OverwriteFileIn, ReleaseWrites, Has, AnodeOf, Ino
<1> HIDE DEF data
<1>4. ChainsTyped' /\ \A b \in Anodes \ {InoToAnode(i)} : chains'[b] = chains[b]
  BY <1>2, <1>3, PutKeepsChains DEF StoreOK
<1>5. StoreOK'
  BY <1>2, <1>3, <1>4, UpdateKeepsStore
<1>6. /\ DOMAIN entries' = DOMAIN entries /\ entries'[y].size = Len(data)
      /\ \A z \in DOMAIN entries :
           /\ entries'[z].anode = entries[z].anode /\ entries'[z].type = entries[z].type
           /\ entries'[z].prot = entries[z].prot /\ Ino(z)' = Ino(z)
           /\ z # y => entries'[z] = entries[z]
  <2>1. \A z \in DOMAIN entries :
          entries[z] \in [type : Kinds, anode : Anodes, size : 0..MaxSize, prot : 0..3]
    BY DEF StoreOK, EntriesTyped
  <2> QED BY <1>3, <2>1 DEF Ino
<1>7. /\ DOMAIN inodes' = DOMAIN inodes
      /\ \A j \in DOMAIN inodes :
           /\ inodes'[j] \in InodeInfo
           /\ inodes'[j].anode = inodes[j].anode /\ inodes'[j].parent = inodes[j].parent
           /\ inodes'[j].key = inodes[j].key /\ inodes'[j].kind = inodes[j].kind
           /\ j # i => inodes'[j] = inodes[j]
           /\ inodes'[j].prot = inodes[j].prot
      /\ inodes'[i].size = Len(data)
  <2>1. TypeOK
    BY DEF TableOK
  <2> QED BY <1>1, <1>2, <2>1, SizeUpdate
<1>8. /\ handles' \in [FileInos -> [r : Nat, w : Nat]]
      /\ \A j \in FileInos \ {i} : handles'[j] = handles[j]
  BY <1>1, HandleClosed
<1>9. /\ DOMAIN writeBufs' = DOMAIN writeBufs \ {i}
      /\ \A j \in DOMAIN writeBufs' : writeBufs'[j] = writeBufs[j]
      /\ \A j \in DOMAIN want \ {i} : j \in DOMAIN want' /\ want'[j] = want[j]
  BY <1>1 DEF Without
<1>10. PlacesOK'
  <2>1. spoilt \subseteq spoilt'
    BY <1>3
  <2> QED BY <1>6, <1>7, <2>1, PlacesKept
<1>11. /\ \A j \in DOMAIN writeBufs' \ (spoilt' \cup {i}) : BufferOK(j)'
       /\ \A z \in DOMAIN entries' :
            /\ Ino(z)' \in DOMAIN inodes' \ (spoilt' \cup DOMAIN writeBufs' \cup {i})
            /\ entries'[z].type = "file"
            => SameRead(z)'
  <2>1. \A z \in DOMAIN entries : entries'[z].size = entries[z].size \/ Ino(z) \in spoilt' \cup {i}
    BY <1>3, <1>6
  <2>2. spoilt \subseteq spoilt' /\ DOMAIN writeBufs' \cup {i} = DOMAIN writeBufs \cup {i}
    BY <1>3, <1>9
  <2> QED BY <1>4, <1>6, <1>7, <1>8, <1>9, <2>1, <2>2, OthersKept
<1>12. BuffersOK'
  BY <1>9, <1>11 DEF BuffersOK
<1>13. SizesOK'
  <2> SUFFICES ASSUME NEW z \in DOMAIN entries', Ino(z)' = i, i \notin spoilt'
               PROVE  SameRead(z)'
    BY <1>11 DEF SizesOK
  <2>1. BufferOK(i)
    BY <1>2, <1>3 DEF BuffersOK
  <2>2. Ino(y) = i
    BY <1>3, <2>1 DEF BufferOK
  <2>3. z = y
    BY <1>6, <2>2, EntryInos
  <2>4. inodes'[Ino(z)'].size = entries'[z].size
    BY <1>6, <1>7, <2>3
  <2> QED BY <2>4 DEF SameRead
<1>14. /\ DOMAIN writeBufs' \subseteq FileInos
       /\ \A j \in DOMAIN writeBufs' :
            writeBufs'[j] \in BufferInfo /\ Len(writeBufs'[j].data) <= MaxSize
  BY <1>9 DEF TableOK, TypeOK
<1> QED BY <1>1, <1>5, <1>6, <1>7, <1>8, <1>10, <1>12, <1>13, <1>14, FileKeepsInv

LEMMA ReleaseFailsKeepsInv ==
  ASSUME FuseInv, NEW i \in FileInos, ReleaseFails(i)
  PROVE  FuseInv'
<1> USE DEF FuseInv
<1> DEFINE data == writeBufs[i].data
           torn == [b \in DOMAIN chains[inodes[i].anode] |->
                      IF b <= Len(Blocks(data)) THEN Blocks(data)[b] ELSE chains[inodes[i].anode][b]]
<1>1. /\ Closed(i) /\ Dirty(i) /\ spoilt' = spoilt \cup {i} /\ UNCHANGED <<entries, trash>>
      /\ PutChain(inodes[i].anode, torn) \/ PutChain(inodes[i].anode, Blocks(data))
      /\ UNCHANGED <<inodes, nameCache, writeBufs, deldir, want, stale>>
  BY DEF ReleaseFails, Torn, driver
<1>2. /\ i \in DOMAIN writeBufs /\ i \in DOMAIN inodes
      /\ inodes[i].anode = InoToAnode(i) /\ InoToAnode(i) \in Anodes
      /\ data \in Seq(Content) /\ Blocks(data) = data
  BY <1>1, DirtyTyped
<1>3. torn \in Seq(Content)
  <2>1. chains[InoToAnode(i)] \in Seq(Content)
    BY <1>2 DEF StoreOK, ChainsTyped
  <2>2. PICK c \in Seq(Content) : c = chains[InoToAnode(i)]
    BY <2>1
  <2>3. PICK d \in Seq(Content) : d = data
    BY <1>2
  <2>4. torn = [b \in DOMAIN c |-> IF b <= Len(d) THEN d[b] ELSE c[b]]
    BY <1>2, <2>2, <2>3
  <2>5. /\ Len(c) \in Nat /\ DOMAIN c = 1..Len(c) /\ Len(d) \in Nat
        /\ \A b \in 1..Len(c) : c[b] \in Content
        /\ \A b \in 1..Len(d) : d[b] \in Content
    BY LenProperties
  <2> HIDE DEF torn
  <2>6. torn \in [1..Len(c) -> Content]
    BY <2>4, <2>5
  <2> QED BY <2>5, <2>6, SeqDef
<1> HIDE DEF data, torn
<1>4. ChainsTyped' /\ \A b \in Anodes \ {InoToAnode(i)} : chains'[b] = chains[b]
  BY <1>1, <1>2, <1>3, PutKeepsChains DEF StoreOK
<1>5. StoreOK'
  BY <1>1, <1>4, UpdateKeepsStore
<1>6. /\ handles' \in [FileInos -> [r : Nat, w : Nat]]
      /\ \A j \in FileInos \ {i} : handles'[j] = handles[j]
  BY <1>1, HandleClosed
<1>7. PlacesOK'
  BY <1>1, PlacesKept
<1>8. /\ \A j \in DOMAIN writeBufs' \ (spoilt' \cup {i}) : BufferOK(j)'
      /\ \A y \in DOMAIN entries' :
           /\ Ino(y)' \in DOMAIN inodes' \ (spoilt' \cup DOMAIN writeBufs' \cup {i})
           /\ entries'[y].type = "file"
           => SameRead(y)'
  BY <1>1, <1>4, <1>6, OthersKept
<1>9. SizesOK' /\ BuffersOK'
  BY <1>1, <1>8 DEF SizesOK, BuffersOK
<1>10. /\ DOMAIN writeBufs' \subseteq FileInos
       /\ \A j \in DOMAIN writeBufs' :
            writeBufs'[j] \in BufferInfo /\ Len(writeBufs'[j].data) <= MaxSize
       /\ \A j \in DOMAIN inodes : inodes'[j] \in InodeInfo
  BY <1>1 DEF TableOK, TypeOK
<1> QED BY <1>1, <1>5, <1>6, <1>7, <1>9, <1>10, FileKeepsInv

LEMMA ReleaseFailsLateKeepsInv ==
  ASSUME FuseInv, NEW i \in FileInos, ReleaseFailsLate(i)
  PROVE  FuseInv'
<1> USE DEF FuseInv
<1>1. PICK data : data = writeBufs[i].data
  OBVIOUS
<1>2. /\ Closed(i) /\ Dirty(i)
      /\ OverwriteFileIn(writeBufs[i].dir, writeBufs[i].key, inodes[i].anode, data)
      /\ UNCHANGED <<inodes, nameCache, writeBufs, deldir, want, stale>>
  BY <1>1 DEF ReleaseFailsLate, driver
<1>3. /\ i \in DOMAIN inodes /\ inodes[i].anode = InoToAnode(i) /\ InoToAnode(i) \in Anodes
      /\ data \in Seq(Content) /\ Len(data) \in 0..MaxSize /\ Blocks(data) = data
  BY <1>1, <1>2, DirtyTyped
<1>4. PICK y \in DOMAIN entries :
        /\ entries' = [entries EXCEPT ![y].size = Len(data)] /\ UNCHANGED trash
        /\ PutChain(InoToAnode(i), data)
        /\ spoilt' = spoilt \cup {i, Ino(y)}
  BY <1>2, <1>3 DEF OverwriteFileIn, ReleaseFailsLate, Has, AnodeOf, Ino
<1>5. ChainsTyped' /\ \A b \in Anodes \ {InoToAnode(i)} : chains'[b] = chains[b]
  BY <1>3, <1>4, PutKeepsChains DEF StoreOK
<1>6. StoreOK'
  BY <1>3, <1>4, <1>5, UpdateKeepsStore
<1>7. /\ DOMAIN entries' = DOMAIN entries
      /\ \A z \in DOMAIN entries :
           /\ entries'[z].anode = entries[z].anode /\ entries'[z].type = entries[z].type
           /\ entries'[z].prot = entries[z].prot
           /\ z # y => entries'[z] = entries[z]
  <2>1. \A z \in DOMAIN entries :
          entries[z] \in [type : Kinds, anode : Anodes, size : 0..MaxSize, prot : 0..3]
    BY DEF StoreOK, EntriesTyped
  <2> QED BY <1>4, <2>1
<1>8. /\ handles' \in [FileInos -> [r : Nat, w : Nat]]
      /\ \A j \in FileInos \ {i} : handles'[j] = handles[j]
  BY <1>2, HandleClosed
<1>9. PlacesOK'
  BY <1>2, <1>4, <1>7, PlacesKept
<1>10. /\ \A j \in DOMAIN writeBufs' \ (spoilt' \cup {i}) : BufferOK(j)'
       /\ \A z \in DOMAIN entries' :
            /\ Ino(z)' \in DOMAIN inodes' \ (spoilt' \cup DOMAIN writeBufs' \cup {i})
            /\ entries'[z].type = "file"
            => SameRead(z)'
  <2>1. \A z \in DOMAIN entries : entries'[z].size = entries[z].size \/ Ino(z) \in spoilt' \cup {i}
    BY <1>4, <1>7
  <2> QED BY <1>2, <1>4, <1>5, <1>7, <1>8, <2>1, OthersKept
<1>11. SizesOK' /\ BuffersOK'
  BY <1>4, <1>10 DEF SizesOK, BuffersOK
<1>12. /\ DOMAIN writeBufs' \subseteq FileInos
       /\ \A j \in DOMAIN writeBufs' :
            writeBufs'[j] \in BufferInfo /\ Len(writeBufs'[j].data) <= MaxSize
       /\ \A j \in DOMAIN inodes : inodes'[j] \in InodeInfo
  BY <1>2 DEF TableOK, TypeOK
<1> QED BY <1>2, <1>6, <1>7, <1>8, <1>9, <1>11, <1>12, FileKeepsInv

\* The bits that chmod writes: those above the lowest are the old ones.
LEMMA ChmodBitsKept ==
  ASSUME NEW old \in 0..3, NEW rwed \in {0, 1}
  PROVE  ChmodBits(old, rwed) \in 0..3 /\ ChmodBits(old, rwed) \div 2 = old \div 2
BY DEF ChmodBits

\* What the invariant promises.
LEMMA FuseInvPromises ==
  ASSUME FuseInv
  PROVE  TypeOK /\ TrashInodesCurrent /\ CacheFaithful /\ ReadsAreCurrent
<1> USE DEF FuseInv
<1>1. TypeOK /\ TrashInodesCurrent
  BY DEF TableOK
<1>2. CacheFaithful
  <2> SUFFICES ASSUME NEW x \in FileKeys \ stale, nameCache[x] \in DOMAIN inodes
               PROVE  /\ Place(x) \in DOMAIN entries
                      /\ inodes[nameCache[x]].anode = entries[Place(x)].anode
                      /\ inodes[nameCache[x]].kind = entries[Place(x)].type
                      /\ inodes[nameCache[x]].parent = x[1]
                      /\ inodes[nameCache[x]].key = Fold[x[2]]
                      /\ nameCache[x] \notin spoilt =>
                           inodes[nameCache[x]].prot = entries[Place(x)].prot
    BY DEF CacheFaithful, Place
  <2>1. Place(x) \in DOMAIN entries /\ nameCache[x] = Ino(Place(x))
    BY DEF NamesOK
  <2>2. inodes[nameCache[x]].anode = entries[Place(x)].anode
    BY <2>1, EntryInos DEF TableOK, Nodes
  <2>3. /\ inodes[nameCache[x]].parent = x[1] /\ inodes[nameCache[x]].key = Fold[x[2]]
        /\ inodes[nameCache[x]].kind = entries[Place(x)].type
    BY DEF RecordsOK
  <2>4. nameCache[x] \notin spoilt => inodes[nameCache[x]].prot = entries[Place(x)].prot
    BY <2>1 DEF PlacesOK
  <2> QED BY <2>1, <2>2, <2>3, <2>4
<1>3. ReadsAreCurrent
  <2> SUFFICES ASSUME NEW x \in FileKeys \ stale, NEW i, i = nameCache[x],
                      i \in DOMAIN inodes \ (DOMAIN writeBufs \cup spoilt),
                      inodes[i].kind = "file"
               PROVE  ReadChain(inodes[i].anode, inodes[i].size) = DiskContent(inodes[i].anode)
    BY DEF ReadsAreCurrent
  <2>1. PICK y \in DOMAIN entries : i = Ino(y)
    BY DEF NamesOK
  <2>2. inodes[i].anode = entries[y].anode
    BY <2>1, EntryInos DEF TableOK, Nodes
  <2>3. entries[y].type = "file"
    BY <2>1 DEF PlacesOK
  <2>4. SameRead(y)
    BY <2>1, <2>3 DEF SizesOK
  <2> QED BY <2>1, <2>2, <2>4, EntryOfIno DEF SameRead
<1> QED BY <1>1, <1>2, <1>3

\* unlink fails with the entry there, of a file that is deleted: that file is
\* spoilt, and the others are as they were.
LEMMA RemoveHalfWayStops ==
  ASSUME FuseInv, NEW p \in DirInos, NEW n \in Names, RemoveFailsHalfWay(p, n)
  PROVE  StoppedInv'
<1>1. inodes[p].anode = InoToAnode(p) /\ Fold[n] \in Keys
  BY DirNodes, BoundsAssumption DEF FuseInv
<1>2. PICK y \in DOMAIN entries : y = <<inodes[p].anode, Fold[n]>>
  BY DEF RemoveFailsHalfWay, DeleteLeavesEntry, Has
<1>3. /\ entries[y].type # "dir" /\ Discard(Fold[n], entries[y]) /\ UNCHANGED entries
      /\ spoilt' = spoilt \cup Meant(p, n)
      /\ UNCHANGED <<inodes, nameCache, writeBufs, deldir, stale>>
  BY <1>2 DEF RemoveFailsHalfWay, DeleteLeavesEntry, Fails, driver
<1>4. TypeOK /\ TrashInodesCurrent /\ CacheFaithful /\ ReadsAreCurrent
  BY FuseInvPromises
<1>5. TypeOK' /\ TrashInodesCurrent'
  BY <1>3, <1>4 DEF TypeOK, FileKeys, TrashInodesCurrent
<1>6. CacheFaithful'
  BY <1>3, <1>4 DEF CacheFaithful, FileKeys
<1>7. Ino(y) \in spoilt'
  BY <1>2, <1>3 DEF Meant, Ino
<1>8. ReadsAreCurrent'
  <2> SUFFICES ASSUME NEW x \in FileKeys \ stale, NEW i, i = nameCache[x],
                      i \in DOMAIN inodes \ (DOMAIN writeBufs \cup spoilt'),
                      inodes[i].kind = "file"
               PROVE  (ReadChain(inodes[i].anode, inodes[i].size) = DiskContent(inodes[i].anode))'
    BY <1>3 DEF ReadsAreCurrent, FileKeys
  <2>1. PICK z \in DOMAIN entries : i = Ino(z)
    BY DEF FuseInv, NamesOK
  <2>2. z # y /\ i \notin spoilt
    BY <1>3, <1>7, <2>1
  <2>3. inodes[i].anode = entries[z].anode
    BY <2>1, EntryInos DEF FuseInv, TableOK, Nodes
  <2>4. chains'[entries[z].anode] = chains[entries[z].anode]
    BY <1>1, <1>3, <2>2, DiscardKeepsTrash DEF FuseInv
  <2>5. ReadChain(inodes[i].anode, inodes[i].size) = DiskContent(inodes[i].anode)
    BY <1>4, <2>2 DEF ReadsAreCurrent
  <2>6. EntryOf(inodes[i].anode) = z /\ HasEntry(inodes[i].anode)
    BY <2>3, EntryOfIno DEF FuseInv
  <2>7. EntryOf(inodes[i].anode)' = z /\ HasEntry(inodes[i].anode)'
    BY <1>3, <2>6 DEF EntryOf, HasEntry
  <2>8. z = <<z[1], z[2]>>
    BY EntryInos DEF FuseInv
  <2> QED BY <1>3, <2>3, <2>4, <2>5, <2>6, <2>7, <2>8 DEF DiskContent, ContentAt, AnodeOf, ReadChain
<1>9. Entangled'
  <2>1. CASE Slots = {}
    <3>1. chains' = [chains EXCEPT ![entries[y].anode] = <<>>]
      BY <1>3, <2>1 DEF Discard
    <3>2. chains'[entries[y].anode] = <<>>
      BY <3>1, EntryInos DEF FuseInv, StoreOK, ChainsTyped
    <3> QED BY <1>3, <3>2 DEF Entangled
  <2>2. CASE Slots # {}
    <3>1. PICK s \in Slots : s = Slot
      BY <2>2, SlotExists
    <3>2. trash' = [trash EXCEPT ![s] = <<[anode |-> entries[y].anode, size |-> entries[y].size,
                                           key |-> Fold[n]]>>]
      BY <1>3, <2>2, <3>1 DEF Discard
    <3>3. trash'[s] # <<>> /\ trash'[s][1].anode = entries[y].anode
      BY <3>2 DEF FuseInv, StoreOK, TrashTyped
    <3> QED BY <1>3, <3>3 DEF Entangled
  <2> QED BY <2>1, <2>2
<1> QED BY <1>5, <1>6, <1>8, <1>9 DEF StoppedInv

\* rename fails with the entry under both names: every key at both places is
\* stale, and the other entries are as they were.
LEMMA RenameLeavesTwoStops ==
  ASSUME FuseInv, NEW p \in DirInos, NEW n \in Names, NEW q \in DirInos, NEW m \in Names,
         RenameFails(p, n, q, m),
         RenameLeavesTwo(inodes[p].anode, Fold[n], inodes[q].anode, Fold[m])
  PROVE  StoppedInv'
<1>1. /\ p \in Nodes /\ inodes[p].anode = InoToAnode(p) /\ Fold[n] \in Keys
      /\ q \in Nodes /\ inodes[q].anode = InoToAnode(q) /\ Fold[m] \in Keys
  BY DirNodes, BoundsAssumption DEF FuseInv
<1>2. PICK y, z : y = <<InoToAnode(p), Fold[n]>> /\ z = <<InoToAnode(q), Fold[m]>>
  OBVIOUS
<1>3. /\ spoilt' = spoilt \cup Meant(p, n) \cup Meant(q, m)
      /\ stale' = stale \cup {<<p, n>>, <<q, m>>} \cup Aliases(p, n) \cup Aliases(q, m)
      /\ UNCHANGED <<inodes, nameCache, writeBufs, deldir>>
  BY DEF RenameFails, Fails, driver
<1>4. /\ y \in DOMAIN entries /\ y # z
      /\ DOMAIN entries' = DOMAIN entries \cup {z} /\ entries'[z] = entries[y]
      /\ \A w \in DOMAIN entries \ {z} : entries'[w] = entries[w]
  BY <1>1, <1>2 DEF RenameLeavesTwo, Has, With
<1>5. \A w \in DOMAIN entries \ {z} : chains'[entries[w].anode] = chains[entries[w].anode]
  <2>1. CASE z \in DOMAIN entries
    <3>1. Discard(Fold[m], entries[z])
      BY <1>1, <1>2, <2>1 DEF RenameLeavesTwo, Has
    <3> QED BY <1>1, <2>1, <3>1, DiscardKeepsTrash DEF FuseInv
  <2>2. CASE z \notin DOMAIN entries
    BY <1>1, <1>2, <2>2 DEF RenameLeavesTwo, Has
  <2> QED BY <2>1, <2>2
<1>6. Entangled'
  <2>1. entries'[y].anode = entries'[z].anode /\ y \in DOMAIN entries' /\ z \in DOMAIN entries'
    BY <1>4
  <2> QED BY <1>4, <2>1 DEF Entangled
<1>7. \A x \in FileKeys' \ stale' :
        /\ x \in FileKeys \ stale /\ nameCache'[x] = nameCache[x]
        /\ Place(x) \in DOMAIN entries \ {y, z} /\ nameCache[x] = Ino(Place(x))
  <2> SUFFICES ASSUME NEW x \in FileKeys' \ stale'
               PROVE /\ x \in FileKeys \ stale /\ nameCache'[x] = nameCache[x]
                     /\ Place(x) \in DOMAIN entries \ {y, z} /\ nameCache[x] = Ino(Place(x))
    OBVIOUS
  <2>1. /\ x \in FileKeys \ stale /\ x \in DOMAIN nameCache /\ nameCache'[x] = nameCache[x]
        /\ x # <<p, n>> /\ x # <<q, m>> /\ x \notin Aliases(p, n) /\ x \notin Aliases(q, m)
    BY <1>3 DEF FileKeys
  <2>2. ~(x[1] = p /\ Fold[x[2]] = Fold[n]) /\ ~(x[1] = q /\ Fold[x[2]] = Fold[m])
    BY <2>1 DEF Aliases
  <2>3. Place(x) # y /\ Place(x) # z
    BY <1>1, <1>2, <2>1, <2>2, KeyPlaces DEF FuseInv, TableOK
  <2>4. Place(x) \in DOMAIN entries /\ nameCache[x] = Ino(Place(x))
    BY <2>1 DEF FuseInv, NamesOK
  <2> QED BY <2>1, <2>3, <2>4
<1>8. TypeOK /\ TrashInodesCurrent /\ CacheFaithful /\ ReadsAreCurrent
  BY FuseInvPromises
<1>9. TypeOK' /\ TrashInodesCurrent'
  BY <1>3, <1>8 DEF TypeOK, FileKeys, TrashInodesCurrent
<1>10. spoilt \subseteq spoilt'
  BY <1>3
<1>11. CacheFaithful'
  BY <1>3, <1>4, <1>7, <1>8, <1>10 DEF CacheFaithful, Place
<1>12. ReadsAreCurrent'
  <2> SUFFICES ASSUME NEW x \in FileKeys' \ stale', NEW i, i = nameCache[x],
                      i \in DOMAIN inodes \ (DOMAIN writeBufs \cup spoilt'),
                      inodes[i].kind = "file"
               PROVE  (ReadChain(inodes[i].anode, inodes[i].size) = DiskContent(inodes[i].anode))'
    BY <1>3 DEF ReadsAreCurrent
  <2>1. PICK w \in DOMAIN entries \ {y, z} : i = Ino(w) /\ w = Place(x)
    BY <1>7
  <2>2. inodes[i].anode = entries[w].anode
    BY <2>1, EntryInos DEF FuseInv, TableOK, Nodes
  <2>3. ReadChain(inodes[i].anode, inodes[i].size) = DiskContent(inodes[i].anode)
    BY <1>7, <1>8, <1>10 DEF ReadsAreCurrent
  <2>4. EntryOf(inodes[i].anode) = w /\ HasEntry(inodes[i].anode)
    BY <2>2, EntryOfIno DEF FuseInv
  <2>5. \A v \in DOMAIN entries' : entries'[v].anode = entries[w].anode <=> v = w
    BY <1>4, <2>1 DEF FuseInv, StoreOK, AnodesApart
  <2>6. EntryOf(inodes[i].anode)' = w /\ HasEntry(inodes[i].anode)'
    BY <1>3, <1>4, <2>1, <2>2, <2>5 DEF EntryOf, HasEntry
  <2>7. w = <<w[1], w[2]>> /\ entries'[w] = entries[w]
    BY <1>4, <2>1, EntryInos DEF FuseInv
  <2>8. chains'[entries[w].anode] = chains[entries[w].anode]
    BY <1>5, <2>1
  <2> QED BY <1>3, <2>2, <2>3, <2>4, <2>6, <2>7, <2>8 DEF DiskContent, ContentAt, AnodeOf, ReadChain
<1> QED BY <1>6, <1>9, <1>11, <1>12 DEF StoppedInv

LEMMA FuseInvStep == FuseInv /\ [Next]_vars => Inv'
<1> SUFFICES ASSUME FuseInv, [Next]_vars PROVE Inv'
  OBVIOUS
<1> USE DEF Inv
<1>1. ASSUME NameRequest PROVE Inv'
  <2>1. PICK p \in DirInos, n \in Names :
          \/ Lookup(p, n)
          \/ \E a \in AllocAnode : MkDir(p, n, a) \/ CreateFile(p, n, a)
          \/ \E a \in AllocAnode, type \in {"dir", "file"} : CreateFails(p, n, a, type)
          \/ Unlink(p, n)
          \/ RmDir(p, n)
          \/ RemoveFails(p, n) \/ RemoveFailsHalfWay(p, n)
          \/ \E q \in DirInos, m \in Names :
               Rename(p, n, q, m) \/ RenameFailsHalfWay(p, n, q, m) \/ RenameFails(p, n, q, m)
    BY <1>1 DEF NameRequest
  <2>2. CASE Lookup(p, n)
    BY <2>2, LookupKeepsInv
  <2>3. CASE \E a \in AllocAnode : MkDir(p, n, a) \/ CreateFile(p, n, a)
    <3>1. PICK a : MkDir(p, n, a) \/ CreateFile(p, n, a)
      BY <2>3
    <3>2. CASE MkDir(p, n, a)
      BY <3>2, NewNameKeepsInv
    <3>3. CASE CreateFile(p, n, a)
      BY <3>3, NewNameKeepsInv
    <3> QED BY <3>1, <3>2, <3>3
  <2>4. CASE Unlink(p, n) \/ RmDir(p, n)
    BY <2>4, UnlinkKeepsInv
  <2>5. CASE \E q \in DirInos, m \in Names :
               Rename(p, n, q, m) \/ RenameFailsHalfWay(p, n, q, m) \/ RenameFails(p, n, q, m)
    <3>1. PICK q \in DirInos, m \in Names :
            Rename(p, n, q, m) \/ RenameFailsHalfWay(p, n, q, m) \/ RenameFails(p, n, q, m)
      BY <2>5
    <3>2. CASE RenameFails(p, n, q, m)
      <4>1. \/ RenameIn(inodes[p].anode, Fold[n], inodes[q].anode, Fold[m])
            \/ RenameLeavesTwo(inodes[p].anode, Fold[n], inodes[q].anode, Fold[m])
        BY <3>2 DEF RenameFails
      <4> QED BY <3>2, <4>1, RenameMovedKeepsInv, RenameLeavesTwoStops
    <3> QED BY <3>1, <3>2, RenameKeepsInv, RenameFailsKeepsInv
  <2>6. CASE \E a \in AllocAnode, type \in {"dir", "file"} : CreateFails(p, n, a, type)
    BY <2>6, CreateFailsKeepsInv
  <2>7. CASE RemoveFails(p, n) \/ RemoveFailsHalfWay(p, n)
    BY <2>7, RemoveFailsKeepsInv, RemoveHalfWayStops
  <2> QED BY <2>1, <2>2, <2>3, <2>4, <2>5, <2>6, <2>7
<1>2. ASSUME FileRequest PROVE FuseInv'
  <2>1. PICK i \in FileInos :
          \/ OpenRead(i)
          \/ \E trunc \in BOOLEAN : OpenWrite(i, trunc)
          \/ OpenWriteReadFails(i)
          \/ \E b \in 1..MaxSize, v \in Bytes : WriteFile(i, b, v)
          \/ \E n \in {0, MaxSize} : SetSize(i, n)
          \/ \E rwed \in {0, 1} : Chmod(i, rwed)
          \/ \E prot \in {1, 2} : SetXattr(i, prot) \/ SetProtFails(i, prot)
    BY <1>2 DEF FileRequest
  <2>2. CASE OpenRead(i)
    BY <2>2, OpenReadKeepsInv
  <2>3. CASE (\E trunc \in BOOLEAN : OpenWrite(i, trunc)) \/ OpenWriteReadFails(i)
    BY <2>3, OpenWriteKeepsInv
  <2>4. CASE \E b \in 1..MaxSize, v \in Bytes : WriteFile(i, b, v)
    BY <2>4, WriteKeepsInv
  <2>5. CASE \E n \in {0, MaxSize} : SetSize(i, n)
    <3>1. {0, MaxSize} \subseteq 0..MaxSize
      BY BoundsAssumption
    <3> QED BY <2>5, <3>1, SetSizeKeepsInv
  <2>6. CASE \E rwed \in {0, 1} : Chmod(i, rwed)
    <3>1. PICK rwed \in {0, 1} : SetProt(i, ChmodBits(inodes[i].prot, rwed))
      BY <2>6 DEF Chmod
    <3>2. inodes[i].prot \in 0..3
      BY <3>1 DEF SetProt, Addressed, FuseInv, TableOK, TypeOK, InodeInfo
    <3>3. ChmodBits(inodes[i].prot, rwed) \in 0..3
      BY <3>2, ChmodBitsKept
    <3> QED BY <3>1, <3>3, SetProtKeepsInv
  <2>7. CASE \E prot \in {1, 2} : SetXattr(i, prot) \/ SetProtFails(i, prot)
    <3>1. PICK prot \in 0..3 : SetProt(i, prot) \/ SetProtFails(i, prot)
      BY <2>7 DEF SetXattr
    <3> QED BY <3>1, SetProtKeepsInv, SetProtFailsKeepsInv
  <2> QED BY <2>1, <2>2, <2>3, <2>4, <2>5, <2>6, <2>7
<1>3. ASSUME NEW i \in FileInos, Release(i) PROVE FuseInv'
  BY <1>3, ReleaseNothingKeepsInv, ReleaseWritesKeepsInv, ReleaseFailsKeepsInv,
     ReleaseFailsLateKeepsInv DEF Release
<1>4. ASSUME UNCHANGED vars PROVE FuseInv'
  <2>1. /\ UNCHANGED <<entries, chains, trash, inodes, nameCache, writeBufs, deldir, handles>>
        /\ UNCHANGED <<want, spoilt, stale>>
    BY <1>4 DEF vars, store, driver, ghosts
  <2>2. StoreOK'
    BY <2>1, StoreUnchanged DEF FuseInv, store
  <2>3. TableOK' /\ TrashInodesCurrent'
    BY <2>1 DEF FuseInv, TableOK, TypeOK, FileKeys, TrashInodesCurrent
  <2>4. NamesOK' /\ RecordsOK'
    BY <2>1 DEF FuseInv, NamesOK, RecordsOK, FileKeys, Ino, Place
  <2>5. PlacesOK'
    BY <2>1 DEF FuseInv, PlacesOK, Ino
  <2>6. \A y : SameRead(y)' <=> SameRead(y)
    BY <2>1 DEF SameRead, ReadChain, Ino
  <2>7. SizesOK' /\ BuffersOK'
    BY <2>1, <2>6 DEF FuseInv, SizesOK, BuffersOK, BufferOK, OpenHandles, Ino
  <2> QED BY <2>2, <2>3, <2>4, <2>5, <2>7 DEF FuseInv
<1> QED BY <1>1, <1>2, <1>3, <1>4, ReadDirKeepsInv, LookupTrashKeepsInv DEF Next

-----------------------------------------------------------------------------
(* The theorems *)

\* Nothing follows a volume that is entangled.
LEMMA InvStep == Inv /\ [Next]_vars => Inv'
<1> SUFFICES ASSUME StoppedInv, [Next]_vars PROVE StoppedInv'
  BY FuseInvStep DEF Inv
<1>1. ~Next
  BY DEF Next, Lost, StoppedInv
<1>2. /\ UNCHANGED <<entries, chains, trash, inodes, nameCache, writeBufs, deldir, handles>>
      /\ UNCHANGED <<want, spoilt, stale>>
  BY <1>1 DEF vars, store, driver, ghosts
<1>3. Entangled'
  BY <1>2 DEF StoppedInv, Entangled
<1>4. TypeOK' /\ TrashInodesCurrent'
  BY <1>2 DEF StoppedInv, TypeOK, TrashInodesCurrent, FileKeys
<1>5. CacheFaithful'
  BY <1>2 DEF StoppedInv, CacheFaithful, FileKeys
<1>6. ReadsAreCurrent'
  <2>1. \A a : DiskContent(a)' = DiskContent(a)
    BY <1>2 DEF ReadChain, DiskContent, HasEntry, EntryOf, ContentAt, AnodeOf
  <2>2. \A a, n : ReadChain(a, n)' = ReadChain(a, n)
    BY <1>2 DEF ReadChain
  <2> QED BY <1>2, <2>1, <2>2 DEF StoppedInv, ReadsAreCurrent, FileKeys
<1> QED BY <1>3, <1>4, <1>5, <1>6 DEF StoppedInv

\* Where a step is taken, the volume is not entangled.
LEMMA StepsFromFuseInv == Inv /\ Next => FuseInv
BY DEF Inv, StoppedInv, Next, Lost

\* The invariant holds on every volume that is sound when it is mounted, for
\* any number of names, files, handles, requests and failures.
THEOREM FuseInvHolds == Spec => []Inv
<1>1. Init => Inv
  BY InitInv DEF Inv
<1> QED BY <1>1, InvStep, PTL DEF Spec

LEMMA InvPromises == Inv => TypeOK /\ TrashInodesCurrent /\ CacheFaithful /\ ReadsAreCurrent
BY FuseInvPromises DEF Inv, StoppedInv

\* Pfs3Fs keeps its tables well-formed: inode numbers of the right ranges,
\* buffers within bounds, a snapshot of at most all slots.
THEOREM TypeCorrect == Spec => []TypeOK
BY InvPromises, FuseInvHolds, PTL

\* rebuild_deldir: an inode below .Trashcan is one of the current snapshot.
THEOREM TrashInodesStayCurrent == Spec => []TrashInodesCurrent
BY InvPromises, FuseInvHolds, PTL

\* lookup: the name cache never lies, whatever handlers run and fail, but for
\* the keys in stale: other spellings of a removed name and, after a delete or
\* rename that failed with the directory written, the keys it left.
THEOREM CacheStaysFaithful == Spec => []CacheFaithful
BY InvPromises, FuseInvHolds, PTL

\* read: a file that has no buffer and is not in spoilt reads, through the size
\* in the table, as it is on the volume.
THEOREM ReadsStayCurrent == Spec => []ReadsAreCurrent
BY InvPromises, FuseInvHolds, PTL

\* setattr: chmod keeps the HSPA flags that the volume has, although it takes
\* them from the table.
THEOREM ChmodKeepsTheFlags == Spec => ChmodKeepsFlags
<1>1. ASSUME FuseInv, NEW i \in (DOMAIN inodes \cap FileInos) \ spoilt,
             NEW rwed \in {0, 1}, HasEntry(inodes[i].anode), Chmod(i, rwed)
      PROVE  entries'[EntryOf(inodes[i].anode)].prot \div 2
               = entries[EntryOf(inodes[i].anode)].prot \div 2
  <2>1. PICK y \in DOMAIN entries : entries[y].anode = inodes[i].anode
    BY <1>1 DEF HasEntry
  <2>2. EntryOf(inodes[i].anode) = y
    BY <1>1, <2>1, EntryOfIno DEF FuseInv
  <2>3. Ino(y) = i
    BY <1>1, <2>1, EntryInos DEF FuseInv, TableOK, Nodes
  <2>4. y = <<InoToAnode(inodes[i].parent), inodes[i].key>> /\ inodes[i].prot = entries[y].prot
    BY <1>1, <2>3 DEF FuseInv, PlacesOK
  <2>5. SetProtection(Parent(i), inodes[i].key, ChmodBits(inodes[i].prot, rwed))
        /\ inodes[i].parent \in DOMAIN inodes
    BY <1>1 DEF Chmod, SetProt
  <2>6. Parent(i) = InoToAnode(inodes[i].parent)
    BY <1>1, <2>5 DEF Parent, FuseInv, TableOK, Nodes
  <2>7. entries[y] \in [type : Kinds, anode : Anodes, size : 0..MaxSize, prot : 0..3]
    BY <1>1 DEF FuseInv, StoreOK, EntriesTyped
  <2>8. entries'[y].prot = ChmodBits(entries[y].prot, rwed)
    BY <2>4, <2>5, <2>6, <2>7 DEF SetProtection, Has
  <2>9. entries[y].prot \in 0..3
    BY <2>7
  <2>10. ChmodBits(entries[y].prot, rwed) \div 2 = entries[y].prot \div 2
    BY <2>9, ChmodBitsKept
  <2> QED BY <2>2, <2>8, <2>10
<1>2. Inv /\ [Next]_vars =>
        [\A i \in (DOMAIN inodes \cap FileInos) \ spoilt, rwed \in {0, 1} :
           entries' # entries /\ HasEntry(inodes[i].anode) /\ Chmod(i, rwed) =>
             LET x == EntryOf(inodes[i].anode)
             IN  entries'[x].prot \div 2 = entries[x].prot \div 2]_vars
  BY <1>1, StepsFromFuseInv
<1> QED BY <1>2, FuseInvHolds, PTL DEF Spec, ChmodKeepsFlags

\* Only RELEASE drops a buffer.
LEMMA BuffersDropped ==
  ASSUME Next, NEW i \in DOMAIN writeBufs, i \notin DOMAIN writeBufs'
  PROVE  i \in FileInos /\ (ReleaseNothing(i) \/ ReleaseWrites(i))
<1>1. ASSUME NameRequest PROVE FALSE
  <2>1. PICK p \in DirInos, n \in Names :
          \/ Lookup(p, n)
          \/ \E a \in AllocAnode : MkDir(p, n, a) \/ CreateFile(p, n, a)
          \/ \E a \in AllocAnode, type \in {"dir", "file"} : CreateFails(p, n, a, type)
          \/ Unlink(p, n)
          \/ RmDir(p, n)
          \/ RemoveFails(p, n) \/ RemoveFailsHalfWay(p, n)
          \/ \E q \in DirInos, m \in Names :
               Rename(p, n, q, m) \/ RenameFailsHalfWay(p, n, q, m) \/ RenameFails(p, n, q, m)
    BY <1>1 DEF NameRequest
  <2>2. /\ Lookup(p, n) \/ Unlink(p, n) \/ RmDir(p, n) => UNCHANGED writeBufs
        /\ RemoveFails(p, n) \/ RemoveFailsHalfWay(p, n) => UNCHANGED writeBufs
        /\ (\E a \in AllocAnode, type \in {"dir", "file"} : CreateFails(p, n, a, type))
             => UNCHANGED writeBufs
    BY DEF Lookup, Unlink, RmDir, RemoveFails, RemoveFailsHalfWay, CreateFails, Fails, driver
  <2>3. (\E a \in AllocAnode : MkDir(p, n, a) \/ CreateFile(p, n, a))
          => DOMAIN writeBufs \subseteq DOMAIN writeBufs'
    BY DEF MkDir, CreateFile, With
  <2>4. (\E q \in DirInos, m \in Names :
           Rename(p, n, q, m) \/ RenameFailsHalfWay(p, n, q, m) \/ RenameFails(p, n, q, m))
          => UNCHANGED writeBufs
    BY DEF Rename, RenameFailsHalfWay, RenameFails, Fails, driver
  <2> QED BY <2>1, <2>2, <2>3, <2>4
<1>2. ASSUME FileRequest PROVE FALSE
  <2>1. PICK j \in FileInos :
          \/ OpenRead(j)
          \/ \E trunc \in BOOLEAN : OpenWrite(j, trunc)
          \/ OpenWriteReadFails(j)
          \/ \E b \in 1..MaxSize, v \in Bytes : WriteFile(j, b, v)
          \/ \E n \in {0, MaxSize} : SetSize(j, n)
          \/ \E rwed \in {0, 1} : Chmod(j, rwed)
          \/ \E prot \in {1, 2} : SetXattr(j, prot) \/ SetProtFails(j, prot)
    BY <1>2 DEF FileRequest
  <2>2. OpenRead(j) => UNCHANGED writeBufs
    BY DEF OpenRead, driver
  <2>3. (\E trunc \in BOOLEAN : OpenWrite(j, trunc)) \/ OpenWriteReadFails(j)
          => DOMAIN writeBufs \subseteq DOMAIN writeBufs'
    BY DEF OpenWrite, OpenWriteReadFails, With
  <2>4. (\E b \in 1..MaxSize, v \in Bytes : WriteFile(j, b, v)) => DOMAIN writeBufs' = DOMAIN writeBufs
    BY DEF WriteFile
  <2>5. (\E n \in {0, MaxSize} : SetSize(j, n)) => DOMAIN writeBufs' = DOMAIN writeBufs
    BY DEF SetSize
  <2>6. \/ \E rwed \in {0, 1} : Chmod(j, rwed)
        \/ \E prot \in {1, 2} : SetXattr(j, prot) \/ SetProtFails(j, prot)
        => UNCHANGED writeBufs
    BY DEF Chmod, SetXattr, SetProt, SetProtFails, Fails, driver
  <2> QED BY <2>1, <2>2, <2>3, <2>4, <2>5, <2>6
<1>3. ASSUME (\E p \in DirInos : ReadDir(p)) \/ (\E t \in DOMAIN deldir : LookupTrash(t)) PROVE FALSE
  BY <1>3 DEF ReadDir, LookupTrash
<1>4. PICK j \in FileInos : Release(j)
  BY <1>1, <1>2, <1>3 DEF Next
<1>5. ReleaseNothing(j) \/ ReleaseWrites(j)
  BY <1>4 DEF Release, ReleaseWithoutBuffer, ReleaseFails, ReleaseFailsLate, driver
<1>6. i = j
  BY <1>5 DEF ReleaseNothing, ReleaseWrites, Without
<1> QED BY <1>5, <1>6

\* release: the file has, when its buffer goes, the content of the open
\* followed by every write and truncation, and no other file changed, whatever
\* happened to the others.  Not so for a file in spoilt.
THEOREM CloseIsExact == Spec => CloseExact
<1> DEFINE Exact(i) ==
      LET x == EntryOf(inodes[i].anode)
      IN  /\ DiskContent(inodes[i].anode)' = want[i]
          /\ Without(entries', x) = Without(entries, x)
          /\ \A y \in DOMAIN entries \ {x} : chains'[entries[y].anode] = chains[entries[y].anode]
<1>1. ASSUME FuseInv, Next, NEW i \in DOMAIN writeBufs, i \notin DOMAIN writeBufs', i \notin spoilt'
      PROVE  Exact(i)
  <2> USE <1>1 DEF FuseInv
  <2> DEFINE data == writeBufs[i].data
  <2>1. i \in FileInos /\ (ReleaseNothing(i) \/ ReleaseWrites(i))
    BY BuffersDropped
  <2>2. i \notin spoilt
    BY <2>1 DEF ReleaseNothing, ReleaseWrites
  <2>3. BufferOK(i)
    BY <2>2 DEF BuffersOK
  <2>4. PICK y \in DOMAIN entries : y = <<writeBufs[i].dir, writeBufs[i].key>> /\ Ino(y) = i
    BY <2>3 DEF BufferOK
  <2>5. /\ i \in DOMAIN inodes /\ i \in Nodes /\ want[i] = data
        /\ inodes[i].anode = entries[y].anode /\ entries[y].anode = InoToAnode(i)
        /\ entries[y].anode \in Anodes
    BY <2>1, <2>3, <2>4, EntryInos DEF BufferOK, TableOK, Nodes
  <2>6. EntryOf(inodes[i].anode) = y
    BY <2>5, EntryOfIno
  <2>7. CASE ReleaseNothing(i)
    <3>1. /\ data = <<>> /\ DiskContent(inodes[i].anode) = <<>>
          /\ UNCHANGED <<entries, chains, trash, inodes>>
      BY <2>5, <2>7 DEF ReleaseNothing, store
    <3>2. DiskContent(inodes[i].anode)' = DiskContent(inodes[i].anode)
      BY <3>1 DEF DiskContent, HasEntry, EntryOf, ContentAt, AnodeOf, ReadChain
    <3> QED BY <2>5, <3>1, <3>2
  <2>8. CASE ReleaseWrites(i)
    <3>1. /\ Dirty(i) /\ OverwriteFileIn(y[1], y[2], inodes[i].anode, data)
          /\ inodes' = [inodes EXCEPT ![i].size = Len(data)]
      BY <2>4, <2>8 DEF ReleaseWrites
    <3>2. data \in Seq(Content) /\ Blocks(data) = data /\ Len(data) \in 0..MaxSize
      BY <2>1, <3>1, DirtyTyped
    <3>3. /\ entries' = [entries EXCEPT ![y].size = Len(data)]
          /\ PutChain(entries[y].anode, data)
      BY <2>4, <2>5, <3>1, <3>2 DEF OverwriteFileIn
    <3>4. StoreOK'
      BY <2>1, <2>8, ReleaseWritesKeepsInv
    <3> HIDE DEF data
    <3>5. /\ DOMAIN entries' = DOMAIN entries /\ entries'[y].size = Len(data)
          /\ entries'[y].anode = entries[y].anode
          /\ \A z \in DOMAIN entries \ {y} : entries'[z] = entries[z]
      <4>1. entries[y] \in [type : Kinds, anode : Anodes, size : 0..MaxSize, prot : 0..3]
        BY DEF StoreOK, EntriesTyped
      <4> QED BY <3>3, <4>1
    <3>6. Without(entries', y) = Without(entries, y)
      BY <3>5 DEF Without
    <3>7. entries[y].anode \in InUse
      BY DEF InUse
    <3>8. /\ chains'[entries[y].anode] = data
          /\ \A b \in Anodes \ {entries[y].anode} : chains'[b] = chains[b]
      BY <2>5, <3>2, <3>3, <3>7, PutKeepsChains DEF StoreOK
    <3>9. \A z \in DOMAIN entries \ {y} : chains'[entries[z].anode] = chains[entries[z].anode]
      BY <3>8 DEF StoreOK, EntriesTyped, AnodesApart
    <3>10. inodes'[i].anode = entries[y].anode
      <4>1. TypeOK
        BY DEF TableOK
      <4> QED BY <2>5, <3>1, <3>2, <4>1, SizeUpdate DEF data
    <3>11. DiskContent(inodes[i].anode)' = data
      <4>1. PICK a \in Anodes : a = entries[y].anode
        BY <2>5
      <4>2. HasEntry(a)' /\ EntryOf(a)' = y
        BY <3>4, <3>5, <4>1 DEF HasEntry, EntryOf, StoreOK, AnodesApart
      <4>3. y = <<y[1], y[2]>>
        BY <2>4
      <4>4. DiskContent(a)' = SubSeq(chains'[a], 1, Least(entries'[y].size, Len(chains'[a])))
        BY <3>5, <4>1, <4>2, <4>3 DEF DiskContent, ContentAt, AnodeOf, ReadChain
      <4>5. PICK d \in Seq(Content) : d = data
        BY <3>2
      <4>6. Least(Len(d), Len(d)) = Len(d) /\ SubSeq(d, 1, Len(d)) = d
        BY SubSeqFull DEF Least
      <4>7. DiskContent(a)' = d
        BY <3>5, <3>8, <4>1, <4>4, <4>5, <4>6
      <4>8. DiskContent(inodes[i].anode)' = DiskContent(a)'
        BY <3>10, <4>1 DEF DiskContent, HasEntry, EntryOf, ContentAt, AnodeOf, ReadChain
      <4> QED BY <4>5, <4>7, <4>8
    <3> QED BY <2>5, <2>6, <3>6, <3>9, <3>11 DEF data
  <2> QED BY <2>1, <2>7, <2>8
<1>2. ASSUME Inv, [Next]_vars PROVE
        [\A i \in DOMAIN writeBufs : i \notin DOMAIN writeBufs' /\ i \notin spoilt' => Exact(i)]_vars
  BY <1>1, <1>2, StepsFromFuseInv
<1> QED BY <1>2, FuseInvHolds, PTL DEF Spec, CloseExact
=============================================================================
