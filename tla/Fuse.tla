-------------------------------- MODULE Fuse --------------------------------
(***************************************************************************)
(* The FUSE driver (crates/pfs3-fuse/src/main.rs, types.rs) mounted        *)
(* read-write: its inode table, name cache, write buffers and snapshot of  *)
(* the deldir over the volume of NodeStore.  Every handler holds the one   *)
(* mutex from beginning to end, so a request is one step; what interleaves *)
(* is the requests of several clients.                                     *)
(*                                                                         *)
(* The kernel's part is in the guards: it asks for inodes a reply named,   *)
(* creates only names whose lookup failed, unlinks and renames only names  *)
(* whose lookup succeeded, and sends one RELEASE per OPEN or CREATE.       *)
(***************************************************************************)
EXTENDS NodeStore

CONSTANTS
  Names,        \* the names clients use
  Fold,         \* Names -> Keys, their case folding
  DeldirInoBase, \* DELDIR_INO_BASE, above the inodes of all anodes
  Bytes,        \* what a client's write puts into a block
  MaxSize,      \* bound: blocks of a file
  MaxHandles,   \* bound: handles open at a time
  Mounted,      \* the volumes that may be mounted, as [entries, chains, trash]
  MaxRequests,  \* bound: requests other than RELEASE and LOOKUP of a file's name
  MaxFailures   \* bound: operations of the volume that fail

ASSUME BoundsAssumption ==
  /\ Fold \in [Names -> Keys]
  /\ {NumSlots, MaxSize, MaxHandles, MaxRequests, MaxFailures} \subseteq Nat

\* Anode numbers are unsigned.  Inodes of the deldir are numbered from 2^31 on,
\* those of files reach this only from the 32768th anode block on.
ASSUME InodesApart ==
  /\ Anodes \subseteq Nat /\ Root \in Nat \ Anodes /\ DeldirInoBase \in Nat
  /\ \A a \in Anodes \cup {Root} : a + 100 < DeldirInoBase

\* A volume is sound: no two entries have the same anode (there are no hard
\* links), none has the anode of a file in the deldir, and files have blocks.
Content == Bytes \cup {Zero}
Kinds == {"file", "dir", "soft"}
Deleted == [anode : Anodes, size : 0..MaxSize, key : Keys]
Sound(v) ==
  /\ DOMAIN v.entries \subseteq ({Root} \cup Anodes) \X Keys
  /\ \A y \in DOMAIN v.entries :
       v.entries[y] \in [type : Kinds, anode : Anodes, size : 0..MaxSize, prot : 0..3]
  /\ \A y, z \in DOMAIN v.entries : v.entries[y].anode = v.entries[z].anode => y = z
  /\ v.chains \in [Anodes -> Seq(Content)]
  /\ DOMAIN v.trash = Slots
  /\ \A s \in Slots : v.trash[s] = <<>> \/ \E d \in Deleted : v.trash[s] = <<d>>
  /\ \A s \in Slots, y \in DOMAIN v.entries :
       v.trash[s] # <<>> => v.trash[s][1].anode # v.entries[y].anode
  /\ \A y \in DOMAIN v.entries :
       v.entries[y].type # "dir" => v.chains[v.entries[y].anode] # <<>>
ASSUME MountedAssumption == \A v \in Mounted : Sound(v)

VARIABLES
  inodes,      \* ino -> [anode, parent, key, kind, size, prot]
  nameCache,   \* <<parent ino, name>> -> ino
  writeBufs,   \* ino -> [dir, key, data]
  deldir,      \* what .Trashcan shows: a sequence of [anode, size, key]
  handles,     \* kernel: ino -> [r, w], open handles
  count        \* [requests, failures]

\* Observations that no step reads.
VARIABLES
  want,        \* ino -> what its client expects in the file it has open
  spoilt,      \* inos to which a client did what the driver makes no promise
               \* for, and those an operation that failed changed
  stale        \* name cache keys that outlived their name: another spelling of
               \* a name removed, or names that an operation that failed changed

driver == <<inodes, nameCache, writeBufs, deldir>>
ghosts == <<want, spoilt, stale>>
vars == <<store, driver, handles, count, ghosts>>

RootIno == 1                 \* FUSE_ROOT_INO
TrashIno == 2                \* TRASHCAN_INO
DeldirIno(t) == DeldirInoBase + t - 1
AnodeToIno(a) == IF a = Root THEN RootIno ELSE a + 100
FileInos == {AnodeToIno(a) : a \in Anodes}

\* make_attr: what the table keeps of an entry.  The low bit of a protection
\* stands for RWED, the rest for HSPA.
MakeAttr(e, parent, k) ==
  [anode |-> e.anode, parent |-> parent, key |-> k, kind |-> e.type,
   size |-> e.size, prot |-> e.prot]

\* list_deldir: the slots in use.
ListDeldir(bin) == LET used == {i \in Slots : bin[i] # <<>>}
                       Nth(n) == CHOOSE i \in used : Cardinality({j \in used : j <= i}) = n
                   IN  [n \in 1..Cardinality(used) |-> bin[Nth(n)][1]]

\* Pfs3Fs::new
Init ==
  /\ \E v \in Mounted : entries = v.entries /\ chains = v.chains /\ trash = v.trash
  /\ inodes = [i \in {RootIno} |->
                 MakeAttr([type |-> "dir", anode |-> Root, size |-> 0, prot |-> 0], RootIno, 0)]
  /\ nameCache = <<>> /\ writeBufs = <<>> /\ deldir = ListDeldir(trash)
  /\ handles = [i \in FileInos |-> [r |-> 0, w |-> 0]]
  /\ count = [requests |-> 0, failures |-> 0]
  /\ want = <<>> /\ spoilt = {} /\ stale = {}

-----------------------------------------------------------------------------
(* What the kernel knows *)

\* The lookup of a name is answered from the name cache.
Cached(p, n) == <<p, n>> \in DOMAIN nameCache /\ nameCache[<<p, n>>] \in DOMAIN inodes
Named == {nameCache[x] : x \in DOMAIN nameCache} \cap DOMAIN inodes
DirInos == {i \in Named \cup {RootIno} : inodes[i].kind = "dir"}
OpenHandles(i) == handles[i].r + handles[i].w
AllHandles == Cardinality({x \in FileInos \X (1..MaxHandles) \X {"r", "w"} :
                             x[2] <= handles[x[1]][x[3]]})
Busy(i) == i \in FileInos /\ OpenHandles(i) > 0
\* A file is addressed by its name or through an open handle.
Addressed(i) == i \in DOMAIN inodes \cap FileInos /\ (i \in Named \/ Busy(i))

Request == /\ count.requests < MaxRequests
           /\ count' = [count EXCEPT !.requests = @ + 1]
Failure == /\ count.requests < MaxRequests /\ count.failures < MaxFailures
           /\ count' = [requests |-> count.requests + 1, failures |-> count.failures + 1]
\* An operation that returns Err, after the volume changed: the reply is an
\* error and the tables stay.  The device may fail anywhere in the commit, or
\* the next commit writes what the failed one left pending; both are this step.
Fails == Failure /\ UNCHANGED <<driver, handles, want>>

-----------------------------------------------------------------------------
(* Looking up *)

\* A miss reads the directory; a hit and a failure change nothing.
Lookup(p, n) ==
  LET d == inodes[p].anode
      e == entries[<<d, Fold[n]>>]
      i == AnodeToIno(e.anode)
  IN  /\ ~Cached(p, n) /\ Has(d, Fold[n])
      /\ inodes' = With(inodes, i, MakeAttr(e, p, Fold[n]))
      /\ nameCache' = With(nameCache, <<p, n>>, i)
      /\ stale' = stale \ {<<p, n>>}
      /\ UNCHANGED <<store, writeBufs, deldir, handles, count, want, spoilt>>

\* A file of the deldir snapshot is looked up below .Trashcan.  (Its name cache
\* key is never asked for.  Its mode and that of .Trashcan let nobody write.)
LookupTrash(t) ==
  /\ Request
  /\ nameCache' = With(nameCache, <<TrashIno, deldir[t].key>>, DeldirIno(t))
  /\ inodes' = With(inodes, DeldirIno(t),
                    [anode |-> deldir[t].anode, parent |-> TrashIno, key |-> deldir[t].key,
                     kind |-> "file", size |-> deldir[t].size, prot |-> 0])
  /\ UNCHANGED <<store, writeBufs, deldir, handles, ghosts>>

\* readdir refreshes the table for every entry of the directory.
ReadDir(p) ==
  LET here == {x \in DOMAIN entries : x[1] = inodes[p].anode}
      listed == {AnodeToIno(entries[x].anode) : x \in here}
      At(i) == CHOOSE x \in here : AnodeToIno(entries[x].anode) = i
  IN  /\ Request
      /\ inodes' = [i \in listed \cup DOMAIN inodes |->
                      IF i \in listed THEN MakeAttr(entries[At(i)], p, At(i)[2]) ELSE inodes[i]]
      /\ inodes' # inodes
      /\ UNCHANGED <<store, nameCache, writeBufs, deldir, handles, ghosts>>

-----------------------------------------------------------------------------
(* Making and removing names *)

\* alloc_anode takes the first free one.
AllocAnode == {a \in Anodes \ InUse : \A b \in Anodes \ InUse : a <= b}

\* The new entry is read back into the table.
Enter(p, n, a, type) ==
  /\ inodes' = With(inodes, AnodeToIno(a),
                    MakeAttr([type |-> type, anode |-> a, size |-> 0, prot |-> 0], p, Fold[n]))
  /\ nameCache' = With(nameCache, <<p, n>>, AnodeToIno(a))
  /\ stale' = stale \ {<<p, n>>}

MkDir(p, n, a) ==
  /\ Request /\ ~Cached(p, n)
  /\ Create(inodes[p].anode, Fold[n], "dir", a, <<>>)
  /\ Enter(p, n, a, "dir")
  /\ UNCHANGED <<writeBufs, deldir, handles, want, spoilt>>

CreateFile(p, n, a) ==
  LET i == AnodeToIno(a)
  IN  /\ Request /\ ~Cached(p, n) /\ AllHandles < MaxHandles
      /\ Create(inodes[p].anode, Fold[n], "file", a, <<>>)
      /\ Enter(p, n, a, "file")
      /\ writeBufs' = With(writeBufs, i, [dir |-> inodes[p].anode, key |-> Fold[n], data |-> <<>>])
      /\ handles' = [handles EXCEPT ![i].w = @ + 1]
      /\ want' = With(want, i, <<>>)
      /\ spoilt' = IF Busy(i) THEN spoilt \cup {i} ELSE spoilt \ {i}
      /\ UNCHANGED deldir

\* mkdir or create fails with the entry on the device: the root cluster is not
\* written, or the directory cannot be read back.
CreateFails(p, n, a, type) ==
  /\ Fails /\ ~Cached(p, n)
  /\ Create(inodes[p].anode, Fold[n], type, a, <<>>)
  /\ spoilt' = spoilt \cup {AnodeToIno(a)}
  /\ UNCHANGED stale

\* rebuild_deldir: a new snapshot; the inodes of the old one go.
\* (First a variant that forgets the inodes.)
RebuildDeldirKeepsInodes(table) == deldir' = ListDeldir(trash') /\ inodes' = table
RebuildDeldir(table) ==
  /\ deldir' = ListDeldir(trash')
  /\ inodes' = [i \in DOMAIN table \ {DeldirIno(t) : t \in DOMAIN deldir} |-> table[i]]

\* The key goes; other spellings of the name stay.
Aliases(p, n) == {x \in DOMAIN nameCache : x # <<p, n>> /\ x[1] = p /\ Fold[x[2]] = Fold[n]}
Forget(p, n) == /\ nameCache' = Without(nameCache, <<p, n>>)
                /\ stale' = (stale \ {<<p, n>>}) \cup Aliases(p, n)

\* The file a name stands for, in the name cache and on the volume.
Meant(p, n) ==
  {nameCache[x] : x \in {<<p, n>>} \cap DOMAIN nameCache}
    \cup {AnodeToIno(entries[x].anode) : x \in {<<inodes[p].anode, Fold[n]>>} \cap DOMAIN entries}
\* It is moved or removed while a client has it open or through a stale key.
Spoil(K) ==
  spoilt' = spoilt \cup {i \in UNION {Meant(x[1], x[2]) : x \in K} : K \cap stale # {} \/ Busy(i)}

Unlink(p, n) ==
  LET i == nameCache[<<p, n>>]
  IN  /\ Request /\ Cached(p, n) /\ inodes[i].kind = "file"
      /\ DeleteIn(inodes[p].anode, Fold[n])
      /\ Forget(p, n)
      /\ RebuildDeldir(Without(inodes, i))
      /\ Spoil({<<p, n>>})
      /\ UNCHANGED <<writeBufs, handles, want>>

RmDir(p, n) ==
  LET i == nameCache[<<p, n>>]
  IN  /\ Request /\ Cached(p, n) /\ inodes[i].kind = "dir"
      /\ DeleteIn(inodes[p].anode, Fold[n])
      /\ Forget(p, n)
      /\ inodes' = Without(inodes, i)
      /\ Spoil({<<p, n>>})
      /\ UNCHANGED <<writeBufs, deldir, handles, want>>

\* unlink or rmdir fails, and the entry is gone: only the root cluster is not
\* written.
RemoveFails(p, n) ==
  /\ Fails /\ Cached(p, n) /\ inodes[nameCache[<<p, n>>]].kind \in {"file", "dir"}
  /\ DeleteIn(inodes[p].anode, Fold[n])
  /\ Spoil({<<p, n>>})
  /\ stale' = stale \cup {<<p, n>>} \cup Aliases(p, n)

\* unlink fails, and the entry is there, of a file that is deleted.
RemoveFailsHalfWay(p, n) ==
  /\ Fails /\ Cached(p, n) /\ inodes[nameCache[<<p, n>>]].kind = "file"
  /\ DeleteLeavesEntry(inodes[p].anode, Fold[n])
  /\ spoilt' = spoilt \cup Meant(p, n)
  /\ UNCHANGED stale

\* The kernel refuses to move a directory below itself or to replace a file by
\* a directory or a directory by a file.
Below(q, i) == \/ q = i
               \/ inodes[q].parent = i
               \/ inodes[q].parent \in DOMAIN inodes /\ inodes[inodes[q].parent].parent = i
MayRename(p, n, q, m) ==
  /\ Cached(p, n) /\ <<p, Fold[n]>> # <<q, Fold[m]>> /\ ~Below(q, nameCache[<<p, n>>])
  /\ Has(inodes[q].anode, Fold[m]) =>
       (Cached(q, m) /\ (inodes[nameCache[<<q, m>>]].kind = "dir"
                           <=> inodes[nameCache[<<p, n>>]].kind = "dir"))

\* A rename through a stale key moves one file on the volume and another one in
\* the table, and every name of the latter is stale from then on.
Misled(p, n, q, m) ==
  IF <<p, n>> \in stale
    THEN {<<q, m>>} \cup {x \in DOMAIN nameCache : nameCache[x] = nameCache[<<p, n>>]}
    ELSE {}

\* (A variant that keeps the inode's old name and parent.)
MoveNameOnly(p, n, q, m) ==
  LET i == nameCache[<<p, n>>]
  IN  /\ UNCHANGED inodes
      /\ nameCache' = With(Without(nameCache, <<p, n>>), <<q, m>>, i)

MoveName(p, n, q, m) ==
  LET i == nameCache[<<p, n>>]
  IN  /\ inodes' = [inodes EXCEPT ![i].key = Fold[m], ![i].parent = q]
      /\ nameCache' = With(Without(nameCache, <<p, n>>), <<q, m>>, i)

Rename(p, n, q, m) ==
  /\ Request /\ MayRename(p, n, q, m)
  /\ RenameIn(inodes[p].anode, Fold[n], inodes[q].anode, Fold[m])
  /\ MoveName(p, n, q, m)
  /\ Spoil({<<p, n>>, <<q, m>>})
  /\ stale' = (stale \ {<<p, n>>, <<q, m>>}) \cup Aliases(p, n) \cup Aliases(q, m)
                \cup Misled(p, n, q, m)
  /\ UNCHANGED <<writeBufs, deldir, handles, want>>

\* rename_in fails after it deleted the target, in a commit of its own.
RenameFailsHalfWay(p, n, q, m) ==
  /\ Fails /\ MayRename(p, n, q, m)
  /\ Has(inodes[p].anode, Fold[n])
  /\ DeleteIn(inodes[q].anode, Fold[m])
  /\ Spoil({<<p, n>>, <<q, m>>})
  /\ stale' = stale \cup {<<q, m>>} \cup Aliases(q, m)

\* It fails later: the entry is moved, or is there under both names.
RenameFails(p, n, q, m) ==
  /\ Fails /\ MayRename(p, n, q, m)
  /\ \/ RenameIn(inodes[p].anode, Fold[n], inodes[q].anode, Fold[m])
     \/ RenameLeavesTwo(inodes[p].anode, Fold[n], inodes[q].anode, Fold[m])
  /\ spoilt' = spoilt \cup Meant(p, n) \cup Meant(q, m)
  /\ stale' = stale \cup {<<p, n>>, <<q, m>>} \cup Aliases(p, n) \cup Aliases(q, m)

-----------------------------------------------------------------------------
(* Files: a write buffer from OPEN or CREATE to RELEASE *)

Resize(c, n) == [b \in 1..n |-> IF b <= Len(c) THEN c[b] ELSE Zero]
\* (A variant that appends.)
PatchedAtEnd(c, b, v) == Append(c, v)
Patched(c, b, v) == [Resize(c, IF b > Len(c) THEN b ELSE Len(c)) EXCEPT ![b] = v]

\* The directory a buffer is written back to.
ParentAnode(i) == IF inodes[i].parent \in DOMAIN inodes
                    THEN inodes[inodes[i].parent].anode ELSE Root
Buffer(i, data) == [dir |-> ParentAnode(i), key |-> inodes[i].key, data |-> data]

\* The content of a file, through the entry that names it.
EntryOf(a) == CHOOSE x \in DOMAIN entries : entries[x].anode = a
HasEntry(a) == \E x \in DOMAIN entries : entries[x].anode = a
DiskContent(a) == IF HasEntry(a) THEN ContentAt(EntryOf(a)[1], EntryOf(a)[2]) ELSE <<>>

OpenFile(i) == /\ i \in Named \cap FileInos /\ inodes[i].kind = "file"
               /\ AllHandles < MaxHandles

\* Someone else has the file open, or left a buffer, or it is gone already and
\* only the name cache still knows it, or the inode of its directory was
\* dropped through a stale key.
Shared(i) == \/ Busy(i) \/ i \in DOMAIN writeBufs
             \/ ~HasEntry(inodes[i].anode) \/ inodes[i].parent \notin DOMAIN inodes

OpenRead(i) ==
  /\ Request /\ OpenFile(i)
  /\ handles' = [handles EXCEPT ![i].r = @ + 1]
  /\ spoilt' = IF handles[i].w > 0 THEN spoilt \cup {i} ELSE spoilt
  /\ UNCHANGED <<store, driver, want, stale>>

\* (A variant that loads nothing.)
OpenWriteLoadsNothing(i, trunc) ==
  /\ Request /\ OpenFile(i)
  /\ writeBufs' = With(writeBufs, i, Buffer(i, <<>>))
  /\ handles' = [handles EXCEPT ![i].w = @ + 1]
  /\ want' = With(want, i, IF trunc THEN <<>> ELSE DiskContent(inodes[i].anode))
  /\ spoilt' = IF Shared(i) THEN spoilt \cup {i} ELSE spoilt
  /\ UNCHANGED <<store, inodes, nameCache, deldir, stale>>

\* The content is loaded up to the size in the table, over any buffer that is
\* there.
OpenWrite(i, trunc) ==
  /\ Request /\ OpenFile(i)
  /\ writeBufs' = With(writeBufs, i, Buffer(i, IF trunc THEN <<>>
                                               ELSE ReadChain(inodes[i].anode, inodes[i].size)))
  /\ handles' = [handles EXCEPT ![i].w = @ + 1]
  /\ want' = With(want, i, IF trunc THEN <<>> ELSE DiskContent(inodes[i].anode))
  /\ spoilt' = IF Shared(i) THEN spoilt \cup {i} ELSE spoilt
  /\ UNCHANGED <<store, inodes, nameCache, deldir, stale>>

\* A read error while loading is taken for an empty file.
OpenWriteReadFails(i) ==
  /\ Failure /\ OpenFile(i)
  /\ writeBufs' = With(writeBufs, i, Buffer(i, <<>>))
  /\ handles' = [handles EXCEPT ![i].w = @ + 1]
  /\ spoilt' = spoilt \cup {i}
  /\ UNCHANGED <<store, inodes, nameCache, deldir, want, stale>>

\* A write without a buffer is EIO.
WriteFile(i, b, v) ==
  LET data == Patched(writeBufs[i].data, b, v)
  IN  /\ Request /\ handles[i].w > 0 /\ i \in DOMAIN writeBufs
      /\ writeBufs' = [writeBufs EXCEPT ![i].data = data]
      /\ inodes' = IF i \in DOMAIN inodes THEN [inodes EXCEPT ![i].size = Len(data)]
                                          ELSE inodes
      /\ want' = IF i \in DOMAIN want THEN [want EXCEPT ![i] = Patched(@, b, v)] ELSE want
      /\ UNCHANGED <<store, nameCache, deldir, handles, spoilt, stale>>

\* setattr with a size: the table, and the buffer if there is one.
SetSize(i, n) ==
  /\ Request /\ Addressed(i) /\ inodes[i].kind = "file"
  /\ inodes' = [inodes EXCEPT ![i].size = n]
  /\ IF i \in DOMAIN writeBufs
       THEN /\ writeBufs' = [writeBufs EXCEPT ![i].data = Resize(@, n)]
            /\ want' = IF i \in DOMAIN want THEN [want EXCEPT ![i] = Resize(@, n)] ELSE want
            /\ UNCHANGED spoilt
       ELSE spoilt' = spoilt \cup {i} /\ UNCHANGED <<writeBufs, want>>
  /\ UNCHANGED <<store, nameCache, deldir, handles, stale>>

-----------------------------------------------------------------------------
(* RELEASE *)

Closed(i) ==
  \E m \in {"r", "w"} : handles[i][m] > 0 /\ handles' = [handles EXCEPT ![i][m] = @ - 1]

ReleaseWithoutBuffer(i) ==
  /\ Closed(i) /\ i \notin DOMAIN writeBufs
  /\ UNCHANGED <<store, driver, count, ghosts>>

\* (A variant that keeps the buffer.)
ReleaseNothingKeeps(i) ==
  /\ Closed(i) /\ i \in DOMAIN writeBufs
  /\ writeBufs[i].data = <<>> \/ i \notin DOMAIN inodes
  /\ UNCHANGED <<store, driver, count, ghosts>>

\* An empty buffer, or one whose inode is gone, is dropped.
ReleaseNothing(i) ==
  /\ Closed(i) /\ i \in DOMAIN writeBufs
  /\ writeBufs[i].data = <<>> \/ i \notin DOMAIN inodes
  /\ writeBufs' = Without(writeBufs, i)
  /\ spoilt' = IF i \in DOMAIN inodes /\ DiskContent(inodes[i].anode) # <<>>
                 THEN spoilt \cup {i} ELSE spoilt
  /\ want' = Without(want, i)
  /\ UNCHANGED <<store, inodes, nameCache, deldir, count, stale>>

Dirty(i) == i \in DOMAIN writeBufs \cap DOMAIN inodes /\ writeBufs[i].data # <<>>

\* overwrite_file_in of the buffer, under the name it had at open.
\* (First a variant that leaves the size in the table alone.)
ReleaseWritesTableStale(i) ==
  LET b == writeBufs[i]
  IN  /\ Closed(i) /\ Dirty(i)
      /\ OverwriteFileIn(b.dir, b.key, inodes[i].anode, b.data)
      /\ writeBufs' = Without(writeBufs, i)
      /\ UNCHANGED <<inodes, nameCache, deldir, count, ghosts>>

ReleaseWrites(i) ==
  LET b == writeBufs[i]
  IN  /\ Closed(i) /\ Dirty(i)
      /\ OverwriteFileIn(b.dir, b.key, inodes[i].anode, b.data)
      /\ inodes' = [inodes EXCEPT ![i].size = Len(b.data)]
      /\ writeBufs' = Without(writeBufs, i)
      /\ want' = Without(want, i)
      /\ spoilt' = spoilt \cup ({AnodeToIno(AnodeOf(b.dir, b.key))} \ {i})
      /\ UNCHANGED <<nameCache, deldir, count, stale>>

\* It fails: nothing is found under the name, after the blocks were written,
\* or the volume fails, with some or all of them written.  The buffer stays.
ReleaseFails(i) ==
  LET b == writeBufs[i]
  IN  /\ Closed(i) /\ Dirty(i)
      /\ \/ ~Has(b.dir, b.key) /\ UNCHANGED count
         \/ count.failures < MaxFailures /\ count' = [count EXCEPT !.failures = @ + 1]
      /\ \/ Torn(inodes[i].anode, b.data)
         \/ PutChain(inodes[i].anode, Blocks(b.data)) /\ UNCHANGED <<entries, trash>>
      /\ spoilt' = spoilt \cup {i}
      /\ UNCHANGED <<driver, want, stale>>

\* It fails with the file written: the buffer and the size in the table stay.
ReleaseFailsLate(i) ==
  LET b == writeBufs[i]
  IN  /\ Closed(i) /\ Dirty(i)
      /\ count.failures < MaxFailures /\ count' = [count EXCEPT !.failures = @ + 1]
      /\ OverwriteFileIn(b.dir, b.key, inodes[i].anode, b.data)
      /\ spoilt' = spoilt \cup {i, AnodeToIno(AnodeOf(b.dir, b.key))}
      /\ UNCHANGED <<driver, want, stale>>

Release(i) == \/ ReleaseWithoutBuffer(i)
              \/ ReleaseNothing(i)
              \/ ReleaseWrites(i)
              \/ ReleaseFails(i)
              \/ ReleaseFailsLate(i)

-----------------------------------------------------------------------------
(* Protection bits *)

\* setattr with a mode keeps HSPA as the table has them, setxattr sets both.
\* (First a variant that takes the mode alone.)
ChmodBitsModeOnly(old, rwed) == rwed
ChmodBits(old, rwed) == (old \div 2) * 2 + rwed

Parent(i) == inodes[inodes[i].parent].anode
SetProt(i, prot) ==
  /\ Request /\ Addressed(i)
  /\ inodes[i].parent \in DOMAIN inodes
  /\ SetProtection(Parent(i), inodes[i].key, prot)
  /\ inodes' = [inodes EXCEPT ![i].prot = prot]
  /\ spoilt' = spoilt \cup ({AnodeToIno(AnodeOf(Parent(i), inodes[i].key))} \ {i})
  /\ UNCHANGED <<nameCache, writeBufs, deldir, handles, want, stale>>

Chmod(i, rwed) == SetProt(i, ChmodBits(inodes[i].prot, rwed))
SetXattr(i, prot) == SetProt(i, prot)

\* It fails with the bits on the device.
SetProtFails(i, prot) ==
  /\ Fails /\ Addressed(i)
  /\ inodes[i].parent \in DOMAIN inodes
  /\ SetProtection(Parent(i), inodes[i].key, prot)
  /\ spoilt' = spoilt \cup {i, AnodeToIno(AnodeOf(Parent(i), inodes[i].key))}
  /\ UNCHANGED stale

-----------------------------------------------------------------------------
\* Nothing is modelled beyond a volume that is not sound any more: a directory
\* whose blocks were overwritten with file data, or a failed operation that
\* left two entries with one anode or an entry of a file that is deleted.
DirLost == \E d \in Dirs \ {Root} : chains[d] # <<>>
Entangled ==
  \/ \E y, z \in DOMAIN entries : y # z /\ entries[y].anode = entries[z].anode
  \/ \E y \in DOMAIN entries, s \in Slots :
       trash[s] # <<>> /\ trash[s][1].anode = entries[y].anode
  \/ \E y \in DOMAIN entries : entries[y].type # "dir" /\ chains[entries[y].anode] = <<>>
Lost == DirLost \/ Entangled

NameRequest ==
  \E p \in DirInos, n \in Names :
    \/ Lookup(p, n)
    \/ \E a \in AllocAnode : MkDir(p, n, a) \/ CreateFile(p, n, a)
    \/ \E a \in AllocAnode, type \in {"dir", "file"} : CreateFails(p, n, a, type)
    \/ Unlink(p, n)
    \/ RmDir(p, n)
    \/ RemoveFails(p, n) \/ RemoveFailsHalfWay(p, n)
    \/ \E q \in DirInos, m \in Names :
         Rename(p, n, q, m) \/ RenameFailsHalfWay(p, n, q, m) \/ RenameFails(p, n, q, m)

FileRequest ==
  \E i \in FileInos :
    \/ OpenRead(i)
    \/ \E trunc \in BOOLEAN : OpenWrite(i, trunc)
    \/ OpenWriteReadFails(i)
    \/ \E b \in 1..MaxSize, v \in Bytes : WriteFile(i, b, v)
    \/ \E n \in {0, MaxSize} : SetSize(i, n)
    \/ \E rwed \in {0, 1} : Chmod(i, rwed)
    \/ \E prot \in {1, 2} : SetXattr(i, prot) \/ SetProtFails(i, prot)

Next == /\ ~Lost
        /\ \/ NameRequest
           \/ FileRequest
           \/ \E p \in DirInos : ReadDir(p)
           \/ \E t \in DOMAIN deldir : LookupTrash(t)
           \/ \E i \in FileInos : Release(i)

\* The kernel sends RELEASE once the last reference to a handle is closed, at
\* the latest when the process that opened it ends, and the handler ends.
Fairness == WF_vars(\E i \in FileInos : Release(i))

Spec == Init /\ [][Next]_vars /\ Fairness

-----------------------------------------------------------------------------
(* Properties *)

InodeInfo == [anode : Anodes \cup {Root}, parent : Nat, key : Keys \cup {0},
              kind : Kinds, size : 0..MaxSize, prot : 0..3]

\* The anode that an inode of a file or directory stands for.
InoToAnode(i) == IF i = RootIno THEN Root ELSE i - 100

\* The keys of the name cache that are asked for.
FileKeys == {x \in DOMAIN nameCache : x[1] # TrashIno}

\* Type invariant.
TypeOK ==
  /\ DOMAIN inodes \subseteq {RootIno} \cup FileInos \cup {DeldirIno(t) : t \in Slots}
  /\ \A i \in DOMAIN inodes : inodes[i] \in InodeInfo
  /\ FileKeys \subseteq ({RootIno} \cup FileInos) \X Names
  /\ \A x \in FileKeys : nameCache[x] \in FileInos
  /\ DOMAIN writeBufs \subseteq FileInos
  /\ \A i \in DOMAIN writeBufs : Len(writeBufs[i].data) <= MaxSize
  /\ Len(deldir) <= NumSlots

\* The name cache never lies: a name it answers is on the volume, under that
\* directory, for the file with that inode, and the table has its current type
\* and protection.  Only the keys in stale are excepted: the driver leaves
\* them behind (unlink, rmdir and rename remove one spelling, and none when
\* delete_in or rename_in fails, although the entry may be gone or moved).  A
\* file that was renamed or replaced while open, closed under another file's
\* name or changed by an operation that failed is excepted from the protection.
CacheFaithful ==
  \A x \in FileKeys \ stale :
    LET i == nameCache[x]
        at == <<InoToAnode(x[1]), Fold[x[2]]>>
    IN  i \in DOMAIN inodes =>
          /\ at \in DOMAIN entries
          /\ inodes[i].anode = entries[at].anode
          /\ inodes[i].kind = entries[at].type
          /\ inodes[i].parent = x[1] /\ inodes[i].key = Fold[x[2]]
          /\ i \notin spoilt => inodes[i].prot = entries[at].prot

\* A file with no write buffer reads as it is on the volume: the size in the
\* table, which read, write, setattr, readdir and release all use, is the one
\* of its entry.  Excepted are files in spoilt: read never looks at a buffer,
\* and a file may be opened twice, moved, truncated or written over by another.
ReadsAreCurrent ==
  \A x \in FileKeys \ stale :
    LET i == nameCache[x]
    IN  (/\ i \in DOMAIN inodes \ (DOMAIN writeBufs \cup spoilt)
         /\ inodes[i].kind = "file")
        => ReadChain(inodes[i].anode, inodes[i].size) = DiskContent(inodes[i].anode)

\* An inode below .Trashcan is one of the current snapshot: what is read
\* through it is the file that the listing shows (rebuild_deldir numbers the
\* entries anew each time).
TrashInodesCurrent ==
  \A t \in Slots :
    DeldirIno(t) \in DOMAIN inodes =>
      /\ t \in DOMAIN deldir
      /\ inodes[DeldirIno(t)].anode = deldir[t].anode
      /\ inodes[DeldirIno(t)].size = deldir[t].size

\* Closing a file that one client has open writes what that client put into it
\* and nothing else: if the buffer goes away, the file has the content of the
\* open followed by every write and truncation, and no other entry changed,
\* whatever happened to other files meanwhile.  Files in spoilt are excepted:
\* those opened twice, moved or removed while open, truncated while closed or
\* written over by another, and those on which an operation failed.
CloseExact ==
  [][\A i \in DOMAIN writeBufs :
       i \notin DOMAIN writeBufs' /\ i \notin spoilt' =>
         LET x == EntryOf(inodes[i].anode)
         IN  /\ DiskContent(inodes[i].anode)' = want[i]
             /\ Without(entries', x) = Without(entries, x)
             /\ \A y \in DOMAIN entries \ {x} :
                  chains'[entries[y].anode] = chains[entries[y].anode]]_vars

\* README.md: "`chmod` also works and maps to RWED bits, preserving any HSPA
\* flags that were previously set", although the flags are taken from the table.
ChmodKeepsFlags ==
  [][\A i \in (DOMAIN inodes \cap FileInos) \ spoilt, rwed \in {0, 1} :
       entries' # entries /\ HasEntry(inodes[i].anode) /\ Chmod(i, rwed) =>
         LET x == EntryOf(inodes[i].anode)
         IN  entries'[x].prot \div 2 = entries[x].prot \div 2]_vars

\* A write buffer does not stay in memory once its file is closed, unless the
\* volume failed or the file was moved or removed meanwhile.
BuffersDrain ==
  \A i \in FileInos :
    i \in DOMAIN writeBufs ~> (i \notin DOMAIN writeBufs \/ i \in spoilt \/ Lost)

\* release, after a failed write: "Re-insert buffer so data isn't lost; user can
\* retry via fsync".  A client that opens the file again, to retry, has that
\* data in the buffer.
KeptDataNotLost ==
  [][\A i \in DOMAIN writeBufs :
       ~Busy(i) /\ OpenWrite(i, FALSE) => writeBufs'[i].data = writeBufs[i].data]_vars
=============================================================================
