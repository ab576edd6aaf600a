------------------------------ MODULE DirBlock ------------------------------
(***************************************************************************)
(* The bytes of a directory: packed entries of variable length in blocks   *)
(* of bsize bytes, how the writer builds, finds, patches and removes them, *)
(* and how the reader parses them.  An entry is its fields together with   *)
(* its length and the offsets at which the extra fields were written;      *)
(* reading a field at another offset finds nothing there.  Sizes are split *)
(* at Low, which stands for 2^32, into the 32-bit field that every entry   *)
(* has and the optional upper half.  A protection byte is the set of its   *)
(* bits.  Each operation here is the directory part of the Writer's.       *)
(***************************************************************************)
EXTENDS Integers, Sequences, FiniteSets, SequencesExt

CONSTANTS
  Names,                \* names a caller may pass
  ByteLen,              \* length of a name in UTF-8
  ReadBack,             \* what the bytes stored for a name read as, in Latin-1
  FileSizes,            \* sizes a file may be given
  Low,                  \* 2^32
  Specs,                \* protection specs, as [mode, letters]
  MaxDirBlocks,         \* blocks the reserved area has for this directory
  MaxAnode,             \* anodes that files may get
  MaxChanges            \* operations on the directory

\* Callers pass no name that another one of theirs reads back as.
ASSUME NamesAssumption ==
  /\ ByteLen \in [Names -> 1..255]
  /\ ReadBack \in [Names -> STRING]
  /\ \A n \in Names : ReadBack[n] \in Names => ReadBack[n] = n
ASSUME DirAssumption ==
  /\ FileSizes \subseteq Nat /\ Low \in Nat \ {0}
  /\ MaxDirBlocks \in Nat \ {0} /\ MaxChanges \in Nat /\ MaxAnode \in Nat

VARIABLES
  bsize,                \* bytes in a directory block: the reserved block size
  blocks,               \* the directory's blocks, each a sequence of entries
  made,                 \* ghost: what callers were told each anode's entry is
  changes               \* operations so far

dvars == <<bsize, blocks, made, changes>>

HeaderSize == 20
NameOff == 18
MaxName == 107
Even(n) == IF n % 2 = 0 THEN n ELSE n + 1

(* Protection *)

HSPA == {"h", "s", "p", "a"}
RWED == {"r", "w", "e", "d"}

\* A variant: an absolute spec starts from "all granted".
ParseAmigaProtectionFromZero(current, spec) ==
  {(IF spec.mode = "=" THEN {} ELSE current) \cup (spec.letters \cap HSPA)}

\* The empty text.  (A sign without letters is a spec that changes nothing.)
EmptySpec(spec) == spec.mode = "=" /\ spec.letters = {}

\* parse_amiga_protection, {} where it returns None: HSPA bits grant when set,
\* RWED bits when clear; an absolute spec starts from "all denied".
ParseAmigaProtection(current, spec) ==
  LET from == IF spec.mode = "=" THEN RWED ELSE current
      hspa == spec.letters \cap HSPA
      rwed == spec.letters \cap RWED
  IN  IF EmptySpec(spec) THEN {}
      ELSE {IF spec.mode = "-" THEN (from \ hspa) \cup rwed ELSE (from \cup hspa) \ rwed}

\* amiga_protection_string: the letters that are not shown as a dash.
AmigaProtectionString(prot) == (prot \cap HSPA) \cup (RWED \ prot)

(* Entries *)

\* The optional fields before the upper half of the size.
ExtraFields == {"link", "uid", "gid", "prot", "virtualsize", "rollpointer"}
Width(f) == IF f \in {"uid", "gid"} THEN 2 ELSE 4

\* A walk over the optional fields in the order in which they are stored: Past
\* is what it does at one of them.
Walk(start, Past(_, _)) ==
  LET group == Past(Past(Past(start, "link"), "uid"), "gid")
  IN  Past(Past(Past(group, "prot"), "virtualsize"), "rollpointer")

\* build_dir_entry
BuildDirEntry(n, anode, fsize, prot) ==
  LET nlen == IF ByteLen[n] > MaxName THEN MaxName ELSE ByteLen[n]
      high == fsize \div Low
      extra == IF high > 0 THEN 4 ELSE 2
      efOff == Even(NameOff + nlen + 1)
  IN  [size |-> Even(NameOff + nlen + 1 + extra), name |-> ReadBack[n], nlen |-> nlen,
       clen |-> 0, anode |-> anode, prot |-> prot, fsize |-> fsize % Low,
       flags |-> IF high > 0 THEN {"fsizex"} ELSE {}, flagsAt |-> efOff,
       fsizex |-> high, fsizexAt |-> IF high > 0 THEN efOff + 2 ELSE 0]

\* The flags word after name and comment, aligned; 0 if the entry ends before.
FlagsPos(e) ==
  LET start == Even(NameOff + e.nlen + 1 + e.clen)
  IN  IF NameOff + e.nlen < e.size /\ start + 2 <= e.size THEN start ELSE 0
FlagsOf(e) == IF FlagsPos(e) # 0 /\ FlagsPos(e) = e.flagsAt THEN e.flags ELSE {}

\* parse_extrafields: a field that does not fit is skipped.
ParsePast(e, pos, f) ==
  IF f \in FlagsOf(e) /\ pos + Width(f) <= e.size THEN pos + Width(f) ELSE pos
ParsedPos(e) == Walk(FlagsPos(e) + 2, LAMBDA pos, f : ParsePast(e, pos, f))
ParsedFsizex(e) ==
  IF "fsizex" \in FlagsOf(e) /\ ParsedPos(e) + 2 <= e.size /\ ParsedPos(e) = e.fsizexAt
  THEN e.fsizex ELSE 0
FileSize(e) == e.fsize + Low * ParsedFsizex(e)

\* update_dir_entry_size: walks the fields itself; gives up, as position 0, at
\* one that does not fit.
PatchPast(e, pos, f) ==
  IF f \notin FlagsOf(e) \/ pos = 0 THEN pos
  ELSE IF pos + Width(f) > e.size THEN 0 ELSE pos + Width(f)
PatchPos(e) == Walk(FlagsPos(e) + 2, LAMBDA pos, f : PatchPast(e, pos, f))

\* A variant: the upper half is only patched when it is not zero.
PatchSizeKeepsHigh(e, fsize) ==
  IF fsize >= Low /\ "fsizex" \in FlagsOf(e)
  THEN [e EXCEPT !.fsize = fsize % Low, !.fsizex = fsize \div Low]
  ELSE [e EXCEPT !.fsize = fsize % Low]

PatchSize(e, fsize) ==
  LET low == [e EXCEPT !.fsize = fsize % Low]
      at == PatchPos(e)
  IN  IF FlagsPos(e) # 0 /\ "fsizex" \in FlagsOf(e) /\ at # 0 /\ at + 2 <= e.size
      THEN [low EXCEPT !.fsizex = fsize \div Low, !.fsizexAt = at] ELSE low

(* Blocks *)

\* Where the walk over a block's entries ends.
EndPos(block) ==
  LET end[i \in 0..Len(block)] == IF i = 0 THEN HeaderSize ELSE end[i - 1] + block[i].size
  IN  end[Len(block)]

\* list_entries: block by block, entry by entry.
Spots(dir) == UNION {{<<i, j>> : j \in DOMAIN dir[i]} : i \in DOMAIN dir}
EntryIn(dir, p) == dir[p[1]][p[2]]
ListEntries(dir) == {EntryIn(dir, p) : p \in Spots(dir)}

\* find_dir_entry and lookup: the block and index of the first entry of that
\* name, the name of an entry being what its bytes read as.
Places(dir, n) == {p \in Spots(dir) : EntryIn(dir, p).name = n}
FindDirEntry(dir, n) ==
  CHOOSE p \in Places(dir, n) : \A q \in Places(dir, n) :
    p[1] < q[1] \/ (p[1] = q[1] /\ p[2] <= q[2])

\* A variant: the end of the entries instead of the end of the new one.
HasRoomAtEnd(block, e) == EndPos(block) < bsize

\* The new entry leaves at least the terminating zero byte.
HasRoom(block, e) == EndPos(block) + e.size < bsize

\* add_dir_entry: the first block with room, else a new block; [ok, dir].
AddDirEntry(dir, e) ==
  LET roomy == {i \in DOMAIN dir : HasRoom(dir[i], e)}
      first == CHOOSE i \in roomy : \A k \in roomy : i <= k
  IN  CASE roomy # {} -> [ok |-> TRUE, dir |-> [dir EXCEPT ![first] = Append(@, e)]]
        [] roomy = {} /\ Len(dir) < MaxDirBlocks -> [ok |-> TRUE, dir |-> Append(dir, <<e>>)]
        [] OTHER -> [ok |-> FALSE, dir |-> dir]

\* A variant: the entry is cleared and the ones behind it are not moved up.
RemoveDirEntryInPlace(dir, n) ==
  LET p == FindDirEntry(dir, n)
  IN  [dir EXCEPT ![p[1]] = SubSeq(@, 1, p[2] - 1)]

\* remove_dir_entry: the rest of the block moves up.
RemoveDirEntry(dir, n) ==
  LET p == FindDirEntry(dir, n)
  IN  [dir EXCEPT ![p[1]] = RemoveAt(@, p[2])]

EntryAt(dir, n) == EntryIn(dir, FindDirEntry(dir, n))
Patched(dir, n, e) == LET p == FindDirEntry(dir, n) IN [dir EXCEPT ![p[1]][p[2]] = e]

-----------------------------------------------------------------------------
(* Operations *)

Anodes == 1..MaxAnode

\* alloc_anode: the first that is not in use, if there is one.
AllocAnode == {a \in Anodes \ DOMAIN made : \A b \in Anodes \ DOMAIN made : a <= b}
Told(n, fsize, prot) == [name |-> n, size |-> fsize, prot |-> prot]
With(f, a, v) == [x \in DOMAIN f \cup {a} |-> IF x = a THEN v ELSE f[x]]
Without(f, a) == [x \in DOMAIN f \ {a} |-> f[x]]

Changed(dir, told) ==
  /\ changes < MaxChanges /\ changes' = changes + 1
  /\ blocks' = dir /\ made' = told
  /\ UNCHANGED bsize

\* write_file_in of a name that no entry reads as.
CreateEntry(n, fsize) ==
  \E a \in AllocAnode :
    LET add == AddDirEntry(blocks, BuildDirEntry(n, a, fsize, {}))
    IN  /\ Places(blocks, n) = {}
        /\ Changed(add.dir, IF add.ok THEN With(made, a, Told(n, fsize, {})) ELSE made)

\* overwrite_file_in of an existing one: its entry is patched in place.
ResizeEntry(n, fsize) ==
  LET e == EntryAt(blocks, n)
  IN  /\ Places(blocks, n) # {}
      /\ Changed(Patched(blocks, n, PatchSize(e, fsize)),
                 [made EXCEPT ![e.anode].size = fsize])

DeleteEntry(n) ==
  /\ Places(blocks, n) # {}
  /\ Changed(RemoveDirEntry(blocks, n), Without(made, EntryAt(blocks, n).anode))

\* rename_in: the target is deleted first, the entry is built anew from what
\* the old one reads as, added and then the old one removed.  A rename of a
\* name to itself does not get past the kernel.
RenameEntry(n, m) ==
  LET e == EntryAt(blocks, n)
      over == Places(blocks, m) # {}
      cleared == IF over THEN RemoveDirEntry(blocks, m) ELSE blocks
      told == IF over THEN Without(made, EntryAt(blocks, m).anode) ELSE made
      add == AddDirEntry(cleared, BuildDirEntry(m, e.anode, FileSize(e), e.prot))
  IN  /\ n # m /\ Places(blocks, n) # {}
      /\ IF add.ok
         THEN Changed(RemoveDirEntry(add.dir, n), [told EXCEPT ![e.anode].name = m])
         ELSE Changed(cleared, told)

\* "pfs3 protect" and setxattr, which refuse what is not a spec.
ProtectEntry(n, spec) ==
  LET e == EntryAt(blocks, n)
  IN  /\ Places(blocks, n) # {}
      /\ \E prot \in ParseAmigaProtection(e.prot, spec) :
           Changed(Patched(blocks, n, [e EXCEPT !.prot = prot]),
                   [made EXCEPT ![e.anode].prot = prot])

DirNext ==
  \E n \in Names :
    \/ \E s \in FileSizes : CreateEntry(n, s) \/ ResizeEntry(n, s)
    \/ DeleteEntry(n)
    \/ \E m \in Names : RenameEntry(n, m)
    \/ \E spec \in Specs : ProtectEntry(n, spec)

-----------------------------------------------------------------------------
(* A sound directory *)

Entry == [size : Nat, name : STRING, nlen : Nat, clen : Nat, anode : Nat,
          prot : SUBSET (HSPA \cup RWED), fsize : 0..(Low - 1),
          flags : SUBSET (ExtraFields \cup {"fsizex"}), flagsAt : Nat,
          fsizex : Nat, fsizexAt : Nat]

\* Where the optional fields that an entry has end.
Past(flags, pos, f) == IF f \in flags THEN pos + Width(f) ELSE pos
FieldsEnd(e) == Walk(e.flagsAt + 2, LAMBDA pos, f : Past(e.flags, pos, f))

\* The flags follow name and comment, aligned, and the fields that are flagged
\* follow them, inside the entry.
WellFormed(e) ==
  /\ e.size % 2 = 0 /\ e.size <= 255
  /\ e.flagsAt = Even(NameOff + e.nlen + 1 + e.clen)
  /\ FieldsEnd(e) <= e.size
  /\ "fsizex" \in e.flags => e.fsizexAt = FieldsEnd(e) /\ FieldsEnd(e) + 2 <= e.size

\* The entry shows its size, or the lower half if it has no upper one.
ShowsSize(e, size) ==
  \/ FileSize(e) = size
  \/ size >= Low /\ "fsizex" \notin e.flags /\ FileSize(e) = size % Low

\* The entry is the one that "told" has for its anode.
IsAsTold(e, t) ==
  /\ t = Told(t.name, t.size, t.prot) /\ t.size \in Nat
  /\ e.name = t.name \/ (t.name \in Names /\ e.name = ReadBack[t.name])
  /\ e.prot = t.prot /\ ShowsSize(e, t.size)

\* Blocks within their size, entries that are well formed and what callers were
\* told, one for each anode, and at most one for a name that callers use.
SoundDir(width, dir, told) ==
  /\ dir \in Seq(Seq(Entry))
  /\ \A i \in DOMAIN dir : EndPos(dir[i]) <= width
  /\ \A e \in ListEntries(dir) : WellFormed(e) /\ IsAsTold(e, told[e.anode])
  /\ DOMAIN told = {e.anode : e \in ListEntries(dir)}
  /\ \A p, q \in Spots(dir) : EntryIn(dir, p).anode = EntryIn(dir, q).anode => p = q
  /\ \A p, q \in Spots(dir) :
       EntryIn(dir, p).name = EntryIn(dir, q).name /\ EntryIn(dir, p).name \in Names => p = q

-----------------------------------------------------------------------------
(* Properties *)

\* The walks of find_dir_entry, add_dir_entry and the reader stay inside the
\* block, and every field of an entry lies inside the entry, whatever the
\* lengths of names and comments; a length fits its byte.
EntriesInside ==
  \A i \in DOMAIN blocks :
    /\ EndPos(blocks[i]) <= bsize
    /\ \A e \in ToSet(blocks[i]) :
         /\ e.size % 2 = 0 /\ e.size <= 255
         /\ NameOff + e.nlen + 1 + e.clen <= e.flagsAt /\ e.flagsAt + 2 <= e.size
         /\ "fsizex" \in e.flags => e.fsizexAt + 2 <= e.size

\* Every file's size reads back as it was written, through any sequence of
\* resizes and renames and between other extra fields and comments.  The only
\* exception is a file that grows past Low in place although its entry has no
\* field for the upper half: the reader then sees the lower half.
SizeReadsBack ==
  \A e \in ListEntries(blocks) :
    ShowsSize(e, made[e.anode].size)

\* Nothing vanishes and nothing is listed twice: the directory holds one entry
\* for each file the callers were told of, and a file is found under its name,
\* with its protection, if the bytes of that name read back as the name.
FoundAgain ==
  /\ {e.anode : e \in ListEntries(blocks)} = DOMAIN made
  /\ \A p, q \in Spots(blocks) :
       EntryIn(blocks, p).anode = EntryIn(blocks, q).anode => p = q
  /\ \A a \in DOMAIN made :
       LET n == made[a].name
       IN  n \in Names /\ ReadBack[n] = n =>
             /\ Places(blocks, n) # {}
             /\ EntryAt(blocks, n).anode = a
             /\ EntryAt(blocks, n).prot = made[a].prot

\* "preserves all 8 bits (HSPARWED) losslessly": the letters shown for a file,
\* given as an absolute spec, set exactly its bits again, whatever they have
\* become in the meantime.  The only exception is a file that grants nothing and
\* has no HSPA bit: it shows no letter, and the empty spec is refused.
ShownBitsRestore ==
  \A e, f \in ListEntries(blocks) :
    ParseAmigaProtection(f.prot, [mode |-> "=", letters |-> AmigaProtectionString(e.prot)])
      = IF e.prot = RWED THEN {} ELSE {e.prot}
=============================================================================
