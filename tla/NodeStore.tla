------------------------------ MODULE NodeStore ------------------------------
(***************************************************************************)
(* The volume at the granularity its callers see through anode numbers:    *)
(* directory entries, the chain of data blocks behind each anode, and the  *)
(* deldir.  Writer implements it (ImplementsNodeStore there); the FUSE     *)
(* driver is modelled on top of it.  An anode no entry and no deldir slot  *)
(* refers to is free and may be handed out again.                          *)
(***************************************************************************)
EXTENDS Integers, Sequences, FiniteSets

CONSTANTS
  Root,      \* ANODE_ROOTDIR
  Anodes,    \* the other anode numbers
  Keys,      \* names up to case
  NumSlots,  \* slots of the deldir, 0: none
  Zero       \* what a block of zeros holds

VARIABLES
  entries,   \* <<directory anode, key>> -> [type, anode, size, prot]
  chains,    \* anode -> its blocks, <<>> for a directory or a free anode
  trash      \* slot -> <<>> or <<[anode, size, key]>>

store == <<entries, chains, trash>>

Slots == 1..NumSlots
Has(d, k) == <<d, k>> \in DOMAIN entries
AnodeOf(d, k) == entries[<<d, k>>].anode
Dirs == {Root} \cup
          {entries[x].anode : x \in {y \in DOMAIN entries : entries[y].type = "dir"}}
Childless(d) == \A x \in DOMAIN entries : x[1] # d

InUse == {Root} \cup {entries[x].anode : x \in DOMAIN entries}
           \cup UNION {{t.anode : t \in {trash[i][j] : j \in DOMAIN trash[i]}} : i \in Slots}

\* An empty file still has a block.
Blocks(c) == IF c = <<>> THEN <<Zero>> ELSE c
Least(m, n) == IF m < n THEN m ELSE n

\* What a reader gets of a chain, given a size.
ReadChain(a, size) == SubSeq(chains[a], 1, Least(size, Len(chains[a])))
ContentAt(d, k) == ReadChain(AnodeOf(d, k), entries[<<d, k>>].size)

With(f, x, v) == [y \in DOMAIN f \cup {x} |-> IF y = x THEN v ELSE f[y]]
Without(f, x) == [y \in DOMAIN f \ {x} |-> f[y]]

-----------------------------------------------------------------------------
(* The operations, as they end when they return Ok. *)

\* create_dir_in, create_softlink_in, write_file_in of a new name.
Create(d, k, type, a, c) ==
  /\ d \in Dirs /\ ~Has(d, k) /\ a \in Anodes \ InUse
  /\ entries' = With(entries, <<d, k>>,
                     [type |-> type, anode |-> a, size |-> Len(c), prot |-> 0])
  /\ chains' = [chains EXCEPT ![a] = IF type = "dir" THEN <<>> ELSE Blocks(c)]
  /\ UNCHANGED trash

\* The chain of a, overwritten.  The blocks of a free anode belong to nobody.
PutChain(a, c) == chains' = IF a \in InUse THEN [chains EXCEPT ![a] = c] ELSE chains

\* overwrite_file_in writes the chain of the anode it is given and the size
\* of the entry it is given.
OverwriteFileIn(d, k, a, c) ==
  /\ Has(d, k)
  /\ entries' = [entries EXCEPT ![<<d, k>>].size = Len(c)]
  /\ PutChain(a, Blocks(c))
  /\ UNCHANGED trash

\* overwrite_file_in fails after it wrote over the blocks the chain had.
Torn(a, c) ==
  LET new == Blocks(c)
  IN  /\ PutChain(a, [i \in DOMAIN chains[a] |->
                        IF i <= Len(new) THEN new[i] ELSE chains[a][i]])
      /\ UNCHANGED <<entries, trash>>

SetProtection(d, k, prot) ==
  /\ Has(d, k)
  /\ entries' = [entries EXCEPT ![<<d, k>>].prot = prot]
  /\ UNCHANGED <<chains, trash>>

\* Where move_to_deldir puts a file: the first empty slot, else the first.
Slot == LET empty == {i \in Slots : trash[i] = <<>>}
        IN  IF empty = {} THEN 1 ELSE CHOOSE i \in empty : \A j \in empty : i <= j

\* What delete_in does with the node of entry e stored under k: the chains
\* that are free afterwards lose their blocks.
Discard(k, e) ==
  IF e.type = "dir" THEN UNCHANGED <<chains, trash>>
  ELSE IF Slots = {}
    THEN chains' = [chains EXCEPT ![e.anode] = <<>>] /\ UNCHANGED trash
  ELSE /\ trash' = [trash EXCEPT ![Slot] =
                      <<[anode |-> e.anode, size |-> e.size, key |-> k]>>]
       /\ chains' = [a \in DOMAIN chains |->
                       IF \E t \in {trash[Slot][j] : j \in DOMAIN trash[Slot]} : t.anode = a
                         THEN <<>> ELSE chains[a]]

Removable(d, k) ==
  Has(d, k) /\ (entries[<<d, k>>].type = "dir" => Childless(AnodeOf(d, k)))

DeleteIn(d, k) ==
  /\ Removable(d, k)
  /\ entries' = Without(entries, <<d, k>>)
  /\ Discard(k, entries[<<d, k>>])

\* rename_in onto another name; what is there is deleted first.
RenameIn(d, k, e, l) ==
  /\ Has(d, k) /\ e \in Dirs /\ <<d, k>> # <<e, l>>
  /\ Has(e, l) => Removable(e, l)
  /\ entries' = With(Without(entries, <<d, k>>), <<e, l>>, entries[<<d, k>>])
  /\ IF Has(e, l) THEN Discard(l, entries[<<e, l>>]) ELSE UNCHANGED <<chains, trash>>

\* delete_in of a file fails when the deldir is written, or without one the
\* chain cleared, and the directory is not.
DeleteLeavesEntry(d, k) ==
  /\ Has(d, k) /\ entries[<<d, k>>].type # "dir"
  /\ Discard(k, entries[<<d, k>>])
  /\ UNCHANGED entries

\* rename_in fails when the new entry is written and the old one is not removed.
RenameLeavesTwo(d, k, e, l) ==
  /\ Has(d, k) /\ e \in Dirs /\ <<d, k>> # <<e, l>>
  /\ Has(e, l) => Removable(e, l)
  /\ entries' = With(entries, <<e, l>>, entries[<<d, k>>])
  /\ IF Has(e, l) THEN Discard(l, entries[<<e, l>>]) ELSE UNCHANGED <<chains, trash>>

\* undelete copies the content to a new file and empties the slot.
Undelete(i, d, k, a) ==
  /\ trash[i] # <<>> /\ d \in Dirs /\ ~Has(d, k) /\ a \in Anodes \ InUse
  /\ LET t == trash[i][1]
         c == ReadChain(t.anode, t.size)
     IN  /\ entries' = With(entries, <<d, k>>,
                            [type |-> "file", anode |-> a, size |-> Len(c), prot |-> 0])
         /\ chains' = [chains EXCEPT ![a] = Blocks(c), ![t.anode] = <<>>]
  /\ trash' = [trash EXCEPT ![i] = <<>>]

-----------------------------------------------------------------------------
NodeInit ==
  /\ entries = <<>>
  /\ chains = [a \in Anodes |-> <<>>]
  /\ trash = [i \in Slots |-> <<>>]

\* Every step of a volume on which contents of Contents are written.
NodeNext(Contents, Prots) ==
  \E d \in Dirs, k \in Keys :
    \/ /\ ~Has(d, k)
       /\ \E a \in Anodes \ InUse :
            \/ \E c \in Contents, type \in {"file", "soft"} : Create(d, k, type, a, c)
            \/ Create(d, k, "dir", a, <<>>)
            \/ \E i \in Slots : Undelete(i, d, k, a)
    \/ /\ Has(d, k) /\ entries[<<d, k>>].type = "file"
       /\ \E c \in Contents : \/ OverwriteFileIn(d, k, AnodeOf(d, k), c)
                              \/ Torn(AnodeOf(d, k), c)
    \/ \E p \in Prots : SetProtection(d, k, p)
    \/ DeleteIn(d, k)
    \/ \E e \in Dirs, l \in Keys : RenameIn(d, k, e, l)
=============================================================================
