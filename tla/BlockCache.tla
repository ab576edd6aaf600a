----------------------------- MODULE BlockCache -----------------------------
(***************************************************************************)
(* The LRU cache of reserved blocks (crates/libpfs3/src/cache.rs).         *)
(*                                                                         *)
(* A cache is a record: "img" maps every block to its cached image, or to  *)
(* NoImage when the HashMap has no entry for it; "older" is the order of   *)
(* the generation stamps: <<a, b>> \in older iff a was last used before b. *)
(* The code's u64 counter only ever serves to compare two entries, so the  *)
(* order is all that is kept of it.                                        *)
(***************************************************************************)
EXTENDS Naturals, FiniteSets

CONSTANTS
  Blocks,    \* block numbers of the reserved area
  NoImage,   \* "the HashMap has no such key"
  Capacity   \* BlockCache.capacity, 256 in the code

ASSUME BlocksFinite == IsFiniteSet(Blocks)
ASSUME CapacityPositive == Capacity \in Nat \ {0}

\* The keys of the HashMap.
Held(c) == {b \in Blocks : c.img[b] # NoImage}

\* Stamps of the entries other than b, among each other.
OlderWithout(c, b) == {p \in c.older : p[1] # b /\ p[2] # b}

\* entries.remove(&block)
Invalidate(c, b) ==
  [img |-> [c.img EXCEPT ![b] = NoImage], older |-> OlderWithout(c, b)]

\* A hit: the entry's generation becomes the newest.
Touch(c, b) ==
  [img   |-> c.img,
   older |-> OlderWithout(c, b) \cup ((Held(c) \ {b}) \X {b})]

\* min_by_key(generation): the entries no other entry is older than.
Oldest(c) == {k \in Held(c) : \A j \in Held(c) : <<j, k>> \notin c.older}

\* "Evict if at capacity": the oldest entry goes.
\* (First a variant that waits until the capacity is exceeded.)
MakeRoomLate(c) ==
  IF Cardinality(Held(c)) > Capacity
    THEN Invalidate(c, CHOOSE k \in Oldest(c) : TRUE)
    ELSE c
MakeRoom(c) ==
  IF Cardinality(Held(c)) >= Capacity
    THEN Invalidate(c, CHOOSE k \in Oldest(c) : TRUE)
    ELSE c

\* A miss that was read from the device: make room, insert as the newest.
Insert(c, b, image) ==
  LET m == MakeRoom(c)
  IN  [img   |-> [m.img EXCEPT ![b] = image],
       older |-> m.older \cup (Held(m) \X {b})]

\* BlockCache::read_reserved when the device read, if one is needed, succeeds.
ReadThrough(c, b, image) ==
  IF c.img[b] # NoImage THEN Touch(c, b) ELSE Insert(c, b, image)

EmptyCache == [img |-> [b \in Blocks |-> NoImage], older |-> {}]
=============================================================================
