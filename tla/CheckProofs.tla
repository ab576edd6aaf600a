---------------------------- MODULE CheckProofs ----------------------------
(***************************************************************************)
(* What a clean report of "pfs3 check" says of a volume, for every value   *)
(* of the constants.  The scan is a function of the device; that nothing   *)
(* comes between a clean scan and the end of the command is an invariant.  *)
(***************************************************************************)
EXTENDS Check, WriterProofs

-----------------------------------------------------------------------------
(* Sequences *)

\* The lengths of the pieces, added up, do not decrease.
LEMMA OffsetsRise ==
  ASSUME NEW S, NEW q \in Seq(Seq(S)), NEW off, Offsets(q, off),
         NEW a \in 1..Len(q)
  PROVE  \A b \in 0..Len(q) : a <= b => off[a] <= off[b]
<1> DEFINE n == Len(q)
           T == {b \in 0..n : a <= b => off[a] <= off[b]}
<1>1. n \in Nat /\ off \in [0..n -> Nat] /\ \A i \in 1..n : off[i] = off[i - 1] + Len(q[i])
  BY DEF Offsets
<1>2. \A i \in 1..n : Len(q[i]) \in Nat
  OBVIOUS
<1> HIDE DEF n
<1>3. a \in 1..n
  BY DEF n
<1>4. 0 \in T
  BY <1>1, <1>3
<1>5. ASSUME NEW i \in 1..n, i - 1 \in T PROVE i \in T
  <2>1. PICK x \in Nat, y \in Nat, z \in Nat, l \in Nat :
          x = off[i] /\ y = off[i - 1] /\ z = off[a] /\ l = Len(q[i])
    <3>1. off[i] \in Nat /\ off[i - 1] \in Nat /\ off[a] \in Nat
      BY <1>1, <1>3
    <3> QED BY <1>2, <3>1
  <2>2. x = y + l
    BY <1>1, <2>1
  <2>3. a <= i - 1 => z <= y
    BY <1>5, <2>1
  <2>4. a <= i => z <= x
    <3>1. CASE a <= i - 1
      BY <2>2, <2>3, <3>1
    <3>2. CASE ~(a <= i - 1)
      <4>1. a <= i => a = i
        BY <1>1, <1>3, <3>2
      <4> QED BY <2>1, <4>1
    <3> QED BY <3>1, <3>2
  <2> QED BY <1>1, <2>1, <2>4
<1>6. \A b \in 0..n : b \in T
  <2> HIDE DEF T
  <2> QED BY <1>1, <1>4, <1>5, Climb
<1> QED BY <1>6 DEF n

\* A sequence has at most as many elements as places, and as many only if it
\* repeats none.
Repeats(x) == Len(x) - Cardinality(ToSet(x))

\* There are never more elements than places.
LEMMA RepeatsIs ==
  ASSUME NEW S, NEW x \in Seq(S)
  PROVE  /\ Repeats(x) \in Nat
         /\ Repeats(x) = 0 => \A i, j \in 1..Len(x) : x[i] = x[j] => i = j
<1> DEFINE n == Len(x)
           D == 1..n
           T == ToSet(x)
<1>1. n \in Nat /\ DOMAIN x = D /\ x = [i \in D |-> x[i]]
  OBVIOUS
<1>2. x \in Surjection(D, T)
  BY <1>1 DEF ToSet, Surjection
<1>3. IsFiniteSet(D) /\ Cardinality(D) = n
  BY <1>1, FS_Interval
<1>4. Repeats(x) = n - Cardinality(T)
  BY DEF Repeats
<1> HIDE DEF D, T, n
<1>5. /\ IsFiniteSet(T) /\ Cardinality(T) <= Cardinality(D)
      /\ Cardinality(T) = Cardinality(D) => x \in Injection(D, T)
  BY <1>2, <1>3, FS_Surjection
<1>6. Cardinality(T) \in Nat
  BY <1>5, FS_CardinalityType
<1>7. Repeats(x) \in Nat /\ (Repeats(x) = 0 => x \in Injection(D, T))
  BY <1>1, <1>3, <1>4, <1>5, <1>6
<1>8. x \in Injection(D, T) => \A i, j \in D : x[i] = x[j] => i = j
  BY <1>1 DEF Injection, IsInjective
<1> QED BY <1>7, <1>8 DEF D, n

\* Pieces one after the other without repetition: no two places hold the same.
LEMMA FlattenApart ==
  ASSUME NEW S, NEW q \in Seq(Seq(S)), Repeats(FlattenSeq(q)) = 0
  PROVE  \A a, b \in 1..Len(q) : \A i \in 1..Len(q[a]), j \in 1..Len(q[b]) :
           q[a][i] = q[b][j] => a = b /\ i = j
<1>1. PICK off : Offsets(q, off)
  BY OffsetsExist
<1> DEFINE x == FlattenSeq(q)
<1>2. x \in Seq(S) /\ Prefix(x, q, off, Len(q))
  BY <1>1, FlattenIs
<1>3. \A i, j \in 1..Len(x) : x[i] = x[j] => i = j
  BY <1>2, RepeatsIs
<1> HIDE DEF x
<1>4. Len(q) \in Nat /\ off \in [0..Len(q) -> Nat]
      /\ \A i \in 1..Len(q) : off[i] = off[i - 1] + Len(q[i])
  BY <1>1 DEF Offsets
<1> SUFFICES ASSUME NEW a \in 1..Len(q), NEW b \in 1..Len(q), NEW i \in 1..Len(q[a]),
                    NEW j \in 1..Len(q[b]), q[a][i] = q[b][j]
             PROVE  a = b /\ i = j
  OBVIOUS
<1>5. off[a - 1] + i = off[b - 1] + j
  <2>1. /\ off[a - 1] + i \in 1..Len(x) /\ x[off[a - 1] + i] = q[a][i]
        /\ off[b - 1] + j \in 1..Len(x) /\ x[off[b - 1] + j] = q[b][j]
    <3>1. Len(x) = off[Len(q)]
      BY <1>2 DEF Prefix
    <3> QED BY <1>2, <3>1 DEF Prefix
  <2> QED BY <1>3, <2>1
<1>6. \A c, d \in 1..Len(q) : c <= d - 1 => off[c] <= off[d - 1]
  <2> SUFFICES ASSUME NEW c \in 1..Len(q), NEW d \in 1..Len(q), c <= d - 1
               PROVE  off[c] <= off[d - 1]
    OBVIOUS
  <2>1. d - 1 \in 0..Len(q)
    BY <1>4
  <2>2. \A z \in 0..Len(q) : c <= z => off[c] <= off[z]
    BY <1>1, OffsetsRise
  <2> QED BY <2>1, <2>2
<1>7. PICK a0 \in Nat, a1 \in Nat, b0 \in Nat, b1 \in Nat :
        a0 = off[a - 1] /\ a1 = off[a] /\ b0 = off[b - 1] /\ b1 = off[b]
  <2>1. a - 1 \in 0..Len(q) /\ a \in 0..Len(q) /\ b - 1 \in 0..Len(q) /\ b \in 0..Len(q)
    BY <1>4
  <2> QED BY <1>4, <2>1
<1>8. i \in Nat /\ j \in Nat /\ i >= 1 /\ j >= 1 /\ a0 + i <= a1 /\ b0 + j <= b1
  <2>1. PICK k \in Nat, l \in Nat : k = Len(q[a]) /\ l = Len(q[b])
    OBVIOUS
  <2>2. a1 = a0 + k /\ b1 = b0 + l
    BY <1>4, <1>7, <2>1
  <2>3. i \in 1..k /\ j \in 1..l
    BY <2>1
  <2> QED BY <2>2, <2>3
<1>9. ~(a < b) /\ ~(b < a)
  <2>1. a < b => a1 <= b0
    BY <1>6, <1>7
  <2>2. b < a => b1 <= a0
    BY <1>6, <1>7
  <2>3. a0 + i = b0 + j
    BY <1>5, <1>7
  <2>4. a < b => a1 <= b0
    BY <2>1
  <2>5. ~(a1 <= b0) /\ ~(b1 <= a0)
    BY <1>8, <2>3
  <2> QED BY <2>1, <2>2, <2>5
<1>10. a = b
  BY <1>4, <1>9
<1>11. a0 + i = a0 + j
  BY <1>5, <1>7, <1>10
<1>12. i = j
  <2>1. \A u, v, w \in Nat : u + v = u + w => v = w
    OBVIOUS
  <2> QED BY <1>8, <1>11, <2>1
<1> QED BY <1>10, <1>12

-----------------------------------------------------------------------------
(* The scan *)

TreeNodes == [dir : Nat, e : Entries]

\* The entries of one directory.
LEMMA HereIs ==
  ASSUME NEW R, DiskOK(R), NEW un, NEW d \in Nat
  PROVE  Here(R, un, d) \in Seq(TreeNodes)
<1>1. PICK es \in Seq(Entries) : es = IF <<"list", d>> \in un THEN <<>> ELSE ListDir(R, d).es
  <2> DEFINE E == Entries
  <2>1. ListDir(R, d).es \in Seq(E)
    BY ListDirIs
  <2> HIDE DEF E
  <2>2. <<>> \in Seq(E)
    OBVIOUS
  <2>3. (IF <<"list", d>> \in un THEN <<>> ELSE ListDir(R, d).es) \in Seq(E)
    BY <2>1, <2>2, Zenon
  <2> QED BY <2>3, Zenon DEF E
<1> DEFINE f == [i \in DOMAIN es |-> [dir |-> d, e |-> es[i]]]
<1>2. Here(R, un, d) = f
  BY <1>1, Zenon DEF Here
<1>3. DOMAIN es = 1..Len(es) /\ Len(es) \in Nat /\ \A i \in 1..Len(es) : es[i] \in Entries
  BY <1>1
<1>4. ASSUME NEW i \in 1..Len(es) PROVE [dir |-> d, e |-> es[i]] \in TreeNodes
  BY <1>3 DEF TreeNodes
<1> DEFINE X == TreeNodes
           n == Len(es)
<1>5. f \in [1..n -> X]
  BY <1>3, <1>4
<1>6. n \in Nat
  BY <1>3
<1> HIDE DEF f, X, n
<1>7. f \in Seq(X)
  BY <1>5, <1>6
<1> QED BY <1>2, <1>7 DEF X

\* The entries of the tree.
LEMMA TreeIs ==
  ASSUME NEW R, DiskOK(R), NEW un
  PROVE  Tree(R, un) \in Seq(TreeNodes)
<1> DEFINE q == Here(R, un, RootDir)
           E(x) == IF x.e.type = "dir" /\ IsChainRead(R, un, x)
                     THEN <<x>> \o Here(R, un, x.e.anode) ELSE <<x>>
           f == [i \in DOMAIN q |-> E(q[i])]
           X == TreeNodes
<1>1. Tree(R, un) = FlattenSeq(f)
  BY Zenon DEF Tree
<1>2. q \in Seq(X)
  BY Constants, HereIs
<1>3. ASSUME NEW x \in TreeNodes PROVE E(x) \in Seq(X)
  <2>1. x.e \in Entries
    BY DEF TreeNodes
  <2>2. x.e.anode \in Nat
    BY <2>1 DEF Entries
  <2>3. Here(R, un, x.e.anode) \in Seq(X)
    BY <2>2, HereIs
  <2>4. x \in X
    OBVIOUS
  <2> HIDE DEF X
  <2>5. <<x>> \in Seq(X) /\ <<x>> \o Here(R, un, x.e.anode) \in Seq(X)
    BY <2>3, <2>4
  <2> QED BY <2>5
<1>4. \A x \in X : E(x) \in Seq(X)
  BY <1>3
<1> HIDE DEF q, E, X
<1>5. f \in Seq(Seq(X))
  <2> DEFINE n == Len(q)
             Y == Seq(X)
  <2>1. n \in Nat /\ DOMAIN q = 1..n /\ \A i \in 1..n : q[i] \in X
    BY <1>2
  <2>2. \A i \in 1..n : E(q[i]) \in Y
    BY <1>4, <2>1
  <2>3. f = [i \in 1..n |-> E(q[i])]
    BY <2>1
  <2> HIDE DEF n, Y, f
  <2>4. f \in [1..n -> Y]
    BY <2>2, <2>3
  <2>5. f \in Seq(Y)
    BY <2>1, <2>4
  <2> QED BY <2>5 DEF Y
<1> HIDE DEF f
<1>6. FlattenSeq(f) \in Seq(X)
  BY <1>5, FlattenHas
<1> QED BY <1>1, <1>6 DEF X

\* The chain and the blocks of an entry.
LEMMA NodeIs ==
  ASSUME NEW R, DiskOK(R), NEW x \in TreeNodes
  PROVE  /\ x.e \in Entries /\ x.e.anode \in Nat /\ x.e.size \in Nat /\ x.dir \in Nat
         /\ x.e.name \in Names
         /\ ChainOf(R, x) = GetChain(R, x.e.anode)
         /\ BlocksOf(ChainOf(R, x).chain) \in Seq(Spare \cup DataBlocks)
<1>1. x.e \in Entries /\ x.dir \in Nat
  BY DEF TreeNodes
<1>2. x.e.anode \in Nat /\ x.e.size \in Nat /\ x.e.name \in Names
  BY <1>1 DEF Entries
<1>3. BlocksOf(GetChain(R, x.e.anode).chain) \in Seq(Spare \cup DataBlocks)
  BY <1>2, ChainIs, BlocksOfIs DEF Chains0
<1> QED BY <1>1, <1>2, <1>3 DEF ChainOf

\* The entries of a sequence that are in a set, in order.
Picked(q, T) == FlattenSeq([i \in DOMAIN q |-> IF q[i] \in T THEN <<q[i]>> ELSE <<>>])

\* If none is picked, none is in the set.
LEMMA PickedIs ==
  ASSUME NEW X, NEW q \in Seq(X), NEW T
  PROVE  /\ Picked(q, T) \in Seq(X) /\ Len(Picked(q, T)) \in Nat
         /\ Len(Picked(q, T)) = 0 => \A i \in 1..Len(q) : q[i] \notin T
<1> DEFINE n == Len(q)
           f == [i \in DOMAIN q |-> IF q[i] \in T THEN <<q[i]>> ELSE <<>>]
           Y == Seq(X)
           x == FlattenSeq(f)
<1>1. n \in Nat /\ DOMAIN q = 1..n /\ \A i \in 1..n : q[i] \in X
  OBVIOUS
<1>2. \A y \in X : <<y>> \in Y /\ Len(<<y>>) = 1
  OBVIOUS
<1>3. <<>> \in Y
  OBVIOUS
<1>4. f = [i \in 1..n |-> IF q[i] \in T THEN <<q[i]>> ELSE <<>>]
  BY <1>1
<1> HIDE DEF n, Y, f
<1>5. f \in [1..n -> Y]
  BY <1>1, <1>2, <1>3, <1>4
<1>6. f \in Seq(Y) /\ DOMAIN f = 1..n
  BY <1>1, <1>5
<1>7. x \in Seq(X) /\ \A a \in DOMAIN f : \A j \in DOMAIN f[a] : \E p \in DOMAIN x : x[p] = f[a][j]
  BY <1>6, FlattenHas DEF Y
<1> HIDE DEF x
<1>8. Len(x) \in Nat /\ DOMAIN x = 1..Len(x)
  BY <1>7
<1>9. ASSUME Len(x) = 0, NEW i \in 1..n, q[i] \in T PROVE FALSE
  <2>1. f[i] = <<q[i]>>
    BY <1>4, <1>9
  <2>2. 1 \in DOMAIN f[i]
    BY <2>1
  <2>3. \E p \in DOMAIN x : TRUE
    BY <1>6, <1>7, <2>2
  <2> QED BY <1>8, <1>9, <2>3
<1>10. Picked(q, T) = x
  BY DEF Picked, f, x
<1> QED BY <1>7, <1>8, <1>9, <1>10 DEF n

\* broken_files and wrong_size: if none is listed there is none in the tree.
LEMMA BrokenIs ==
  ASSUME NEW R, DiskOK(R), NEW un
  PROVE  /\ Broken(R, un) \in Seq(TreeNodes) /\ Len(Broken(R, un)) \in Nat
         /\ Len(Broken(R, un)) = 0 => \A i \in 1..Len(Tree(R, un)) : ~IsBroken(R, un, Tree(R, un)[i])
<1> DEFINE q == Tree(R, un)
           T == {x \in TreeNodes : IsBroken(R, un, x)}
           f == [i \in DOMAIN q |-> IF IsBroken(R, un, q[i]) THEN <<q[i]>> ELSE <<>>]
           g == [i \in DOMAIN q |-> IF q[i] \in T THEN <<q[i]>> ELSE <<>>]
<1>1. q \in Seq(TreeNodes)
  BY TreeIs
<1>2. Broken(R, un) = FlattenSeq(f)
  BY Zenon DEF Broken
<1> HIDE DEF q
<1>3. \A i \in DOMAIN q : q[i] \in TreeNodes
  <2> DEFINE X == TreeNodes
  <2>1. q \in Seq(X)
    BY <1>1
  <2> HIDE DEF X
  <2>2. \A i \in DOMAIN q : q[i] \in X
    BY <2>1
  <2> QED BY <2>2 DEF X
<1>4. \A i \in DOMAIN q : IsBroken(R, un, q[i]) <=> q[i] \in T
  BY <1>3, Zenon
<1> HIDE DEF T
<1>5. f = g
  BY <1>4, Zenon
<1>6. Broken(R, un) = Picked(q, T)
  BY <1>2, <1>5 DEF Picked
<1>7. /\ Picked(q, T) \in Seq(TreeNodes) /\ Len(Picked(q, T)) \in Nat
      /\ Len(Picked(q, T)) = 0 => \A i \in 1..Len(q) : q[i] \notin T
  BY <1>1, PickedIs
<1>8. DOMAIN q = 1..Len(q)
  BY <1>1
<1> QED BY <1>4, <1>6, <1>7, <1>8 DEF q

\* The same of the directories that are entered and cannot be listed.
LEMMA UnlistedIs ==
  ASSUME NEW R, DiskOK(R), NEW un
  PROVE  /\ Len(Unlisted(R, un)) \in Nat
         /\ Len(Unlisted(R, un)) = 0 => \A i \in 1..Len(Tree(R, un)) : ~IsUnlisted(R, un, Tree(R, un)[i])
<1> DEFINE q == Tree(R, un)
           T == {x \in TreeNodes : IsUnlisted(R, un, x)}
           f == [i \in DOMAIN q |-> IF IsUnlisted(R, un, q[i]) THEN <<q[i]>> ELSE <<>>]
           g == [i \in DOMAIN q |-> IF q[i] \in T THEN <<q[i]>> ELSE <<>>]
<1>1. q \in Seq(TreeNodes)
  BY TreeIs
<1>2. Unlisted(R, un) = FlattenSeq(f)
  BY Zenon DEF Unlisted
<1> HIDE DEF q
<1>3. \A i \in DOMAIN q : q[i] \in TreeNodes
  <2> DEFINE X == TreeNodes
  <2>1. q \in Seq(X)
    BY <1>1
  <2> HIDE DEF X
  <2>2. \A i \in DOMAIN q : q[i] \in X
    BY <2>1
  <2> QED BY <2>2 DEF X
<1>4. \A i \in DOMAIN q : IsUnlisted(R, un, q[i]) <=> q[i] \in T
  BY <1>3, Zenon
<1> HIDE DEF T
<1>5. f = g
  BY <1>4, Zenon
<1>6. Unlisted(R, un) = Picked(q, T)
  BY <1>2, <1>5 DEF Picked
<1>7. /\ Picked(q, T) \in Seq(TreeNodes) /\ Len(Picked(q, T)) \in Nat
      /\ Len(Picked(q, T)) = 0 => \A i \in 1..Len(q) : q[i] \notin T
  BY <1>1, PickedIs
<1>8. DOMAIN q = 1..Len(q)
  BY <1>1
<1> QED BY <1>4, <1>6, <1>7, <1>8 DEF q

\* If no size is reported wrong, none is.
LEMMA WrongSizeIs ==
  ASSUME NEW R, DiskOK(R), NEW un
  PROVE  /\ Len(WrongSize(R, un)) \in Nat
         /\ Len(WrongSize(R, un)) = 0 => \A i \in 1..Len(Tree(R, un)) : ~IsShort(R, un, Tree(R, un)[i])
<1> DEFINE q == Tree(R, un)
           T == {x \in TreeNodes : IsShort(R, un, x)}
           f == [i \in DOMAIN q |-> IF IsShort(R, un, q[i]) THEN <<q[i]>> ELSE <<>>]
           g == [i \in DOMAIN q |-> IF q[i] \in T THEN <<q[i]>> ELSE <<>>]
<1>1. q \in Seq(TreeNodes)
  BY TreeIs
<1>2. WrongSize(R, un) = FlattenSeq(f)
  BY Zenon DEF WrongSize
<1> HIDE DEF q
<1>3. \A i \in DOMAIN q : q[i] \in TreeNodes
  <2> DEFINE X == TreeNodes
  <2>1. q \in Seq(X)
    BY <1>1
  <2> HIDE DEF X
  <2>2. \A i \in DOMAIN q : q[i] \in X
    BY <2>1
  <2> QED BY <2>2 DEF X
<1>4. \A i \in DOMAIN q : IsShort(R, un, q[i]) <=> q[i] \in T
  BY <1>3, Zenon
<1> HIDE DEF T
<1>5. f = g
  BY <1>4, Zenon
<1>6. WrongSize(R, un) = Picked(q, T)
  BY <1>2, <1>5 DEF Picked
<1>7. /\ Picked(q, T) \in Seq(TreeNodes) /\ Len(Picked(q, T)) \in Nat
      /\ Len(Picked(q, T)) = 0 => \A i \in 1..Len(q) : q[i] \notin T
  BY <1>1, PickedIs
<1>8. DOMAIN q = 1..Len(q)
  BY <1>1
<1> QED BY <1>4, <1>6, <1>7, <1>8 DEF q

\* The blocks that record_blocks records for an entry.
ClaimedBy(R, un, x) == IF IsScanned(R, un, x) THEN BlocksOf(ChainOf(R, x).chain) ELSE <<>>

\* record_blocks: without a duplicate no block is claimed twice.
LEMMA ClaimsIs ==
  ASSUME NEW R, DiskOK(R), NEW un
  PROVE  /\ Duplicates(R, un) \in Nat
         /\ Duplicates(R, un) = 0 =>
              \A a, b \in 1..Len(Tree(R, un)) :
                \A i \in 1..Len(ClaimedBy(R, un, Tree(R, un)[a])), j \in 1..Len(ClaimedBy(R, un, Tree(R, un)[b])) :
                  ClaimedBy(R, un, Tree(R, un)[a])[i] = ClaimedBy(R, un, Tree(R, un)[b])[j] => a = b /\ i = j
<1> DEFINE q == Tree(R, un)
           B == Spare \cup DataBlocks
           f == [i \in DOMAIN q |-> ClaimedBy(R, un, q[i])]
           n == Len(q)
           Y == Seq(B)
<1>1. q \in Seq(TreeNodes)
  BY TreeIs
<1>2. Claims(R, un) = FlattenSeq(f)
  BY Zenon DEF Claims, ClaimedBy
<1>3. ASSUME NEW x \in TreeNodes PROVE ClaimedBy(R, un, x) \in Seq(B)
  <2>1. BlocksOf(ChainOf(R, x).chain) \in Seq(B)
    BY NodeIs
  <2> HIDE DEF B
  <2> QED BY <2>1 DEF ClaimedBy
<1> HIDE DEF q
<1>4. n \in Nat /\ DOMAIN q = 1..n /\ \A i \in 1..n : q[i] \in TreeNodes
  <2> DEFINE X == TreeNodes
  <2>1. q \in Seq(X)
    BY <1>1
  <2> HIDE DEF X
  <2>2. n \in Nat /\ DOMAIN q = 1..n /\ \A i \in 1..n : q[i] \in X
    BY <2>1
  <2> QED BY <2>2 DEF X
<1>5. f \in Seq(Y) /\ Len(f) = n /\ \A i \in 1..n : f[i] = ClaimedBy(R, un, q[i])
  <2>1. f = [i \in 1..n |-> ClaimedBy(R, un, q[i])]
    BY <1>4
  <2>2. \A i \in 1..n : ClaimedBy(R, un, q[i]) \in Y
    BY <1>3, <1>4
  <2> HIDE DEF f, Y, n
  <2> QED BY <1>4, <2>1, <2>2
<1> HIDE DEF f, B
<1>6. FlattenSeq(f) \in Seq(B)
  BY <1>5, FlattenHas
<1>7. Duplicates(R, un) = Repeats(FlattenSeq(f))
  BY <1>2 DEF Duplicates, Repeats
<1>8. Repeats(FlattenSeq(f)) \in Nat
  BY <1>6, RepeatsIs
<1>9. Repeats(FlattenSeq(f)) = 0 =>
        \A a, b \in 1..Len(f) : \A i \in 1..Len(f[a]), j \in 1..Len(f[b]) :
           f[a][i] = f[b][j] => a = b /\ i = j
  BY <1>5, FlattenApart
<1> HIDE DEF n
<1>10. Repeats(FlattenSeq(f)) = 0 =>
        \A a, b \in 1..n :
          \A i \in 1..Len(ClaimedBy(R, un, q[a])), j \in 1..Len(ClaimedBy(R, un, q[b])) :
            ClaimedBy(R, un, q[a])[i] = ClaimedBy(R, un, q[b])[j] => a = b /\ i = j
  BY <1>5, <1>9
<1> QED BY <1>7, <1>8, <1>10 DEF n, q

\* The counters of the device.
LEMMA CountFreeIs ==
  ASSUME NEW R, DiskOK(R), NEW root, RootOK(root), NEW un
  PROVE  Bits(R, un) \in Nat /\ ReservedCountFree(root) \in Nat
<1>1. LoadDataBitmap(R) \subseteq DataBlocks /\ LoadReservedBitmap(root) \subseteq Spare
  BY LoadedSync DEF RootOK, LoadReservedBitmap
<1> QED BY <1>1, SpareFinite, FS_Subset, FS_CardinalityType DEF Bits, BitmapCountFree, ReservedCountFree

\* A report without a finding: each of the checks found nothing.
LEMMA NothingReported ==
  ASSUME NEW R, DiskOK(R), NEW root, NEW un, Report(R, root, un) = NoReport
  PROVE  /\ Len(Broken(R, un)) = 0 /\ Len(Unlisted(R, un)) = 0
         /\ Duplicates(R, un) = 0 /\ Len(WrongSize(R, un)) = 0
         /\ ~IsRootUnlisted(R, un) /\ ~IsFreeWrong(R, root, un) /\ ~IsReservedWrong(root, un)
<1>1. \A P \in BOOLEAN : One(P) \in Nat /\ (One(P) = 0 => ~P)
  BY DEF One
<1>2. PICK e0 \in Nat, w1 \in Nat, w2 \in Nat :
        /\ e0 = One(IsRootUnlisted(R, un)) /\ (e0 = 0 => ~IsRootUnlisted(R, un))
        /\ w1 = One(IsFreeWrong(R, root, un)) /\ (w1 = 0 => ~IsFreeWrong(R, root, un))
        /\ w2 = One(IsReservedWrong(root, un)) /\ (w2 = 0 => ~IsReservedWrong(root, un))
  <2>1. /\ IsRootUnlisted(R, un) \in BOOLEAN /\ IsFreeWrong(R, root, un) \in BOOLEAN
        /\ IsReservedWrong(root, un) \in BOOLEAN
    BY DEF IsRootUnlisted, IsFreeWrong, IsReservedWrong
  <2> QED BY <1>1, <2>1, Zenon
<1>3. PICK b \in Nat, u \in Nat, d \in Nat, w \in Nat :
        b = Len(Broken(R, un)) /\ u = Len(Unlisted(R, un)) /\ d = Duplicates(R, un)
        /\ w = Len(WrongSize(R, un))
  BY BrokenIs, UnlistedIs, ClaimsIs, WrongSizeIs
<1>4. Report(R, root, un) = [errors |-> e0 + u + b + d, warnings |-> w + w1 + w2]
  BY <1>2, <1>3, Zenon DEF Report
<1>5. e0 + u + b + d = 0 /\ w + w1 + w2 = 0
  BY <1>4 DEF NoReport
<1>6. e0 = 0 /\ b = 0 /\ u = 0 /\ d = 0 /\ w = 0 /\ w1 = 0 /\ w2 = 0
  BY <1>5
<1> QED BY <1>2, <1>3, <1>6

\* A scan without an error has seen the whole tree: no read of it failed.
LEMMA WholeTree ==
  ASSUME NEW R, DiskOK(R), NEW un, ~IsRootUnlisted(R, un),
         \A i \in 1..Len(Tree(R, un)) :
           ~IsBroken(R, un, Tree(R, un)[i]) /\ ~IsUnlisted(R, un, Tree(R, un)[i])
  PROVE  Tree(R, un) = Tree(R, {})
<1> DEFINE q == Here(R, un, RootDir)
           E(x) == IF x.e.type = "dir" /\ IsChainRead(R, un, x)
                     THEN <<x>> \o Here(R, un, x.e.anode) ELSE <<x>>
           F(x) == IF x.e.type = "dir" /\ IsChainRead(R, {}, x)
                     THEN <<x>> \o Here(R, {}, x.e.anode) ELSE <<x>>
           f == [i \in DOMAIN q |-> E(q[i])]
           X == TreeNodes
<1>1. Tree(R, un) = FlattenSeq(f)
  BY Zenon DEF Tree
<1>2. q \in Seq(X) /\ \A d \in Nat : Here(R, un, d) \in Seq(X)
  BY Constants, HereIs
<1>3. Here(R, {}, RootDir) = q
  BY Zenon DEF Here, IsRootUnlisted
<1>4. ASSUME NEW x \in X PROVE E(x) \in Seq(X) /\ E(x)[1] = x /\ 1 \in DOMAIN E(x)
  <2>1. x.e.anode \in Nat
    BY NodeIs
  <2>2. PICK h \in Seq(X) : h = Here(R, un, x.e.anode)
    BY <1>2, <2>1
  <2> HIDE DEF X
  <2>3. <<x>> \in Seq(X) /\ <<x>> \o h \in Seq(X) /\ (<<x>> \o h)[1] = x
        /\ 1 \in DOMAIN (<<x>> \o h) /\ 1 \in DOMAIN <<x>> /\ <<x>>[1] = x
    BY <1>4
  <2>4. E(x) = <<x>> \/ E(x) = <<x>> \o h
    BY <2>2, Zenon
  <2> HIDE DEF E
  <2> QED BY <2>3, <2>4
<1> HIDE DEF E, X
<1>5. DOMAIN q = 1..Len(q) /\ Len(q) \in Nat /\ \A i \in DOMAIN q : q[i] \in X
  <2> HIDE DEF q
  <2> QED BY <1>2
<1> HIDE DEF q
<1>6. f \in Seq(Seq(X))
  <2> DEFINE n == Len(q)
             Y == Seq(X)
  <2>1. n \in Nat /\ DOMAIN q = 1..n /\ \A i \in 1..n : q[i] \in X
    BY <1>5
  <2>2. \A i \in 1..n : E(q[i]) \in Y
    BY <1>4, <2>1
  <2>3. f = [i \in 1..n |-> E(q[i])]
    BY <2>1
  <2> HIDE DEF n, Y, f
  <2>4. f \in [1..n -> Y]
    BY <2>2, <2>3
  <2>5. f \in Seq(Y)
    BY <2>1, <2>4
  <2> QED BY <2>5 DEF Y
<1>7. \A i \in DOMAIN q : f[i] = E(q[i]) /\ i \in DOMAIN f
  BY Zenon
<1> HIDE DEF f
<1>8. /\ FlattenSeq(f) \in Seq(X)
      /\ \A a \in DOMAIN f : \A j \in DOMAIN f[a] :
           \E p \in DOMAIN FlattenSeq(f) : FlattenSeq(f)[p] = f[a][j]
  BY <1>6, FlattenHas
<1>9. \A i \in DOMAIN q : E(q[i]) = F(q[i])
  <2> SUFFICES ASSUME NEW i \in DOMAIN q PROVE E(q[i]) = F(q[i])
    OBVIOUS
  <2>1. PICK x \in X : x = q[i]
    BY <1>5
  <2>2. 1 \in DOMAIN f[i] /\ f[i][1] = x
    BY <1>4, <1>7, <2>1
  <2>3. PICK p \in DOMAIN Tree(R, un) : Tree(R, un)[p] = x
    <3>1. \E p \in DOMAIN FlattenSeq(f) : FlattenSeq(f)[p] = f[i][1]
      BY <1>7, <1>8, <2>2
    <3> QED BY <1>1, <2>2, <3>1
  <2>4. p \in 1..Len(Tree(R, un))
    BY <1>1, <1>8
  <2>5. ~IsBroken(R, un, x) /\ ~IsUnlisted(R, un, x)
    BY <2>3, <2>4
  <2>6. x.e.type = "dir" => IsChainRead(R, un, x) /\ <<"list", x.e.anode>> \notin un
    BY <2>5 DEF IsBroken, IsUnlisted, IsScanned
  <2>7. x.e.type = "dir" => IsChainRead(R, {}, x)
    BY <2>6 DEF IsChainRead
  <2>8. x.e.type = "dir" => Here(R, un, x.e.anode) = Here(R, {}, x.e.anode)
    BY <2>6, Zenon DEF Here
  <2> QED BY <2>1, <2>6, <2>7, <2>8, Zenon DEF E
<1>10. f = [i \in DOMAIN q |-> F(q[i])]
  <2>1. f = [i \in DOMAIN q |-> E(q[i])]
    BY Zenon DEF f
  <2> QED BY <1>9, <2>1, Zenon
<1>11. Tree(R, {}) = FlattenSeq([i \in DOMAIN q |-> F(q[i])])
  BY <1>3, Zenon DEF Tree
<1> QED BY <1>1, <1>10, <1>11

-----------------------------------------------------------------------------
(* What nothing to report means *)

\* A file is read to its size when its chain is long enough.
LEMMA ReadLength ==
  ASSUME NEW R, NEW data, NEW S, NEW anode, NEW size \in Nat,
         BlocksOf(GetChain(R, anode).chain) \in Seq(S),
         ~(Len(BlocksOf(GetChain(R, anode).chain)) < size)
  PROVE  Len(ReadFileData(R, data, anode, size)) = size
<1> DEFINE q == BlocksOf(GetChain(R, anode).chain)
           l == Len(q)
           n == Min({size, l})
           f == [i \in 1..n |-> ReadBlock(data, q[i])]
<1>1. ReadFileData(R, data, anode, size) = f
  BY DEF ReadFileData
<1>2. l \in Nat /\ size <= l
  <2>1. q \in Seq(S) /\ ~(Len(q) < size)
    OBVIOUS
  <2> HIDE DEF q
  <2> QED BY <2>1
<1> HIDE DEF l
<1>3. n = size
  <2> DEFINE T == {size, l}
  <2>1. T \in SUBSET Nat /\ T # {}
    BY <1>2
  <2>2. Min(T) \in T /\ \A x \in T : Min(T) <= x
    <3> HIDE DEF T
    <3> QED BY <2>1, MinOf
  <2>3. size \in T /\ \A x \in T : x = size \/ x = l
    OBVIOUS
  <2> HIDE DEF T
  <2>4. Min(T) \in Nat /\ Min(T) <= size /\ (Min(T) = size \/ Min(T) = l)
    BY <1>2, <2>1, <2>2, <2>3
  <2>5. Min(T) = size
    BY <1>2, <2>4
  <2> QED BY <2>5 DEF T
<1> HIDE DEF n, q
<1>4. Len(f) = n
  BY <1>3
<1> QED BY <1>1, <1>3, <1>4

\* Entries of the tree that are scanned, and what a clean scan says of them.
Scanned(R) == {x \in ToSet(Tree(R, {})) : x.e.type \in {"dir", "file"}}

Sound(R, data) ==
  \A x \in Scanned(R) :
    /\ ChainOf(R, x).ok
    /\ IsInjective(BlocksOf(ChainOf(R, x).chain))
    /\ x.e.type = "file" => Len(ReadFileData(R, data, x.e.anode, x.e.size)) = x.e.size
    /\ \A y \in Scanned(R) \ {x} :
         ToSet(BlocksOf(ChainOf(R, x).chain)) \cap ToSet(BlocksOf(ChainOf(R, y).chain)) = {}

\* A scan without a finding: every scanned entry is sound.
LEMMA ScanSound ==
  ASSUME NEW R, DiskOK(R), NEW data, NEW root, NEW un, Report(R, root, un) = NoReport
  PROVE  Sound(R, data)
<1> DEFINE t == Tree(R, un)
           Q(x) == BlocksOf(ChainOf(R, x).chain)
<1>1. /\ Len(Broken(R, un)) = 0 /\ Len(Unlisted(R, un)) = 0 /\ Duplicates(R, un) = 0
      /\ Len(WrongSize(R, un)) = 0 /\ ~IsRootUnlisted(R, un)
  BY NothingReported
<1>2. t \in Seq(TreeNodes)
  BY TreeIs
<1>3. /\ \A i \in 1..Len(t) : ~IsBroken(R, un, t[i]) /\ ~IsShort(R, un, t[i])
      /\ \A a, b \in 1..Len(t) :
           \A i \in 1..Len(ClaimedBy(R, un, t[a])), j \in 1..Len(ClaimedBy(R, un, t[b])) :
             ClaimedBy(R, un, t[a])[i] = ClaimedBy(R, un, t[b])[j] => a = b /\ i = j
  BY <1>1, BrokenIs, WrongSizeIs, ClaimsIs
<1>31. t = Tree(R, {})
  BY <1>1, BrokenIs, UnlistedIs, WholeTree
<1> HIDE DEF t
<1>4. DOMAIN t = 1..Len(t) /\ \A i \in 1..Len(t) : t[i] \in TreeNodes
  <2> DEFINE X == TreeNodes
  <2>1. t \in Seq(X)
    BY <1>2
  <2> HIDE DEF X
  <2>2. DOMAIN t = 1..Len(t) /\ \A i \in 1..Len(t) : t[i] \in X
    BY <2>1
  <2> QED BY <2>2 DEF X
<1>5. \A x \in Scanned(R) : x \in TreeNodes /\ x.e.type \in {"dir", "file"} /\ \E i \in 1..Len(t) : x = t[i]
  <2>1. ToSet(t) = {t[i] : i \in 1..Len(t)}
    BY <1>4 DEF ToSet
  <2> QED BY <1>4, <1>31, <2>1 DEF Scanned
<1>6. ASSUME NEW x \in Scanned(R)
      PROVE  /\ ChainOf(R, x).ok /\ IsScanned(R, un, x) /\ ClaimedBy(R, un, x) = Q(x)
             /\ Q(x) \in Seq(Spare \cup DataBlocks)
  <2>1. PICK i \in 1..Len(t) : x = t[i]
    BY <1>5
  <2>2. x \in TreeNodes /\ x.e.type \in {"dir", "file"}
    BY <1>5
  <2>3. ChainOf(R, x).ok
    BY <1>3, <2>1, <2>2 DEF IsBroken, IsChainRead
  <2>4. Q(x) \in Seq(Spare \cup DataBlocks)
    BY <2>2, NodeIs
  <2>5. IsScanned(R, un, x)
    BY <1>3, <2>1, <2>2 DEF IsBroken, IsScanned
  <2> QED BY <2>2, <2>3, <2>4, <2>5, Zenon DEF ClaimedBy
<1>7. ASSUME NEW x \in Scanned(R), NEW y \in Scanned(R), NEW i \in 1..Len(Q(x)), NEW j \in 1..Len(Q(y)),
             Q(x)[i] = Q(y)[j]
      PROVE  x = y /\ (x = y => i = j)
  <2>1. PICK a \in 1..Len(t) : x = t[a]
    BY <1>5
  <2>2. PICK b \in 1..Len(t) : y = t[b]
    BY <1>5
  <2>3. ClaimedBy(R, un, x) = Q(x) /\ ClaimedBy(R, un, y) = Q(y)
    BY <1>6
  <2> HIDE DEF Q
  <2>4. ClaimedBy(R, un, t[a])[i] = ClaimedBy(R, un, t[b])[j]
    BY <1>7, <2>1, <2>2, <2>3
  <2>5. i \in 1..Len(ClaimedBy(R, un, t[a])) /\ j \in 1..Len(ClaimedBy(R, un, t[b]))
    BY <2>1, <2>2, <2>3
  <2>6. a = b /\ i = j
    BY <1>3, <2>4, <2>5
  <2> QED BY <2>1, <2>2, <2>6
<1> SUFFICES ASSUME NEW x \in Scanned(R)
             PROVE  /\ ChainOf(R, x).ok
                    /\ IsInjective(Q(x))
                    /\ x.e.type = "file" => Len(ReadFileData(R, data, x.e.anode, x.e.size)) = x.e.size
                    /\ \A y \in Scanned(R) \ {x} : ToSet(Q(x)) \cap ToSet(Q(y)) = {}
  BY DEF Sound
<1>8. DOMAIN Q(x) = 1..Len(Q(x)) /\ \A y \in Scanned(R) : DOMAIN Q(y) = 1..Len(Q(y))
  <2> SUFFICES ASSUME NEW y \in Scanned(R) PROVE DOMAIN Q(y) = 1..Len(Q(y))
    OBVIOUS
  <2> DEFINE B == Spare \cup DataBlocks
  <2>1. Q(y) \in Seq(B)
    BY <1>6
  <2> HIDE DEF B, Q
  <2> QED BY <2>1
<1>9. IsInjective(Q(x))
  <2> SUFFICES ASSUME NEW i \in DOMAIN Q(x), NEW j \in DOMAIN Q(x), Q(x)[i] = Q(x)[j] PROVE i = j
    BY DEF IsInjective
  <2> HIDE DEF Q
  <2> QED BY <1>7, <1>8
<1>10. ASSUME NEW y \in Scanned(R) \ {x} PROVE ToSet(Q(x)) \cap ToSet(Q(y)) = {}
  <2> SUFFICES ASSUME NEW b \in ToSet(Q(x)) \cap ToSet(Q(y)) PROVE FALSE
    OBVIOUS
  <2>1. PICK i \in DOMAIN Q(x) : b = Q(x)[i]
    BY Zenon DEF ToSet
  <2>2. PICK j \in DOMAIN Q(y) : b = Q(y)[j]
    BY Zenon DEF ToSet
  <2> HIDE DEF Q
  <2>3. y \in Scanned(R) /\ x # y
    OBVIOUS
  <2>4. i \in 1..Len(Q(x)) /\ j \in 1..Len(Q(y)) /\ Q(x)[i] = Q(y)[j]
    BY <1>8, <2>1, <2>2, <2>3
  <2> QED BY <1>7, <2>3, <2>4
<1>11. ASSUME x.e.type = "file" PROVE Len(ReadFileData(R, data, x.e.anode, x.e.size)) = x.e.size
  <2>1. PICK i \in 1..Len(t) : x = t[i]
    BY <1>5
  <2>2. ~IsShort(R, un, x) /\ ChainOf(R, x).ok /\ x \in TreeNodes
    BY <1>3, <1>5, <1>6, <2>1
  <2>21. IsScanned(R, un, x)
    BY <1>6
  <2>3. ~(Len(Q(x)) < x.e.size)
    BY <1>11, <2>2, <2>21 DEF IsShort, IsScanned
  <2>4. /\ x.e.size \in Nat /\ ChainOf(R, x) = GetChain(R, x.e.anode)
        /\ BlocksOf(ChainOf(R, x).chain) \in Seq(Spare \cup DataBlocks)
    BY <2>2, NodeIs
  <2> QED BY <2>3, <2>4, ReadLength
<1> QED BY <1>6, <1>9, <1>10, <1>11

-----------------------------------------------------------------------------
(* The command *)

Repairs == [do : {"blocksfree", "reserved_free"}, n : Int]
             \cup [do : {"remove"}, dir : Nat, name : Names]

\* The inductive invariant: a scan that found something is what repairs are
\* made for, and after one that found nothing the device is as it was.
CheckInv ==
  /\ Steady(0) /\ Counts
  /\ DOMAIN checker = {"phase", "report", "plan", "unread", "failed", "damage"}
  /\ checker.phase = "repair" =>
       checker.plan \in Seq(Repairs) /\ checker.plan # <<>> /\ checker.report # NoReport
  /\ checker.phase \in {"done", "repaired"} /\ checker.report = NoReport =>
       Report(device.res, device.root, checker.unread) = NoReport

\* The repairs that are planned.
LEMMA PlanIs ==
  ASSUME NEW R, DiskOK(R), NEW root, RootOK(root), NEW un
  PROVE  /\ Plan(R, root, un) \in Seq(Repairs)
         /\ Report(R, root, un) = NoReport => Plan(R, root, un) = <<>>
<1> DEFINE X == Repairs
           r1 == [do |-> "blocksfree", n |-> Bits(R, un)]
           r2 == [do |-> "reserved_free", n |-> ReservedCountFree(root)]
           b == Broken(R, un)
           f == [i \in DOMAIN b |-> [do |-> "remove", dir |-> b[i].dir, name |-> b[i].e.name]]
           p1 == IF IsFreeWrong(R, root, un) THEN <<r1>> ELSE <<>>
           p2 == IF IsReservedWrong(root, un) THEN <<r2>> ELSE <<>>
<1>1. Plan(R, root, un) = p1 \o p2 \o f
  BY Zenon DEF Plan
<1>2. r1 \in X /\ r2 \in X
  BY CountFreeIs DEF Repairs
<1>3. f \in Seq(X) /\ (Len(b) = 0 => f = <<>>)
  <2> DEFINE Y == TreeNodes
             n == Len(b)
  <2>1. b \in Seq(Y)
    BY BrokenIs
  <2> HIDE DEF b
  <2>2. n \in Nat /\ DOMAIN b = 1..n /\ \A i \in 1..n : b[i] \in Y
    <3> HIDE DEF Y
    <3> QED BY <2>1
  <2>3. ASSUME NEW x \in Y PROVE [do |-> "remove", dir |-> x.dir, name |-> x.e.name] \in X
    <3>1. x.dir \in Nat /\ x.e.name \in Names
      BY <2>3, NodeIs
    <3> QED BY <3>1 DEF Repairs
  <2>4. f = [i \in 1..n |-> [do |-> "remove", dir |-> b[i].dir, name |-> b[i].e.name]]
    BY <2>2
  <2>5. f \in [1..n -> X]
    BY <2>2, <2>3, <2>4
  <2> HIDE DEF f, X, n
  <2>6. f \in Seq(X) /\ (n = 0 => f = <<>>)
    BY <2>2, <2>5
  <2> QED BY <2>6 DEF n
<1>4. Report(R, root, un) = NoReport =>
        Len(b) = 0 /\ ~IsFreeWrong(R, root, un) /\ ~IsReservedWrong(root, un)
  BY NothingReported
<1> HIDE DEF X, r1, r2, f, b
<1>5. p1 \in Seq(X) /\ p2 \in Seq(X)
  BY <1>2
<1>6. p1 \o p2 \o f \in Seq(X)
  BY <1>3, <1>5
<1>7. Report(R, root, un) = NoReport => p1 \o p2 \o f = <<>>
  <2> SUFFICES ASSUME Report(R, root, un) = NoReport PROVE p1 \o p2 \o f = <<>>
    OBVIOUS
  <2>1. p1 = <<>> /\ p2 = <<>> /\ f = <<>>
    BY <1>3, <1>4
  <2> HIDE DEF p1, p2
  <2> QED BY <2>1
<1> QED BY <1>1, <1>6, <1>7 DEF X

\* The invariant after a scan.
LEMMA ScanInv ==
  ASSUME CheckInv, NEW repair \in BOOLEAN, NEW un, Scanning(repair, un)
  PROVE  CheckInv'
<1> DEFINE plan == IF repair THEN Plan(device.res, device.root, un) ELSE <<>>
           phase == IF ~repair THEN "done" ELSE IF plan = <<>> THEN "repaired" ELSE "repair"
           rep == Report(device.res, device.root, un)
<1>1. /\ Cardinality(un) \in 0..(MaxFaults - count.faults)
      /\ count' = [count EXCEPT !.faults = @ + Cardinality(un)]
      /\ checker' = [checker EXCEPT !.phase = phase, !.report = rep, !.plan = plan,
                                    !.unread = un, !.failed = FALSE]
      /\ mem' = Loaded(device.res, device.root)
      /\ device' = device
  BY Zenon DEF Scanning
<1>2. DiskOK(device.res) /\ RootOK(device.root) /\ device.data \in [DataBlocks -> DataVal]
  BY SteadyIs DEF CheckInv
<1>3. Steady(0)'
  <2>1. Good(0, device.res, Opened(device, Loaded(device.res, device.root)))
    BY <1>2, LoadedGood
  <2>2. Start(-1, FALSE)' = Opened(device', mem')
    BY DEF Start, Opened
  <2>3. Good(0, device.res, Start(-1, FALSE))'
    BY <1>1, <2>1, <2>2
  <2>4. DOMAIN device' = {"res", "root", "data"}
    BY <1>1 DEF CheckInv, Steady
  <2>5. ~(0 >= 1)
    OBVIOUS
  <2> QED BY <2>3, <2>4, <2>5, Zenon DEF Steady
<1>4. Counts'
  BY <1>1 DEF CheckInv, Counts
<1>5. plan \in Seq(Repairs) /\ (rep = NoReport => plan = <<>>)
  <2>1. <<>> \in Seq(Repairs)
    <3> DEFINE X == Repairs
    <3> HIDE DEF X
    <3>1. <<>> \in Seq(X)
      OBVIOUS
    <3> QED BY <3>1 DEF X
  <2> QED BY <1>2, <2>1, PlanIs
<1>6. phase = "repair" => plan # <<>>
  OBVIOUS
<1> HIDE DEF plan, phase
<1>7. /\ checker'.phase = phase /\ checker'.report = rep /\ checker'.plan = plan
      /\ checker'.unread = un
      /\ DOMAIN checker' = {"phase", "report", "plan", "unread", "failed", "damage"}
  BY <1>1 DEF CheckInv
<1>8. Report(device'.res, device'.root, checker'.unread) = rep
  BY <1>1, <1>7
<1> HIDE DEF rep
<1> QED BY <1>3, <1>4, <1>5, <1>6, <1>7, <1>8, Zenon DEF CheckInv

\* An anode that goes bad still fits its block.
LEMMA LoopFits ==
  ASSUME NEW R, DiskOK(R), NEW a \in Nat, HasAnode(R, a), NEW b, NEW off,
         b = ResolveAnodeBlock(R, SeqOfAnode(a)), off = OffOfAnode(a), NEW Q,
         Q = [R EXCEPT ![b].slots[off].nx = a]
  PROVE  DiskOK(Q)
<1>1. b \in Spare /\ off \in 0..(AnodesPerBlock - 1)
  BY AnodeAt
<1>2. b \in ResBlocks
  BY <1>1, SpareFinite
<1>3. R = [x \in ResBlocks |-> R[x]] /\ \A x \in ResBlocks : Fits(x, R[x])
  BY DEF DiskOK
<1>4. R[b] \in AnodeBlocks
  <2>1. PendOK(<<>>)
    BY DEF PendOK
  <2>2. BlockAt(R, b).k = "AB"
    BY DEF HasAnode, IsAnodeBlock
  <2> QED BY <2>1, <2>2, SeenKind
<1> DEFINE old == R[b].slots[off]
           new == [old EXCEPT !.nx = a]
           c == SlotPut(R[b], off, new)
<1>5. old \in Slot
  BY <1>1, <1>4 DEF AnodeBlocks
<1>6. new \in Slot
  <2> HIDE DEF old
  <2> QED BY <1>5 DEF Slot
<1>7. Fits(b, c)
  <2> HIDE DEF new
  <2> QED BY <1>1, <1>2, <1>3, <1>6, SlotPutFits
<1>8. Q = [R EXCEPT ![b] = c]
  BY DEF SlotPut
<1> HIDE DEF c
<1>9. Q = [x \in ResBlocks |-> Q[x]] /\ \A x \in ResBlocks : Q[x] = IF x = b THEN c ELSE R[x]
  BY <1>2, <1>3, <1>8
<1> QED BY <1>3, <1>7, <1>9 DEF DiskOK

\* The invariant after an anode went bad.
LEMMA DamageInv ==
  ASSUME CheckInv, Damage
  PROVE  CheckInv'
<1>1. PICK a \in UserAnodes :
        /\ HasAnode(device.res, a)
        /\ device' = [device EXCEPT !.res[ResolveAnodeBlock(device.res, SeqOfAnode(a))]
                                      .slots[OffOfAnode(a)].nx = a]
  BY DEF Damage
<1>2. /\ checker.phase = "idle" /\ mem' = Loaded(device'.res, device'.root) /\ count' = count
      /\ checker' = [checker EXCEPT !.damage = @ + 1]
  BY DEF Damage
<1>3. DiskOK(device.res) /\ RootOK(device.root) /\ device.data \in [DataBlocks -> DataVal]
  BY SteadyIs DEF CheckInv
<1>4. a \in Nat
  <2>1. PICK q \in 0..(MaxSeqnr - 1), o \in UserFirst..(AnodesPerBlock - 1) : a = q * Stride + o
    BY DEF UserAnodes
  <2>2. q \in Nat /\ o \in Nat /\ Stride \in Nat
    BY Constants
  <2> QED BY <2>1, <2>2
<1>5. PICK b, off : b = ResolveAnodeBlock(device.res, SeqOfAnode(a)) /\ off = OffOfAnode(a)
  OBVIOUS
<1> DEFINE Q == [device.res EXCEPT ![b].slots[off].nx = a]
<1>6. DiskOK(Q)
  BY <1>1, <1>3, <1>4, <1>5, LoopFits
<1>7. device' = [device EXCEPT !.res = Q]
  BY <1>1, <1>5
<1> HIDE DEF Q
<1>8. DOMAIN device = {"res", "root", "data"}
  BY DEF CheckInv, Steady
<1>9. device'.res = Q /\ device'.root = device.root /\ device'.data = device.data
      /\ DOMAIN device' = {"res", "root", "data"}
  BY <1>7, <1>8
<1>10. PICK dev : dev = device'
  OBVIOUS
<1>11. Good(0, dev.res, Opened(dev, Loaded(dev.res, dev.root)))
  <2>1. DiskOK(dev.res) /\ RootOK(dev.root) /\ dev.data \in [DataBlocks -> DataVal]
    BY <1>3, <1>6, <1>9, <1>10
  <2> QED BY <2>1, LoadedGood
<1>12. Steady(0)'
  <2>1. Start(-1, FALSE)' = Opened(device', mem')
    BY DEF Start, Opened
  <2>2. Good(0, device.res, Start(-1, FALSE))'
    BY <1>2, <1>10, <1>11, <2>1
  <2>3. ~(0 >= 1)
    OBVIOUS
  <2> QED BY <1>9, <2>2, <2>3, Zenon DEF Steady
<1>13. Counts'
  BY <1>2 DEF CheckInv, Counts
<1>14. checker'.phase = "idle" /\ DOMAIN checker' = {"phase", "report", "plan", "unread", "failed", "damage"}
  BY <1>2 DEF CheckInv
<1> QED BY <1>12, <1>13, <1>14 DEF CheckInv

\* Every repair ends in a commit or in an error.
LEMMA RepairDone ==
  ASSUME NEW R, NEW s, Good(0, R, s), s.ok, NEW r \in Repairs
  PROVE  Done(0, Repair(s, r))
<1>1. DOMAIN s = StateFields
  BY DEF Good
<1>2. CASE r \in [do : {"blocksfree", "reserved_free"}, n : Int]
  <2>1. r.n \in Int /\ r.do \in {"blocksfree", "reserved_free"}
    BY <1>2
  <2> DEFINE t == [s EXCEPT !.bfree = r.n]
             u == [s EXCEPT !.rfree = r.n]
  <2>2. CASE r.do = "blocksfree"
    <3>1. Repair(s, r) = UpdateRootblock(t)
      BY <2>2, Zenon DEF Repair
    <3>2. /\ DOMAIN t = StateFields /\ t.res = s.res /\ t.root = s.root /\ t.data = s.data
          /\ t.pend = s.pend /\ t.free = s.free /\ t.rbm = s.rbm /\ t.bfree = r.n
          /\ t.rfree = s.rfree /\ t.fuel = s.fuel /\ t.ok = s.ok
      BY <1>1 DEF StateFields
    <3> HIDE DEF t
    <3>3. Good(0, R, t) /\ t.ok
      BY <2>1, <3>2 DEF Good, Parts
    <3>4. Good(0, UpdateRootblock(t).res, UpdateRootblock(t))
          /\ (UpdateRootblock(t).ok => Committed(UpdateRootblock(t)))
      BY <3>3, CommitGood
    <3> QED BY <3>1, <3>4 DEF Done
  <2>3. CASE r.do = "reserved_free"
    <3>1. Repair(s, r) = UpdateRootblock(u)
      <4>1. r.do # "blocksfree" /\ r.do # "remove"
        BY <2>3
      <4> QED BY <2>3, <4>1, Zenon DEF Repair
    <3>2. /\ DOMAIN u = StateFields /\ u.res = s.res /\ u.root = s.root /\ u.data = s.data
          /\ u.pend = s.pend /\ u.free = s.free /\ u.rbm = s.rbm /\ u.bfree = s.bfree
          /\ u.rfree = r.n /\ u.fuel = s.fuel /\ u.ok = s.ok
      BY <1>1 DEF StateFields
    <3> HIDE DEF u
    <3>3. Good(0, R, u) /\ u.ok
      BY <2>1, <3>2 DEF Good, Parts
    <3>4. Good(0, UpdateRootblock(u).res, UpdateRootblock(u))
          /\ (UpdateRootblock(u).ok => Committed(UpdateRootblock(u)))
      BY <3>3, CommitGood
    <3> QED BY <3>1, <3>4 DEF Done
  <2> QED BY <2>1, <2>2, <2>3
<1>3. CASE r \in [do : {"remove"}, dir : Nat, name : Names]
  <2>1. r.do = "remove" /\ r.dir \in Nat
    BY <1>3
  <2> DEFINE t == RemoveDirEntry(s, r.dir, r.name)
  <2>2. Repair(s, r) = IF t.ok THEN UpdateRootblock(t) ELSE t
    <3>1. r.do # "blocksfree" /\ r.do # "reserved_free"
      BY <2>1
    <3> QED BY <2>1, <3>1, Zenon DEF Repair, Then
  <2>3. Good(0, R, t)
    BY <2>1, RemoveEntryGood
  <2> HIDE DEF t
  <2>4. Done(0, IF t.ok THEN UpdateRootblock(t) ELSE t)
    BY <2>3, CommitDone
  <2> QED BY <2>2, <2>4
<1> QED BY <1>2, <1>3 DEF Repairs

\* The invariant after a repair, complete, failed or killed.
LEMMA RepairStepInv ==
  ASSUME CheckInv, RepairStep
  PROVE  CheckInv'
<1>1. PICK r : r = Head(checker.plan)
  OBVIOUS
<1>2. /\ checker.phase = "repair" /\ checker.plan \in Seq(Repairs) /\ checker.plan # <<>>
      /\ checker.report # NoReport
  BY DEF RepairStep, CheckInv
<1>3. r \in Repairs /\ Tail(checker.plan) \in Seq(Repairs)
  <2> DEFINE X == Repairs
  <2>1. checker.plan \in Seq(X) /\ checker.plan # <<>>
    BY <1>2
  <2> HIDE DEF X
  <2>2. Head(checker.plan) \in X /\ Tail(checker.plan) \in Seq(X)
    BY <2>1
  <2> QED BY <1>1, <2>2 DEF X
<1>4. \/ Settle("repair", Repair(Start(-1, FALSE), r), "ops")
      \/ \E j \in 0..MaxIo : Settle("repair", Repair(Start(j, FALSE), r), "faults")
      \/ \E j \in 0..MaxIo : Settle("repair", Repair(Start(j, TRUE), r), "kills")
  BY <1>1, Zenon DEF RepairStep, Perform
<1>5. Steady(0) /\ Counts
  BY DEF CheckInv
<1>6. Done(0, Repair(Start(-1, FALSE), r))
  BY <1>3, <1>5, StartGood, RepairDone
<1>7. \A j \in 0..MaxIo : Done(0, Repair(Start(j, FALSE), r)) /\ Done(0, Repair(Start(j, TRUE), r))
  <2> SUFFICES ASSUME NEW j \in 0..MaxIo
               PROVE  Done(0, Repair(Start(j, FALSE), r)) /\ Done(0, Repair(Start(j, TRUE), r))
    OBVIOUS
  <2>1. /\ Good(0, device.res, Start(j, FALSE)) /\ Start(j, FALSE).ok
        /\ Good(0, device.res, Start(j, TRUE)) /\ Start(j, TRUE).ok
    BY <1>5, StartGood
  <2> QED BY <1>3, <2>1, RepairDone
<1>8. Ended(0)
  <2>1. CASE Settle("repair", Repair(Start(-1, FALSE), r), "ops")
    BY <1>6, <2>1, Zenon DEF Ended
  <2>2. CASE \E j \in 0..MaxIo : Settle("repair", Repair(Start(j, FALSE), r), "faults")
    BY <1>7, <2>2, Zenon DEF Ended
  <2>3. CASE \E j \in 0..MaxIo : Settle("repair", Repair(Start(j, TRUE), r), "kills")
    <3>1. 0 <= 1
      OBVIOUS
    <3> QED BY <1>7, <2>3, <3>1, Zenon DEF Ended
  <2> QED BY <1>4, <2>1, <2>2, <2>3
<1>9. Steady(0)' /\ Counts'
  BY <1>5, <1>8, EndedSteady
<1>10. PICK killed : Advance(killed, last'.ok)
  BY Zenon DEF RepairStep
<1>11. /\ checker'.report = checker.report
       /\ DOMAIN checker' = {"phase", "report", "plan", "unread", "failed", "damage"}
       /\ checker'.phase = "repair" => checker'.plan = Tail(checker.plan) /\ Tail(checker.plan) # <<>>
  BY <1>10 DEF Advance, CheckInv
<1> QED BY <1>2, <1>3, <1>9, <1>11 DEF CheckInv

\* The invariant after an operation of the writer.
LEMMA WorkInv ==
  ASSUME CheckInv, Work
  PROVE  CheckInv'
<1>1. Next /\ checker' = checker /\ checker.phase = "idle"
  BY DEF Work
<1>2. 0 \in Nat /\ 0 <= Mode
  BY ModeIs
<1>3. Steady(0)' /\ Counts'
  BY <1>1, <1>2, NextSteady DEF CheckInv
<1> QED BY <1>1, <1>3 DEF CheckInv

\* CheckInv is an invariant, for every value of the constants.
THEOREM CheckInvariance == CheckSpec => []CheckInv
<1>1. CheckInit => CheckInv
  <2> SUFFICES ASSUME CheckInit PROVE CheckInv
    OBVIOUS
  <2>1. Steady(0) /\ Counts
    BY InitSteady DEF CheckInit
  <2>2. checker.phase = "idle" /\ DOMAIN checker = {"phase", "report", "plan", "unread", "failed", "damage"}
    BY DEF CheckInit
  <2> QED BY <2>1, <2>2 DEF CheckInv
<1>2. CheckInv /\ [CheckNext]_checkVars => CheckInv'
  <2> SUFFICES ASSUME CheckInv, [CheckNext]_checkVars PROVE CheckInv'
    OBVIOUS
  <2>1. CASE Work
    BY <2>1, WorkInv
  <2>2. CASE Damage
    BY <2>2, DamageInv
  <2>3. CASE \E repair \in BOOLEAN : Scan(repair)
    BY <2>3, ScanInv DEF Scan
  <2>4. CASE RepairStep
    BY <2>4, RepairStepInv
  <2>5. CASE UNCHANGED checkVars
    <3>1. UNCHANGED vars /\ checker' = checker
      BY <2>5 DEF checkVars
    <3>2. 0 \in Nat /\ 0 <= Mode
      BY ModeIs
    <3>3. Steady(0)' /\ Counts'
      BY <3>1, <3>2, NextSteady DEF CheckInv
    <3>4. device' = device
      BY <3>1 DEF vars
    <3> QED BY <3>1, <3>3, <3>4 DEF CheckInv
  <2> QED BY <2>1, <2>2, <2>3, <2>4, <2>5 DEF CheckNext
<1> QED BY <1>1, <1>2, PTL DEF CheckSpec

-----------------------------------------------------------------------------
(* The theorem *)

\* "Filesystem appears clean" (check.rs): when the command reports nothing,
\* every file can be read to its size, its blocks are its own, and each counter
\* is that of its bitmap unless the scan could not read that bitmap, whatever
\* ran, failed, was killed or went bad before and whichever reads failed.
THEOREM CleanReportSound == CheckSpec => []CleanMeansSound
<1>1. CheckInv => CleanMeansSound
  <2> SUFFICES ASSUME CheckInv, checker.phase \in {"done", "repaired"}, checker.report = NoReport
               PROVE  CleanMeansSound
    BY DEF CleanMeansSound
  <2>1. PICK un : un = checker.unread /\ Report(device.res, device.root, un) = NoReport
    BY DEF CheckInv
  <2>2. DiskOK(device.res)
    BY SteadyIs DEF CheckInv
  <2>3. /\ <<"bitmap">> \notin un => device.root.bfree = BitmapCountFree(device.res)
        /\ <<"reserved">> \notin un => device.root.rfree = ReservedCountFree(device.root)
    <3>1. ~IsFreeWrong(device.res, device.root, un) /\ ~IsReservedWrong(device.root, un)
      BY <2>1, <2>2, NothingReported
    <3> QED BY <3>1 DEF IsFreeWrong, IsReservedWrong, Bits
  <2> DEFINE nodes == {x \in ToSet(Tree(device.res, {})) : x.e.type \in {"dir", "file"}}
             blocks == [x \in nodes |-> BlocksOf(ChainOf(device.res, x).chain)]
             Read(x) == ReadFileData(device.res, device.data, x.e.anode, x.e.size)
  <2>4. \A x \in nodes :
           /\ ChainOf(device.res, x).ok
           /\ IsInjective(BlocksOf(ChainOf(device.res, x).chain))
           /\ x.e.type = "file" => Len(Read(x)) = x.e.size
           /\ \A y \in nodes \ {x} :
                ToSet(BlocksOf(ChainOf(device.res, x).chain))
                  \cap ToSet(BlocksOf(ChainOf(device.res, y).chain)) = {}
    <3>1. nodes = Scanned(device.res)
      BY Zenon DEF Scanned
    <3>2. \A x \in Scanned(device.res) :
           /\ ChainOf(device.res, x).ok
           /\ IsInjective(BlocksOf(ChainOf(device.res, x).chain))
           /\ x.e.type = "file" => Len(Read(x)) = x.e.size
           /\ \A y \in Scanned(device.res) \ {x} :
                ToSet(BlocksOf(ChainOf(device.res, x).chain))
                  \cap ToSet(BlocksOf(ChainOf(device.res, y).chain)) = {}
      <4>1. Sound(device.res, device.data)
        BY <2>1, <2>2, ScanSound, Zenon
      <4> QED BY <4>1, Zenon DEF Sound
    <3> HIDE DEF nodes, Read
    <3> QED BY <3>1, <3>2, Zenon
  <2>5. \A x \in nodes : blocks[x] = BlocksOf(ChainOf(device.res, x).chain)
    OBVIOUS
  <2> HIDE DEF blocks, nodes, Read
  <2>6. \A x \in nodes :
           /\ ChainOf(device.res, x).ok /\ IsInjective(blocks[x])
           /\ x.e.type = "file" => Len(Read(x)) = x.e.size
           /\ \A y \in nodes \ {x} : ToSet(blocks[x]) \cap ToSet(blocks[y]) = {}
    BY <2>4, <2>5
  <2> QED BY <2>1, <2>3, <2>6 DEF CleanMeansSound, nodes, blocks, Read
<1> QED BY <1>1, CheckInvariance, PTL

=============================================================================
