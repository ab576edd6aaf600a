---------------------------- MODULE LayoutProofs ----------------------------
(***************************************************************************)
(* Proofs about the directory of Layout, for every set of names, sizes and *)
(* protection specs and every sound directory that a volume may bring.     *)
(* The inductive invariant is SoundDir: a block ends inside its size, an   *)
(* entry is well formed (its fields are where both walks over them look),  *)
(* it is the one that callers were told of, and neither an anode nor a     *)
(* name that callers use has two entries.  An operation moves entries      *)
(* between spots; each lemma *KeepsSound says which spots are new and      *)
(* where the others came from, and Rebuilt concludes from that.            *)
(***************************************************************************)
EXTENDS FormatProofs, SequenceTheorems, NaturalsInduction, WellFoundedInduction

-----------------------------------------------------------------------------
(* Where the entries of a block end *)

\* A set of numbers that is not empty has a least one.
LEMMA FirstOf ==
  ASSUME NEW S \in SUBSET Nat, S # {}
  PROVE  \E m \in S : \A n \in S : m <= n
<1> DEFINE R == OpToRel(<, Nat)
<1>1. IsWellFoundedOn(R, Nat)
  BY NatLessThanWellFounded, Zenon
<1>2. \A m, n \in Nat : <<m, n>> \in R <=> m < n
  BY DEF OpToRel
<1> HIDE DEF R
<1>3. PICK m \in S : \A n \in S : ~(<<n, m>> \in R)
  BY <1>1, WFMin
<1>4. ASSUME NEW n \in S PROVE m <= n
  <2>1. m \in Nat /\ n \in Nat
    OBVIOUS
  <2>2. ~(n < m)
    BY <1>2, <1>3, <2>1
  <2> QED BY <2>1, <2>2
<1> QED BY <1>4

\* An entry's length is a number.
LEMMA EntrySize == \A e \in Entry : e.size \in Nat
BY DEF Entry

\* f holds the positions after the first i entries of block b.
Positions(f, b) ==
  /\ f \in [0..Len(b) -> Int]
  /\ f[0] = HeaderSize
  /\ \A i \in 1..Len(b) : f[i] = f[i - 1] + b[i].size

\* Such a function exists.
LEMMA PositionsExist ==
  ASSUME NEW b \in Seq(Entry)
  PROVE  \E f : Positions(f, b)
<1> DEFINE Upto(f, n) == /\ f \in [0..n -> Int] /\ f[0] = HeaderSize
                         /\ \A i \in 1..n : f[i] = f[i - 1] + b[i].size
           Missing == {n \in 0..Len(b) : ~\E f : Upto(f, n)}
<1>0. Len(b) \in Nat
  OBVIOUS
<1>1. Missing = {}
  <2> SUFFICES ASSUME Missing # {} PROVE FALSE
    OBVIOUS
  <2>1. PICK m \in Missing : \A n \in Missing : m <= n
    <3>1. Missing \in SUBSET Nat
      BY <1>0
    <3> HIDE DEF Missing
    <3> QED BY <3>1, FirstOf
  <2>2. m # 0
    <3>1. Upto([i \in 0..0 |-> HeaderSize], 0)
      BY DEF HeaderSize
    <3> QED BY <3>1
  <2>3. m \in 1..Len(b) /\ m - 1 \in 0..Len(b) /\ ~(m - 1 \in Missing)
    <3> HIDE DEF Upto
    <3>1. m \in 0..Len(b)
      OBVIOUS
    <3> HIDE DEF Missing
    <3> QED BY <2>1, <2>2, <3>1, <1>0
  <2>4. PICK f : Upto(f, m - 1)
    BY <2>3
  <2>5. b[m].size \in Int
    <3>1. b[m] \in Entry
      BY <2>3
    <3> QED BY <3>1, EntrySize
  <2> DEFINE g == [i \in 0..m |-> IF i = m THEN f[m - 1] + b[m].size ELSE f[i]]
  <2>6. Upto(g, m)
    <3>1. g \in [0..m -> Int]
      BY <2>3, <2>4, <2>5
    <3>2. g[0] = HeaderSize
      BY <2>3, <2>4
    <3>3. ASSUME NEW i \in 1..m PROVE g[i] = g[i - 1] + b[i].size
      <4>1. m \in Int /\ i \in Int /\ i - 1 \in 0..m /\ i - 1 # m /\ i \in 0..m
        BY <2>3
      <4>2. CASE i = m
        BY <4>1, <4>2
      <4>3. CASE i # m
        BY <4>1, <4>3, <2>4
      <4> QED BY <4>2, <4>3
    <3> QED BY <3>1, <3>2, <3>3
  <2> QED BY <2>1, <2>6
<1>2. PICK f : Upto(f, Len(b))
  <2>1. Len(b) \in 0..Len(b)
    BY <1>0
  <2>2. ~(Len(b) \in Missing)
    BY <1>1
  <2> HIDE DEF Upto
  <2> QED BY <2>1, <2>2
<1> QED BY <1>2 DEF Positions

\* EndPos is the last of the positions.
LEMMA EndPosIs ==
  ASSUME NEW b \in Seq(Entry), NEW f, Positions(f, b)
  PROVE  EndPos(b) = f[Len(b)]
<1>1. Len(b) \in Nat
  OBVIOUS
<1>2. f = [i \in 0..Len(b) |-> IF i = 0 THEN HeaderSize ELSE f[i - 1] + b[i].size]
  BY <1>1 DEF Positions
<1>3. PICK g : /\ g = [i \in 0..Len(b) |-> IF i = 0 THEN HeaderSize ELSE g[i - 1] + b[i].size]
               /\ EndPos(b) = g[Len(b)]
  BY <1>2, Zenon DEF EndPos
<1> DEFINE Wrong == {i \in 0..Len(b) : g[i] # f[i]}
<1>4. Wrong = {}
  <2> SUFFICES ASSUME Wrong # {} PROVE FALSE
    OBVIOUS
  <2>1. PICK m \in Wrong : \A n \in Wrong : m <= n
    <3>1. Wrong \in SUBSET Nat
      BY <1>1
    <3> HIDE DEF Wrong
    <3> QED BY <3>1, FirstOf
  <2>2. m \in 0..Len(b) /\ g[m] # f[m]
    BY <2>1
  <2>3. m # 0
    BY <2>2, <1>2, <1>3
  <2>4. m - 1 \in 0..Len(b) /\ ~(m - 1 \in Wrong)
    BY <2>1, <2>2, <2>3, <1>1
  <2>5. g[m - 1] = f[m - 1]
    BY <2>4
  <2> QED BY <2>2, <2>3, <2>5, <1>2, <1>3
<1>5. Len(b) \in 0..Len(b) /\ ~(Len(b) \in Wrong)
  BY <1>1, <1>4
<1>6. g[Len(b)] = f[Len(b)]
  BY <1>5
<1> QED BY <1>3, <1>6

\* A block with an entry more ends that much later.
LEMMA EndPosAppend ==
  ASSUME NEW b \in Seq(Entry), NEW e \in Entry
  PROVE  EndPos(Append(b, e)) = EndPos(b) + e.size
<1>1. PICK f : Positions(f, b)
  BY PositionsExist
<1>2. EndPos(b) = f[Len(b)]
  BY <1>1, EndPosIs
<1> DEFINE c == Append(b, e)
           g == [i \in 0..Len(c) |-> IF i = Len(c) THEN f[Len(b)] + e.size ELSE f[i]]
<1>3. c \in Seq(Entry) /\ Len(b) \in Nat /\ Len(c) = Len(b) + 1 /\ e.size \in Nat
  BY DEF Entry
<1>4. (\A i \in 1..Len(b) : c[i] = b[i]) /\ c[Len(c)] = e
  BY <1>3
<1> HIDE DEF c
<1>5. Positions(g, c)
  <2>1. /\ f \in [0..Len(b) -> Int] /\ f[0] = HeaderSize
        /\ \A i \in 1..Len(b) : f[i] = f[i - 1] + b[i].size
    BY <1>1 DEF Positions
  <2>2. g \in [0..Len(c) -> Int]
    BY <1>3, <2>1
  <2>3. g[0] = HeaderSize
    BY <1>3, <2>1
  <2>4. ASSUME NEW i \in 1..Len(c) PROVE g[i] = g[i - 1] + c[i].size
    <3>1. i \in Int /\ i \in 0..Len(c) /\ i - 1 \in 0..Len(c) /\ i - 1 # Len(c)
      BY <1>3
    <3>2. g[i - 1] = f[i - 1]
      BY <3>1
    <3>3. CASE i = Len(c)
      <4>1. g[i] = f[Len(b)] + e.size /\ i - 1 = Len(b) /\ c[i] = e
        BY <3>1, <3>3, <1>3, <1>4
      <4> QED BY <3>2, <4>1
    <3>4. CASE i # Len(c)
      <4>1. i \in 1..Len(b)
        BY <3>4, <1>3
      <4>2. g[i] = f[i] /\ c[i] = b[i]
        BY <3>1, <3>4, <4>1, <1>4
      <4> QED BY <2>1, <3>2, <4>1, <4>2
    <3> QED BY <3>3, <3>4
  <2> HIDE DEF g
  <2> QED BY <2>2, <2>3, <2>4 DEF Positions
<1>6. EndPos(c) = g[Len(c)]
  BY <1>3, <1>5, EndPosIs
<1> QED BY <1>2, <1>3, <1>6 DEF c

\* An empty block ends after its header.
LEMMA EndPosEmpty == EndPos(<<>>) = HeaderSize
<1>1. Positions([i \in 0..0 |-> HeaderSize], <<>>)
  BY DEF Positions, HeaderSize
<1>2. <<>> \in Seq(Entry) /\ Len(<<>>) = 0
  OBVIOUS
<1> QED BY <1>1, <1>2, EndPosIs

\* The entries behind one that is removed move up.
LEMMA RemoveMovesUp ==
  ASSUME NEW S, NEW b \in Seq(S), NEW j \in 1..Len(b)
  PROVE  /\ RemoveAt(b, j) \in Seq(S)
         /\ Len(RemoveAt(b, j)) = Len(b) - 1
         /\ \A i \in 1..(Len(b) - 1) :
              RemoveAt(b, j)[i] = IF i < j THEN b[i] ELSE b[i + 1]
<1>1. Len(b) \in Nat /\ j \in Nat
  OBVIOUS
<1>2. SubSeq(b, 1, j - 1) \in Seq(S) /\ Len(SubSeq(b, 1, j - 1)) = j - 1
      /\ \A i \in 1..(j - 1) : SubSeq(b, 1, j - 1)[i] = b[i]
  BY <1>1
<1>3. SubSeq(b, j + 1, Len(b)) \in Seq(S) /\ Len(SubSeq(b, j + 1, Len(b))) = Len(b) - j
      /\ \A i \in 1..(Len(b) - j) : SubSeq(b, j + 1, Len(b))[i] = b[j + i]
  BY <1>1
<1> DEFINE c == SubSeq(b, 1, j - 1)  d == SubSeq(b, j + 1, Len(b))
<1> HIDE DEF c, d
<1>4. c \o d \in Seq(S) /\ Len(c \o d) = Len(b) - 1
  <2>1. c \in Seq(S) /\ d \in Seq(S) /\ Len(c) = j - 1 /\ Len(d) = Len(b) - j
    BY <1>2, <1>3 DEF c, d
  <2>2. c \o d \in Seq(S) /\ Len(c \o d) = Len(c) + Len(d)
    BY <2>1
  <2>3. (j - 1) + (Len(b) - j) = Len(b) - 1
    BY <1>1
  <2> QED BY <2>1, <2>2, <2>3
<1>5. ASSUME NEW i \in 1..(Len(b) - 1)
      PROVE  (c \o d)[i] = IF i < j THEN b[i] ELSE b[i + 1]
  <2>0. c \in Seq(S) /\ d \in Seq(S) /\ Len(c) = j - 1 /\ Len(d) = Len(b) - j
    BY <1>2, <1>3 DEF c, d
  <2>1. (c \o d)[i] = IF i <= j - 1 THEN c[i] ELSE d[i - (j - 1)]
    BY <1>1, <2>0
  <2>2. CASE i < j
    BY <1>1, <2>1, <2>2, <1>2 DEF c
  <2>3. CASE ~(i < j)
    <3>1. i - (j - 1) \in 1..(Len(b) - j) /\ j + (i - (j - 1)) = i + 1
      BY <1>1, <2>3
    <3>2. d[i - (j - 1)] = b[i + 1]
      BY <3>1, <1>3 DEF d
    <3> QED BY <1>1, <2>1, <2>3, <3>2
  <2> QED BY <2>2, <2>3
<1>6. RemoveAt(b, j) = c \o d
  BY DEF RemoveAt, c, d
<1> QED BY <1>4, <1>5, <1>6

\* A block with an entry less ends that much earlier.
LEMMA EndPosRemove ==
  ASSUME NEW b \in Seq(Entry), NEW j \in 1..Len(b)
  PROVE  EndPos(RemoveAt(b, j)) = EndPos(b) - b[j].size
<1>1. PICK f : Positions(f, b)
  BY PositionsExist
<1>2. EndPos(b) = f[Len(b)]
  BY <1>1, EndPosIs
<1> DEFINE c == RemoveAt(b, j)
           g == [i \in 0..Len(c) |-> IF i < j THEN f[i] ELSE f[i + 1] - b[j].size]
<1>3. c \in Seq(Entry) /\ Len(c) = Len(b) - 1 /\ Len(b) \in Nat
      /\ \A i \in 1..(Len(b) - 1) : c[i] = IF i < j THEN b[i] ELSE b[i + 1]
  <2>1. Len(b) \in Nat
    OBVIOUS
  <2> HIDE DEF g
  <2> QED BY <2>1, RemoveMovesUp, Zenon
<1>4. b[j].size \in Nat
  <2>1. b[j] \in Entry
    OBVIOUS
  <2> QED BY <2>1, EntrySize
<1>8. \A i \in 1..Len(b) : b[i].size \in Int
  <2>1. ASSUME NEW i \in 1..Len(b) PROVE b[i] \in Entry
    OBVIOUS
  <2> QED BY <2>1, EntrySize
<1> HIDE DEF c
<1>5. Positions(g, c)
  <2>1. g \in [0..Len(c) -> Int]
    BY <1>1, <1>3, <1>4 DEF Positions
  <2>2. g[0] = HeaderSize
    BY <1>1, <1>3 DEF Positions
  <2>3. ASSUME NEW i \in 1..Len(c) PROVE g[i] = g[i - 1] + c[i].size
    <3>1. i \in Int /\ i - 1 \in 0..Len(c) /\ i \in 0..Len(c)
      BY <1>3
    <3>2. CASE i < j
      BY <3>1, <3>2, <1>1, <1>3 DEF Positions
    <3>3. CASE i = j
      <4>1. f[i + 1] = f[i] + b[i + 1].size /\ f[i] = f[i - 1] + b[i].size
        BY <3>3, <1>1, <1>3 DEF Positions
      <4>2. f[i - 1] \in Int /\ b[i + 1].size \in Int
        <5>1. i - 1 \in 0..Len(b) /\ i + 1 \in 1..Len(b)
          BY <3>1, <1>3
        <5> QED BY <5>1, <1>1, <1>8 DEF Positions
      <4>3. g[i] = f[i + 1] - b[j].size /\ g[i - 1] = f[i - 1] /\ c[i] = b[i + 1]
        BY <3>1, <3>3, <1>3
      <4>4. b[i].size \in Int /\ b[j].size = b[i].size
        BY <3>3, <1>4
      <4>5. g[i] = f[i - 1] + b[i + 1].size
        BY <4>1, <4>2, <4>3, <4>4
      <4> QED BY <4>3, <4>5
    <3>4. CASE i > j
      <4>1. f[i + 1] = f[i] + b[i + 1].size
        BY <3>1, <3>4, <1>1, <1>3 DEF Positions
      <4>2. f[i] \in Int /\ b[i + 1].size \in Int
        <5>1. i \in 0..Len(b) /\ i + 1 \in 1..Len(b)
          BY <3>1, <1>3
        <5> QED BY <5>1, <1>1, <1>8 DEF Positions
      <4>3. g[i] = f[i + 1] - b[j].size /\ g[i - 1] = f[i] - b[j].size /\ c[i] = b[i + 1]
        BY <3>1, <3>4, <1>3
      <4> QED BY <4>1, <4>2, <4>3, <1>4
    <3> QED BY <3>1, <3>2, <3>3, <3>4
  <2> QED BY <2>1, <2>2, <2>3 DEF Positions
<1>6. EndPos(c) = g[Len(c)]
  BY <1>3, <1>5, EndPosIs
<1>7. g[Len(c)] = f[Len(b)] - b[j].size
  <2>1. Len(c) \in 0..Len(c)
    BY <1>3
  <2>2. CASE Len(c) >= j
    BY <1>3, <2>1, <2>2
  <2>3. CASE Len(c) < j
    <3>1. j = Len(b) /\ Len(c) = j - 1 /\ j \in 1..Len(b)
      BY <1>3, <2>3
    <3>2. f[j] = f[j - 1] + b[j].size /\ f[j - 1] \in Int
      BY <1>1, <1>3, <3>1 DEF Positions
    <3>3. g[Len(c)] = f[j - 1]
      BY <2>1, <2>3, <3>1
    <3> QED BY <3>1, <3>2, <3>3, <1>4
  <2> QED BY <1>3, <2>2, <2>3
<1> QED BY <1>2, <1>6, <1>7 DEF c

\* A patched entry of the same length leaves the end where it was.
LEMMA EndPosPatch ==
  ASSUME NEW b \in Seq(Entry), NEW j \in 1..Len(b), NEW e \in Entry, e.size = b[j].size
  PROVE  EndPos([b EXCEPT ![j] = e]) = EndPos(b)
<1>1. PICK f : Positions(f, b)
  BY PositionsExist
<1>2. EndPos(b) = f[Len(b)]
  BY <1>1, EndPosIs
<1> DEFINE c == [b EXCEPT ![j] = e]
<1>3. c \in Seq(Entry) /\ Len(c) = Len(b) /\ Len(b) \in Nat
      /\ \A i \in 1..Len(b) : c[i].size = b[i].size
  OBVIOUS
<1> HIDE DEF c
<1>4. Positions(f, c)
  BY <1>1, <1>3 DEF Positions
<1>5. EndPos(c) = f[Len(c)]
  BY <1>3, <1>4, EndPosIs
<1> QED BY <1>2, <1>3, <1>5 DEF c

-----------------------------------------------------------------------------
(* Entries: building, parsing and patching agree *)

\* The fields of an entry, one by one.
LEMMA EntryFields ==
  ASSUME NEW e \in Entry
  PROVE  /\ e.size \in Nat /\ e.nlen \in Nat /\ e.clen \in Nat /\ e.anode \in Nat
         /\ e.fsize \in Nat /\ e.fsize < Low /\ e.flagsAt \in Nat /\ e.fsizex \in Nat
         /\ e.fsizexAt \in Nat /\ e.name \in STRING
         /\ e.prot \in SUBSET (HSPA \cup RWED)
         /\ e.flags \in SUBSET (ExtraFields \cup {"fsizex"})
<1>1. 0..(Low - 1) \subseteq Nat /\ \A x \in 0..(Low - 1) : x < Low
  BY DirAssumption
<1> QED BY <1>1 DEF Entry

\* Alignment adds at most one.
LEMMA EvenBounds ==
  ASSUME NEW n \in Nat
  PROVE  Even(n) \in Nat /\ Even(n) % 2 = 0 /\ n <= Even(n) /\ Even(n) <= n + 1
BY DEF Even

\* In a well formed entry the flags are where the walks look for them.
LEMMA FlagsFound ==
  ASSUME NEW e \in Entry, WellFormed(e)
  PROVE  /\ FlagsPos(e) = e.flagsAt /\ e.flagsAt # 0 /\ FlagsOf(e) = e.flags
         /\ NameOff + e.nlen + 1 + e.clen <= e.flagsAt
         /\ FieldsEnd(e) \in Nat /\ e.flagsAt + 2 <= FieldsEnd(e)
<1>1. /\ e.size \in Nat /\ e.nlen \in Nat /\ e.clen \in Nat /\ e.flagsAt \in Nat
  BY EntryFields
<1>2. FieldsEnd(e) \in Nat /\ e.flagsAt + 2 <= FieldsEnd(e)
  BY <1>1 DEF FieldsEnd, Walk, Width, Past
<1>3. e.flagsAt = Even(NameOff + e.nlen + 1 + e.clen) /\ FieldsEnd(e) <= e.size
  BY DEF WellFormed
<1>4. NameOff + e.nlen + 1 + e.clen <= e.flagsAt
  BY <1>1, <1>3, EvenBounds DEF NameOff
<1>5. FlagsPos(e) = e.flagsAt /\ e.flagsAt # 0
  BY <1>1, <1>2, <1>3, <1>4 DEF FlagsPos, NameOff
<1> QED BY <1>2, <1>4, <1>5 DEF FlagsOf

\* Both walks over the optional fields end where the fields end.
LEMMA WalksAgree ==
  ASSUME NEW e \in Entry, WellFormed(e)
  PROVE  ParsedPos(e) = FieldsEnd(e) /\ PatchPos(e) = FieldsEnd(e)
<1>1. /\ e.size \in Nat /\ e.flagsAt \in Nat /\ FieldsEnd(e) <= e.size
  BY EntryFields DEF WellFormed
<1>2. FlagsPos(e) = e.flagsAt /\ FlagsOf(e) = e.flags
  BY FlagsFound
<1> DEFINE p0 == e.flagsAt + 2
           p1 == Past(e.flags, p0, "link")
           p2 == Past(e.flags, p1, "uid")
           p3 == Past(e.flags, p2, "gid")
           p4 == Past(e.flags, p3, "prot")
           p5 == Past(e.flags, p4, "virtualsize")
           p6 == Past(e.flags, p5, "rollpointer")
           A(pos, f) == ParsePast(e, pos, f)
           B(pos, f) == PatchPast(e, pos, f)
<1>3. \A pos \in Nat, f \in ExtraFields :
        Past(e.flags, pos, f) \in Nat /\ pos <= Past(e.flags, pos, f)
  BY DEF Width, Past
<1>4. \A pos \in Nat \ {0}, f \in ExtraFields :
        Past(e.flags, pos, f) <= e.size =>
          A(pos, f) = Past(e.flags, pos, f) /\ B(pos, f) = Past(e.flags, pos, f)
  BY <1>1, <1>2, <1>3 DEF Width, Past, ParsePast, PatchPast
<1>5. /\ FieldsEnd(e) = p6
      /\ ParsedPos(e) =
           A(A(A(A(A(A(p0, "link"), "uid"), "gid"), "prot"), "virtualsize"), "rollpointer")
      /\ PatchPos(e) =
           B(B(B(B(B(B(p0, "link"), "uid"), "gid"), "prot"), "virtualsize"), "rollpointer")
  BY <1>2 DEF FieldsEnd, ParsedPos, PatchPos, Walk
<1>6. p0 \in Nat \ {0}
  BY <1>1
<1>7. /\ p1 \in Nat /\ p2 \in Nat /\ p3 \in Nat /\ p4 \in Nat /\ p5 \in Nat /\ p6 \in Nat
      /\ p0 <= p1 /\ p1 <= p2 /\ p2 <= p3 /\ p3 <= p4 /\ p4 <= p5 /\ p5 <= p6
  BY <1>3, <1>6 DEF ExtraFields
<1>8. p6 <= e.size
  BY <1>1, <1>5
<1>9. /\ A(p0, "link") = p1 /\ A(p1, "uid") = p2 /\ A(p2, "gid") = p3
      /\ A(p3, "prot") = p4 /\ A(p4, "virtualsize") = p5 /\ A(p5, "rollpointer") = p6
      /\ B(p0, "link") = p1 /\ B(p1, "uid") = p2 /\ B(p2, "gid") = p3
      /\ B(p3, "prot") = p4 /\ B(p4, "virtualsize") = p5 /\ B(p5, "rollpointer") = p6
  <2>1. p1 <= e.size /\ p2 <= e.size /\ p3 <= e.size /\ p4 <= e.size /\ p5 <= e.size
    BY <1>1, <1>6, <1>7, <1>8
  <2>2. /\ p1 \in Nat \ {0} /\ p2 \in Nat \ {0} /\ p3 \in Nat \ {0}
        /\ p4 \in Nat \ {0} /\ p5 \in Nat \ {0}
    BY <1>6, <1>7
  <2> QED BY <1>4, <1>6, <1>8, <2>1, <2>2 DEF ExtraFields
<1> HIDE DEF p1, p2, p3, p4, p5, p6, A, B
<1> QED BY <1>5, <1>9

\* The size that is read is made of both halves, the upper one if it is there.
LEMMA FileSizeIs ==
  ASSUME NEW e \in Entry, WellFormed(e)
  PROVE  FileSize(e) = e.fsize + Low * (IF "fsizex" \in e.flags THEN e.fsizex ELSE 0)
<1>1. ParsedPos(e) = FieldsEnd(e) /\ FlagsOf(e) = e.flags
  BY WalksAgree, FlagsFound
<1> QED BY <1>1 DEF FileSize, ParsedFsizex, WellFormed

\* Halves of a size.
LEMMA Halves ==
  ASSUME NEW s \in Nat
  PROVE  /\ s % Low \in 0..(Low - 1) /\ s \div Low \in Nat
         /\ (s % Low) + Low * (s \div Low) = s
         /\ s < Low => s % Low = s /\ s \div Low = 0
         /\ s >= Low => s \div Low > 0
BY DirAssumption

\* A new entry is well formed and shows the size it was given.
LEMMA BuiltWell ==
  ASSUME NEW n \in Names, NEW a \in Nat, NEW s \in Nat, NEW prot \in SUBSET (HSPA \cup RWED)
  PROVE  LET e == BuildDirEntry(n, a, s, prot)
         IN  /\ e \in Entry /\ WellFormed(e) /\ FileSize(e) = s
             /\ e.name = ReadBack[n] /\ e.anode = a /\ e.prot = prot
<1> DEFINE e == BuildDirEntry(n, a, s, prot)
           nlen == IF ByteLen[n] > MaxName THEN MaxName ELSE ByteLen[n]
           high == s \div Low
           extra == IF high > 0 THEN 4 ELSE 2
           at == Even(NameOff + nlen + 1)
<1>1. ByteLen[n] \in 1..255 /\ ReadBack[n] \in STRING
  BY NamesAssumption
<1>2. nlen \in 1..107
  BY <1>1 DEF MaxName
<1>3. high \in Nat /\ s % Low \in 0..(Low - 1)
  BY Halves
<1>4. e = [size |-> Even(NameOff + nlen + 1 + extra), name |-> ReadBack[n], nlen |-> nlen,
           clen |-> 0, anode |-> a, prot |-> prot, fsize |-> s % Low,
           flags |-> IF high > 0 THEN {"fsizex"} ELSE {}, flagsAt |-> at,
           fsizex |-> high, fsizexAt |-> IF high > 0 THEN at + 2 ELSE 0]
  BY DEF BuildDirEntry
<1>5. at \in Nat /\ Even(NameOff + nlen + 1 + extra) \in Nat
      /\ at + extra <= Even(NameOff + nlen + 1 + extra)
      /\ Even(NameOff + nlen + 1 + extra) % 2 = 0
      /\ Even(NameOff + nlen + 1 + extra) <= 255
  <2> HIDE DEF nlen, high
  <2> QED BY <1>2 DEF Even, NameOff
<1> HIDE DEF e, nlen, high, at
<1>6. e \in Entry
  BY <1>1, <1>2, <1>3, <1>4, <1>5 DEF Entry
<1>7. FieldsEnd(e) = at + 2
  <2>1. e.flagsAt = at /\ \A f \in ExtraFields : f \notin e.flags
    BY <1>4 DEF ExtraFields
  <2>2. \A f \in ExtraFields : Past(e.flags, at + 2, f) = at + 2
    BY <2>1 DEF Past
  <2> QED BY <2>1, <2>2 DEF FieldsEnd, Walk, ExtraFields
<1>8. WellFormed(e)
  <2>1. /\ e.size = Even(NameOff + nlen + 1 + extra) /\ e.flagsAt = at
        /\ e.nlen = nlen /\ e.clen = 0 /\ e.flags = (IF high > 0 THEN {"fsizex"} ELSE {})
        /\ e.fsizexAt = (IF high > 0 THEN at + 2 ELSE 0)
    BY <1>4
  <2>2. e.flagsAt = Even(NameOff + e.nlen + 1 + e.clen)
    BY <2>1, <1>2 DEF at, NameOff
  <2>3. at + 2 <= e.size /\ (high > 0 => at + 2 + 2 <= e.size)
    BY <2>1, <1>3, <1>5
  <2>4. "fsizex" \in e.flags <=> high > 0
    BY <2>1
  <2> HIDE DEF extra
  <2> QED BY <2>1, <2>2, <2>3, <2>4, <1>5, <1>7 DEF WellFormed
<1>9. FileSize(e) = s
  <2>1. FileSize(e) = e.fsize + Low * (IF "fsizex" \in e.flags THEN e.fsizex ELSE 0)
    BY <1>6, <1>8, FileSizeIs
  <2>2. /\ e.fsize = s % Low /\ e.fsizex = high
        /\ "fsizex" \in e.flags <=> high > 0
    BY <1>4
  <2> QED BY <2>1, <2>2, <1>3, Halves DEF high
<1> QED BY <1>4, <1>6, <1>8, <1>9 DEF e

\* A patched size is shown, except that an entry without the field for the
\* upper half shows the lower one.
LEMMA PatchedWell ==
  ASSUME NEW e \in Entry, WellFormed(e), NEW s \in Nat
  PROVE  LET f == PatchSize(e, s)
         IN  /\ f \in Entry /\ WellFormed(f) /\ ShowsSize(f, s)
             /\ f.size = e.size /\ f.name = e.name /\ f.anode = e.anode /\ f.prot = e.prot
<1> DEFINE f == PatchSize(e, s)
<1>1. PatchPos(e) = FieldsEnd(e) /\ FlagsPos(e) # 0 /\ FlagsOf(e) = e.flags
  BY WalksAgree, FlagsFound
<1>2. FieldsEnd(e) \in Nat /\ FieldsEnd(e) # 0 /\ e.flagsAt \in Nat
  BY FlagsFound, EntryFields
<1>3. s % Low \in 0..(Low - 1) /\ s \div Low \in Nat
  BY Halves
<1>4. f = IF "fsizex" \in e.flags
          THEN [e EXCEPT !.fsize = s % Low, !.fsizex = s \div Low, !.fsizexAt = FieldsEnd(e)]
          ELSE [e EXCEPT !.fsize = s % Low]
  BY <1>1, <1>2 DEF PatchSize, WellFormed
<1> HIDE DEF f
<1>5. f \in Entry
  BY <1>2, <1>3, <1>4 DEF Entry
<1>6. /\ f.size = e.size /\ f.name = e.name /\ f.anode = e.anode /\ f.prot = e.prot
      /\ f.flags = e.flags /\ f.flagsAt = e.flagsAt /\ f.nlen = e.nlen /\ f.clen = e.clen
      /\ f.fsize = s % Low
      /\ "fsizex" \in e.flags => f.fsizex = s \div Low /\ f.fsizexAt = FieldsEnd(e)
  BY <1>4 DEF Entry
<1>7. FieldsEnd(f) = FieldsEnd(e)
  BY <1>6 DEF FieldsEnd, Walk
<1>8. WellFormed(f)
  BY <1>6, <1>7 DEF WellFormed
<1>9. FileSize(f) = (s % Low) + Low * (IF "fsizex" \in e.flags THEN s \div Low ELSE 0)
  BY <1>5, <1>6, <1>8, FileSizeIs
<1>10. ShowsSize(f, s)
  <2>1. CASE "fsizex" \in e.flags
    BY <2>1, <1>9, Halves DEF ShowsSize
  <2>2. CASE "fsizex" \notin e.flags
    <3>1. FileSize(f) = s % Low
      BY <2>2, <1>3, <1>9, DirAssumption
    <3>2. CASE s < Low
      BY <3>1, <3>2, Halves DEF ShowsSize
    <3>3. CASE s >= Low
      BY <2>2, <3>1, <3>3, <1>6 DEF ShowsSize
    <3> QED BY <3>2, <3>3, DirAssumption
  <2> QED BY <2>1, <2>2
<1> QED BY <1>5, <1>6, <1>8, <1>10 DEF f

\* Nothing but the protection changes with it.
LEMMA ProtectedWell ==
  ASSUME NEW e \in Entry, WellFormed(e), NEW prot \in SUBSET (HSPA \cup RWED)
  PROVE  LET f == [e EXCEPT !.prot = prot]
         IN  /\ f \in Entry /\ WellFormed(f) /\ FileSize(f) = FileSize(e)
             /\ f.size = e.size /\ f.name = e.name /\ f.anode = e.anode /\ f.prot = prot
             /\ f.flags = e.flags
<1> DEFINE f == [e EXCEPT !.prot = prot]
<1>1. f \in Entry
  BY DEF Entry
<1>2. /\ f.size = e.size /\ f.name = e.name /\ f.anode = e.anode /\ f.prot = prot
      /\ f.flags = e.flags /\ f.flagsAt = e.flagsAt /\ f.nlen = e.nlen /\ f.clen = e.clen
      /\ f.fsize = e.fsize /\ f.fsizex = e.fsizex /\ f.fsizexAt = e.fsizexAt
  BY DEF Entry
<1> HIDE DEF f
<1>3. FieldsEnd(f) = FieldsEnd(e)
  BY <1>2 DEF FieldsEnd, Walk
<1>4. WellFormed(f)
  BY <1>2, <1>3 DEF WellFormed
<1>5. FileSize(f) = FileSize(e)
  BY <1>1, <1>2, <1>4, FileSizeIs
<1> QED BY <1>1, <1>2, <1>4, <1>5 DEF f

-----------------------------------------------------------------------------
(* Directories: what adding, removing and patching do to the spots *)

Dirs == Seq(Seq(Entry))
Fits(d, width) == \A i \in DOMAIN d : EndPos(d[i]) <= width

\* A spot is a block and an index in it.
LEMMA SpotsAre ==
  ASSUME NEW d \in Dirs
  PROVE  /\ \A p \in Spots(d) : /\ p = <<p[1], p[2]>>
                                /\ p[1] \in 1..Len(d) /\ p[2] \in 1..Len(d[p[1]])
                                /\ EntryIn(d, p) \in Entry
         /\ \A i \in 1..Len(d) : \A j \in 1..Len(d[i]) : <<i, j>> \in Spots(d)
<1>1. DOMAIN d = 1..Len(d) /\ \A i \in 1..Len(d) : d[i] \in Seq(Entry) /\ DOMAIN d[i] = 1..Len(d[i])
  BY DEF Dirs
<1>2. ASSUME NEW p \in Spots(d)
      PROVE  /\ p = <<p[1], p[2]>> /\ p[1] \in 1..Len(d) /\ p[2] \in 1..Len(d[p[1]])
             /\ EntryIn(d, p) \in Entry
  <2>1. PICK i \in DOMAIN d : p \in {<<i, j>> : j \in DOMAIN d[i]}
    BY DEF Spots
  <2>2. PICK j \in DOMAIN d[i] : p = <<i, j>>
    BY <2>1
  <2>3. d[i] \in Seq(Entry) /\ j \in 1..Len(d[i]) /\ i \in 1..Len(d)
    BY <1>1
  <2>4. d[i][j] \in Entry
    BY <2>3
  <2> QED BY <2>2, <2>3, <2>4 DEF EntryIn
<1>3. ASSUME NEW i \in 1..Len(d), NEW j \in 1..Len(d[i])
      PROVE  <<i, j>> \in Spots(d)
  BY <1>1 DEF Spots
<1> QED BY <1>2, <1>3

\* The only entry of a name is the one that is found.
LEMMA FoundOnly ==
  ASSUME NEW d \in Dirs, NEW n, NEW p, Places(d, n) = {p}
  PROVE  FindDirEntry(d, n) = p
<1>1. p[1] \in Int /\ p[2] \in Int
  <2>1. p \in Spots(d)
    BY DEF Places
  <2> QED BY <2>1, SpotsAre
<1> QED BY <1>1 DEF FindDirEntry

\* Adding an entry that fits an empty block gives one more spot.
LEMMA AddSpots ==
  ASSUME bsize \in Nat, NEW d \in Dirs, NEW e \in Entry, Fits(d, bsize),
         HeaderSize + e.size <= bsize, AddDirEntry(d, e).ok
  PROVE  LET a == AddDirEntry(d, e).dir
         IN  /\ a \in Dirs /\ Fits(a, bsize)
             /\ \E r : /\ r \notin Spots(d) /\ Spots(a) = Spots(d) \cup {r}
                       /\ EntryIn(a, r) = e
                       /\ \A p \in Spots(d) : EntryIn(a, p) = EntryIn(d, p)
<1> DEFINE roomy == {i \in DOMAIN d : HasRoom(d[i], e)}
           first == CHOOSE i \in roomy : \A k \in roomy : i <= k
           a == AddDirEntry(d, e).dir
<1>0. Len(d) \in Nat /\ DOMAIN d = 1..Len(d) /\ \A i \in 1..Len(d) : d[i] \in Seq(Entry)
  BY DEF Dirs
<1>1. CASE roomy # {}
  <2>1. first \in roomy
    <3>1. roomy \in SUBSET Nat
      BY <1>0
    <3>2. \E i \in roomy : \A k \in roomy : i <= k
      <4> HIDE DEF roomy
      <4> QED BY <1>1, <3>1, FirstOf
    <3> HIDE DEF roomy
    <3> QED BY <3>2
  <2> DEFINE b == first
  <2>2. a = [d EXCEPT ![b] = Append(@, e)]
    BY <1>1 DEF AddDirEntry
  <2>3. b \in 1..Len(d) /\ HasRoom(d[b], e)
    BY <2>1, <1>0
  <2> HIDE DEF a, b, roomy, first
  <2>4. d[b] \in Seq(Entry) /\ Len(d[b]) \in Nat
    BY <1>0, <2>3
  <2>5. a \in Dirs /\ Len(a) = Len(d) /\ DOMAIN a = 1..Len(d)
        /\ a[b] = Append(d[b], e) /\ \A i \in 1..Len(d) : i # b => a[i] = d[i]
    BY <1>0, <2>2, <2>3, <2>4 DEF Dirs
  <2>6. Len(a[b]) = Len(d[b]) + 1 /\ a[b][Len(d[b]) + 1] = e
        /\ \A j \in 1..Len(d[b]) : a[b][j] = d[b][j]
    BY <2>4, <2>5
  <2>7. Fits(a, bsize)
    <3>1. EndPos(a[b]) = EndPos(d[b]) + e.size
      BY <2>4, <2>5, EndPosAppend
    <3>2. EndPos(d[b]) \in Int /\ e.size \in Nat
      <4>1. PICK f : Positions(f, d[b])
        BY <2>4, PositionsExist
      <4>2. EndPos(d[b]) = f[Len(d[b])]
        BY <2>4, <4>1, EndPosIs
      <4> QED BY <2>4, <4>1, <4>2, EntrySize DEF Positions
    <3>3. EndPos(a[b]) < bsize
      BY <2>3, <3>1 DEF HasRoom
    <3>4. EndPos(a[b]) <= bsize
      BY <3>1, <3>2, <3>3
    <3> QED BY <1>0, <2>5, <3>4 DEF Fits
  <2> DEFINE r == <<b, Len(d[b]) + 1>>
  <2>8. r \notin Spots(d)
    <3> SUFFICES ASSUME r \in Spots(d) PROVE FALSE
      OBVIOUS
    <3>1. Len(d[b]) + 1 \in 1..Len(d[b])
      BY SpotsAre
    <3> QED BY <2>4, <3>1
  <2>9. ASSUME NEW p \in Spots(d) PROVE p \in Spots(a) /\ EntryIn(a, p) = EntryIn(d, p)
    <3>1. p = <<p[1], p[2]>> /\ p[1] \in 1..Len(d) /\ p[2] \in 1..Len(d[p[1]])
      BY SpotsAre
    <3>2. p[2] \in 1..Len(a[p[1]]) /\ a[p[1]][p[2]] = d[p[1]][p[2]]
      BY <3>1, <2>4, <2>5, <2>6
    <3>3. <<p[1], p[2]>> \in Spots(a)
      BY <3>1, <3>2, <2>5, SpotsAre
    <3> QED BY <3>1, <3>2, <3>3 DEF EntryIn
  <2>10. r \in Spots(a) /\ EntryIn(a, r) = e
    <3>1. Len(d[b]) + 1 \in 1..Len(a[b])
      BY <2>4, <2>6
    <3>2. r \in Spots(a)
      BY <3>1, <2>3, <2>5, SpotsAre
    <3> QED BY <2>6, <3>2 DEF EntryIn
  <2>11. ASSUME NEW p \in Spots(a), p # r PROVE p \in Spots(d)
    <3>1. p = <<p[1], p[2]>> /\ p[1] \in 1..Len(d) /\ p[2] \in 1..Len(a[p[1]])
      BY <2>5, SpotsAre
    <3>2. p[2] \in 1..Len(d[p[1]])
      <4>1. CASE p[1] = b
        <5>1. p[2] # Len(d[b]) + 1
          BY <3>1, <4>1, <2>11
        <5> QED BY <3>1, <4>1, <5>1, <2>4, <2>6
      <4>2. CASE p[1] # b
        BY <3>1, <4>2, <2>5
      <4> QED BY <4>1, <4>2
    <3> QED BY <3>1, <3>2, SpotsAre
  <2>12. Spots(a) = Spots(d) \cup {r}
    BY <2>9, <2>10, <2>11
  <2> QED BY <2>5, <2>7, <2>8, <2>9, <2>10, <2>12 DEF a
<1>2. CASE roomy = {}
  <2>2. a = Append(d, <<e>>)
    BY <1>2 DEF AddDirEntry
  <2> HIDE DEF a, roomy, first
  <2> DEFINE b == Len(d) + 1
             c == <<e>>
  <2>3. c \in Seq(Entry) /\ Len(c) = 1 /\ c[1] = e
    OBVIOUS
  <2>4. a \in Dirs /\ Len(a) = Len(d) + 1 /\ DOMAIN a = 1..(Len(d) + 1)
        /\ a[b] = c /\ \A i \in 1..Len(d) : a[i] = d[i]
    <3> HIDE DEF c
    <3> QED BY <1>0, <2>2, <2>3 DEF Dirs, c
  <2>5. EndPos(c) <= bsize
    <3>1. c = Append(<<>>, e) /\ <<>> \in Seq(Entry)
      OBVIOUS
    <3>2. EndPos(c) = HeaderSize + e.size
      BY <3>1, EndPosAppend, EndPosEmpty
    <3> QED BY <3>2
  <2> HIDE DEF c
  <2>7. Fits(a, bsize)
    <3> SUFFICES ASSUME NEW i \in 1..(Len(d) + 1) PROVE EndPos(a[i]) <= bsize
      BY <2>4 DEF Fits
    <3>1. CASE i = b
      BY <3>1, <2>4, <2>5
    <3>2. CASE i # b
      <4>1. i \in 1..Len(d)
        BY <3>2, <1>0
      <4> QED BY <4>1, <2>4, <1>0 DEF Fits
    <3> QED BY <3>1, <3>2
  <2> DEFINE r == <<b, 1>>
  <2>8. r \notin Spots(d)
    <3> SUFFICES ASSUME r \in Spots(d) PROVE FALSE
      OBVIOUS
    <3>1. Len(d) + 1 \in 1..Len(d)
      BY SpotsAre
    <3> QED BY <1>0, <3>1
  <2>9. ASSUME NEW p \in Spots(d) PROVE p \in Spots(a) /\ EntryIn(a, p) = EntryIn(d, p)
    <3>1. p = <<p[1], p[2]>> /\ p[1] \in 1..Len(d) /\ p[2] \in 1..Len(d[p[1]])
      BY SpotsAre
    <3>2. a[p[1]] = d[p[1]] /\ p[1] \in 1..Len(a)
      BY <3>1, <2>4, <1>0
    <3>3. <<p[1], p[2]>> \in Spots(a)
      BY <3>1, <3>2, <2>4, SpotsAre
    <3> QED BY <3>1, <3>2, <3>3 DEF EntryIn
  <2>10. r \in Spots(a) /\ EntryIn(a, r) = e
    <3>0. Len(a[b]) = 1
      BY <2>3, <2>4
    <3>1. b \in 1..Len(a) /\ 1 \in 1..Len(a[b])
      BY <2>4, <1>0, <3>0
    <3>2. r \in Spots(a)
      BY <3>1, <2>4, SpotsAre
    <3> QED BY <2>3, <2>4, <3>2 DEF EntryIn
  <2>11. ASSUME NEW p \in Spots(a), p # r PROVE p \in Spots(d)
    <3>1. p = <<p[1], p[2]>> /\ p[1] \in 1..(Len(d) + 1) /\ p[2] \in 1..Len(a[p[1]])
      BY <2>4, SpotsAre
    <3>2. p[1] # b
      <4> SUFFICES ASSUME p[1] = b PROVE FALSE
        OBVIOUS
      <4>1. p[2] = 1
        <5>1. Len(a[p[1]]) = 1
          BY <2>3, <2>4
        <5> QED BY <3>1, <5>1
      <4> QED BY <3>1, <4>1, <2>11
    <3>3. p[1] \in 1..Len(d)
      BY <3>1, <3>2, <1>0
    <3> QED BY <3>1, <3>3, <2>4, SpotsAre
  <2>12. Spots(a) = Spots(d) \cup {r}
    BY <2>9, <2>10, <2>11
  <2> QED BY <2>4, <2>7, <2>8, <2>9, <2>10, <2>12 DEF a
<1> QED BY <1>1, <1>2

\* Each entry of d2 is one of d, at the spot that f says, and these are the
\* spots in K.
Moved(f, d2, d, K) ==
  /\ f \in [Spots(d2) -> K]
  /\ \A s, t \in Spots(d2) : f[s] = f[t] => s = t
  /\ \A k \in K : \E s \in Spots(d2) : f[s] = k
  /\ \A s \in Spots(d2) : EntryIn(d2, s) = EntryIn(d, f[s])

\* Removing an entry leaves the others, some of them one further up.
LEMMA RemoveSpots ==
  ASSUME NEW d \in Dirs, NEW width \in Nat, Fits(d, width), NEW p \in Spots(d)
  PROVE  LET c == [d EXCEPT ![p[1]] = RemoveAt(@, p[2])]
         IN  /\ c \in Dirs /\ Fits(c, width)
             /\ \E f : Moved(f, c, d, Spots(d) \ {p})
<1> DEFINE b == p[1]
           j == p[2]
           c == [d EXCEPT ![b] = RemoveAt(@, j)]
<1>0. Len(d) \in Nat /\ DOMAIN d = 1..Len(d) /\ \A i \in 1..Len(d) : d[i] \in Seq(Entry)
  BY DEF Dirs
<1>1. p = <<b, j>> /\ b \in 1..Len(d) /\ j \in 1..Len(d[b])
  BY SpotsAre
<1>2. d[b] \in Seq(Entry) /\ Len(d[b]) \in Nat
  BY <1>0, <1>1
<1>3. /\ RemoveAt(d[b], j) \in Seq(Entry)
      /\ Len(RemoveAt(d[b], j)) = Len(d[b]) - 1
      /\ \A i \in 1..(Len(d[b]) - 1) :
           RemoveAt(d[b], j)[i] = IF i < j THEN d[b][i] ELSE d[b][i + 1]
  <2> HIDE DEF b, j
  <2> QED BY <1>1, <1>2, RemoveMovesUp, Zenon
<1>4. c \in Dirs /\ Len(c) = Len(d) /\ DOMAIN c = 1..Len(d)
      /\ c[b] = RemoveAt(d[b], j) /\ \A i \in 1..Len(d) : i # b => c[i] = d[i]
  <2> HIDE DEF b, j
  <2> QED BY <1>0, <1>1, <1>3 DEF Dirs
<1> HIDE DEF c, b, j
<1>5. Fits(c, width)
  <2>1. EndPos(c[b]) = EndPos(d[b]) - d[b][j].size
    BY <1>1, <1>2, <1>4, EndPosRemove
  <2>2. EndPos(d[b]) \in Int
    <3>1. PICK f : Positions(f, d[b])
      BY <1>2, PositionsExist
    <3>2. EndPos(d[b]) = f[Len(d[b])]
      BY <1>2, <3>1, EndPosIs
    <3> QED BY <1>2, <3>1, <3>2 DEF Positions
  <2>3. d[b][j].size \in Nat
    <3>1. d[b][j] \in Entry
      BY <1>1, <1>2
    <3> QED BY <3>1, EntrySize
  <2>4. EndPos(d[b]) <= width
    BY <1>0, <1>1 DEF Fits
  <2>5. EndPos(c[b]) <= width
    BY <2>1, <2>2, <2>3, <2>4
  <2> QED BY <1>0, <1>4, <2>5 DEF Fits
<1> DEFINE Old(s) == <<s[1], IF s[1] = b /\ s[2] >= j THEN s[2] + 1 ELSE s[2]>>
           f == [s \in Spots(c) |-> Old(s)]
           K == Spots(d) \ {p}
<1>6. ASSUME NEW s \in Spots(c)
      PROVE  Old(s) \in K /\ EntryIn(c, s) = EntryIn(d, Old(s))
  <2>1. s = <<s[1], s[2]>> /\ s[1] \in 1..Len(d) /\ s[2] \in 1..Len(c[s[1]])
    BY <1>4, SpotsAre
  <2>2. CASE s[1] # b
    <3>1. Old(s) = s /\ c[s[1]] = d[s[1]]
      BY <2>1, <2>2, <1>4
    <3>2. s \in Spots(d)
      BY <2>1, <3>1, SpotsAre
    <3>3. s # p
      BY <2>1, <2>2, <1>1
    <3> QED BY <3>1, <3>2, <3>3 DEF EntryIn
  <2>3. CASE s[1] = b
    <3>0. s[2] \in 1..(Len(d[b]) - 1) /\ s[2] \in Int /\ j \in Int
      BY <2>1, <2>3, <1>1, <1>2, <1>3, <1>4
    <3>1. CASE s[2] < j
      <4>1. Old(s) = s /\ s[2] \in 1..Len(d[b]) /\ c[b][s[2]] = d[b][s[2]]
        BY <2>1, <2>3, <3>0, <3>1, <1>2, <1>3, <1>4
      <4>2. s \in Spots(d)
        BY <2>1, <2>3, <4>1, SpotsAre
      <4>3. s # p
        BY <2>1, <3>0, <3>1, <1>1
      <4> QED BY <2>3, <4>1, <4>2, <4>3 DEF EntryIn
    <3>2. CASE s[2] >= j
      <4>1. Old(s) = <<b, s[2] + 1>> /\ s[2] + 1 \in 1..Len(d[b])
            /\ c[b][s[2]] = d[b][s[2] + 1]
        <5>1. Old(s) = <<b, s[2] + 1>>
          BY <2>3, <3>2
        <5>2. s[2] + 1 \in 1..Len(d[b])
          BY <3>0, <1>2
        <5>3. c[b][s[2]] = d[b][s[2] + 1]
          <6>1. RemoveAt(d[b], j)[s[2]] = IF s[2] < j THEN d[b][s[2]] ELSE d[b][s[2] + 1]
            BY <3>0, <1>3
          <6>2. ~(s[2] < j)
            BY <3>0, <3>2
          <6> QED BY <6>1, <6>2, <1>4
        <5> QED BY <5>1, <5>2, <5>3
      <4>2. Old(s) \in Spots(d)
        BY <1>1, <4>1, SpotsAre
      <4>3. Old(s) # p
        <5>1. s[2] + 1 # j
          BY <3>0, <3>2
        <5> QED BY <4>1, <5>1, <1>1
      <4> QED BY <2>3, <4>1, <4>2, <4>3 DEF EntryIn
    <3> QED BY <3>0, <3>1, <3>2
  <2> QED BY <2>2, <2>3
<1>7. ASSUME NEW s \in Spots(c), NEW t \in Spots(c), Old(s) = Old(t)
      PROVE  s = t
  <2>1. /\ s = <<s[1], s[2]>> /\ s[2] \in 1..Len(c[s[1]]) /\ s[1] \in 1..Len(c)
        /\ t = <<t[1], t[2]>> /\ t[2] \in 1..Len(c[t[1]]) /\ t[1] \in 1..Len(c)
    BY <1>4, SpotsAre
  <2>2. s[1] = t[1] /\ s[2] \in Int /\ t[2] \in Int
    BY <1>7, <2>1
  <2>3. (IF s[1] = b /\ s[2] >= j THEN s[2] + 1 ELSE s[2])
          = (IF t[1] = b /\ t[2] >= j THEN t[2] + 1 ELSE t[2])
    BY <1>7
  <2>4. s[2] = t[2]
    BY <2>2, <2>3, <1>1, <1>2
  <2> QED BY <2>1, <2>2, <2>4
<1>8. ASSUME NEW k \in K PROVE \E s \in Spots(c) : Old(s) = k
  <2>1. k = <<k[1], k[2]>> /\ k[1] \in 1..Len(d) /\ k[2] \in 1..Len(d[k[1]]) /\ k # p
    BY SpotsAre
  <2>2. CASE k[1] # b
    <3>1. k \in Spots(c)
      BY <2>1, <2>2, <1>4, SpotsAre
    <3> QED BY <2>1, <2>2, <3>1
  <2>3. CASE k[1] = b
    <3>0. k[2] \in 1..Len(d[b]) /\ k[2] # j /\ k[2] \in Int /\ j \in Int
      BY <2>1, <2>3, <1>1, <1>2
    <3>1. CASE k[2] < j
      <4>1. k[2] \in 1..Len(c[b])
        BY <3>0, <3>1, <1>1, <1>2, <1>3, <1>4
      <4>2. k \in Spots(c)
        BY <2>1, <2>3, <4>1, <1>4, SpotsAre
      <4> QED BY <2>1, <3>0, <3>1, <4>2
    <3>2. CASE k[2] > j
      <4>1. k[2] - 1 \in 1..Len(c[b]) /\ k[2] - 1 >= j /\ k[2] - 1 + 1 = k[2]
        BY <3>0, <3>2, <1>1, <1>2, <1>3, <1>4
      <4>2. <<b, k[2] - 1>> \in Spots(c)
        BY <4>1, <1>1, <1>4, SpotsAre
      <4>3. Old(<<b, k[2] - 1>>) = k
        BY <2>1, <2>3, <4>1
      <4> QED BY <4>2, <4>3
    <3> QED BY <3>0, <3>1, <3>2
  <2> QED BY <2>2, <2>3
<1>9. Moved(f, c, d, K)
  <2> HIDE DEF Old, K
  <2>1. \A s \in Spots(c) : f[s] = Old(s)
    OBVIOUS
  <2>2. f \in [Spots(c) -> K]
    BY <1>6
  <2> HIDE DEF f
  <2> QED BY <1>6, <1>7, <1>8, <2>1, <2>2 DEF Moved
<1> QED BY <1>4, <1>5, <1>9 DEF c, b, j

\* The directory with the entry at p replaced, and what that leaves.
PutAt(d, p, e) == [d EXCEPT ![p[1]][p[2]] = e]
OnlyPut(c, d, p, e) ==
  /\ Spots(c) = Spots(d) /\ EntryIn(c, p) = e
  /\ \A q \in Spots(d) \ {p} : EntryIn(c, q) = EntryIn(d, q)

\* Patching an entry leaves all spots where they are.
LEMMA PatchSpots ==
  ASSUME NEW d \in Dirs, NEW width, Fits(d, width), NEW p \in Spots(d),
         NEW e \in Entry, e.size = EntryIn(d, p).size
  PROVE  /\ PutAt(d, p, e) \in Dirs /\ Fits(PutAt(d, p, e), width)
         /\ OnlyPut(PutAt(d, p, e), d, p, e)
<1> DEFINE b == p[1]
           j == p[2]
           c == [d EXCEPT ![b][j] = e]
<1>0. Len(d) \in Nat /\ DOMAIN d = 1..Len(d) /\ \A i \in 1..Len(d) : d[i] \in Seq(Entry)
  BY DEF Dirs
<1>1. p = <<b, j>> /\ b \in 1..Len(d) /\ j \in 1..Len(d[b])
  BY SpotsAre
<1> HIDE DEF b, j
<1>2. d[b] \in Seq(Entry) /\ [d[b] EXCEPT ![j] = e] \in Seq(Entry)
  BY <1>0, <1>1
<1>3. c \in Dirs /\ Len(c) = Len(d) /\ DOMAIN c = 1..Len(d)
      /\ c[b] = [d[b] EXCEPT ![j] = e] /\ \A i \in 1..Len(d) : i # b => c[i] = d[i]
  BY <1>0, <1>1, <1>2 DEF Dirs
<1>4. Len(c[b]) = Len(d[b]) /\ c[b][j] = e /\ \A i \in 1..Len(d[b]) : i # j => c[b][i] = d[b][i]
  BY <1>1, <1>2, <1>3
<1>5. e.size = d[b][j].size
  BY <1>1 DEF EntryIn, b, j
<1>6. Fits(c, width)
  <2>1. EndPos(c[b]) = EndPos(d[b])
    BY <1>1, <1>2, <1>3, <1>5, EndPosPatch
  <2> QED BY <1>0, <1>1, <1>3, <2>1 DEF Fits
<1> HIDE DEF c
<1>7. \A i \in 1..Len(d) : Len(c[i]) = Len(d[i])
  BY <1>3, <1>4
<1>8. Spots(c) = Spots(d)
  <2>1. ASSUME NEW s \in Spots(c) PROVE s \in Spots(d)
    <3>1. s = <<s[1], s[2]>> /\ s[1] \in 1..Len(d) /\ s[2] \in 1..Len(c[s[1]])
      BY <1>3, SpotsAre
    <3> QED BY <3>1, <1>7, SpotsAre
  <2>2. ASSUME NEW s \in Spots(d) PROVE s \in Spots(c)
    <3>1. s = <<s[1], s[2]>> /\ s[1] \in 1..Len(d) /\ s[2] \in 1..Len(d[s[1]])
      BY SpotsAre
    <3> QED BY <3>1, <1>3, <1>7, SpotsAre
  <2> QED BY <2>1, <2>2
<1>9. EntryIn(c, p) = e
  BY <1>1, <1>4 DEF EntryIn
<1>10. ASSUME NEW q \in Spots(d) \ {p} PROVE EntryIn(c, q) = EntryIn(d, q)
  <2>1. q = <<q[1], q[2]>> /\ q[1] \in 1..Len(d) /\ q[2] \in 1..Len(d[q[1]]) /\ q # p
    BY SpotsAre
  <2>2. CASE q[1] # b
    BY <2>1, <2>2, <1>3 DEF EntryIn
  <2>3. CASE q[1] = b
    BY <2>1, <2>3, <1>1, <1>4 DEF EntryIn
  <2> QED BY <2>2, <2>3
<1> QED BY <1>3, <1>6, <1>8, <1>9, <1>10 DEF c, b, j, PutAt, OnlyPut

-----------------------------------------------------------------------------
(* A sound directory stays sound *)

\* The directory d2 is made of entries of d, which callers are told the same
\* of, and at most one new entry, which shares neither its anode nor a name with
\* them.
KeptEntries(d2, told2, d, told, new, f) ==
  /\ f \in [Spots(d2) \ new -> Spots(d)]
  /\ \A s, t \in Spots(d2) \ new : f[s] = f[t] => s = t
  /\ \A s \in Spots(d2) \ new :
       /\ EntryIn(d2, s) = EntryIn(d, f[s])
       /\ told2[EntryIn(d2, s).anode] = told[EntryIn(d2, s).anode]
NewEntry(d2, told2, new) ==
  /\ new \in SUBSET Spots(d2) /\ \A r, s \in new : r = s
  /\ \A r \in new :
       /\ WellFormed(EntryIn(d2, r))
       /\ IsAsTold(EntryIn(d2, r), told2[EntryIn(d2, r).anode])
       /\ \A s \in Spots(d2) \ new :
            /\ EntryIn(d2, s).anode # EntryIn(d2, r).anode
            /\ EntryIn(d2, s).name # EntryIn(d2, r).name \/ EntryIn(d2, r).name \notin Names

\* If d is sound, so is d2.
LEMMA Rebuilt ==
  ASSUME NEW width, NEW d, NEW told, SoundDir(width, d, told),
         NEW d2 \in Dirs, NEW told2, Fits(d2, width), NEW new, NEW f,
         KeptEntries(d2, told2, d, told, new, f), NewEntry(d2, told2, new),
         DOMAIN told2 = {e.anode : e \in ListEntries(d2)}
  PROVE  SoundDir(width, d2, told2)
<1> USE DEF KeptEntries, NewEntry
<1>1. /\ \A p \in Spots(d) : LET e == EntryIn(d, p)
                             IN  WellFormed(e) /\ IsAsTold(e, told[e.anode])
      /\ \A p, q \in Spots(d) : EntryIn(d, p).anode = EntryIn(d, q).anode => p = q
      /\ \A p, q \in Spots(d) :
           EntryIn(d, p).name = EntryIn(d, q).name /\ EntryIn(d, p).name \in Names => p = q
  BY DEF SoundDir, ListEntries
<1>2. ASSUME NEW s \in Spots(d2)
      PROVE  LET e == EntryIn(d2, s) IN WellFormed(e) /\ IsAsTold(e, told2[e.anode])
  <2>1. CASE s \in new
    BY <2>1
  <2>2. CASE s \notin new
    <3>1. f[s] \in Spots(d)
      BY <2>2
    <3>2. EntryIn(d2, s) = EntryIn(d, f[s])
          /\ told2[EntryIn(d2, s).anode] = told[EntryIn(d2, s).anode]
      BY <2>2
    <3> QED BY <3>1, <3>2, <1>1
  <2> QED BY <2>1, <2>2
<1>3. ASSUME NEW s \in Spots(d2), NEW t \in Spots(d2),
             \/ EntryIn(d2, s).anode = EntryIn(d2, t).anode
             \/ EntryIn(d2, s).name = EntryIn(d2, t).name /\ EntryIn(d2, s).name \in Names
      PROVE  s = t
  <2>1. CASE s \in new \/ t \in new
    BY <1>3, <2>1
  <2>2. CASE s \notin new /\ t \notin new
    <3>1. f[s] \in Spots(d) /\ f[t] \in Spots(d)
          /\ EntryIn(d2, s) = EntryIn(d, f[s]) /\ EntryIn(d2, t) = EntryIn(d, f[t])
      BY <2>2
    <3>2. f[s] = f[t]
      BY <1>1, <1>3, <3>1
    <3> QED BY <2>2, <3>2
  <2> QED BY <2>1, <2>2
<1>4. \A e \in ListEntries(d2) : WellFormed(e) /\ IsAsTold(e, told2[e.anode])
  BY <1>2 DEF ListEntries
<1> QED BY <1>3, <1>4 DEF SoundDir, Dirs, Fits

\* What a sound directory gives its users.
LEMMA SoundParts ==
  ASSUME NEW width, NEW d, NEW told, SoundDir(width, d, told)
  PROVE  /\ d \in Dirs /\ Fits(d, width)
         /\ \A p \in Spots(d) :
              LET e == EntryIn(d, p)
              IN  /\ e \in Entry /\ WellFormed(e) /\ IsAsTold(e, told[e.anode])
                  /\ e.anode \in DOMAIN told
         /\ \A a \in DOMAIN told : \E p \in Spots(d) : EntryIn(d, p).anode = a
         /\ \A p, q \in Spots(d) : EntryIn(d, p).anode = EntryIn(d, q).anode => p = q
         /\ \A p, q \in Spots(d) :
              EntryIn(d, p).name = EntryIn(d, q).name /\ EntryIn(d, p).name \in Names => p = q
<1>1. d \in Dirs /\ Fits(d, width)
  BY DEF SoundDir, Dirs, Fits
<1>2. \A p \in Spots(d) : EntryIn(d, p) \in Entry
  BY <1>1, SpotsAre
<1> QED BY <1>1, <1>2 DEF SoundDir, ListEntries

\* The entry of a name that callers use is the only one and is found.
LEMMA NameFound ==
  ASSUME NEW width, NEW d, NEW told, SoundDir(width, d, told),
         NEW n \in Names, Places(d, n) # {}
  PROVE  LET p == FindDirEntry(d, n)
         IN  p \in Spots(d) /\ EntryIn(d, p).name = n /\ Places(d, n) = {p}
<1>1. PICK p \in Places(d, n) : TRUE
  OBVIOUS
<1>2. Places(d, n) = {p}
  BY <1>1, SoundParts DEF Places
<1>3. FindDirEntry(d, n) = p
  BY <1>2, SoundParts, FoundOnly
<1> QED BY <1>1, <1>2, <1>3 DEF Places

\* write_file_in: a name that no entry reads as.
LEMMA CreateKeepsSound ==
  ASSUME bsize \in Nat, bsize >= 1024, NEW d, NEW told, SoundDir(bsize, d, told),
         NEW n \in Names, NEW a \in Nat \ DOMAIN told, NEW s \in Nat, Places(d, n) = {},
         AddDirEntry(d, BuildDirEntry(n, a, s, {})).ok
  PROVE  SoundDir(bsize, AddDirEntry(d, BuildDirEntry(n, a, s, {})).dir,
                  With(told, a, Told(n, s, {})))
<1> DEFINE e == BuildDirEntry(n, a, s, {})
           d2 == AddDirEntry(d, e).dir
           told2 == With(told, a, Told(n, s, {}))
<1>1. /\ e \in Entry /\ WellFormed(e) /\ FileSize(e) = s
      /\ e.name = ReadBack[n] /\ e.anode = a /\ e.prot = {}
  BY BuiltWell
<1>2. d \in Dirs /\ Fits(d, bsize)
  BY SoundParts
<1>3. HeaderSize + e.size <= bsize
  <2>1. e.size \in Nat /\ e.size <= 255
    BY <1>1, EntrySize DEF WellFormed
  <2> QED BY <2>1 DEF HeaderSize
<1> HIDE DEF e
<1>4. d2 \in Dirs /\ Fits(d2, bsize)
  BY <1>1, <1>2, <1>3, AddSpots DEF e
<1>5. PICK r : /\ r \notin Spots(d) /\ Spots(d2) = Spots(d) \cup {r}
               /\ EntryIn(d2, r) = e
               /\ \A p \in Spots(d) : EntryIn(d2, p) = EntryIn(d, p)
  BY <1>1, <1>2, <1>3, AddSpots DEF e
<1> HIDE DEF d2
<1>6. /\ DOMAIN told2 = DOMAIN told \cup {a} /\ told2[a] = Told(n, s, {})
      /\ \A b \in DOMAIN told : told2[b] = told[b]
  BY DEF With
<1> HIDE DEF told2
<1> DEFINE f == [p \in Spots(d2) \ {r} |-> p]
<1>7. /\ f \in [Spots(d2) \ {r} -> Spots(d)] /\ \A p \in Spots(d2) \ {r} : f[p] = p
  BY <1>5
<1> HIDE DEF f
<1>8. \A p \in Spots(d2) \ {r} :
        /\ EntryIn(d2, p) = EntryIn(d, f[p])
        /\ told2[EntryIn(d2, p).anode] = told[EntryIn(d2, p).anode]
  <2> SUFFICES ASSUME NEW p \in Spots(d2) \ {r}
               PROVE  /\ EntryIn(d2, p) = EntryIn(d, f[p])
                      /\ told2[EntryIn(d2, p).anode] = told[EntryIn(d2, p).anode]
    OBVIOUS
  <2>1. p \in Spots(d) /\ f[p] = p /\ EntryIn(d2, p) = EntryIn(d, p)
    BY <1>5, <1>7
  <2>2. EntryIn(d, p).anode \in DOMAIN told
    BY <2>1, SoundParts
  <2> QED BY <2>1, <2>2, <1>6
<1>9. \A p \in Spots(d2) \ {r} :
        /\ EntryIn(d2, p).anode # e.anode
        /\ EntryIn(d2, p).name # e.name \/ e.name \notin Names
  <2> SUFFICES ASSUME NEW p \in Spots(d2) \ {r}
               PROVE  /\ EntryIn(d2, p).anode # a
                      /\ EntryIn(d2, p).name # e.name \/ e.name \notin Names
    BY <1>1
  <2>1. p \in Spots(d) /\ EntryIn(d2, p) = EntryIn(d, p)
    BY <1>5
  <2>2. EntryIn(d, p).anode \in DOMAIN told
    BY <2>1, SoundParts
  <2>3. EntryIn(d, p).name # n
    BY <2>1 DEF Places
  <2> QED BY <2>1, <2>2, <2>3, <1>1, NamesAssumption
<1>10. IsAsTold(e, told2[e.anode])
  BY <1>1, <1>6 DEF IsAsTold, Told, ShowsSize
<1>11. DOMAIN told2 = {x.anode : x \in ListEntries(d2)}
  <2>1. DOMAIN told = {x.anode : x \in ListEntries(d)}
    BY DEF SoundDir
  <2>2. ListEntries(d2) = ListEntries(d) \cup {e}
    BY <1>5 DEF ListEntries
  <2> QED BY <2>1, <2>2, <1>1, <1>6
<1>12. SoundDir(bsize, d2, told2)
  <2>1. KeptEntries(d2, told2, d, told, {r}, f)
    BY <1>7, <1>8 DEF KeptEntries
  <2>2. NewEntry(d2, told2, {r})
    BY <1>1, <1>5, <1>9, <1>10 DEF NewEntry
  <2> QED BY <1>4, <1>11, <2>1, <2>2, Rebuilt
<1> QED BY <1>12 DEF e, d2, told2

\* The directory without the entry at p.
CutAt(d, p) == [d EXCEPT ![p[1]] = RemoveAt(@, p[2])]

\* delete_in: the entry goes, and what callers were told of it.
LEMMA RemoveKeepsSound ==
  ASSUME NEW width \in Nat, NEW d, NEW told, SoundDir(width, d, told), NEW p \in Spots(d)
  PROVE  /\ SoundDir(width, CutAt(d, p), Without(told, EntryIn(d, p).anode))
         /\ ListEntries(CutAt(d, p)) = ListEntries(d) \ {EntryIn(d, p)}
<1> DEFINE d2 == CutAt(d, p)
           told2 == Without(told, EntryIn(d, p).anode)
<1>1. d \in Dirs /\ Fits(d, width)
  BY SoundParts
<1>2. d2 \in Dirs /\ Fits(d2, width)
  BY <1>1, RemoveSpots DEF CutAt
<1>3. PICK f : Moved(f, d2, d, Spots(d) \ {p})
  BY <1>1, RemoveSpots DEF CutAt
<1> HIDE DEF d2
<1>4. /\ DOMAIN told2 = DOMAIN told \ {EntryIn(d, p).anode}
      /\ \A b \in DOMAIN told2 : told2[b] = told[b]
  BY DEF Without
<1> HIDE DEF told2
<1>5. \A s \in Spots(d2) : /\ f[s] \in Spots(d) /\ f[s] # p
                           /\ EntryIn(d2, s) = EntryIn(d, f[s])
  BY <1>3 DEF Moved
<1>6. \A s \in Spots(d2) : EntryIn(d2, s).anode \in DOMAIN told2
  <2> SUFFICES ASSUME NEW s \in Spots(d2) PROVE EntryIn(d2, s).anode \in DOMAIN told2
    OBVIOUS
  <2>1. f[s] \in Spots(d) /\ f[s] # p /\ EntryIn(d2, s) = EntryIn(d, f[s])
    BY <1>5
  <2>2. EntryIn(d, f[s]).anode \in DOMAIN told
    BY <2>1, SoundParts
  <2>3. EntryIn(d, f[s]).anode # EntryIn(d, p).anode
    BY <2>1, SoundParts
  <2> QED BY <2>1, <2>2, <2>3, <1>4
<1>7. KeptEntries(d2, told2, d, told, {}, f)
  <2>1. f \in [Spots(d2) \ {} -> Spots(d)]
    BY <1>3 DEF Moved
  <2>2. \A s, t \in Spots(d2) \ {} : f[s] = f[t] => s = t
    BY <1>3 DEF Moved
  <2> QED BY <2>1, <2>2, <1>4, <1>5, <1>6 DEF KeptEntries
<1>8. NewEntry(d2, told2, {})
  BY DEF NewEntry
<1>9. ListEntries(d2) = ListEntries(d) \ {EntryIn(d, p)}
  <2>1. ASSUME NEW x \in ListEntries(d2) PROVE x \in ListEntries(d) /\ x # EntryIn(d, p)
    <3>1. PICK s \in Spots(d2) : x = EntryIn(d2, s)
      BY DEF ListEntries
    <3>2. f[s] \in Spots(d) /\ f[s] # p /\ x = EntryIn(d, f[s])
      BY <1>5, <3>1
    <3>3. EntryIn(d, f[s]).anode # EntryIn(d, p).anode
      BY <3>2, SoundParts
    <3> QED BY <3>2, <3>3 DEF ListEntries
  <2>2. ASSUME NEW x \in ListEntries(d), x # EntryIn(d, p) PROVE x \in ListEntries(d2)
    <3>1. PICK k \in Spots(d) : x = EntryIn(d, k)
      BY DEF ListEntries
    <3>2. k # p
      BY <2>2, <3>1
    <3>3. PICK s \in Spots(d2) : f[s] = k
      BY <1>3, <3>2 DEF Moved
    <3> QED BY <1>5, <3>1, <3>3 DEF ListEntries
  <2> QED BY <2>1, <2>2
<1>10. DOMAIN told2 = {x.anode : x \in ListEntries(d2)}
  <2>1. ASSUME NEW b \in DOMAIN told2 PROVE \E x \in ListEntries(d2) : x.anode = b
    <3>1. b \in DOMAIN told /\ b # EntryIn(d, p).anode
      BY <1>4
    <3>2. PICK k \in Spots(d) : EntryIn(d, k).anode = b
      BY <3>1, SoundParts
    <3>3. EntryIn(d, k) \in ListEntries(d2)
      BY <3>1, <3>2, <1>9 DEF ListEntries
    <3> QED BY <3>2, <3>3
  <2>2. ASSUME NEW x \in ListEntries(d2) PROVE x.anode \in DOMAIN told2
    BY <1>6 DEF ListEntries
  <2> QED BY <2>1, <2>2
<1>11. SoundDir(width, d2, told2)
  BY <1>2, <1>7, <1>8, <1>10, Rebuilt
<1> QED BY <1>9, <1>11 DEF d2, told2

\* An entry patched in place: its length, name and anode stay.
LEMMA PatchKeepsSound ==
  ASSUME NEW width, NEW d, NEW told, SoundDir(width, d, told), NEW p \in Spots(d),
         NEW e \in Entry, WellFormed(e), e.size = EntryIn(d, p).size,
         e.name = EntryIn(d, p).name, e.anode = EntryIn(d, p).anode,
         NEW told2, DOMAIN told2 = DOMAIN told, IsAsTold(e, told2[e.anode]),
         \A b \in DOMAIN told \ {e.anode} : told2[b] = told[b]
  PROVE  SoundDir(width, PutAt(d, p, e), told2)
<1> DEFINE d2 == PutAt(d, p, e)
<1>1. d \in Dirs /\ Fits(d, width)
  BY SoundParts
<1>2. /\ d2 \in Dirs /\ Fits(d2, width) /\ Spots(d2) = Spots(d) /\ EntryIn(d2, p) = e
      /\ \A q \in Spots(d) \ {p} : EntryIn(d2, q) = EntryIn(d, q)
  <2>1. d2 \in Dirs /\ Fits(d2, width) /\ OnlyPut(d2, d, p, e)
    BY <1>1, PatchSpots
  <2> HIDE DEF d2
  <2> QED BY <2>1 DEF OnlyPut
<1> HIDE DEF d2
<1> DEFINE f == [s \in Spots(d2) \ {p} |-> s]
<1>3. f \in [Spots(d2) \ {p} -> Spots(d)] /\ \A s \in Spots(d2) \ {p} : f[s] = s
  BY <1>2
<1> HIDE DEF f
<1>4. ASSUME NEW s \in Spots(d2) \ {p}
      PROVE  /\ EntryIn(d2, s) = EntryIn(d, f[s])
             /\ told2[EntryIn(d2, s).anode] = told[EntryIn(d2, s).anode]
             /\ EntryIn(d2, s).anode # e.anode
             /\ EntryIn(d2, s).name # e.name \/ e.name \notin Names
  <2>1. s \in Spots(d) /\ s # p /\ f[s] = s /\ EntryIn(d2, s) = EntryIn(d, s)
    BY <1>2, <1>3
  <2>2. EntryIn(d, s).anode \in DOMAIN told
    BY <2>1, SoundParts
  <2>3. EntryIn(d, s).anode # EntryIn(d, p).anode
    BY <2>1, SoundParts
  <2>4. EntryIn(d, s).name # EntryIn(d, p).name \/ EntryIn(d, p).name \notin Names
    BY <2>1, SoundParts
  <2> QED BY <2>1, <2>2, <2>3, <2>4
<1>5. KeptEntries(d2, told2, d, told, {p}, f)
  BY <1>3, <1>4 DEF KeptEntries
<1>6. NewEntry(d2, told2, {p})
  BY <1>2, <1>4 DEF NewEntry
<1>7. DOMAIN told2 = {x.anode : x \in ListEntries(d2)}
  <2>1. DOMAIN told = {x.anode : x \in ListEntries(d)}
    BY DEF SoundDir
  <2>2. \A s \in Spots(d) : EntryIn(d2, s).anode = EntryIn(d, s).anode
    BY <1>2
  <2>3. {x.anode : x \in ListEntries(d2)} = {EntryIn(d2, s).anode : s \in Spots(d)}
    BY <1>2 DEF ListEntries
  <2>4. {x.anode : x \in ListEntries(d)} = {EntryIn(d, s).anode : s \in Spots(d)}
    BY DEF ListEntries
  <2>5. {EntryIn(d2, s).anode : s \in Spots(d)} = {EntryIn(d, s).anode : s \in Spots(d)}
    BY <2>2, Zenon
  <2> QED BY <2>1, <2>3, <2>4, <2>5
<1>8. SoundDir(width, d2, told2)
  BY <1>2, <1>5, <1>6, <1>7, Rebuilt
<1> QED BY <1>8 DEF d2

\* rename_in once nothing is in the way: a new entry for the same anode is
\* added under m, then the one of name n is removed.
LEMMA MoveKeepsSound ==
  ASSUME bsize \in Nat, bsize >= 1024, NEW d, NEW told, SoundDir(bsize, d, told),
         NEW n \in Names, NEW m \in Names, n # m, NEW p, Places(d, n) = {p}, Places(d, m) = {},
         NEW e, e = BuildDirEntry(m, EntryIn(d, p).anode, FileSize(EntryIn(d, p)),
                                  EntryIn(d, p).prot),
         AddDirEntry(d, e).ok
  PROVE  SoundDir(bsize, RemoveDirEntry(AddDirEntry(d, e).dir, n),
                  [told EXCEPT ![e.anode].name = m])
<1> DEFINE old == EntryIn(d, p)
           d1 == AddDirEntry(d, e).dir
           told2 == [told EXCEPT ![e.anode].name = m]
<1>0. p \in Spots(d) /\ EntryIn(d, p).name = n
  BY DEF Places
<1>1. /\ old \in Entry /\ WellFormed(old) /\ IsAsTold(old, told[old.anode])
      /\ old.anode \in DOMAIN told
  BY <1>0, SoundParts
<1>2. /\ old.anode \in Nat /\ old.prot \in SUBSET (HSPA \cup RWED) /\ FileSize(old) \in Nat
  <2>1. /\ old.anode \in Nat /\ old.prot \in SUBSET (HSPA \cup RWED)
        /\ old.fsize \in Nat /\ old.fsizex \in Nat
    BY <1>1, EntryFields
  <2>2. FileSize(old) = old.fsize + Low * (IF "fsizex" \in old.flags THEN old.fsizex ELSE 0)
    BY <1>1, FileSizeIs
  <2> QED BY <2>1, <2>2, DirAssumption
<1>3. /\ e \in Entry /\ WellFormed(e) /\ FileSize(e) = FileSize(old)
      /\ e.name = ReadBack[m] /\ e.anode = old.anode /\ e.prot = old.prot
  <2> HIDE DEF old
  <2> QED BY <1>2, BuiltWell DEF old
<1>4. d \in Dirs /\ Fits(d, bsize)
  BY SoundParts
<1>5. HeaderSize + e.size <= bsize
  <2>1. e.size \in Nat /\ e.size <= 255
    BY <1>3, EntrySize DEF WellFormed
  <2> QED BY <2>1 DEF HeaderSize
<1>6. d1 \in Dirs /\ Fits(d1, bsize)
  BY <1>3, <1>4, <1>5, AddSpots
<1>7. PICK r : /\ r \notin Spots(d) /\ Spots(d1) = Spots(d) \cup {r}
               /\ EntryIn(d1, r) = e
               /\ \A s \in Spots(d) : EntryIn(d1, s) = EntryIn(d, s)
  BY <1>3, <1>4, <1>5, AddSpots
<1>8. e.name # n
  BY <1>3, NamesAssumption
<1> HIDE DEF d1, old
<1>9. p \in Spots(d1) /\ Places(d1, n) = {p}
  <2>1. p \in Places(d1, n)
    BY <1>0, <1>7 DEF Places
  <2>2. ASSUME NEW s \in Places(d1, n) PROVE s = p
    <3>1. s \in Spots(d1) /\ EntryIn(d1, s).name = n
      BY DEF Places
    <3>2. s \in Spots(d)
      BY <3>1, <1>7, <1>8
    <3>3. s \in Places(d, n)
      BY <3>1, <3>2, <1>7 DEF Places
    <3> QED BY <3>3
  <2> QED BY <2>1, <2>2, <1>0, <1>7
<1>10. FindDirEntry(d1, n) = p
  BY <1>6, <1>9, FoundOnly
<1> DEFINE d2 == RemoveDirEntry(d1, n)
<1>11. d2 = [d1 EXCEPT ![p[1]] = RemoveAt(@, p[2])]
  BY <1>10 DEF RemoveDirEntry
<1> HIDE DEF d2
<1>12. d2 \in Dirs /\ Fits(d2, bsize) /\ \E f : Moved(f, d2, d1, Spots(d1) \ {p})
  <2> DEFINE c == [d1 EXCEPT ![p[1]] = RemoveAt(@, p[2])]
  <2>1. c \in Dirs /\ Fits(c, bsize) /\ \E f : Moved(f, c, d1, Spots(d1) \ {p})
    BY <1>6, <1>9, RemoveSpots, Zenon
  <2> HIDE DEF c
  <2> QED BY <1>11, <2>1 DEF c
<1>13. PICK f : Moved(f, d2, d1, Spots(d1) \ {p})
  BY <1>12
<1>14. PICK t \in Spots(d2) : f[t] = r
  <2>1. r \in Spots(d1) \ {p}
    BY <1>0, <1>7
  <2> QED BY <1>13, <2>1 DEF Moved
<1>15. EntryIn(d2, t) = e
  BY <1>7, <1>13, <1>14 DEF Moved
<1>16. ASSUME NEW s \in Spots(d2) \ {t}
       PROVE  /\ f[s] \in Spots(d) \ {p} /\ EntryIn(d2, s) = EntryIn(d, f[s])
              /\ EntryIn(d2, s).anode # old.anode /\ EntryIn(d2, s).anode \in DOMAIN told
  <2>1. f[s] \in Spots(d1) \ {p} /\ f[s] # r /\ EntryIn(d2, s) = EntryIn(d1, f[s])
    BY <1>13, <1>14 DEF Moved
  <2>2. f[s] \in Spots(d) \ {p} /\ EntryIn(d2, s) = EntryIn(d, f[s])
    BY <2>1, <1>7
  <2>3. EntryIn(d, f[s]).anode # EntryIn(d, p).anode
    BY <2>2, <1>0, SoundParts
  <2>4. EntryIn(d, f[s]).anode \in DOMAIN told
    BY <2>2, SoundParts
  <2> QED BY <2>2, <2>3, <2>4 DEF old
<1>17. /\ DOMAIN told2 = DOMAIN told
       /\ \A b \in DOMAIN told \ {old.anode} : told2[b] = told[b]
       /\ told2[old.anode] = [told[old.anode] EXCEPT !.name = m]
  BY <1>1, <1>3
<1> HIDE DEF told2
<1>18. IsAsTold(e, told2[e.anode])
  <2> DEFINE u == told[old.anode]
  <2>1. u = Told(u.name, u.size, u.prot) /\ u.size \in Nat /\ old.prot = u.prot
        /\ ShowsSize(old, u.size)
    BY <1>1 DEF IsAsTold
  <2>2. told2[e.anode] = Told(m, u.size, u.prot)
    <3>1. told2[e.anode] = [u EXCEPT !.name = m]
      BY <1>3, <1>17
    <3> HIDE DEF u
    <3> QED BY <2>1, <3>1 DEF Told
  <2>3. ShowsSize(e, u.size)
    <3>1. CASE FileSize(old) = u.size
      BY <3>1, <1>3 DEF ShowsSize
    <3>2. CASE u.size >= Low /\ FileSize(old) = u.size % Low
      <4>1. FileSize(e) = u.size % Low /\ u.size % Low \in 0..(Low - 1)
        BY <2>1, <3>2, <1>3, Halves
      <4>2. "fsizex" \notin e.flags
        <5>1. FileSize(old) \in Nat /\ FileSize(old) < Low
          BY <3>2, <4>1, DirAssumption
        <5>2. FileSize(old) \div Low = 0
          BY <5>1, Halves
        <5>3. e.flags = IF FileSize(old) \div Low > 0 THEN {"fsizex"} ELSE {}
          BY DEF BuildDirEntry, old
        <5> QED BY <5>2, <5>3
      <4> QED BY <3>2, <4>1, <4>2 DEF ShowsSize
    <3> QED BY <2>1, <3>1, <3>2 DEF ShowsSize
  <2> HIDE DEF u
  <2>4. Told(m, u.size, u.prot).name = m /\ Told(m, u.size, u.prot).size = u.size
        /\ Told(m, u.size, u.prot).prot = u.prot
    BY DEF Told
  <2> QED BY <2>1, <2>2, <2>3, <2>4, <1>3 DEF IsAsTold
<1> DEFINE g == [s \in Spots(d2) \ {t} |-> f[s]]
<1>19. g \in [Spots(d2) \ {t} -> Spots(d)] /\ \A s \in Spots(d2) \ {t} : g[s] = f[s]
  BY <1>16
<1> HIDE DEF g
<1>20. KeptEntries(d2, told2, d, told, {t}, g)
  <2>1. \A s, u \in Spots(d2) \ {t} : g[s] = g[u] => s = u
    BY <1>13, <1>19 DEF Moved
  <2>2. ASSUME NEW s \in Spots(d2) \ {t}
        PROVE  /\ EntryIn(d2, s) = EntryIn(d, g[s])
               /\ told2[EntryIn(d2, s).anode] = told[EntryIn(d2, s).anode]
    BY <1>16, <1>17, <1>19
  <2> QED BY <1>19, <2>1, <2>2 DEF KeptEntries
<1>21. NewEntry(d2, told2, {t})
  <2>1. ASSUME NEW s \in Spots(d2) \ {t}
        PROVE  /\ EntryIn(d2, s).anode # e.anode
               /\ EntryIn(d2, s).name # e.name \/ e.name \notin Names
    <3>1. EntryIn(d2, s).name # m
      BY <1>16 DEF Places
    <3> QED BY <1>3, <1>16, <3>1, NamesAssumption
  <2> QED BY <2>1, <1>3, <1>14, <1>15, <1>18 DEF NewEntry
<1>22. DOMAIN told2 = {x.anode : x \in ListEntries(d2)}
  <2>1. ASSUME NEW b \in DOMAIN told PROVE \E s \in Spots(d2) : EntryIn(d2, s).anode = b
    <3>1. PICK k \in Spots(d) : EntryIn(d, k).anode = b
      BY SoundParts
    <3>2. CASE k = p
      BY <3>1, <3>2, <1>3, <1>14, <1>15 DEF old
    <3>3. CASE k # p
      <4>1. k \in Spots(d1) \ {p} /\ EntryIn(d1, k) = EntryIn(d, k)
        BY <3>3, <1>7
      <4>2. PICK s \in Spots(d2) : f[s] = k
        BY <4>1, <1>13 DEF Moved
      <4>3. EntryIn(d2, s) = EntryIn(d1, k)
        BY <4>2, <1>13 DEF Moved
      <4> QED BY <3>1, <4>1, <4>2, <4>3
    <3> QED BY <3>2, <3>3
  <2>2. ASSUME NEW s \in Spots(d2) PROVE EntryIn(d2, s).anode \in DOMAIN told
    BY <1>1, <1>3, <1>15, <1>16
  <2>3. {x.anode : x \in ListEntries(d2)} = {EntryIn(d2, s).anode : s \in Spots(d2)}
    BY DEF ListEntries
  <2>4. DOMAIN told = {EntryIn(d2, s).anode : s \in Spots(d2)}
    BY <2>1, <2>2, Zenon
  <2> QED BY <2>3, <2>4, <1>17
<1>23. SoundDir(bsize, d2, told2)
  BY <1>12, <1>20, <1>21, <1>22, Rebuilt
<1> QED BY <1>23 DEF d2, d1, told2

\* overwrite_file_in: the entry found under a name is patched with a new size.
LEMMA ResizeKeepsSound ==
  ASSUME NEW width, NEW d, NEW told, SoundDir(width, d, told),
         NEW n \in Names, Places(d, n) # {}, NEW s \in Nat
  PROVE  SoundDir(width, Patched(d, n, PatchSize(EntryAt(d, n), s)),
                  [told EXCEPT ![EntryAt(d, n).anode].size = s])
<1> DEFINE p == FindDirEntry(d, n)
           old == EntryIn(d, p)
           e == PatchSize(old, s)
           u == told[old.anode]
           told2 == [told EXCEPT ![old.anode].size = s]
<1>1. p \in Spots(d)
  BY NameFound
<1>2. /\ old \in Entry /\ WellFormed(old) /\ IsAsTold(old, u) /\ old.anode \in DOMAIN told
  BY <1>1, SoundParts
<1>3. Patched(d, n, e) = PutAt(d, p, e) /\ EntryAt(d, n) = old
  BY DEF Patched, PutAt, EntryAt
<1> HIDE DEF p, old
<1>4. /\ e \in Entry /\ WellFormed(e) /\ ShowsSize(e, s)
      /\ e.size = old.size /\ e.name = old.name /\ e.anode = old.anode /\ e.prot = old.prot
  BY <1>2, PatchedWell
<1> HIDE DEF e
<1>5. /\ DOMAIN told2 = DOMAIN told /\ told2[old.anode] = [u EXCEPT !.size = s]
      /\ \A b \in DOMAIN told \ {old.anode} : told2[b] = told[b]
  BY <1>2
<1>6. [u EXCEPT !.size = s] = Told(u.name, s, u.prot)
  <2>1. u = Told(u.name, u.size, u.prot)
    BY <1>2 DEF IsAsTold
  <2> HIDE DEF u
  <2> QED BY <2>1 DEF Told
<1> HIDE DEF told2, u
<1>7. IsAsTold(e, told2[e.anode])
  BY <1>2, <1>4, <1>5, <1>6 DEF IsAsTold, Told
<1>8. SoundDir(width, PutAt(d, p, e), told2)
  BY <1>1, <1>4, <1>5, <1>7, PatchKeepsSound DEF old
<1> QED BY <1>3, <1>8 DEF told2, e

\* setxattr and "protect": the entry found under a name gets other bits.
LEMMA ProtectKeepsSound ==
  ASSUME NEW width, NEW d, NEW told, SoundDir(width, d, told), NEW n \in Names,
         Places(d, n) # {}, NEW prot \in SUBSET (HSPA \cup RWED)
  PROVE  SoundDir(width, Patched(d, n, [EntryAt(d, n) EXCEPT !.prot = prot]),
                  [told EXCEPT ![EntryAt(d, n).anode].prot = prot])
<1> DEFINE p == FindDirEntry(d, n)
           old == EntryIn(d, p)
           e == [old EXCEPT !.prot = prot]
           u == told[old.anode]
           told2 == [told EXCEPT ![old.anode].prot = prot]
<1>1. p \in Spots(d)
  BY NameFound
<1>2. /\ old \in Entry /\ WellFormed(old) /\ IsAsTold(old, u) /\ old.anode \in DOMAIN told
  BY <1>1, SoundParts
<1>3. Patched(d, n, e) = PutAt(d, p, e) /\ EntryAt(d, n) = old
  BY DEF Patched, PutAt, EntryAt
<1> HIDE DEF p, old
<1>4. /\ e \in Entry /\ WellFormed(e) /\ FileSize(e) = FileSize(old) /\ e.flags = old.flags
      /\ e.size = old.size /\ e.name = old.name /\ e.anode = old.anode /\ e.prot = prot
  BY <1>2, ProtectedWell
<1> HIDE DEF e
<1>5. /\ DOMAIN told2 = DOMAIN told /\ told2[old.anode] = [u EXCEPT !.prot = prot]
      /\ \A b \in DOMAIN told \ {old.anode} : told2[b] = told[b]
  BY <1>2
<1>6. [u EXCEPT !.prot = prot] = Told(u.name, u.size, prot)
  <2>1. u = Told(u.name, u.size, u.prot)
    BY <1>2 DEF IsAsTold
  <2> HIDE DEF u
  <2> QED BY <2>1 DEF Told
<1> HIDE DEF told2, u
<1>7. IsAsTold(e, told2[e.anode])
  BY <1>2, <1>4, <1>5, <1>6 DEF IsAsTold, Told, ShowsSize
<1>8. SoundDir(width, PutAt(d, p, e), told2)
  BY <1>1, <1>4, <1>5, <1>7, PatchKeepsSound DEF old
<1> QED BY <1>3, <1>8 DEF told2, e

\* delete_in: the name is gone, and what is found under other names stays.
LEMMA DeleteKeepsSound ==
  ASSUME NEW width \in Nat, NEW d, NEW told, SoundDir(width, d, told),
         NEW m \in Names, Places(d, m) # {}
  PROVE  /\ SoundDir(width, RemoveDirEntry(d, m), Without(told, EntryAt(d, m).anode))
         /\ Places(RemoveDirEntry(d, m), m) = {}
         /\ \A n \in Names \ {m} : Places(d, n) # {} =>
              /\ Places(RemoveDirEntry(d, m), n) # {}
              /\ EntryAt(RemoveDirEntry(d, m), n) = EntryAt(d, n)
<1> DEFINE p == FindDirEntry(d, m)
           c == RemoveDirEntry(d, m)
           told2 == Without(told, EntryIn(d, p).anode)
<1>1. p \in Spots(d) /\ EntryIn(d, p).name = m /\ Places(d, m) = {p}
  BY NameFound
<1>2. c = CutAt(d, p) /\ EntryAt(d, m) = EntryIn(d, p)
  BY DEF RemoveDirEntry, EntryAt, CutAt
<1> HIDE DEF p
<1>3. SoundDir(width, c, told2) /\ ListEntries(c) = ListEntries(d) \ {EntryIn(d, p)}
  BY <1>1, <1>2, RemoveKeepsSound
<1> HIDE DEF c, told2
<1>4. Places(c, m) = {}
  <2> SUFFICES ASSUME NEW s \in Places(c, m) PROVE FALSE
    OBVIOUS
  <2>1. s \in Spots(c) /\ EntryIn(c, s).name = m
    BY DEF Places
  <2>2. EntryIn(c, s) \in ListEntries(d) \ {EntryIn(d, p)}
    BY <1>3, <2>1 DEF ListEntries
  <2>3. PICK q \in Spots(d) : EntryIn(c, s) = EntryIn(d, q)
    BY <2>2 DEF ListEntries
  <2>4. q \in Places(d, m)
    BY <2>1, <2>3 DEF Places
  <2> QED BY <1>1, <2>2, <2>3, <2>4
<1>5. ASSUME NEW n \in Names \ {m}, Places(d, n) # {}
      PROVE  Places(c, n) # {} /\ EntryAt(c, n) = EntryAt(d, n)
  <2> DEFINE q == FindDirEntry(d, n)
  <2>1. q \in Spots(d) /\ EntryIn(d, q).name = n /\ Places(d, n) = {q}
    BY <1>5, NameFound
  <2> HIDE DEF q
  <2>2. EntryIn(d, q) \in ListEntries(c)
    BY <1>1, <1>3, <2>1 DEF ListEntries
  <2>3. PICK s \in Spots(c) : EntryIn(c, s) = EntryIn(d, q)
    BY <2>2 DEF ListEntries
  <2>4. s \in Places(c, n)
    BY <2>1, <2>3 DEF Places
  <2>5. Places(c, n) = {FindDirEntry(c, n)}
    BY <1>3, <2>4, NameFound
  <2>6. EntryAt(c, n) = EntryIn(d, q)
    BY <2>3, <2>4, <2>5 DEF EntryAt
  <2> QED BY <2>4, <2>6 DEF EntryAt, q
<1> QED BY <1>2, <1>3, <1>4, <1>5 DEF c, told2

\* rename_in onto a name that nothing, or another entry, has.
LEMMA RenameKeepsSound ==
  ASSUME bsize \in Nat, bsize >= 1024, NEW d, NEW told, SoundDir(bsize, d, told),
         NEW n \in Names, NEW m \in Names, n # m, Places(d, n) # {}, Places(d, m) = {},
         NEW e, e = BuildDirEntry(m, EntryAt(d, n).anode, FileSize(EntryAt(d, n)),
                                  EntryAt(d, n).prot),
         AddDirEntry(d, e).ok
  PROVE  SoundDir(bsize, RemoveDirEntry(AddDirEntry(d, e).dir, n),
                  [told EXCEPT ![EntryAt(d, n).anode].name = m])
<1> DEFINE p == FindDirEntry(d, n)
<1>1. p \in Spots(d) /\ Places(d, n) = {p}
  BY NameFound
<1>2. EntryAt(d, n) = EntryIn(d, p)
  BY DEF EntryAt
<1>3. e.anode = EntryIn(d, p).anode
  BY <1>2 DEF BuildDirEntry
<1> HIDE DEF p
<1> QED BY <1>1, <1>2, <1>3, MoveKeepsSound

-----------------------------------------------------------------------------
(* The invariant *)

BlockSizes == {1024, 2048, 4096}

\* Until it is mounted the volume has no directory; then it is a sound one, in
\* blocks of a size that the format chose.
DirInv ==
  /\ bsize \in Nat
  /\ IF phase = "mounted" THEN bsize \in BlockSizes ELSE blocks = <<>> /\ made = <<>>
  /\ SoundDir(bsize, blocks, made)

\* A directory without entries is sound.
LEMMA EmptySound ==
  ASSUME NEW width \in Nat
  PROVE  /\ SoundDir(width, <<>>, <<>>)
         /\ HeaderSize <= width => SoundDir(width, << <<>> >>, <<>>)
<1>1. \A d \in {<<>>, << <<>> >>} : d \in Dirs /\ Spots(d) = {}
  <2>1. <<>> \in Dirs /\ Spots(<<>>) = {}
    BY DEF Dirs, Spots
  <2>2. << <<>> >> \in Dirs /\ Spots(<< <<>> >>) = {}
    <3>1. <<>> \in Seq(Entry) /\ DOMAIN <<>> = {}
      OBVIOUS
    <3>2. PICK b \in Seq(Entry) : b = <<>> /\ DOMAIN b = {}
      BY <3>1
    <3>3. <<b>> \in Seq(Seq(Entry)) /\ \A i \in DOMAIN <<b>> : <<b>>[i] = b
      OBVIOUS
    <3> QED BY <3>2, <3>3 DEF Dirs, Spots
  <2> QED BY <2>1, <2>2
<1>2. \A d \in {<<>>, << <<>> >>} : ListEntries(d) = {}
  BY <1>1 DEF ListEntries
<1>3. Fits(<<>>, width)
  BY DEF Fits
<1>4. HeaderSize <= width => Fits(<< <<>> >>, width)
  BY EndPosEmpty DEF Fits
<1>5. DOMAIN <<>> = {}
  OBVIOUS
<1> QED BY <1>1, <1>2, <1>3, <1>4, <1>5 DEF SoundDir, Dirs, Fits

\* The initial states: an empty disk or one of the volumes in use.
LEMMA DirInvInit == Init => DirInv
<1>1. CASE BlankInit
  BY <1>1, EmptySound DEF BlankInit, FormatInit, DirInv
<1>2. CASE UsedInit
  <2>1. PICK u \in Used : bsize = u.bsize /\ blocks = u.blocks /\ made = u.made
    BY <1>2 DEF UsedInit
  <2>2. u.bsize \in BlockSizes /\ SoundDir(u.bsize, u.blocks, u.made)
    BY UsedAssumption DEF BlockSizes
  <2> QED BY <1>2, <2>1, <2>2 DEF UsedInit, DirInv, BlockSizes
<1> QED BY <1>1, <1>2 DEF Init

\* The bits a spec leaves are protection bits, and the ones that are shown,
\* given as an absolute spec, are exactly the ones that were there, unless
\* there is nothing to show.
LEMMA ParsedBits ==
  ASSUME NEW current \in SUBSET (HSPA \cup RWED)
  PROVE  /\ \A spec : \A left \in ParseAmigaProtection(current, spec) :
              left \in SUBSET (HSPA \cup RWED)
         /\ \A prot \in SUBSET (HSPA \cup RWED) :
              ParseAmigaProtection(current, [mode |-> "=", letters |-> AmigaProtectionString(prot)])
                = IF prot = RWED THEN {} ELSE {prot}
<1>1. ASSUME NEW spec, NEW left \in ParseAmigaProtection(current, spec)
      PROVE  left \in SUBSET (HSPA \cup RWED)
  BY DEF ParseAmigaProtection
<1>2. ASSUME NEW prot \in SUBSET (HSPA \cup RWED)
      PROVE  ParseAmigaProtection(current,
               [mode |-> "=", letters |-> AmigaProtectionString(prot)])
                 = IF prot = RWED THEN {} ELSE {prot}
  <2>1. HSPA \cap RWED = {}
    BY DEF HSPA, RWED
  <2>2. PICK shown : shown = AmigaProtectionString(prot)
    OBVIOUS
  <2>3. ParseAmigaProtection(current, [mode |-> "=", letters |-> shown])
          = IF shown = {} THEN {} ELSE {(RWED \cup (shown \cap HSPA)) \ (shown \cap RWED)}
    BY DEF ParseAmigaProtection, EmptySpec
  <2>4. shown = {} <=> prot = RWED
    BY <2>1, <2>2 DEF AmigaProtectionString
  <2>5. (RWED \cup (shown \cap HSPA)) \ (shown \cap RWED) = prot
    BY <2>1, <2>2 DEF AmigaProtectionString
  <2> QED BY <2>2, <2>3, <2>4, <2>5
<1> QED BY <1>1, <1>2

\* Every operation on a mounted volume keeps its directory sound.
LEMMA DirNextKeepsSound ==
  ASSUME DirInv, phase = "mounted", DirNext
  PROVE  bsize' = bsize /\ SoundDir(bsize, blocks', made')
<1>0. /\ bsize \in Nat /\ bsize >= 1024 /\ SoundDir(bsize, blocks, made)
  BY DEF DirInv, BlockSizes
<1>1. PICK n \in Names :
        \/ \E s \in FileSizes : CreateEntry(n, s) \/ ResizeEntry(n, s)
        \/ DeleteEntry(n)
        \/ \E m \in Names : RenameEntry(n, m)
        \/ \E spec \in Specs : ProtectEntry(n, spec)
  BY DEF DirNext
<1>2. ASSUME NEW s \in FileSizes, CreateEntry(n, s)
      PROVE  bsize' = bsize /\ SoundDir(bsize, blocks', made')
  <2>1. PICK a \in AllocAnode :
          LET add == AddDirEntry(blocks, BuildDirEntry(n, a, s, {}))
          IN  /\ Places(blocks, n) = {}
              /\ Changed(add.dir, IF add.ok THEN With(made, a, Told(n, s, {})) ELSE made)
    BY <1>2 DEF CreateEntry
  <2> DEFINE add == AddDirEntry(blocks, BuildDirEntry(n, a, s, {}))
  <2>2. a \in Nat \ DOMAIN made /\ s \in Nat
    BY DirAssumption DEF AllocAnode, Anodes
  <2>3. CASE add.ok
    <3>1. /\ bsize' = bsize /\ blocks' = add.dir /\ made' = With(made, a, Told(n, s, {}))
      BY <2>1, <2>3 DEF Changed
    <3>2. SoundDir(bsize, add.dir, With(made, a, Told(n, s, {})))
      BY <1>0, <2>1, <2>2, <2>3, CreateKeepsSound
    <3> QED BY <3>1, <3>2
  <2>4. CASE ~add.ok
    <3>1. add.dir = blocks
      BY <2>4 DEF AddDirEntry
    <3> QED BY <1>0, <2>1, <2>4, <3>1 DEF Changed
  <2> QED BY <2>3, <2>4
<1>3. ASSUME NEW s \in FileSizes, ResizeEntry(n, s)
      PROVE  bsize' = bsize /\ SoundDir(bsize, blocks', made')
  <2>1. s \in Nat /\ Places(blocks, n) # {}
    BY <1>3, DirAssumption DEF ResizeEntry
  <2>2. SoundDir(bsize, Patched(blocks, n, PatchSize(EntryAt(blocks, n), s)),
                 [made EXCEPT ![EntryAt(blocks, n).anode].size = s])
    BY <1>0, <2>1, ResizeKeepsSound
  <2> QED BY <1>3, <2>2 DEF ResizeEntry, Changed
<1>4. ASSUME DeleteEntry(n)
      PROVE  bsize' = bsize /\ SoundDir(bsize, blocks', made')
  <2>1. SoundDir(bsize, RemoveDirEntry(blocks, n), Without(made, EntryAt(blocks, n).anode))
    BY <1>0, <1>4, DeleteKeepsSound DEF DeleteEntry
  <2> QED BY <1>4, <2>1 DEF DeleteEntry, Changed
<1>5. ASSUME NEW spec \in Specs, ProtectEntry(n, spec)
      PROVE  bsize' = bsize /\ SoundDir(bsize, blocks', made')
  <2> DEFINE e == EntryAt(blocks, n)
  <2>1. PICK prot \in ParseAmigaProtection(e.prot, spec) :
          /\ Places(blocks, n) # {} /\ bsize' = bsize
          /\ blocks' = Patched(blocks, n, [e EXCEPT !.prot = prot])
          /\ made' = [made EXCEPT ![e.anode].prot = prot]
    BY <1>5 DEF ProtectEntry, Changed
  <2>2. e \in Entry
    BY <1>0, <2>1, NameFound, SoundParts DEF EntryAt
  <2>3. prot \in SUBSET (HSPA \cup RWED)
    <3>1. e.prot \in SUBSET (HSPA \cup RWED)
      BY <2>2, EntryFields
    <3> HIDE DEF e
    <3> QED BY <2>1, <3>1, ParsedBits
  <2>4. SoundDir(bsize, Patched(blocks, n, [e EXCEPT !.prot = prot]),
                 [made EXCEPT ![e.anode].prot = prot])
    BY <1>0, <2>1, <2>3, ProtectKeepsSound
  <2> QED BY <2>1, <2>4
<1>6. ASSUME NEW m \in Names, RenameEntry(n, m)
      PROVE  bsize' = bsize /\ SoundDir(bsize, blocks', made')
  <2> DEFINE e == EntryAt(blocks, n)
             over == Places(blocks, m) # {}
  <2>0. n # m /\ Places(blocks, n) # {}
    BY <1>6 DEF RenameEntry
  <2>1. PICK c, told : /\ c = IF over THEN RemoveDirEntry(blocks, m) ELSE blocks
                       /\ told = IF over THEN Without(made, EntryAt(blocks, m).anode) ELSE made
    OBVIOUS
  <2>2. /\ SoundDir(bsize, c, told) /\ Places(c, m) = {}
        /\ Places(c, n) # {} /\ EntryAt(c, n) = e
    <3>1. CASE over
      BY <1>0, <2>0, <2>1, <3>1, DeleteKeepsSound
    <3>2. CASE ~over
      BY <1>0, <2>0, <2>1, <3>2
    <3> QED BY <3>1, <3>2
  <2>3. PICK x : x = BuildDirEntry(m, e.anode, FileSize(e), e.prot)
    OBVIOUS
  <2>4. /\ bsize' = bsize
        /\ IF AddDirEntry(c, x).ok
           THEN /\ blocks' = RemoveDirEntry(AddDirEntry(c, x).dir, n)
                /\ made' = [told EXCEPT ![e.anode].name = m]
           ELSE blocks' = c /\ made' = told
    BY <1>6, <2>1, <2>3 DEF RenameEntry, Changed
  <2> HIDE DEF e
  <2>5. CASE AddDirEntry(c, x).ok
    <3>1. SoundDir(bsize, RemoveDirEntry(AddDirEntry(c, x).dir, n),
                   [told EXCEPT ![e.anode].name = m])
      BY <1>0, <2>0, <2>2, <2>3, <2>5, RenameKeepsSound
    <3> QED BY <2>4, <2>5, <3>1
  <2>6. CASE ~AddDirEntry(c, x).ok
    BY <2>2, <2>4, <2>6
  <2> QED BY <2>5, <2>6
<1> QED BY <1>1, <1>2, <1>3, <1>4, <1>5, <1>6

\* Every step keeps it; a mount takes the block size that the format chose.
LEMMA DirInvStep ==
  ASSUME FormatInv, DirInv, [Next]_vars
  PROVE  DirInv'
<1>1. CASE FormatNext /\ UNCHANGED dvars
  <2>1. phase # "mounted" /\ phase' # "mounted"
    BY <1>1 DEF FormatNext, Refuse, WriteBoot, AllocateAll, WriteRoot, WriteExt,
         WriteBitmapIndexes, WriteBitmaps, WriteAnodeIndex, WriteAnodes, WriteRootDir,
         WriteRes, Flush, WriteFails, Writing
  <2> QED BY <1>1, <2>1 DEF DirInv, dvars
<1>2. CASE Mount
  <2>1. disk.root.rbs \in BlockSizes
    <3>1. disk.root = NewRoot(total) /\ total \in Int
      BY <1>2, SizesAssumption DEF Mount, FormatInv, Stages
    <3>2. NewRoot(total).rbs = ResBlockSize(total)
      BY DEF NewRoot, Geometry
    <3>3. \A x, y \in Int : y <= x =>
            (CASE total > x -> 4096
               [] total > y /\ total <= x -> 2048
               [] total <= y -> 1024) \in BlockSizes
      BY <3>1 DEF BlockSizes
    <3>4. MaxDisk1K \in Int /\ MaxDisk2K \in Int /\ MaxDisk1K <= MaxDisk2K
      BY SMT DEF MaxDisk1K, MaxDisk2K, MaxBitmapIndex
    <3> QED BY <3>1, <3>2, <3>3, <3>4 DEF ResBlockSize
  <2>2. phase = "done" /\ phase' = "mounted" /\ blocks' = << <<>> >> /\ made' = made
        /\ bsize' = disk.root.rbs
    BY <1>2 DEF Mount
  <2>3. made = <<>>
    BY <2>2 DEF DirInv
  <2>4. bsize' \in Nat /\ HeaderSize <= bsize'
    BY <2>1, <2>2 DEF BlockSizes, HeaderSize
  <2>5. SoundDir(bsize', << <<>> >>, <<>>)
    BY <2>4, EmptySound
  <2> QED BY <2>1, <2>2, <2>3, <2>4, <2>5 DEF DirInv
<1>3. CASE phase = "mounted" /\ DirNext /\ UNCHANGED fvars
  <2>1. bsize' = bsize /\ SoundDir(bsize, blocks', made')
    BY <1>3, DirNextKeepsSound
  <2> QED BY <1>3, <2>1 DEF DirInv, fvars
<1>4. CASE UNCHANGED vars
  BY <1>4 DEF vars, fvars, dvars, DirInv
<1> QED BY <1>1, <1>2, <1>3, <1>4 DEF Next

\* So it always holds.
LEMMA DirInvHolds == Spec => []DirInv
<1> QED BY DirInvInit, DirInvStep, FormatInvHolds, PTL DEF Spec

-----------------------------------------------------------------------------
(* The theorems *)

\* Whatever the names, comments and sizes, and however often entries are added,
\* patched, moved and removed, the walks over a block end inside it and the
\* fields of an entry inside the entry.
THEOREM EntriesStayInside == Spec => []EntriesInside
<1>1. DirInv => EntriesInside
  <2> SUFFICES ASSUME DirInv, NEW i \in DOMAIN blocks
               PROVE  /\ EndPos(blocks[i]) <= bsize
                      /\ \A e \in ToSet(blocks[i]) :
                           /\ e.size % 2 = 0 /\ e.size <= 255
                           /\ NameOff + e.nlen + 1 + e.clen <= e.flagsAt
                           /\ e.flagsAt + 2 <= e.size
                           /\ "fsizex" \in e.flags => e.fsizexAt + 2 <= e.size
    BY DEF EntriesInside
  <2>1. SoundDir(bsize, blocks, made) /\ EndPos(blocks[i]) <= bsize
    BY DEF DirInv, SoundDir
  <2>2. ASSUME NEW e \in ToSet(blocks[i])
        PROVE  /\ e.size % 2 = 0 /\ e.size <= 255
               /\ NameOff + e.nlen + 1 + e.clen <= e.flagsAt /\ e.flagsAt + 2 <= e.size
               /\ "fsizex" \in e.flags => e.fsizexAt + 2 <= e.size
    <3>1. PICK j \in DOMAIN blocks[i] : e = blocks[i][j]
      BY DEF ToSet
    <3>2. <<i, j>> \in Spots(blocks) /\ e = EntryIn(blocks, <<i, j>>)
      BY <3>1 DEF Spots, EntryIn
    <3>3. e \in Entry /\ WellFormed(e)
      BY <2>1, <3>2, SoundParts
    <3>4. e.size \in Nat /\ e.flagsAt \in Nat
      BY <3>3, EntryFields
    <3>5. /\ NameOff + e.nlen + 1 + e.clen <= e.flagsAt
          /\ FieldsEnd(e) \in Nat /\ e.flagsAt + 2 <= FieldsEnd(e)
      BY <3>3, FlagsFound
    <3> QED BY <3>3, <3>4, <3>5 DEF WellFormed
  <2> QED BY <2>1, <2>2
<1> QED BY <1>1, DirInvHolds, PTL

\* Every size reads back as written, through any sequence of resizes and
\* renames, but for a file that outgrew Low in an entry without an upper half.
THEOREM SizesReadBack == Spec => []SizeReadsBack
<1>1. DirInv => SizeReadsBack
  BY DEF DirInv, SoundDir, IsAsTold, SizeReadsBack
<1> QED BY <1>1, DirInvHolds, PTL

\* No entry vanishes or is listed twice, and a file is found under its name
\* with its bits, however many operations moved the entries of its block.
THEOREM FilesAreFoundAgain == Spec => []FoundAgain
<1>1. DirInv => FoundAgain
  <2> SUFFICES ASSUME DirInv PROVE FoundAgain
    OBVIOUS
  <2>1. SoundDir(bsize, blocks, made)
    BY DEF DirInv
  <2>2. ASSUME NEW a \in DOMAIN made, NEW n, n = made[a].name, n \in Names, ReadBack[n] = n
        PROVE  /\ Places(blocks, n) # {} /\ EntryAt(blocks, n).anode = a
               /\ EntryAt(blocks, n).prot = made[a].prot
    <3>1. PICK p \in Spots(blocks) : EntryIn(blocks, p).anode = a
      BY <2>1, SoundParts
    <3>2. IsAsTold(EntryIn(blocks, p), made[a])
      BY <2>1, <3>1, SoundParts
    <3>3. EntryIn(blocks, p).name = n /\ EntryIn(blocks, p).prot = made[a].prot
      BY <2>2, <3>2 DEF IsAsTold
    <3>4. p \in Places(blocks, n)
      BY <3>3 DEF Places
    <3>5. FindDirEntry(blocks, n) = p
      BY <2>1, <2>2, <3>4, NameFound
    <3> QED BY <3>1, <3>3, <3>4, <3>5 DEF EntryAt
  <2>3. {e.anode : e \in ListEntries(blocks)} = DOMAIN made
    BY <2>1 DEF SoundDir
  <2>4. \A p, q \in Spots(blocks) :
          EntryIn(blocks, p).anode = EntryIn(blocks, q).anode => p = q
    BY <2>1 DEF SoundDir
  <2> QED BY <2>2, <2>3, <2>4 DEF FoundAgain
<1> QED BY <1>1, DirInvHolds, PTL

\* The letters shown for a file, if it shows any, restore exactly its bits.
THEOREM ShownBitsAlwaysRestore == Spec => []ShownBitsRestore
<1>1. DirInv => ShownBitsRestore
  <2> SUFFICES ASSUME DirInv, NEW e \in ListEntries(blocks), NEW f \in ListEntries(blocks)
               PROVE  ParseAmigaProtection(f.prot,
                        [mode |-> "=", letters |-> AmigaProtectionString(e.prot)])
                          = IF e.prot = RWED THEN {} ELSE {e.prot}
    BY DEF ShownBitsRestore
  <2>1. e \in Entry /\ f \in Entry
    BY SoundParts DEF DirInv, ListEntries
  <2>2. e.prot \in SUBSET (HSPA \cup RWED) /\ f.prot \in SUBSET (HSPA \cup RWED)
    BY <2>1, EntryFields
  <2> QED BY <2>2, ParsedBits
<1> QED BY <1>1, DirInvHolds, PTL
=============================================================================
