---------------------------- MODULE WriterProofs ----------------------------
(***************************************************************************)
(* Writer for every value of the constants: whatever operations run, fail  *)
(* or are killed, the volume keeps its shape; without I/O errors an Ok is  *)
(* durable, and the counters of free blocks do not wrap.                   *)
(*                                                                         *)
(* Each helper gets a lemma: called in a Good state it returns a Good one. *)
(* Good is about the record the helpers pass along, so it holds between    *)
(* any two device accesses; "m" says how much of it the constants allow.   *)
(* A loop is a function over 0..Len(q): that one exists is proved by       *)
(* Iterate, that Good carries along it by Climb.                           *)
(***************************************************************************)
EXTENDS Writer, FiniteSetTheorems, SequenceTheorems, NaturalsInduction,
        WellFoundedInduction, TLAPS

-----------------------------------------------------------------------------
(* Numbers, sets of numbers and sequences *)

\* A set of numbers that is not empty has a least one.
LEMMA FirstOf ==
  ASSUME NEW S \in SUBSET Nat, S # {}
  PROVE  \E m \in S : \A n \in S : m <= n
<1> DEFINE R == OpToRel(<, Nat)
<1>1. IsWellFoundedOn(R, Nat)
  BY NatLessThanWellFounded, Zenon
<1>2. \A m, n \in Nat : <<m, n>> \in R <=> m < n
  BY DEF OpToRel
<1> HIDE DEF R
<1>3. PICK m \in S : \A n \in S : ~(<<n, m>> \in R)
  BY <1>1, WFMin
<1>4. ASSUME NEW n \in S PROVE m <= n
  <2>1. m \in Nat /\ n \in Nat
    OBVIOUS
  <2>2. ~(n < m)
    BY <1>2, <1>3, <2>1
  <2> QED BY <2>1, <2>2
<1> QED BY <1>4

\* Min is that number.
LEMMA MinOf ==
  ASSUME NEW S \in SUBSET Nat, S # {}
  PROVE  Min(S) \in S /\ \A n \in S : Min(S) <= n
<1>1. \E m \in S : \A n \in S : m <= n
  BY FirstOf
<1> QED BY <1>1, Zenon DEF Min

\* Quotient and remainder.
LEMMA DivMod ==
  ASSUME NEW a \in Nat, NEW d \in Nat \ {0}
  PROVE  /\ a \div d \in Nat /\ a % d \in 0..(d - 1)
         /\ a = d * (a \div d) + (a % d)
OBVIOUS

\* A statement about 0..n that carries over from i - 1 to i and holds at 0
\* holds throughout: no least number is missing from S.
LEMMA Climb ==
  ASSUME NEW n \in Nat, NEW S, 0 \in S,
         \A i \in 1..n : i - 1 \in S => i \in S
  PROVE  \A i \in 0..n : i \in S
<1> DEFINE T == {i \in 0..n : i \notin S}
<1> SUFFICES ASSUME T # {} PROVE FALSE
  OBVIOUS
<1>1. T \in SUBSET Nat
  OBVIOUS
<1>2. PICK k \in T : \A j \in T : k <= j
  <2> HIDE DEF T
  <2> QED BY <1>1, FirstOf
<1>3. k \in 0..n /\ k \notin S
  OBVIOUS
<1>4. k \in 1..n /\ k - 1 \in 0..n /\ ~(k <= k - 1)
  BY <1>3
<1>5. k - 1 \in S
  BY <1>2, <1>4
<1> QED BY <1>3, <1>4, <1>5

\* A loop over 1..n whose states are in S: the states it goes through.
IsStep(n, S, g) == g \in [(1..n) \X S -> S]
Visits(r, n, S, s, g) ==
  r \in [0..n -> S] /\ r[0] = s /\ \A i \in 1..n : r[i] = g[<<i, r[i - 1]>>]

\* Such a loop exists.
LEMMA Iterate ==
  ASSUME NEW n \in Nat, NEW S, NEW s \in S, NEW g, IsStep(n, S, g)
  PROVE  \E r : Visits(r, n, S, s, g)
<1> DEFINE Upto(r, k) == /\ r \in [0..k -> S] /\ r[0] = s
                         /\ \A i \in 1..k : r[i] = g[<<i, r[i - 1]>>]
           T == {k \in 0..n : \E r : Upto(r, k)}
<1>0. g \in [(1..n) \X S -> S]
  BY DEF IsStep
<1>1. 0 \in T
  <2>1. Upto([i \in 0..0 |-> s], 0)
    OBVIOUS
  <2> HIDE DEF Upto
  <2> QED BY <2>1
<1>2. ASSUME NEW k \in 1..n, k - 1 \in T PROVE k \in T
  <2>1. PICK r : Upto(r, k - 1)
    BY <1>2
  <2>2. k - 1 \in 0..(k - 1) /\ k - 1 \in Nat /\ k \in Nat
    OBVIOUS
  <2>3. r[k - 1] \in S
    BY <2>1, <2>2
  <2> DEFINE v == g[<<k, r[k - 1]>>]
             u == [i \in 0..k |-> IF i = k THEN v ELSE r[i]]
  <2>4. v \in S
    BY <1>0, <2>3
  <2>5. u \in [0..k -> S]
    <3> HIDE DEF v
    <3> QED BY <2>1, <2>2, <2>4
  <2>6. u[0] = s
    BY <2>1, <2>2
  <2>7. ASSUME NEW i \in 1..k PROVE u[i] = g[<<i, u[i - 1]>>]
    <3>1. i - 1 \in 0..k /\ i - 1 # k /\ i \in 0..k
      BY <2>2
    <3>2. CASE i = k
      BY <3>1, <3>2
    <3>3. CASE i # k
      BY <3>1, <3>3, <2>1
    <3> QED BY <3>2, <3>3
  <2>8. Upto(u, k)
    BY <2>5, <2>6, <2>7
  <2> HIDE DEF Upto
  <2> QED BY <2>8
<1>3. n \in 0..n
  OBVIOUS
<1>4. n \in T
  <2> HIDE DEF T
  <2> QED BY <1>1, <1>2, <1>3, Climb
<1> QED BY <1>4 DEF Visits

\* x is the first i sequences of q one after the other; off holds the lengths.
Prefix(x, q, off, i) ==
  /\ Len(x) = off[i]
  /\ \A a \in 1..i : \A j \in 1..Len(q[a]) :
       off[a - 1] + j \in 1..off[i] /\ x[off[a - 1] + j] = q[a][j]
  /\ \A p \in 1..off[i] : \E a \in 1..i : \E j \in 1..Len(q[a]) : p = off[a - 1] + j

Offsets(q, off) ==
  /\ off \in [0..Len(q) -> Nat] /\ off[0] = 0
  /\ \A i \in 1..Len(q) : off[i] = off[i - 1] + Len(q[i])

\* The lengths can be added up.
LEMMA OffsetsExist ==
  ASSUME NEW S, NEW q \in Seq(Seq(S))
  PROVE  \E off : Offsets(q, off)
<1> DEFINE n == Len(q)
           g == [x \in (1..n) \X Nat |-> x[2] + Len(q[x[1]])]
<1>1. n \in Nat
  OBVIOUS
<1>2. \A i \in 1..n : Len(q[i]) \in Nat
  OBVIOUS
<1>3. IsStep(n, Nat, g)
  BY <1>2 DEF IsStep
<1>4. \A i \in 1..n : \A v \in Nat : g[<<i, v>>] = v + Len(q[i])
  OBVIOUS
<1> HIDE DEF g, n
<1>5. PICK r : r \in [0..n -> Nat] /\ r[0] = 0 /\ \A i \in 1..n : r[i] = g[<<i, r[i - 1]>>]
  <2>1. 0 \in Nat
    OBVIOUS
  <2>2. \E r : Visits(r, n, Nat, 0, g)
    BY <1>1, <1>3, <2>1, Iterate, Zenon
  <2> QED BY <2>2 DEF Visits
<1>6. ASSUME NEW i \in 1..n PROVE r[i] = r[i - 1] + Len(q[i])
  <2>1. r[i - 1] \in Nat
    BY <1>1, <1>5
  <2> QED BY <1>4, <1>5, <2>1
<1>7. r \in [0..Len(q) -> Nat]
  BY <1>5 DEF n
<1> QED BY <1>5, <1>6, <1>7, Zenon DEF Offsets, n

\* One more sequence.
LEMMA PrefixStep ==
  ASSUME NEW S, NEW q \in Seq(Seq(S)), NEW off, Offsets(q, off),
         NEW i \in 1..Len(q), NEW x \in Seq(S), Prefix(x, q, off, i - 1)
  PROVE  x \o q[i] \in Seq(S) /\ Prefix(x \o q[i], q, off, i)
<1> DEFINE y == q[i]
           z == x \o y
<1>1. y \in Seq(S)
  OBVIOUS
<1>2. /\ i \in Nat /\ i - 1 \in Nat /\ i - 1 \in 0..Len(q) /\ off[i] \in Nat /\ off[i - 1] \in Nat
      /\ off[i] = off[i - 1] + Len(y) /\ Len(x) = off[i - 1] /\ Len(y) \in Nat
  BY <1>1 DEF Offsets, Prefix
<1> HIDE DEF y
<1>a. PICK lo \in Nat : lo = off[i - 1]
  BY <1>2
<1>b. PICK hi \in Nat : hi = off[i]
  BY <1>2
<1>c. Len(x) = lo /\ Len(y) \in Nat /\ hi = lo + Len(y)
  BY <1>2, <1>a, <1>b
<1>3. z \in Seq(S) /\ Len(z) = hi
  BY <1>1, <1>c
<1>4. \A p \in 1..Len(x) : z[p] = x[p]
  BY <1>1, <1>c
<1>5. \A p \in 1..Len(y) : z[lo + p] = y[p]
  BY <1>1, <1>c, SMTT(30)
<1> HIDE DEF z
<1>6. ASSUME NEW a \in 1..i, NEW j \in 1..Len(q[a])
      PROVE  off[a - 1] + j \in 1..off[i] /\ z[off[a - 1] + j] = q[a][j]
  <2>1. CASE a = i
    <3>1. j \in 1..Len(y)
      BY <2>1 DEF y
    <3>2. z[lo + j] = y[j] /\ lo + j \in 1..hi
      BY <1>c, <1>5, <3>1, SMTT(30)
    <3> QED BY <2>1, <3>2, <1>a, <1>b DEF y
  <2>2. CASE a # i
    <3>1. a \in 1..(i - 1)
      BY <1>2, <2>2
    <3>2. off[a - 1] + j \in 1..lo /\ x[off[a - 1] + j] = q[a][j]
      BY <3>1, <1>a DEF Prefix
    <3>3. off[a - 1] + j \in 1..Len(x) /\ off[a - 1] + j \in 1..off[i]
      <4>1. \A p \in 1..lo : p \in 1..Len(x) /\ p \in 1..hi
        BY <1>c
      <4> QED BY <3>2, <4>1, <1>b
    <3> QED BY <1>4, <3>2, <3>3
  <2> QED BY <2>1, <2>2
<1>7. ASSUME NEW p \in 1..off[i]
      PROVE  \E a \in 1..i : \E j \in 1..Len(q[a]) : p = off[a - 1] + j
  <2>1. CASE p <= lo
    <3>1. p \in 1..off[i - 1]
      BY <1>a, <2>1
    <3>2. PICK a \in 1..(i - 1) : \E j \in 1..Len(q[a]) : p = off[a - 1] + j
      BY <3>1 DEF Prefix
    <3>3. a \in 1..i
      BY <1>2
    <3> QED BY <3>2, <3>3
  <2>2. CASE ~(p <= lo)
    <3>1. p - lo \in 1..Len(y) /\ p = lo + (p - lo)
      BY <1>b, <1>c, <2>2
    <3>2. i \in 1..i
      BY <1>2
    <3> QED BY <3>1, <3>2, <1>a DEF y
  <2> QED BY <2>1, <2>2
<1> QED BY <1>3, <1>6, <1>7, <1>b DEF Prefix, z, y

\* FlattenSeq is its sequences one after the other.
LEMMA FlattenIs ==
  ASSUME NEW S, NEW q \in Seq(Seq(S)), NEW off, Offsets(q, off)
  PROVE  FlattenSeq(q) \in Seq(S) /\ Prefix(FlattenSeq(q), q, off, Len(q))
<1> DEFINE n == Len(q)
<1>0. n \in Nat /\ \A i \in 1..n : q[i] \in Seq(S)
  OBVIOUS
<1>1. CASE n = 0
  <2>1. FlattenSeq(q) = q /\ q = <<>>
    BY <1>1 DEF FlattenSeq
  <2>2. Len(<<>>) = 0 /\ <<>> \in Seq(S) /\ off[0] = 0
    BY DEF Offsets
  <2>3. Prefix(<<>>, q, off, 0)
    BY <2>2 DEF Prefix
  <2> QED BY <1>1, <2>1, <2>2, <2>3
<1>2. CASE n # 0
  <2> DEFINE g == [x \in (1..n) \X Seq(S) |-> x[2] \o q[x[1]]]
  <2>1. IsStep(n, Seq(S), g)
    BY <1>0 DEF IsStep
  <2>2. \A i \in 1..n : \A v \in Seq(S) : g[<<i, v>>] = v \o q[i]
    OBVIOUS
  <2> HIDE DEF g
  <2>3. PICK r : r \in [0..n -> Seq(S)] /\ r[0] = <<>> /\ \A i \in 1..n : r[i] = g[<<i, r[i - 1]>>]
    <3>1. <<>> \in Seq(S)
      OBVIOUS
    <3> HIDE DEF n
    <3>2. \E r : Visits(r, n, Seq(S), <<>>, g)
      BY <1>0, <2>1, <3>1, Iterate, Zenon
    <3> QED BY <3>2 DEF Visits
  <2>4. ASSUME NEW i \in 1..n PROVE r[i - 1] \in Seq(S) /\ r[i] = r[i - 1] \o q[i]
    <3>0. i - 1 \in 0..n
      BY <1>0
    <3>1. r[i - 1] \in Seq(S)
      <4> HIDE DEF n
      <4> QED BY <3>0, <2>3
    <3> QED BY <2>2, <2>3, <3>1
  <2>5. r[1] = q[1]
    <3>1. 1 \in 1..n /\ r[1 - 1] = <<>> /\ q[1] \in Seq(S)
      BY <1>0, <1>2, <2>3
    <3>2. r[1] = r[1 - 1] \o q[1]
      BY <2>4, <3>1
    <3> QED BY <3>1, <3>2
  <2> DEFINE f == [i \in 1..n |-> r[i]]
  <2>6. f = [i \in 1..n |-> IF i = 1 THEN q[i] ELSE f[i - 1] \o q[i]]
    <3>1. ASSUME NEW i \in 1..n PROVE f[i] = IF i = 1 THEN q[i] ELSE f[i - 1] \o q[i]
      <4>1. CASE i = 1
        BY <4>1, <2>5
      <4>2. CASE i # 1
        <5>1. i - 1 \in 1..n
          BY <1>0, <4>2
        <5> QED BY <2>4, <4>2, <5>1
      <4> QED BY <4>1, <4>2
    <3> QED BY <3>1
  <2>7. PICK h : /\ h = [i \in 1..Len(q) |-> IF i = 1 THEN q[i] ELSE h[i - 1] \o q[i]]
                 /\ FlattenSeq(q) = h[Len(q)]
    <3> HIDE DEF f
    <3> QED BY <1>2, <2>6, Zenon DEF FlattenSeq, n
  <2>8. \A i \in 1..n : h[i] = IF i = 1 THEN q[i] ELSE h[i - 1] \o q[i]
    BY <2>7
  <2> DEFINE T == {i \in 0..n : i = 0 \/ h[i] = r[i]}
  <2>9. \A i \in 0..n : i \in T
    <3>1. 0 \in T
      BY <1>0
    <3>2. ASSUME NEW i \in 1..n, i - 1 \in T PROVE i \in T
      <4>1. CASE i = 1
        BY <1>0, <2>5, <2>8, <4>1
      <4>2. CASE i # 1
        <5>1. i - 1 # 0 /\ i \in 0..n
          BY <1>0, <4>2
        <5>2. h[i - 1] = r[i - 1]
          BY <3>2, <5>1
        <5> QED BY <2>4, <2>8, <4>2, <5>1, <5>2
      <4> QED BY <4>1, <4>2
    <3> HIDE DEF T, n
    <3> QED BY <1>0, <3>1, <3>2, Climb
  <2>10. FlattenSeq(q) = r[n]
    <3>1. n \in 0..n
      BY <1>0
    <3>2. h[n] = r[n]
      <4> HIDE DEF n
      <4> QED BY <1>2, <2>9, <3>1
    <3> QED BY <2>7, <3>2
  <2> DEFINE P == {i \in 0..n : Prefix(r[i], q, off, i)}
  <2>11. \A i \in 0..n : i \in P
    <3>1. 0 \in P
      <4>1. Len(<<>>) = 0 /\ off[0] = 0
        BY DEF Offsets
      <4> QED BY <1>0, <2>3, <4>1 DEF Prefix
    <3>2. ASSUME NEW i \in 1..n, i - 1 \in P PROVE i \in P
      <4>1. r[i - 1] \in Seq(S) /\ Prefix(r[i - 1], q, off, i - 1)
        BY <2>4, <3>2
      <4>2. Prefix(r[i - 1] \o q[i], q, off, i)
        BY <4>1, PrefixStep
      <4>3. i \in 0..n
        BY <1>0
      <4>4. r[i] = r[i - 1] \o q[i]
        BY <2>4
      <4>5. Prefix(r[i], q, off, i)
        BY <4>2, <4>4
      <4> HIDE DEF n
      <4> QED BY <4>3, <4>5
    <3> HIDE DEF P, n
    <3> QED BY <1>0, <3>1, <3>2, Climb
  <2>12. n \in 0..n /\ r[n] \in Seq(S)
    BY <1>0, <2>3, SMTT(30)
  <2> QED BY <2>10, <2>11, <2>12
<1> QED BY <1>1, <1>2

\* An element of a flattened sequence is an element of one of its sequences,
\* and each of theirs is one of its.
LEMMA FlattenHas ==
  ASSUME NEW S, NEW q \in Seq(Seq(S))
  PROVE  /\ FlattenSeq(q) \in Seq(S)
         /\ \A p \in DOMAIN FlattenSeq(q) :
              \E a \in DOMAIN q : \E j \in DOMAIN q[a] : FlattenSeq(q)[p] = q[a][j]
         /\ \A a \in DOMAIN q : \A j \in DOMAIN q[a] :
              \E p \in DOMAIN FlattenSeq(q) : FlattenSeq(q)[p] = q[a][j]
<1>1. PICK off : Offsets(q, off)
  BY OffsetsExist
<1> DEFINE x == FlattenSeq(q)
<1>2. x \in Seq(S) /\ Prefix(x, q, off, Len(q))
  BY <1>1, FlattenIs
<1> HIDE DEF x
<1>3. DOMAIN x = 1..Len(x) /\ DOMAIN q = 1..Len(q) /\ \A a \in 1..Len(q) : DOMAIN q[a] = 1..Len(q[a])
  BY <1>2
<1>4. ASSUME NEW p \in DOMAIN x
      PROVE  \E a \in DOMAIN q : \E j \in DOMAIN q[a] : x[p] = q[a][j]
  <2>1. PICK a \in 1..Len(q) : \E j \in 1..Len(q[a]) : p = off[a - 1] + j
    BY <1>2, <1>3 DEF Prefix
  <2>2. PICK j \in 1..Len(q[a]) : p = off[a - 1] + j
    BY <2>1
  <2>3. x[off[a - 1] + j] = q[a][j]
    BY <1>2 DEF Prefix
  <2> QED BY <1>3, <2>2, <2>3
<1>5. ASSUME NEW a \in DOMAIN q, NEW j \in DOMAIN q[a]
      PROVE  \E p \in DOMAIN x : x[p] = q[a][j]
  <2>1. a \in 1..Len(q) /\ j \in 1..Len(q[a])
    BY <1>3
  <2>2. off[a - 1] + j \in 1..Len(x) /\ x[off[a - 1] + j] = q[a][j]
    BY <1>2, <2>1 DEF Prefix
  <2> QED BY <1>3, <2>2
<1> QED BY <1>2, <1>4, <1>5 DEF x

\* The elements of a set of numbers by their rank.
LEMMA RankExists ==
  ASSUME NEW S \in SUBSET Nat, IsFiniteSet(S), NEW n \in 0..(Cardinality(S) - 1)
  PROVE  \E x \in S : Cardinality({y \in S : y < x}) = n
<1> DEFINE Below(x) == {y \in S : y < x}
           c == Cardinality(S)
           T == {k \in 0..(c - 1) : \E x \in S : Cardinality(Below(x)) = k}
<1>1. c \in Nat /\ c - 1 \in Nat /\ n \in Nat
  BY FS_CardinalityType
<1>2. 0 \in T
  <2>1. S # {}
    BY <1>1, FS_EmptySet
  <2>2. PICK x \in S : \A y \in S : x <= y
    BY <2>1, FirstOf
  <2>3. Below(x) = {}
    <3>1. ASSUME NEW y \in S PROVE ~(y < x)
      <4>1. x \in Nat /\ y \in Nat /\ x <= y
        BY <2>2
      <4> QED BY <4>1
    <3> QED BY <3>1
  <2>4. Cardinality(Below(x)) = 0
    BY <2>3, FS_EmptySet
  <2>5. 0 \in 0..(c - 1)
    <3> HIDE DEF c
    <3> QED BY <1>1
  <2> HIDE DEF c, Below
  <2> QED BY <2>4, <2>5
<1>3. ASSUME NEW k \in 1..(c - 1), k - 1 \in T PROVE k \in T
  <2>1. PICK x \in S : Cardinality(Below(x)) = k - 1
    BY <1>3
  <2> DEFINE U == Below(x) \cup {x}
  <2>2. IsFiniteSet(Below(x)) /\ x \notin Below(x)
    <3>1. Below(x) \subseteq S
      OBVIOUS
    <3> QED BY <3>1, FS_Subset
  <2>3. Cardinality(U) = k
    <3>1. Cardinality(U) = Cardinality(Below(x)) + 1
      <4> HIDE DEF Below
      <4> QED BY <2>2, FS_AddElement
    <3> QED BY <2>1, <3>1, <1>1
  <2>4. S \ U # {}
    <3> SUFFICES ASSUME S \ U = {} PROVE FALSE
      OBVIOUS
    <3>1. U = S
      OBVIOUS
    <3>2. k = c
      BY <2>3, <3>1
    <3> HIDE DEF c
    <3> QED BY <3>2, <1>1
  <2>5. S \ U \in SUBSET Nat
    OBVIOUS
  <2>6. PICK z \in S \ U : \A y \in S \ U : z <= y
    BY <2>4, <2>5, FirstOf
  <2>7. Below(z) = U
    <3>1. ASSUME NEW y \in S PROVE y < z <=> y \in U
      <4>1. y \in Nat /\ z \in Nat /\ x \in Nat /\ z \in S /\ z \notin U
        OBVIOUS
      <4>2. x < z
        BY <4>1
      <4>3. y \in U => y <= x
        BY <4>1
      <4>4. y \notin U => z <= y
        BY <2>6
      <4> QED BY <4>1, <4>2, <4>3, <4>4
    <3>2. U \subseteq S
      OBVIOUS
    <3> QED BY <3>1, <3>2
  <2>8. Cardinality(Below(z)) = k
    BY <2>3, <2>7
  <2>9. z \in S /\ k \in 0..(c - 1)
    BY <1>1
  <2> QED BY <2>8, <2>9
<1>4. n \in T
  <2> HIDE DEF T, c
  <2> QED BY <1>1, <1>2, <1>3, Climb DEF c
<1> QED BY <1>4

\* Lowest lists elements of the set, in increasing order.
LEMMA LowestIs ==
  ASSUME NEW S \in SUBSET Nat, IsFiniteSet(S), NEW n \in 0..Cardinality(S)
  PROVE  /\ Lowest(S, n) \in Seq(S) /\ Len(Lowest(S, n)) = n
         /\ \A i, j \in 1..n : i < j => Lowest(S, n)[i] < Lowest(S, n)[j]
<1> DEFINE Rank(x) == Cardinality({y \in S : y < x})
           L == Lowest(S, n)
<1>1. n \in Nat /\ Cardinality(S) \in Nat
  BY FS_CardinalityType
<1>2. ASSUME NEW i \in 1..n PROVE L[i] \in S /\ Rank(L[i]) = i - 1
  <2>1. i - 1 \in 0..(Cardinality(S) - 1)
    BY <1>1
  <2>2. \E x \in S : Rank(x) = i - 1
    BY <2>1, RankExists
  <2>3. L[i] = CHOOSE x \in S : Rank(x) = i - 1
    BY DEF Lowest
  <2> HIDE DEF L, Rank
  <2> QED BY <2>2, <2>3, Zenon
<1>3. L \in [1..n -> S]
  <2> DEFINE F(i) == CHOOSE x \in S : Rank(x) = i - 1
  <2>1. L = [i \in 1..n |-> F(i)]
    BY DEF Lowest
  <2>2. \A i \in 1..n : L[i] = F(i)
    BY <2>1
  <2> HIDE DEF F, L
  <2> QED BY <1>2, <2>1, <2>2
<1> HIDE DEF L
<1>4. L \in Seq(S) /\ Len(L) = n
  BY <1>1, <1>3, IsASeq
<1>5. ASSUME NEW i \in 1..n, NEW j \in 1..n, i < j PROVE L[i] < L[j]
  <2> DEFINE A == {y \in S : y < L[i]}
             B == {y \in S : y < L[j]}
  <2>1. Cardinality(A) = i - 1 /\ Cardinality(B) = j - 1 /\ L[i] \in Nat /\ L[j] \in Nat
    BY <1>2
  <2> SUFFICES ASSUME ~(L[i] < L[j]) PROVE FALSE
    OBVIOUS
  <2>2. B \subseteq A
    <3>1. ASSUME NEW y \in S, y < L[j] PROVE y < L[i]
      <4>1. y \in Nat
        OBVIOUS
      <4> QED BY <2>1, <3>1, <4>1
    <3> QED BY <3>1
  <2>3. IsFiniteSet(A)
    <3>1. A \subseteq S
      OBVIOUS
    <3> QED BY <3>1, FS_Subset
  <2>4. Cardinality(B) <= Cardinality(A)
    <3> HIDE DEF A, B
    <3> QED BY <2>2, <2>3, FS_Subset
  <2> HIDE DEF A, B
  <2> QED BY <1>1, <1>5, <2>1, <2>4
<1> QED BY <1>4, <1>5 DEF L

-----------------------------------------------------------------------------
(* What helpers keep *)

\* A reserved block as the writer sees it.
View(R, p, b) == RawRead([res |-> R, pend |-> p], b)

\* The bitmap blocks, written or pending, are the bitmap in memory.
Sync(R, p, free) ==
  \A i \in 1..NumBitmaps : View(R, p, i).free = free \cap BitmapRange(i)

\* No counter is below the number of its bits.
Counted(R, root, free, rbm, bfree, rfree) ==
  /\ bfree >= Cardinality(free) /\ rfree >= Cardinality(rbm)
  /\ root.bfree >= Cardinality(LoadDataBitmap(R)) /\ root.rfree >= Cardinality(root.rbm)

\* A state in which a helper may be called.  m = 0: typed.  m = 1: and no
\* fault is to come, and the bitmap is in step.  m = 2: and so are the counters.
StateFields == {"res", "root", "data", "pend", "free", "rbm", "bfree", "rfree",
                "ok", "ret", "fuel", "sticky", "hit"}
Parts(m, R, root, data, p, free, rbm, bfree, rfree, fuel) ==
  /\ DiskOK(R) /\ RootOK(root) /\ PendOK(p)
  /\ data \in [DataBlocks -> DataVal]
  /\ free \subseteq DataBlocks /\ rbm \subseteq Spare
  /\ bfree \in Int /\ rfree \in Int /\ fuel \in Int
  /\ m >= 1 => fuel < 0 /\ Sync(R, p, free)
  /\ m >= 2 => Counted(R, root, free, rbm, bfree, rfree)
Good(m, R, s) ==
  /\ DOMAIN s = StateFields /\ s.res = R /\ s.ok \in BOOLEAN
  /\ Parts(m, R, s.root, s.data, s.pend, s.free, s.rbm, s.bfree, s.rfree, s.fuel)

-----------------------------------------------------------------------------
(* The layout of the reserved area *)

\* Multiplication by a number keeps the order.
LEMMA MulMono ==
  ASSUME NEW a \in Nat, NEW b \in Nat, NEW c \in Nat, a <= b
  PROVE  c * a <= c * b
<1>1. b - a \in Nat /\ b = a + (b - a)
  OBVIOUS
<1>2. c * b = c * a + c * (b - a) /\ c * (b - a) \in Nat
  BY <1>1
<1> QED BY <1>2

\* What the assumptions say of each constant.
LEMMA Constants ==
  /\ NumData \in Nat \ {0} /\ BitsPerBitmap \in Nat \ {0} /\ NumReserved \in Nat \ {0}
  /\ DirCapacity \in Nat /\ IndexPerBlock \in Nat \ {0} /\ AnodesPerBlock \in Nat \ {0}
  /\ Stride \in Nat \ {0} /\ MaxSeqnr \in Nat \ {0} /\ MaxChainLen \in Nat \ {0}
  /\ UserFirst \in 0..(AnodesPerBlock - 1) /\ RootDir \in Nat /\ UserFirst \in Nat
  /\ RootDir \in 0..(AnodesPerBlock - 1)
  /\ DelDirSlots \in Nat /\ Large \in BOOLEAN /\ AnodesPerBlock <= Stride
  /\ MaxBlocks \in Nat \ {0} /\ MaxIo \in Nat /\ MaxFaults \in Nat /\ MaxKills \in Nat
<1>1. UserFirst \in Nat /\ RootDir \in Nat
  BY VolumeAssumption
<1> QED BY <1>1, VolumeAssumption, WriterAssumption

\* There are bitmap blocks, and every data block belongs to one of them.
LEMMA BitmapOfIs ==
  /\ NumBitmaps \in Nat \ {0}
  /\ \A b \in DataBlocks : BitmapOf(b) \in 1..NumBitmaps
<1> DEFINE B == BitsPerBitmap
           N == NumData + B - 1
           Q == N \div B
<1>1. B \in Nat \ {0} /\ NumData \in Nat \ {0} /\ N \in Nat /\ NumReserved \in Nat
  BY Constants
<1>2. NumBitmaps = Q
  BY DEF NumBitmaps
<1>3. Q \in Nat /\ N % B \in 0..(B - 1) /\ N = B * Q + (N % B)
  <2> HIDE DEF B, N
  <2> QED BY <1>1, DivMod
<1> HIDE DEF B, Q
<1>4. \A r \in 0..(NumData - 1) : r \div B \in Nat /\ (r \div B) + 1 <= Q
  <2> SUFFICES ASSUME NEW r \in 0..(NumData - 1) PROVE r \div B \in Nat /\ (r \div B) + 1 <= Q
    OBVIOUS
  <2>1. r \in Nat /\ r < NumData
    BY <1>1
  <2>2. r \div B \in Nat /\ r % B \in 0..(B - 1) /\ r = B * (r \div B) + (r % B)
    BY <2>1, <1>1, DivMod
  <2>3. PICK q \in Nat : q = r \div B
    BY <2>2
  <2> SUFFICES ASSUME ~(q + 1 <= Q) PROVE FALSE
    BY <2>2, <2>3
  <2>4. B * Q <= B * q
    BY <1>1, <1>3, MulMono
  <2>5. PICK x \in Nat : x = B * Q
    BY <1>1, <1>3
  <2>6. PICK y \in Nat : y = B * q
    BY <1>1
  <2>7. x <= y /\ y <= r /\ N <= x + B - 1
    <3>1. r = y + (r % B)
      BY <2>2, <2>3, <2>6
    <3>2. N = x + (N % B)
      BY <1>3, <2>5
    <3> HIDE DEF N
    <3> QED BY <1>1, <1>3, <2>2, <2>4, <2>5, <2>6, <3>1, <3>2
  <2> QED BY <1>1, <2>1, <2>7
<1>5. Q # 0
  <2>1. 0 \in 0..(NumData - 1)
    BY <1>1
  <2> QED BY <1>3, <1>4, <2>1
<1>6. ASSUME NEW b \in DataBlocks PROVE BitmapOf(b) \in 1..NumBitmaps
  <2>1. b - BitmapStart \in 0..(NumData - 1)
    BY <1>1 DEF DataBlocks, BitmapStart
  <2>2. BitmapOf(b) = ((b - BitmapStart) \div B) + 1
    BY DEF BitmapOf, B
  <2>3. PICK r \in 0..(NumData - 1) : r = b - BitmapStart
    BY <2>1
  <2>4. r \div B \in Nat /\ (r \div B) + 1 <= Q
    BY <1>4
  <2> QED BY <1>2, <1>3, <2>2, <2>3, <2>4
<1> QED BY <1>2, <1>3, <1>5, <1>6

\* The fixed blocks are in the reserved area and apart.
LEMMA LayoutIs ==
  /\ Pinned \subseteq ResBlocks
  /\ IndexBlk \notin 1..NumBitmaps
  /\ DelDirSlots > 0 => DelDirBlk \notin 1..NumBitmaps /\ DelDirBlk # IndexBlk
  /\ Large => SuperBlk \notin 1..NumBitmaps /\ SuperBlk # IndexBlk
  /\ Large /\ DelDirSlots > 0 => SuperBlk # DelDirBlk
  /\ FirstAnodeBlk \in Spare /\ RootDirBlk \in Spare
  /\ ResBlocks \cap DataBlocks = {} /\ ResBlocks \subseteq Nat /\ DataBlocks \subseteq Nat
  /\ 0 \notin ResBlocks
<1> DEFINE K == IF Large THEN SuperBlk ELSE SuperBlk - 1
<1>1. NumBitmaps \in Nat \ {0} /\ NumReserved \in Nat /\ DelDirSlots \in Nat /\ NumData \in Nat
  BY Constants, BitmapOfIs
<1>2. SuperBlk \in Nat /\ K \in Nat /\ SuperBlk - 1 <= K /\ (Large => SuperBlk <= K) /\ K >= 1
  BY <1>1 DEF SuperBlk
<1>3. K <= NumReserved
  <2>1. K \in FixedBlocks
    BY <1>2 DEF FixedBlocks
  <2> HIDE DEF K
  <2>2. K \in ResBlocks
    BY <2>1, LayoutAssumption
  <2> QED BY <2>2, <1>1 DEF ResBlocks
<1>4. NumBitmaps + 3 <= NumReserved /\ (DelDirSlots > 0 => NumBitmaps + 4 <= NumReserved)
      /\ (Large => SuperBlk <= NumReserved)
  BY <1>1, <1>2, <1>3 DEF SuperBlk
<1>5. Pinned \subseteq ResBlocks
  BY <1>1, <1>2, <1>4 DEF Pinned, ResBlocks, IndexBlk, DelDirBlk
<1>6. FirstAnodeBlk \in Spare /\ RootDirBlk \in Spare
  BY <1>1, <1>4 DEF Spare, Pinned, ResBlocks, FirstAnodeBlk, RootDirBlk, IndexBlk, DelDirBlk, SuperBlk
<1>7. /\ IndexBlk \notin 1..NumBitmaps
      /\ DelDirSlots > 0 => DelDirBlk \notin 1..NumBitmaps /\ DelDirBlk # IndexBlk
      /\ Large => SuperBlk \notin 1..NumBitmaps /\ SuperBlk # IndexBlk
      /\ Large /\ DelDirSlots > 0 => SuperBlk # DelDirBlk
  BY <1>1 DEF IndexBlk, DelDirBlk, SuperBlk
<1>8. /\ ResBlocks \cap DataBlocks = {} /\ ResBlocks \subseteq Nat /\ DataBlocks \subseteq Nat
      /\ 0 \notin ResBlocks
  BY <1>1 DEF ResBlocks, DataBlocks, BitmapStart
<1> QED BY <1>5, <1>6, <1>7, <1>8

-----------------------------------------------------------------------------
(* The pending list *)

\* A raw read sees the device and the pending list only.
LEMMA RawReadIs == \A s, b : RawRead(s, b) = View(s.res, s.pend, b)
BY DEF View, RawRead, Pending

\* At most one pending image of a block.
LEMMA ViewIs ==
  ASSUME NEW R, NEW p, PendOK(p), NEW b
  PROVE  /\ \A i \in 1..Len(p) : p[i].blk = b => View(R, p, b) = p[i].c
         /\ (\A i \in 1..Len(p) : p[i].blk # b) => View(R, p, b) = BlockAt(R, b)
<1> DEFINE I == {i \in DOMAIN p : p[i].blk = b}
<1>1. DOMAIN p = 1..Len(p) /\ Len(p) \in Nat
  BY DEF PendOK
<1>2. View(R, p, b) = IF I = {} THEN BlockAt(R, b) ELSE p[Min(I)].c
  BY DEF View, RawRead, Pending
<1>3. I \in SUBSET Nat
  BY <1>1
<1>4. ASSUME NEW i \in 1..Len(p), p[i].blk = b PROVE View(R, p, b) = p[i].c
  <2>1. i \in I
    BY <1>1, <1>4
  <2>2. Min(I) \in I
    <3> HIDE DEF I
    <3> QED BY <1>3, <2>1, MinOf
  <2>3. Min(I) = i
    BY <1>1, <1>4, <2>2 DEF PendOK
  <2> QED BY <1>2, <2>1, <2>3
<1>5. ASSUME \A i \in 1..Len(p) : p[i].blk # b PROVE View(R, p, b) = BlockAt(R, b)
  BY <1>1, <1>2, <1>5
<1> QED BY <1>4, <1>5

\* What the writer sees of a block is what such a block may hold.
LEMMA ViewFits ==
  ASSUME NEW R, DiskOK(R), NEW p, PendOK(p), NEW b \in ResBlocks
  PROVE  Fits(b, View(R, p, b))
<1>1. CASE \E i \in 1..Len(p) : p[i].blk = b
  <2>1. PICK i \in 1..Len(p) : p[i].blk = b
    BY <1>1
  <2>2. View(R, p, b) = p[i].c
    BY <2>1, ViewIs
  <2>3. Fits(p[i].blk, p[i].c)
    BY DEF PendOK
  <2> QED BY <2>1, <2>2, <2>3
<1>2. CASE \A i \in 1..Len(p) : p[i].blk # b
  <2>1. View(R, p, b) = R[b]
    BY <1>2, ViewIs DEF BlockAt
  <2> QED BY <2>1 DEF DiskOK
<1> QED BY <1>1, <1>2

\* The list after a write.
LEMMA FitsIsContent ==
  ASSUME NEW b \in ResBlocks, NEW c, Fits(b, c)
  PROVE  c \in BitmapBlocks \cup DelDirBlocks \cup SuperBlocks \cup SpareBlocks
BY DEF Fits, Spare, Pinned, SpareBlocks

\* A block that is not pending goes to the end of the list.
LEMMA PendAppends ==
  ASSUME NEW R, NEW p, PendOK(p), NEW b \in ResBlocks, NEW c, Fits(b, c),
         \A i \in 1..Len(p) : p[i].blk # b
  PROVE  /\ PendOK(Append(p, [blk |-> b, c |-> c]))
         /\ View(R, Append(p, [blk |-> b, c |-> c]), b) = c
         /\ \A d : d # b => View(R, Append(p, [blk |-> b, c |-> c]), d) = View(R, p, d)
<1> DEFINE C == BitmapBlocks \cup DelDirBlocks \cup SuperBlocks \cup SpareBlocks
           w == [blk |-> b, c |-> c]
           z == Append(p, w)
<1>1. w \in [blk : ResBlocks, c : C] /\ w.blk = b /\ w.c = c
  <2>1. c \in C
    BY FitsIsContent
  <2> HIDE DEF C
  <2> QED BY <2>1
<1>2. p \in Seq([blk : ResBlocks, c : C]) /\ Len(p) \in Nat
  BY DEF PendOK
<1> DEFINE W == [blk : ResBlocks, c : C]
<1> HIDE DEF w, W
<1>3. z \in Seq(W) /\ Len(z) = Len(p) + 1 /\ z[Len(p) + 1] = w /\ \A i \in 1..Len(p) : z[i] = p[i]
  <2>1. w \in W /\ p \in Seq(W)
    BY <1>1, <1>2 DEF W
  <2> QED BY <1>2, <2>1
<1> HIDE DEF z
<1>4. \A i \in 1..Len(z) : i \in 1..Len(p) \/ i = Len(p) + 1
  BY <1>2, <1>3
<1>5. PendOK(z)
  <2>1. \A i \in 1..Len(z) : Fits(z[i].blk, z[i].c)
    BY <1>1, <1>3, <1>4 DEF PendOK
  <2>2. \A i, j \in 1..Len(z) : z[i].blk = z[j].blk => i = j
    BY <1>1, <1>3, <1>4 DEF PendOK
  <2>3. z \in Seq([blk : ResBlocks, c : C])
    BY <1>3 DEF W
  <2> QED BY <2>1, <2>2, <2>3 DEF PendOK
<1>6. Len(p) + 1 \in 1..Len(z) /\ \A i \in 1..Len(p) : i \in 1..Len(z)
  BY <1>2, <1>3
<1>7. View(R, z, b) = c
  BY <1>1, <1>3, <1>5, <1>6, ViewIs
<1>8. ASSUME NEW d, d # b PROVE View(R, z, d) = View(R, p, d)
  <2>1. CASE \E i \in 1..Len(p) : p[i].blk = d
    <3>1. PICK i \in 1..Len(p) : p[i].blk = d
      BY <2>1
    <3>2. View(R, p, d) = p[i].c
      BY <3>1, ViewIs
    <3>3. View(R, z, d) = z[i].c
      BY <3>1, <1>3, <1>5, <1>6, ViewIs
    <3> QED BY <3>2, <3>3, <1>3
  <2>2. CASE \A i \in 1..Len(p) : p[i].blk # d
    <3>1. \A i \in 1..Len(z) : z[i].blk # d
      BY <1>1, <1>3, <1>4, <1>8, <2>2
    <3>2. View(R, z, d) = BlockAt(R, d)
      BY <3>1, <1>5, ViewIs
    <3> QED BY <2>2, <3>2, ViewIs
  <2> QED BY <2>1, <2>2
<1> QED BY <1>5, <1>7, <1>8 DEF z, w

Imaged(p, n, c) == [p EXCEPT ![n].c = c]

\* The image of a pending block is replaced where it is.
LEMMA PendReplaces ==
  ASSUME NEW R, NEW p, PendOK(p), NEW n \in 1..Len(p), NEW c, Fits(p[n].blk, c)
  PROVE  /\ PendOK(Imaged(p, n, c))
         /\ View(R, Imaged(p, n, c), p[n].blk) = c
         /\ \A d : d # p[n].blk => View(R, Imaged(p, n, c), d) = View(R, p, d)
<1> DEFINE C == BitmapBlocks \cup DelDirBlocks \cup SuperBlocks \cup SpareBlocks
           z == [p EXCEPT ![n].c = c]
<1> DEFINE W == [blk : ResBlocks, c : C]
           w == [p[n] EXCEPT !.c = c]
<1>0. p \in Seq(W) /\ Len(p) \in Nat
  BY DEF PendOK
<1>1. p[n] \in W /\ p[n].blk \in ResBlocks
  <2>1. p[n] \in W
    <3> HIDE DEF W
    <3> QED BY <1>0
  <2> HIDE DEF C
  <2> QED BY <2>1
<1>2. c \in C
  BY <1>1, FitsIsContent
<1> HIDE DEF C
<1>3. z \in Seq(W) /\ Len(z) = Len(p)
  <2>1. w \in W
    BY <1>1, <1>2
  <2>2. z = [p EXCEPT ![n] = w]
    OBVIOUS
  <2> HIDE DEF W, w, z
  <2> QED BY <1>0, <2>1, <2>2
<1>4. \A i \in 1..Len(p) : z[i].blk = p[i].blk /\ (i # n => z[i].c = p[i].c)
  BY <1>0, <1>1
<1>5. z[n].c = c
  BY <1>0, <1>1
<1> HIDE DEF z
<1>6. PendOK(z)
  <2>1. \A i \in 1..Len(z) : Fits(z[i].blk, z[i].c)
    BY <1>3, <1>4, <1>5 DEF PendOK
  <2>2. \A i, j \in 1..Len(z) : z[i].blk = z[j].blk => i = j
    BY <1>3, <1>4 DEF PendOK
  <2> QED BY <1>3, <2>1, <2>2 DEF PendOK, C
<1>7. View(R, z, p[n].blk) = c
  BY <1>3, <1>4, <1>5, <1>6, ViewIs
<1>8. ASSUME NEW d, d # p[n].blk PROVE View(R, z, d) = View(R, p, d)
  <2>1. CASE \E i \in 1..Len(p) : p[i].blk = d
    <3>1. PICK i \in 1..Len(p) : p[i].blk = d
      BY <2>1
    <3>2. View(R, p, d) = p[i].c
      BY <3>1, ViewIs
    <3>3. View(R, z, d) = z[i].c
      BY <3>1, <1>3, <1>4, <1>6, ViewIs
    <3> QED BY <3>1, <3>2, <3>3, <1>4, <1>8
  <2>2. CASE \A i \in 1..Len(p) : p[i].blk # d
    <3>1. \A i \in 1..Len(z) : z[i].blk # d
      BY <1>3, <1>4, <2>2
    <3>2. View(R, z, d) = BlockAt(R, d)
      BY <3>1, <1>6, ViewIs
    <3> QED BY <2>2, <3>2, ViewIs
  <2> QED BY <2>1, <2>2
<1> QED BY <1>6, <1>7, <1>8 DEF z, Imaged

-----------------------------------------------------------------------------
(* Helpers that leave the volume alone *)

\* What a helper that only reads leaves alone.
SameVolume(s, t) ==
  /\ DOMAIN t = DOMAIN s /\ t.res = s.res /\ t.root = s.root /\ t.data = s.data
  /\ t.pend = s.pend /\ t.free = s.free /\ t.rbm = s.rbm
  /\ t.bfree = s.bfree /\ t.rfree = s.rfree

\* A state is as good as one with the same volume.
LEMMA SameIsGood ==
  ASSUME NEW m \in Nat, NEW R, NEW s, NEW t, Good(m, R, s), SameVolume(s, t),
         t.ok \in BOOLEAN, t.fuel \in Int, m >= 1 => t.fuel < 0
  PROVE  Good(m, R, t)
BY DEF Good, SameVolume, Parts

\* What an error changes.
LEMMA ErrIs ==
  ASSUME NEW s, DOMAIN s = StateFields
  PROVE  /\ SameVolume(s, Err(s)) /\ Err(s).ok = FALSE /\ Err(s).ret = s.ret
         /\ Err(s).fuel = s.fuel
BY DEF Err, SameVolume, StateFields

\* What ignoring an error changes.
LEMMA IgnoreIs ==
  ASSUME NEW s, DOMAIN s = StateFields
  PROVE  /\ SameVolume(s, Ignore(s)) /\ Ignore(s).ok = TRUE /\ Ignore(s).ret = s.ret
         /\ Ignore(s).fuel = s.fuel
BY DEF Ignore, SameVolume, StateFields

\* What returning a value changes.
LEMMA RetIs ==
  ASSUME NEW s, DOMAIN s = StateFields, NEW v
  PROVE  /\ SameVolume(s, Ret(s, v)) /\ Ret(s, v).ok = s.ok /\ Ret(s, v).ret = v
         /\ Ret(s, v).fuel = s.fuel
BY DEF Ret, SameVolume, StateFields

\* What a device access changes; nothing when no fault is to come.
LEMMA IoIs ==
  ASSUME NEW s, DOMAIN s = StateFields, s.fuel \in Int, s.ok \in BOOLEAN
  PROVE  /\ SameVolume(s, Io(s)) /\ Io(s).ret = s.ret /\ Io(s).fuel \in Int
         /\ Io(s).ok \in BOOLEAN /\ (Io(s).ok => s.ok)
         /\ s.fuel < 0 => Io(s) = s
<1>1. CASE s.fuel = 0
  <2> DEFINE t == [s EXCEPT !.ok = FALSE, !.hit = TRUE, !.fuel = IF s.sticky THEN 0 ELSE -1]
  <2>1. Io(s) = t
    BY <1>1 DEF Io
  <2>2. SameVolume(s, t) /\ t.ret = s.ret /\ t.ok = FALSE /\ t.fuel \in Int
    BY DEF SameVolume, StateFields
  <2> QED BY <1>1, <2>1, <2>2
<1>2. CASE s.fuel > 0
  <2> DEFINE t == [s EXCEPT !.fuel = @ - 1]
  <2>1. Io(s) = t
    BY <1>2 DEF Io
  <2>2. SameVolume(s, t) /\ t.ret = s.ret /\ t.ok = s.ok /\ t.fuel \in Int
    BY DEF SameVolume, StateFields
  <2> QED BY <1>2, <2>1, <2>2
<1>3. CASE s.fuel < 0
  <2>1. Io(s) = s
    BY <1>3 DEF Io
  <2> QED BY <2>1 DEF SameVolume
<1> QED BY <1>1, <1>2, <1>3

\* An error keeps a state good.
LEMMA ErrGood ==
  ASSUME NEW m \in Nat, NEW R, NEW s, Good(m, R, s)
  PROVE  Good(m, R, Err(s)) /\ ~Err(s).ok
<1>1. DOMAIN s = StateFields /\ s.fuel \in Int /\ (m >= 1 => s.fuel < 0)
  BY DEF Good, Parts
<1> QED BY <1>1, ErrIs, SameIsGood

\* So does ignoring one.
LEMMA IgnoreGood ==
  ASSUME NEW m \in Nat, NEW R, NEW s, Good(m, R, s)
  PROVE  Good(m, R, Ignore(s))
<1>1. DOMAIN s = StateFields /\ s.fuel \in Int /\ (m >= 1 => s.fuel < 0)
  BY DEF Good, Parts
<1> QED BY <1>1, IgnoreIs, SameIsGood

\* So does a return value.
LEMMA RetGood ==
  ASSUME NEW m \in Nat, NEW R, NEW s, Good(m, R, s), NEW v
  PROVE  Good(m, R, Ret(s, v)) /\ Ret(s, v).ret = v /\ Ret(s, v).ok = s.ok
<1>1. DOMAIN s = StateFields /\ s.fuel \in Int /\ (m >= 1 => s.fuel < 0) /\ s.ok \in BOOLEAN
  BY DEF Good, Parts
<1> QED BY <1>1, RetIs, SameIsGood

\* So does a device access, and at level 1 it changes nothing.
LEMMA IoGood ==
  ASSUME NEW m \in Nat, NEW R, NEW s, Good(m, R, s)
  PROVE  Good(m, R, Io(s)) /\ SameVolume(s, Io(s)) /\ Io(s).ret = s.ret /\ (Io(s).ok => s.ok)
         /\ (m >= 1 => Io(s) = s)
<1>1. DOMAIN s = StateFields /\ s.fuel \in Int /\ (m >= 1 => s.fuel < 0) /\ s.ok \in BOOLEAN
  BY DEF Good, Parts
<1>2. SameVolume(s, Io(s)) /\ Io(s).ret = s.ret /\ Io(s).fuel \in Int
      /\ Io(s).ok \in BOOLEAN /\ (Io(s).ok => s.ok) /\ (s.fuel < 0 => Io(s) = s)
  BY <1>1, IoIs
<1>3. m >= 1 => Io(s).fuel < 0
  BY <1>1, <1>2
<1>4. Good(m, R, Io(s))
  BY <1>2, <1>3, SameIsGood
<1> QED BY <1>1, <1>2, <1>4

\* So does a raw read.
LEMMA ReadIoGood ==
  ASSUME NEW m \in Nat, NEW R, NEW s, Good(m, R, s), NEW b
  PROVE  Good(m, R, ReadIo(s, b)) /\ SameVolume(s, ReadIo(s, b)) /\ ReadIo(s, b).ret = s.ret
         /\ (ReadIo(s, b).ok => s.ok) /\ (m >= 1 => ReadIo(s, b) = s)
<1>1. SameVolume(s, s)
  BY DEF SameVolume
<1> QED BY <1>1, IoGood DEF ReadIo

-----------------------------------------------------------------------------
(* Reserved blocks *)

\* WriteReserved changes the pending list only.
LEMMA WriteReservedIs ==
  ASSUME NEW s, DOMAIN s = StateFields, PendOK(s.pend), NEW b \in ResBlocks, NEW c, Fits(b, c)
  PROVE  \E p : /\ WriteReserved(s, b, c) = [s EXCEPT !.pend = p]
                /\ PendOK(p)
                /\ \A R : View(R, p, b) = c
                /\ \A R, d : d # b => View(R, p, d) = View(R, s.pend, d)
<1> DEFINE p0 == s.pend
           I == Pending(s, b)
<1>1. DOMAIN p0 = 1..Len(p0) /\ Len(p0) \in Nat /\ I = {i \in 1..Len(p0) : p0[i].blk = b}
  BY DEF PendOK, Pending
<1>2. CASE I = {}
  <2> DEFINE p == Append(p0, [blk |-> b, c |-> c])
  <2>1. WriteReserved(s, b, c) = [s EXCEPT !.pend = p]
    BY <1>2 DEF WriteReserved, StateFields
  <2>2. \A i \in 1..Len(p0) : p0[i].blk # b
    BY <1>1, <1>2
  <2>3. PendOK(p) /\ (\A R : View(R, p, b) = c) /\ \A R, d : d # b => View(R, p, d) = View(R, p0, d)
    <3>1. ASSUME NEW R PROVE /\ PendOK(p) /\ View(R, p, b) = c
                             /\ \A d : d # b => View(R, p, d) = View(R, p0, d)
      BY <2>2, PendAppends
    <3> HIDE DEF p, p0
    <3> QED BY <3>1
  <2> QED BY <2>1, <2>3
<1>3. CASE I # {}
  <2> DEFINE n == Min(I)
             p == Imaged(p0, n, c)
  <2>1. WriteReserved(s, b, c) = [s EXCEPT !.pend = p]
    BY <1>3 DEF WriteReserved, StateFields, Imaged
  <2>2. n \in I
    <3>1. I \in SUBSET Nat
      BY <1>1
    <3> HIDE DEF I
    <3> QED BY <1>3, <3>1, MinOf
  <2>3. n \in 1..Len(p0) /\ p0[n].blk = b
    BY <1>1, <2>2
  <2> HIDE DEF n
  <2>4. PendOK(p) /\ (\A R : View(R, p, b) = c) /\ \A R, d : d # b => View(R, p, d) = View(R, p0, d)
    <3>1. ASSUME NEW R PROVE /\ PendOK(p) /\ View(R, p, b) = c
                             /\ \A d : d # b => View(R, p, d) = View(R, p0, d)
      BY <2>3, PendReplaces
    <3> HIDE DEF p, p0
    <3> QED BY <3>1
  <2> QED BY <2>1, <2>4
<1> QED BY <1>2, <1>3

\* A write to a block that is no bitmap block.
LEMMA WriteReservedGood ==
  ASSUME NEW m \in Nat, NEW R, NEW s, Good(m, R, s), NEW b \in ResBlocks, NEW c, Fits(b, c),
         b \notin 1..NumBitmaps
  PROVE  LET t == WriteReserved(s, b, c)
         IN  /\ Good(m, R, t) /\ t.ok = s.ok /\ t.ret = s.ret
             /\ RawRead(t, b) = c /\ \A d : d # b => RawRead(t, d) = RawRead(s, d)
<1> DEFINE t == WriteReserved(s, b, c)
<1>1. DOMAIN s = StateFields /\ PendOK(s.pend) /\ s.res = R /\ s.fuel \in Int
  BY DEF Good, Parts
<1>2. PICK p : /\ t = [s EXCEPT !.pend = p] /\ PendOK(p) /\ (\A Q : View(Q, p, b) = c)
               /\ \A Q, d : d # b => View(Q, p, d) = View(Q, s.pend, d)
  BY <1>1, WriteReservedIs
<1> HIDE DEF t
<1>3. /\ DOMAIN t = StateFields /\ t.pend = p /\ t.res = s.res /\ t.root = s.root
      /\ t.data = s.data /\ t.free = s.free /\ t.rbm = s.rbm /\ t.bfree = s.bfree
      /\ t.rfree = s.rfree /\ t.ok = s.ok /\ t.ret = s.ret /\ t.fuel = s.fuel
  BY <1>1, <1>2 DEF StateFields
<1>4. Sync(R, s.pend, s.free) => Sync(R, p, s.free)
  BY <1>2 DEF Sync
<1>5. Good(m, R, t)
  BY <1>2, <1>3, <1>4 DEF Good, Parts
<1>6. RawRead(t, b) = c /\ \A d : d # b => RawRead(t, d) = RawRead(s, d)
  BY <1>2, <1>3, RawReadIs
<1> QED BY <1>3, <1>5, <1>6 DEF t

\* So does a read-modify-write with what the block may hold.
LEMMA PatchGood ==
  ASSUME NEW m \in Nat, NEW R, NEW s, Good(m, R, s), NEW b \in ResBlocks, NEW c, Fits(b, c),
         b \notin 1..NumBitmaps
  PROVE  Good(m, R, Patch(s, b, c)) /\ Patch(s, b, c).ret = s.ret /\ (Patch(s, b, c).ok => s.ok)
<1> DEFINE t == ReadIo(s, b)
<1>1. Good(m, R, t) /\ t.ret = s.ret /\ (t.ok => s.ok)
  BY ReadIoGood
<1>2. Patch(s, b, c) = IF t.ok THEN WriteReserved(t, b, c) ELSE t
  BY DEF Patch, Then
<1> HIDE DEF t
<1>3. Good(m, R, WriteReserved(t, b, c)) /\ WriteReserved(t, b, c).ok = t.ok
      /\ WriteReserved(t, b, c).ret = t.ret
  BY <1>1, WriteReservedGood
<1> QED BY <1>1, <1>2, <1>3

\* The reserved bitmap.
LEMMA SpareFinite == IsFiniteSet(Spare) /\ IsFiniteSet(DataBlocks) /\ Spare \subseteq ResBlocks
                     /\ Spare \subseteq Nat
<1>1. IsFiniteSet(ResBlocks) /\ IsFiniteSet(DataBlocks)
  <2>1. NumReserved \in Nat /\ NumData \in Nat
    BY Constants
  <2> QED BY <2>1, FS_Interval DEF ResBlocks, DataBlocks, BitmapStart
<1>2. Spare \subseteq ResBlocks
  BY DEF Spare
<1> QED BY <1>1, <1>2, FS_Subset, LayoutIs

\* A reserved block that is handed out is none of the pinned ones.
LEMMA AllocReservedGood ==
  ASSUME NEW m \in Nat, NEW R, NEW s, Good(m, R, s)
  PROVE  LET t == AllocReservedBlock(s)
         IN  Good(m, R, t) /\ (t.ok => t.ret \in Spare /\ s.ok)
<1> DEFINE t == AllocReservedBlock(s)
<1>1. CASE s.rbm = {}
  BY <1>1, ErrGood DEF AllocReservedBlock
<1>2. CASE s.rbm # {}
  <2> DEFINE b == Min(s.rbm)
             u == [s EXCEPT !.rbm = @ \ {b}, !.rfree = @ - 1]
  <2>1. DOMAIN s = StateFields /\ s.rbm \subseteq Spare /\ s.rfree \in Int
    BY DEF Good, Parts
  <2>2. b \in s.rbm
    <3>1. s.rbm \in SUBSET Nat
      BY <2>1, SpareFinite
    <3> QED BY <1>2, <3>1, MinOf
  <2>3. t = Ret(u, b)
    BY <1>2 DEF AllocReservedBlock
  <2> HIDE DEF b, t
  <2>4. /\ DOMAIN u = StateFields /\ u.res = s.res /\ u.root = s.root /\ u.data = s.data
        /\ u.pend = s.pend /\ u.free = s.free /\ u.rbm = s.rbm \ {b} /\ u.bfree = s.bfree
        /\ u.rfree = s.rfree - 1 /\ u.ok = s.ok /\ u.fuel = s.fuel
    BY <2>1 DEF StateFields
  <2> HIDE DEF u
  <2>5. Cardinality(u.rbm) = Cardinality(s.rbm) - 1 /\ Cardinality(s.rbm) \in Nat
    <3>1. IsFiniteSet(s.rbm)
      BY <2>1, SpareFinite, FS_Subset
    <3> QED BY <2>2, <2>4, <3>1, FS_RemoveElement, FS_CardinalityType
  <2>6. m >= 2 => Counted(R, u.root, u.free, u.rbm, u.bfree, u.rfree)
    BY <2>1, <2>4, <2>5 DEF Counted, Good, Parts
  <2>7. Good(m, R, u)
    BY <2>1, <2>4, <2>6 DEF Good, Parts
  <2> QED BY <2>1, <2>2, <2>3, <2>4, <2>7, RetGood DEF t
<1> QED BY <1>1, <1>2

\* A reserved block that is given back is none of the pinned ones.
LEMMA FreeReservedGood ==
  ASSUME NEW m \in Nat, NEW R, NEW s, Good(m, R, s), NEW b \in Spare \cup DataBlocks
  PROVE  Good(m, R, FreeReservedBlock(s, b)) /\ FreeReservedBlock(s, b).ok = s.ok
<1> DEFINE u == [s EXCEPT !.rbm = @ \cup {b}, !.rfree = @ + 1]
<1>1. CASE b \notin ResBlocks
  BY <1>1 DEF FreeReservedBlock
<1>2. CASE b \in ResBlocks
  <2>0. FreeReservedBlock(s, b) = u
    BY <1>2 DEF FreeReservedBlock
  <2>1. DOMAIN s = StateFields /\ s.rbm \subseteq Spare /\ s.rfree \in Int
    BY DEF Good, Parts
  <2>4. /\ DOMAIN u = StateFields /\ u.res = s.res /\ u.root = s.root /\ u.data = s.data
        /\ u.pend = s.pend /\ u.free = s.free /\ u.rbm = s.rbm \cup {b} /\ u.bfree = s.bfree
        /\ u.rfree = s.rfree + 1 /\ u.ok = s.ok /\ u.fuel = s.fuel
    BY <2>1 DEF StateFields
  <2> HIDE DEF u
  <2>2. b \in Spare
    BY <1>2, LayoutIs
  <2>5. Cardinality(u.rbm) <= Cardinality(s.rbm) + 1 /\ Cardinality(s.rbm) \in Nat /\ Cardinality(u.rbm) \in Nat
    <3>1. IsFiniteSet(s.rbm)
      BY <2>1, SpareFinite, FS_Subset
    <3>2. IsFiniteSet(s.rbm \cup {b}) /\ Cardinality(s.rbm) \in Nat
          /\ Cardinality(s.rbm \cup {b}) = IF b \in s.rbm THEN Cardinality(s.rbm) ELSE Cardinality(s.rbm) + 1
      BY <3>1, FS_AddElement, FS_CardinalityType
    <3> QED BY <2>4, <3>2
  <2>6. m >= 2 => Counted(R, u.root, u.free, u.rbm, u.bfree, u.rfree)
    BY <2>1, <2>4, <2>5 DEF Counted, Good, Parts
  <2>7. Good(m, R, u)
    BY <2>1, <2>2, <2>4, <2>6 DEF Good, Parts
  <2> QED BY <2>0, <2>4, <2>7
<1> QED BY <1>1, <1>2

-----------------------------------------------------------------------------
(* The data bitmap *)

\* Write-back of bitmap block i after the bits of its range changed to F.
Bitted(s, F) == [s EXCEPT !.free = F]
BitsWritten(m, R, s, F, t) ==
  /\ DOMAIN t = StateFields /\ t.res = R /\ t.root = s.root /\ t.data = s.data
  /\ t.free = F /\ t.rbm = s.rbm /\ t.bfree = s.bfree /\ t.rfree = s.rfree
  /\ t.ok \in BOOLEAN /\ t.fuel \in Int /\ PendOK(t.pend)
  /\ (m >= 1 => t.fuel < 0 /\ Sync(R, t.pend, F) /\ t.ok)

\* A bitmap that changes in one range only is in step once its block is written.
LEMMA BitmapWriteIs ==
  ASSUME NEW m \in Nat, NEW R, NEW s, Good(m, R, s), s.ok, NEW F \in SUBSET DataBlocks,
         NEW i \in 1..NumBitmaps,
         \A j \in (1..NumBitmaps) \ {i} : F \cap BitmapRange(j) = s.free \cap BitmapRange(j)
  PROVE  BitsWritten(m, R, s, F, WriteDataBitmapBlock(Bitted(s, F), i))
<1> DEFINE f == Bitted(s, F)
           c == [k |-> "BM", free |-> F \cap BitmapRange(i)]
           u == ReadIo(f, i)
           t == WriteDataBitmapBlock(f, i)
<1>1. /\ DOMAIN s = StateFields /\ PendOK(s.pend) /\ s.res = R /\ s.fuel \in Int /\ s.ok \in BOOLEAN
      /\ m >= 1 => s.fuel < 0 /\ Sync(R, s.pend, s.free)
  BY DEF Good, Parts
<1>2. /\ DOMAIN f = StateFields /\ f.pend = s.pend /\ f.res = R /\ f.root = s.root
      /\ f.data = s.data /\ f.free = F /\ f.rbm = s.rbm /\ f.bfree = s.bfree
      /\ f.rfree = s.rfree /\ f.ok = s.ok /\ f.fuel = s.fuel
  BY <1>1 DEF StateFields, Bitted
<1>3. i \in ResBlocks /\ Fits(i, c)
  <2>1. i \in Pinned /\ i # IndexBlk /\ (DelDirSlots > 0 => i # DelDirBlk) /\ (Large => i # SuperBlk)
    BY LayoutIs DEF Pinned
  <2>2. c \in BitmapBlocks
    BY DEF BitmapBlocks
  <2> QED BY <2>1, <2>2, LayoutIs DEF Fits, Spare
<1> HIDE DEF f
<1>4. t = IF u.ok THEN WriteReserved(u, i, c) ELSE u
  BY <1>2 DEF WriteDataBitmapBlock, Patch, Then, BitmapBlk
<1>5. SameVolume(f, u) /\ u.fuel \in Int /\ u.ok \in BOOLEAN /\ (u.ok => f.ok)
      /\ (f.fuel < 0 => u = f)
  <2>1. SameVolume(f, f)
    BY DEF SameVolume
  <2> QED BY <1>1, <1>2, <2>1, IoIs DEF ReadIo
<1> HIDE DEF u, c, t
<1>6. CASE ~u.ok
  <2>1. t = u /\ (m >= 1 => u = f)
    BY <1>1, <1>2, <1>4, <1>5, <1>6
  <2>2. ~(m >= 1)
    BY <2>1, <1>6, <1>2
  <2> QED BY <1>1, <1>2, <1>5, <1>6, <2>1, <2>2 DEF SameVolume, BitsWritten, t, f
<1>7. CASE u.ok
  <2>1. DOMAIN u = StateFields /\ u.pend = s.pend
    BY <1>2, <1>5 DEF SameVolume
  <2>2. PICK p : /\ t = [u EXCEPT !.pend = p] /\ PendOK(p) /\ (\A Q : View(Q, p, i) = c)
                 /\ \A Q, d : d # i => View(Q, p, d) = View(Q, s.pend, d)
    BY <1>1, <1>3, <1>4, <1>7, <2>1, WriteReservedIs, SMTT(30)
  <2>3. /\ DOMAIN t = StateFields /\ t.pend = p /\ t.res = u.res /\ t.root = u.root
        /\ t.data = u.data /\ t.free = u.free /\ t.rbm = u.rbm /\ t.bfree = u.bfree
        /\ t.rfree = u.rfree /\ t.ok = u.ok /\ t.fuel = u.fuel
    BY <2>1, <2>2 DEF StateFields
  <2>4. ASSUME m >= 1 PROVE Sync(R, p, F)
    <3>1. ASSUME NEW j \in 1..NumBitmaps PROVE View(R, p, j).free = F \cap BitmapRange(j)
      <4>1. CASE j = i
        BY <2>2, <4>1 DEF c
      <4>2. CASE j # i
        BY <1>1, <2>2, <2>4, <4>2 DEF Sync
      <4> QED BY <4>1, <4>2
    <3> QED BY <3>1 DEF Sync
  <2> QED BY <1>1, <1>2, <1>5, <1>7, <2>2, <2>3, <2>4, ZenonT(30) DEF SameVolume, BitsWritten, t, f
<1> QED BY <1>6, <1>7

\* Freeing a data block; "blocksfree" grows by at least what the bitmap does.
LEMMA FreeDataGood ==
  ASSUME NEW m \in Nat, NEW R, NEW s, Good(m, R, s), s.ok, NEW b \in Spare \cup DataBlocks
  PROVE  Good(m, R, FreeDataBlock(s, b))
<1> DEFINE F == s.free \cup {b}
           i == BitmapOf(b)
           t == WriteDataBitmapBlock(Bitted(s, F), i)
           u == [t EXCEPT !.bfree = @ + 1]
<1>1. CASE b \notin DataBlocks
  BY <1>1 DEF FreeDataBlock
<1>2. CASE b \in DataBlocks
  <2>1. FreeDataBlock(s, b) = IF t.ok THEN u ELSE t
    BY <1>2 DEF FreeDataBlock, Then, Bitted
  <2>2. /\ s.free \subseteq DataBlocks /\ s.bfree \in Int
        /\ m >= 2 => Counted(R, s.root, s.free, s.rbm, s.bfree, s.rfree)
    BY DEF Good, Parts
  <2>3. i \in 1..NumBitmaps /\ F \in SUBSET DataBlocks
    BY <1>2, <2>2, BitmapOfIs
  <2>4. \A j \in (1..NumBitmaps) \ {i} : F \cap BitmapRange(j) = s.free \cap BitmapRange(j)
    BY DEF BitmapRange
  <2> HIDE DEF F, i
  <2>5. BitsWritten(m, R, s, F, t)
    BY <2>3, <2>4, BitmapWriteIs
  <2> HIDE DEF t
  <2>6. /\ DOMAIN u = StateFields /\ u.res = R /\ u.root = s.root /\ u.data = s.data
        /\ u.free = F /\ u.rbm = s.rbm /\ u.bfree = s.bfree + 1 /\ u.rfree = s.rfree
        /\ u.ok = t.ok /\ u.fuel = t.fuel /\ u.pend = t.pend
    BY <2>2, <2>5 DEF StateFields, BitsWritten
  <2> HIDE DEF u
  <2>7. Cardinality(F) <= Cardinality(s.free) + 1 /\ Cardinality(s.free) \in Nat /\ Cardinality(F) \in Nat
    <3>1. IsFiniteSet(s.free)
      BY <2>2, SpareFinite, FS_Subset
    <3>2. IsFiniteSet(s.free \cup {b}) /\ Cardinality(s.free) \in Nat
          /\ Cardinality(s.free \cup {b}) = IF b \in s.free THEN Cardinality(s.free) ELSE Cardinality(s.free) + 1
      BY <3>1, FS_AddElement, FS_CardinalityType
    <3> QED BY <3>2 DEF F
  <2>8. m >= 2 => Counted(R, u.root, u.free, u.rbm, u.bfree, u.rfree)
    BY <2>2, <2>6, <2>7 DEF Counted
  <2>9. CASE t.ok
    <3>1. Good(m, R, u)
      BY <2>2, <2>3, <2>5, <2>6, <2>8, <2>9 DEF Good, Parts, BitsWritten
    <3> QED BY <2>1, <2>9, <3>1
  <2>10. CASE ~t.ok
    <3>1. ~(m >= 1) /\ ~(m >= 2)
      BY <2>5, <2>10 DEF BitsWritten
    <3>2. Good(m, R, t)
      BY <2>2, <2>3, <2>5, <3>1 DEF Good, Parts, BitsWritten
    <3> QED BY <2>1, <2>10, <3>2
  <2> QED BY <2>9, <2>10
<1> QED BY <1>1, <1>2
-----------------------------------------------------------------------------
(* Loops *)

\* The states a loop goes through; a definition and a lemma for every body.
FreeDataRun(r, s, q) ==
  /\ r[0] = s /\ ForEach(s, q, FreeDataBlock) = r[Len(q)]
  /\ \A i \in 1..Len(q) : r[i] = IF r[i - 1].ok THEN FreeDataBlock(r[i - 1], q[i]) ELSE r[i - 1]

\* The states of a loop that frees data blocks.
LEMMA FreeDataRunExists ==
  ASSUME NEW s, NEW q, Len(q) \in Nat
  PROVE  \E r : FreeDataRun(r, s, q)
<1> DEFINE n == Len(q)
           St(t, i) == IF t.ok THEN FreeDataBlock(t, q[i]) ELSE t
           Upto(r, k) == r[0] = s /\ \A i \in 1..k : r[i] = St(r[i - 1], i)
           T == {k \in 0..n : \E r : Upto(r, k)}
<1>0. n \in Nat
  OBVIOUS
<1> HIDE DEF n, St
<1>1. 0 \in T
  <2>1. Upto([i \in 0..0 |-> s], 0)
    OBVIOUS
  <2> HIDE DEF Upto
  <2> QED BY <1>0, <2>1
<1>2. ASSUME NEW k \in 1..n, k - 1 \in T PROVE k \in T
  <2>1. PICK r : Upto(r, k - 1)
    BY <1>2
  <2> DEFINE v == St(r[k - 1], k)
             u == [i \in 0..k |-> IF i = k THEN v ELSE r[i]]
  <2>2. k \in 0..n /\ k \in Nat /\ u[0] = s /\ u[k] = v
    BY <1>0, <2>1
  <2>3. ASSUME NEW i \in 1..k PROVE u[i] = St(u[i - 1], i)
    <3>1. i - 1 \in 0..k /\ i - 1 # k /\ i \in 0..k
      BY <2>2
    <3>2. CASE i = k
      BY <2>2, <3>1, <3>2
    <3>3. CASE i # k
      <4>1. i \in 1..(k - 1)
        BY <2>2, <3>3
      <4>2. u[i] = r[i] /\ u[i - 1] = r[i - 1]
        BY <3>1, <3>3
      <4> QED BY <2>1, <4>1, <4>2
    <3> QED BY <3>2, <3>3
  <2>4. Upto(u, k)
    BY <2>2, <2>3
  <2> HIDE DEF Upto
  <2> QED BY <2>2, <2>4
<1>3. n \in T
  <2>1. n \in 0..n
    BY <1>0
  <2> HIDE DEF T
  <2> QED BY <1>0, <1>1, <1>2, <2>1, Climb
<1>4. PICK r : Upto(r, n)
  BY <1>3
<1> DEFINE f == [i \in 0..n |-> r[i]]
<1>5. f = [i \in 0..n |-> IF i = 0 THEN s ELSE IF f[i - 1].ok THEN FreeDataBlock(f[i - 1], q[i]) ELSE f[i - 1]]
  <2>1. ASSUME NEW i \in 0..n
        PROVE  f[i] = IF i = 0 THEN s ELSE IF f[i - 1].ok THEN FreeDataBlock(f[i - 1], q[i]) ELSE f[i - 1]
    <3>1. CASE i = 0
      BY <1>4, <3>1
    <3>2. CASE i # 0
      <4>1. i \in 1..n /\ i - 1 \in 0..n
        BY <1>0, <3>2
      <4>2. f[i] = St(f[i - 1], i)
        BY <1>4, <4>1
      <4> QED BY <3>2, <4>2 DEF St
    <3> QED BY <3>1, <3>2
  <2> QED BY <2>1
<1>6. PICK h : /\ h = [i \in 0..Len(q) |-> IF i = 0 THEN s ELSE IF h[i - 1].ok THEN FreeDataBlock(h[i - 1], q[i]) ELSE h[i - 1]]
               /\ ForEach(s, q, FreeDataBlock) = h[Len(q)]
  <2> HIDE DEF f
  <2> QED BY <1>5, Zenon DEF ForEach, n
<1>7. h[0] = s
  BY <1>0, <1>6 DEF n
<1>8. ASSUME NEW i \in 1..Len(q) PROVE h[i] = IF h[i - 1].ok THEN FreeDataBlock(h[i - 1], q[i]) ELSE h[i - 1]
  <2>1. i \in 0..Len(q) /\ i # 0
    BY <1>0 DEF n
  <2> QED BY <1>6, <2>1
<1> QED BY <1>6, <1>7, <1>8 DEF FreeDataRun

\* Such a loop keeps a state good.
LEMMA FreeDataLoop ==
  ASSUME NEW m \in Nat, NEW R, NEW s, Good(m, R, s), NEW q \in Seq(Spare \cup DataBlocks)
  PROVE  Good(m, R, ForEach(s, q, FreeDataBlock))
<1>0. Len(q) \in Nat /\ \A i \in 1..Len(q) : q[i] \in Spare \cup DataBlocks
  OBVIOUS
<1>1. PICK r : FreeDataRun(r, s, q)
  BY <1>0, FreeDataRunExists
<1> DEFINE T == {i \in 0..Len(q) : Good(m, R, r[i])}
<1>2. 0 \in T
  BY <1>0, <1>1 DEF FreeDataRun
<1>3. ASSUME NEW i \in 1..Len(q), i - 1 \in T PROVE i \in T
  <2>1. Good(m, R, r[i - 1]) /\ i \in 0..Len(q)
    BY <1>0, <1>3
  <2>2. r[i - 1].ok => Good(m, R, FreeDataBlock(r[i - 1], q[i]))
    BY <1>0, <2>1, FreeDataGood
  <2> QED BY <1>1, <2>1, <2>2 DEF FreeDataRun
<1>4. Len(q) \in T
  <2>1. Len(q) \in 0..Len(q)
    BY <1>0
  <2> HIDE DEF T
  <2> QED BY <1>0, <1>2, <1>3, <2>1, Climb
<1> QED BY <1>1, <1>4 DEF FreeDataRun

\* free_reserved_block.
FreeReservedRun(r, s, q) ==
  /\ r[0] = s /\ ForEach(s, q, FreeReservedBlock) = r[Len(q)]
  /\ \A i \in 1..Len(q) : r[i] = IF r[i - 1].ok THEN FreeReservedBlock(r[i - 1], q[i]) ELSE r[i - 1]

\* The states of a loop that gives reserved blocks back.
LEMMA FreeReservedRunExists ==
  ASSUME NEW s, NEW q, Len(q) \in Nat
  PROVE  \E r : FreeReservedRun(r, s, q)
<1> DEFINE n == Len(q)
           St(t, i) == IF t.ok THEN FreeReservedBlock(t, q[i]) ELSE t
           Upto(r, k) == r[0] = s /\ \A i \in 1..k : r[i] = St(r[i - 1], i)
           T == {k \in 0..n : \E r : Upto(r, k)}
<1>0. n \in Nat
  OBVIOUS
<1> HIDE DEF n, St
<1>1. 0 \in T
  <2>1. Upto([i \in 0..0 |-> s], 0)
    OBVIOUS
  <2> HIDE DEF Upto
  <2> QED BY <1>0, <2>1
<1>2. ASSUME NEW k \in 1..n, k - 1 \in T PROVE k \in T
  <2>1. PICK r : Upto(r, k - 1)
    BY <1>2
  <2> DEFINE v == St(r[k - 1], k)
             u == [i \in 0..k |-> IF i = k THEN v ELSE r[i]]
  <2>2. k \in 0..n /\ k \in Nat /\ u[0] = s /\ u[k] = v
    BY <1>0, <2>1
  <2>3. ASSUME NEW i \in 1..k PROVE u[i] = St(u[i - 1], i)
    <3>1. i - 1 \in 0..k /\ i - 1 # k /\ i \in 0..k
      BY <2>2
    <3>2. CASE i = k
      BY <2>2, <3>1, <3>2
    <3>3. CASE i # k
      <4>1. i \in 1..(k - 1)
        BY <2>2, <3>3
      <4>2. u[i] = r[i] /\ u[i - 1] = r[i - 1]
        BY <3>1, <3>3
      <4> QED BY <2>1, <4>1, <4>2
    <3> QED BY <3>2, <3>3
  <2>4. Upto(u, k)
    BY <2>2, <2>3
  <2> HIDE DEF Upto
  <2> QED BY <2>2, <2>4
<1>3. n \in T
  <2>1. n \in 0..n
    BY <1>0
  <2> HIDE DEF T
  <2> QED BY <1>0, <1>1, <1>2, <2>1, Climb
<1>4. PICK r : Upto(r, n)
  BY <1>3
<1> DEFINE f == [i \in 0..n |-> r[i]]
<1>5. f = [i \in 0..n |-> IF i = 0 THEN s ELSE IF f[i - 1].ok THEN FreeReservedBlock(f[i - 1], q[i]) ELSE f[i - 1]]
  <2>1. ASSUME NEW i \in 0..n
        PROVE  f[i] = IF i = 0 THEN s ELSE IF f[i - 1].ok THEN FreeReservedBlock(f[i - 1], q[i]) ELSE f[i - 1]
    <3>1. CASE i = 0
      BY <1>4, <3>1
    <3>2. CASE i # 0
      <4>1. i \in 1..n /\ i - 1 \in 0..n
        BY <1>0, <3>2
      <4>2. f[i] = St(f[i - 1], i)
        BY <1>4, <4>1
      <4> QED BY <3>2, <4>2 DEF St
    <3> QED BY <3>1, <3>2
  <2> QED BY <2>1
<1>6. PICK h : /\ h = [i \in 0..Len(q) |-> IF i = 0 THEN s ELSE IF h[i - 1].ok THEN FreeReservedBlock(h[i - 1], q[i]) ELSE h[i - 1]]
               /\ ForEach(s, q, FreeReservedBlock) = h[Len(q)]
  <2> HIDE DEF f
  <2> QED BY <1>5, Zenon DEF ForEach, n
<1>7. h[0] = s
  BY <1>0, <1>6 DEF n
<1>8. ASSUME NEW i \in 1..Len(q) PROVE h[i] = IF h[i - 1].ok THEN FreeReservedBlock(h[i - 1], q[i]) ELSE h[i - 1]
  <2>1. i \in 0..Len(q) /\ i # 0
    BY <1>0 DEF n
  <2> QED BY <1>6, <2>1
<1> QED BY <1>6, <1>7, <1>8 DEF FreeReservedRun

\* Such a loop keeps a state good.
LEMMA FreeReservedLoop ==
  ASSUME NEW m \in Nat, NEW R, NEW s, Good(m, R, s), NEW q \in Seq(Spare \cup DataBlocks)
  PROVE  Good(m, R, ForEach(s, q, FreeReservedBlock))
<1>0. Len(q) \in Nat /\ \A i \in 1..Len(q) : q[i] \in Spare \cup DataBlocks
  OBVIOUS
<1>1. PICK r : FreeReservedRun(r, s, q)
  BY <1>0, FreeReservedRunExists
<1> DEFINE T == {i \in 0..Len(q) : Good(m, R, r[i])}
<1>2. 0 \in T
  BY <1>0, <1>1 DEF FreeReservedRun
<1>3. ASSUME NEW i \in 1..Len(q), i - 1 \in T PROVE i \in T
  <2>1. Good(m, R, r[i - 1]) /\ i \in 0..Len(q)
    BY <1>0, <1>3
  <2>2. r[i - 1].ok => Good(m, R, FreeReservedBlock(r[i - 1], q[i]))
    BY <1>0, <2>1, FreeReservedGood
  <2> QED BY <1>1, <2>1, <2>2 DEF FreeReservedRun
<1>4. Len(q) \in T
  <2>1. Len(q) \in 0..Len(q)
    BY <1>0
  <2> HIDE DEF T
  <2> QED BY <1>0, <1>2, <1>3, <2>1, Climb
<1> QED BY <1>1, <1>4 DEF FreeReservedRun

-----------------------------------------------------------------------------
(* Allocating data blocks *)

\* Division by a number keeps the order.
LEMMA DivMono ==
  ASSUME NEW a \in Nat, NEW b \in Nat, NEW d \in Nat \ {0}, a <= b
  PROVE  a \div d <= b \div d
<1>1. PICK x \in Nat, r \in 0..(d - 1) : x = a \div d /\ a = d * x + r
  BY DivMod
<1>2. PICK y \in Nat, q \in 0..(d - 1) : y = b \div d /\ b = d * y + q
  BY DivMod
<1> SUFFICES ASSUME ~(x <= y) PROVE FALSE
  BY <1>1, <1>2
<1>3. y + 1 <= x /\ y + 1 \in Nat
  OBVIOUS
<1>4. d * (y + 1) <= d * x
  BY <1>3, MulMono
<1>5. d * (y + 1) = d * y + d
  OBVIOUS
<1>6. PICK u \in Nat, v \in Nat : u = d * x /\ v = d * y
  OBVIOUS
<1> QED BY <1>1, <1>2, <1>4, <1>5, <1>6

\* Later data blocks belong to later bitmap blocks.
LEMMA BitmapMono ==
  ASSUME NEW a \in DataBlocks, NEW b \in DataBlocks, a <= b
  PROVE  BitmapOf(a) <= BitmapOf(b) /\ BitmapOf(a) \in Nat /\ BitmapOf(b) \in Nat
<1>1. BitsPerBitmap \in Nat \ {0} /\ NumReserved \in Nat /\ NumData \in Nat
  BY Constants
<1>2. a - BitmapStart \in Nat /\ b - BitmapStart \in Nat /\ a - BitmapStart <= b - BitmapStart
  BY <1>1 DEF DataBlocks, BitmapStart
<1>3. (a - BitmapStart) \div BitsPerBitmap <= (b - BitmapStart) \div BitsPerBitmap
  BY <1>1, <1>2, DivMono
<1>4. PICK x \in Nat : x = (a - BitmapStart) \div BitsPerBitmap
  BY <1>1, <1>2, DivMod
<1>5. PICK y \in Nat : y = (b - BitmapStart) \div BitsPerBitmap
  BY <1>1, <1>2, DivMod
<1> QED BY <1>3, <1>4, <1>5 DEF BitmapOf

\* A sequence without repetition has as many elements as places.
LEMMA Elements ==
  ASSUME NEW S, NEW q \in Seq(S), \A i, j \in 1..Len(q) : q[i] = q[j] => i = j
  PROVE  IsFiniteSet(ToSet(q)) /\ Cardinality(ToSet(q)) = Len(q)
<1> DEFINE n == Len(q)
<1>1. n \in Nat /\ DOMAIN q = 1..n
  OBVIOUS
<1>2. ToSet(q) = {q[i] : i \in 1..n}
  BY <1>1 DEF ToSet
<1>3. q \in Bijection(1..n, ToSet(q))
  BY <1>1, <1>2 DEF Bijection, Injection, Surjection, IsInjective
<1>4. ExistsBijection(1..n, ToSet(q))
  BY <1>3 DEF ExistsBijection
<1> HIDE DEF n
<1>5. Cardinality(ToSet(q)) = n
  BY <1>1, <1>4, FS_CountingElements
<1>6. IsFiniteSet(ToSet(q))
  BY <1>1, <1>4, FS_NatBijection
<1> QED BY <1>5, <1>6 DEF n

\* The bits of a range that alloc_data_blocks clears, with their write-back.
TakeBits(t, i, taken) ==
  WriteDataBitmapBlock([t EXCEPT !.free = @ \ (ToSet(taken) \cap BitmapRange(i))], i)
TakeAll(s, q, taken) == ForEach(s, q, LAMBDA t, i : TakeBits(t, i, taken))

\* The loop of alloc_data_blocks.
TakeRun(r, s, q, taken) ==
  /\ r[0] = s /\ TakeAll(s, q, taken) = r[Len(q)]
  /\ \A i \in 1..Len(q) : r[i] = IF r[i - 1].ok THEN TakeBits(r[i - 1], q[i], taken) ELSE r[i - 1]

\* The states of the loop that clears bits.
LEMMA TakeRunExists ==
  ASSUME NEW s, NEW q, Len(q) \in Nat, NEW taken
  PROVE  \E r : TakeRun(r, s, q, taken)
<1> DEFINE n == Len(q)
           St(t, i) == IF t.ok THEN TakeBits(t, q[i], taken) ELSE t
           Upto(r, k) == r[0] = s /\ \A i \in 1..k : r[i] = St(r[i - 1], i)
           T == {k \in 0..n : \E r : Upto(r, k)}
<1>0. n \in Nat
  OBVIOUS
<1> HIDE DEF n, St
<1>1. 0 \in T
  <2>1. Upto([i \in 0..0 |-> s], 0)
    OBVIOUS
  <2> HIDE DEF Upto
  <2> QED BY <1>0, <2>1
<1>2. ASSUME NEW k \in 1..n, k - 1 \in T PROVE k \in T
  <2>1. PICK r : Upto(r, k - 1)
    BY <1>2
  <2> DEFINE v == St(r[k - 1], k)
             u == [i \in 0..k |-> IF i = k THEN v ELSE r[i]]
  <2>2. k \in 0..n /\ k \in Nat /\ u[0] = s /\ u[k] = v
    BY <1>0, <2>1
  <2>3. ASSUME NEW i \in 1..k PROVE u[i] = St(u[i - 1], i)
    <3>1. i - 1 \in 0..k /\ i - 1 # k /\ i \in 0..k
      BY <2>2
    <3>2. CASE i = k
      BY <2>2, <3>1, <3>2
    <3>3. CASE i # k
      <4>1. i \in 1..(k - 1)
        BY <2>2, <3>3
      <4>2. u[i] = r[i] /\ u[i - 1] = r[i - 1]
        BY <3>1, <3>3
      <4> QED BY <2>1, <4>1, <4>2
    <3> QED BY <3>2, <3>3
  <2>4. Upto(u, k)
    BY <2>2, <2>3
  <2> HIDE DEF Upto
  <2> QED BY <2>2, <2>4
<1>3. n \in T
  <2>1. n \in 0..n
    BY <1>0
  <2> HIDE DEF T
  <2> QED BY <1>0, <1>1, <1>2, <2>1, Climb
<1>4. PICK r : Upto(r, n)
  BY <1>3
<1> DEFINE f == [i \in 0..n |-> r[i]]
<1>5. f = [i \in 0..n |-> IF i = 0 THEN s ELSE IF f[i - 1].ok THEN TakeBits(f[i - 1], q[i], taken) ELSE f[i - 1]]
  <2>1. ASSUME NEW i \in 0..n
        PROVE  f[i] = IF i = 0 THEN s ELSE IF f[i - 1].ok THEN TakeBits(f[i - 1], q[i], taken) ELSE f[i - 1]
    <3>1. CASE i = 0
      BY <1>4, <3>1
    <3>2. CASE i # 0
      <4>1. i \in 1..n /\ i - 1 \in 0..n
        BY <1>0, <3>2
      <4>2. f[i] = St(f[i - 1], i)
        BY <1>4, <4>1
      <4> QED BY <3>2, <4>2 DEF St
    <3> QED BY <3>1, <3>2
  <2> QED BY <2>1
<1>6. PICK h : /\ h = [i \in 0..Len(q) |-> IF i = 0 THEN s ELSE IF h[i - 1].ok THEN TakeBits(h[i - 1], q[i], taken) ELSE h[i - 1]]
               /\ TakeAll(s, q, taken) = h[Len(q)]
  <2> HIDE DEF f
  <2> QED BY <1>5, Zenon DEF ForEach, n, TakeAll
<1>7. h[0] = s
  BY <1>0, <1>6 DEF n
<1>8. ASSUME NEW i \in 1..Len(q) PROVE h[i] = IF h[i - 1].ok THEN TakeBits(h[i - 1], q[i], taken) ELSE h[i - 1]
  <2>1. i \in 0..Len(q) /\ i # 0
    BY <1>0 DEF n
  <2> QED BY <1>6, <2>1
<1> QED BY <1>6, <1>7, <1>8 DEF TakeRun

\* A pass over one bitmap block.
LEMMA TakeGood ==
  ASSUME NEW m \in Nat, NEW R, NEW s, Good(m, R, s), s.ok, NEW taken \in Seq(DataBlocks),
         NEW i \in 1..NumBitmaps
  PROVE  /\ Good(m, R, TakeBits(s, i, taken))
         /\ TakeBits(s, i, taken).free = s.free \ (ToSet(taken) \cap BitmapRange(i))
         /\ TakeBits(s, i, taken).bfree = s.bfree
<1> DEFINE F == s.free \ (ToSet(taken) \cap BitmapRange(i))
           t == WriteDataBitmapBlock(Bitted(s, F), i)
<1>1. TakeBits(s, i, taken) = t
  BY DEF TakeBits, Bitted
<1>2. /\ s.free \subseteq DataBlocks /\ s.bfree \in Int
      /\ m >= 2 => Counted(R, s.root, s.free, s.rbm, s.bfree, s.rfree)
  BY DEF Good, Parts
<1>3. F \in SUBSET DataBlocks
  BY <1>2
<1>4. \A j \in (1..NumBitmaps) \ {i} : F \cap BitmapRange(j) = s.free \cap BitmapRange(j)
  BY DEF BitmapRange
<1>5. Cardinality(F) <= Cardinality(s.free) /\ Cardinality(s.free) \in Nat /\ Cardinality(F) \in Nat
  <2>1. IsFiniteSet(s.free) /\ F \subseteq s.free
    BY <1>2, SpareFinite, FS_Subset
  <2> HIDE DEF F
  <2> QED BY <2>1, FS_Subset, FS_CardinalityType
<1> HIDE DEF F
<1>6. BitsWritten(m, R, s, F, t)
  BY <1>3, <1>4, BitmapWriteIs
<1> HIDE DEF t
<1>7. m >= 2 => Counted(R, t.root, t.free, t.rbm, t.bfree, t.rfree)
  BY <1>2, <1>5, <1>6 DEF Counted, BitsWritten
<1>8. Good(m, R, t)
  BY <1>2, <1>3, <1>6, <1>7 DEF Good, Parts, BitsWritten
<1> QED BY <1>1, <1>6, <1>8 DEF BitsWritten, F

Took(m, R, s, taken, t) ==
  Good(m, R, t) /\ (t.ok => t.free = s.free \ ToSet(taken) /\ t.bfree = s.bfree)
Counting(q, lo, hi) == q = [i \in 1..(hi - lo + 1) |-> lo + i - 1]

\* The passes from the bitmap block of the first block taken to that of the
\* last clear every bit taken and no other.
LEMMA TakeLoop ==
  ASSUME NEW m \in Nat, NEW R, NEW s, Good(m, R, s), s.ok, NEW taken \in Seq(DataBlocks),
         NEW lo \in 1..NumBitmaps, NEW hi \in 1..NumBitmaps,
         \A j \in 1..Len(taken) : BitmapOf(taken[j]) \in lo..hi,
         NEW q, Counting(q, lo, hi), lo <= hi
  PROVE  Took(m, R, s, taken, TakeAll(s, q, taken))
<1> DEFINE n == hi - lo + 1
<1>0. NumBitmaps \in Nat /\ lo \in Nat /\ hi \in Nat /\ n \in Nat
  BY BitmapOfIs
<1>1. Len(q) = n /\ \A i \in 1..n : q[i] = lo + i - 1 /\ q[i] \in 1..NumBitmaps
  BY <1>0 DEF Counting
<1>2. PICK r : TakeRun(r, s, q, taken)
  BY <1>0, <1>1, TakeRunExists
<1> DEFINE Gone(i) == {b \in ToSet(taken) : BitmapOf(b) < lo + i}
           J(t, i) == Good(m, R, t) /\ (t.ok => t.free = s.free \ Gone(i) /\ t.bfree = s.bfree)
           T == {i \in 0..n : J(r[i], i)}
<1>3. ToSet(taken) = {taken[j] : j \in 1..Len(taken)} /\ ToSet(taken) \subseteq DataBlocks
  BY DEF ToSet
<1>4. \A b \in ToSet(taken) : BitmapOf(b) \in lo..hi /\ b \in DataBlocks
  BY <1>3
<1>5. 0 \in T
  <2>1. Gone(0) = {}
    BY <1>0, <1>4
  <2>2. J(s, 0)
    BY <2>1
  <2> HIDE DEF J, n
  <2> QED BY <1>0, <1>2, <2>2 DEF TakeRun
<1>6. ASSUME NEW i \in 1..n, i - 1 \in T PROVE i \in T
  <2> DEFINE t == r[i - 1]
  <2>1. J(t, i - 1) /\ i \in 0..n
    BY <1>0, <1>6
  <2>2. CASE ~t.ok
    <3>1. r[i] = t
      BY <1>1, <1>2, <2>2 DEF TakeRun
    <3>2. J(r[i], i)
      BY <2>1, <2>2, <3>1
    <3> HIDE DEF J
    <3> QED BY <2>1, <3>2
  <2>3. CASE t.ok
    <3>1. r[i] = TakeBits(t, q[i], taken)
      BY <1>1, <1>2, <2>3 DEF TakeRun
    <3>2. q[i] \in 1..NumBitmaps /\ q[i] = lo + i - 1
      BY <1>1
    <3>3. Good(m, R, r[i]) /\ r[i].free = t.free \ (ToSet(taken) \cap BitmapRange(q[i])) /\ r[i].bfree = t.bfree
      <4> HIDE DEF t
      <4>1. Good(m, R, t) /\ t.ok
        BY <2>1, <2>3
      <4> QED BY <3>1, <3>2, <4>1, TakeGood
    <3>4. Gone(i) = Gone(i - 1) \cup (ToSet(taken) \cap BitmapRange(q[i]))
      <4>1. ASSUME NEW b \in ToSet(taken)
            PROVE  BitmapOf(b) < lo + i <=> BitmapOf(b) < lo + (i - 1) \/ b \in BitmapRange(q[i])
        <5>1. PICK k \in Nat : k = BitmapOf(b)
          BY <1>0, <1>4
        <5>2. b \in BitmapRange(q[i]) <=> k = lo + i - 1
          BY <1>4, <3>2, <5>1 DEF BitmapRange
        <5>3. i \in Nat
          BY <1>0
        <5>4. k < lo + i <=> k < lo + (i - 1) \/ k = lo + i - 1
          BY <1>0, <5>3
        <5> QED BY <5>1, <5>2, <5>4, Zenon
      <4> QED BY <4>1
    <3>5. t.free = s.free \ Gone(i - 1) /\ t.bfree = s.bfree
      BY <2>1, <2>3
    <3>6. r[i].free = s.free \ Gone(i)
      <4> HIDE DEF Gone
      <4> QED BY <3>3, <3>4, <3>5
    <3>7. J(r[i], i)
      BY <3>3, <3>5, <3>6
    <3> HIDE DEF J
    <3> QED BY <2>1, <3>7
  <2> QED BY <2>2, <2>3
<1>7. n \in T
  <2>1. n \in 0..n
    BY <1>0
  <2> HIDE DEF T, n
  <2> QED BY <1>0, <1>5, <1>6, <2>1, Climb
<1>8. Gone(n) = ToSet(taken)
  BY <1>0, <1>4
<1>9. J(r[n], n)
  BY <1>7
<1>10. TakeAll(s, q, taken) = r[n]
  BY <1>1, <1>2 DEF TakeRun
<1> QED BY <1>8, <1>9, <1>10 DEF Took

\* alloc_data_blocks.
LEMMA AllocDataGood ==
  ASSUME NEW m \in Nat, NEW R, NEW s, Good(m, R, s), s.ok, NEW n \in Nat \ {0}
  PROVE  /\ Good(m, R, AllocDataBlocks(s, n))
         /\ AllocDataBlocks(s, n).ok =>
              AllocDataBlocks(s, n).ret \in Seq(DataBlocks) /\ Len(AllocDataBlocks(s, n).ret) = n
<1> DEFINE c == Cardinality(s.free)
           enough == c >= n
           k == IF enough THEN n ELSE c
           taken == Lowest(s.free, k)
           lastBm == IF enough THEN BitmapOf(taken[n]) ELSE NumBitmaps
           passed == IF taken = <<>> THEN <<>>
                     ELSE [i \in 1..(lastBm - BitmapOf(taken[1]) + 1) |-> BitmapOf(taken[1]) + i - 1]
           t == TakeAll(s, passed, taken)
           u == [t EXCEPT !.bfree = @ - n]
           A == AllocDataBlocks(s, n)
<1>1. A = IF t.ok THEN IF enough THEN Ret(u, taken) ELSE Err(t) ELSE t
  BY ZenonT(30) DEF AllocDataBlocks, TakeAll, TakeBits, Then
<1>2. /\ s.free \subseteq DataBlocks /\ s.bfree \in Int
      /\ m >= 2 => Counted(R, s.root, s.free, s.rbm, s.bfree, s.rfree)
  BY DEF Good, Parts
<1>3. IsFiniteSet(s.free) /\ c \in Nat /\ s.free \in SUBSET Nat
  BY <1>2, SpareFinite, LayoutIs, FS_Subset, FS_CardinalityType
<1> HIDE DEF A, c
<1>4. k \in 0..c /\ k \in Nat
  BY <1>3
<1>5. taken \in Seq(s.free) /\ Len(taken) = k /\ \A i, j \in 1..k : i < j => taken[i] < taken[j]
  <2> HIDE DEF k
  <2> QED BY <1>3, <1>4, LowestIs DEF c
<1> HIDE DEF taken
<1>6. taken \in Seq(DataBlocks) /\ \A i \in 1..k : taken[i] \in DataBlocks /\ taken[i] \in s.free
  BY <1>2, <1>5
<1>7. Good(m, R, t) /\ (t.ok => t.free = s.free \ ToSet(taken) /\ t.bfree = s.bfree)
  <2>1. CASE taken = <<>>
    <3>0. passed = <<>>
      BY <2>1
    <3>1. PICK r : TakeRun(r, s, passed, taken)
      <4>1. Len(passed) \in Nat
        BY <3>0
      <4> HIDE DEF passed
      <4> QED BY <4>1, TakeRunExists
    <3>2. t = s
      BY <3>0, <3>1 DEF TakeRun
    <3>3. ToSet(taken) = {}
      BY <2>1 DEF ToSet
    <3> QED BY <3>2, <3>3
  <2>2. CASE taken # <<>>
    <3>0. k # 0 /\ 1 \in 1..k /\ k \in 1..k
      BY <1>4, <1>5, <2>2
    <3> DEFINE lo == BitmapOf(taken[1])
    <3>1. lo \in 1..NumBitmaps /\ lastBm \in 1..NumBitmaps /\ NumBitmaps \in Nat \ {0}
      <4>1. CASE enough
        BY <3>0, <4>1, <1>6, BitmapOfIs
      <4>2. CASE ~enough
        <5>1. lastBm = NumBitmaps
          BY <4>2
        <5>2. lo \in 1..NumBitmaps /\ NumBitmaps \in Nat \ {0}
          BY <3>0, <1>6, BitmapOfIs
        <5> QED BY <5>1, <5>2
      <4> QED BY <4>1, <4>2
    <3>2. ASSUME NEW j \in 1..k PROVE BitmapOf(taken[j]) \in lo..lastBm
      <4>1. taken[1] <= taken[j] /\ taken[j] <= taken[k]
        <5>1. taken[1] \in Nat /\ taken[j] \in Nat /\ taken[k] \in Nat
          BY <1>3, <1>6, <3>0
        <5>2. (1 = j \/ 1 < j) /\ (j = k \/ j < k)
          BY <1>4, <3>0
        <5> HIDE DEF k
        <5> QED BY <1>5, <3>0, <5>1, <5>2
      <4>2. lo <= BitmapOf(taken[j]) /\ lo \in Nat /\ BitmapOf(taken[j]) \in Nat
        BY <4>1, <1>6, <3>0, BitmapMono
      <4>3. BitmapOf(taken[j]) <= lastBm /\ lastBm \in Nat
        <5>1. CASE enough
          <6>1. BitmapOf(taken[j]) <= BitmapOf(taken[k]) /\ BitmapOf(taken[k]) \in Nat
            BY <4>1, <1>6, <3>0, BitmapMono
          <6> QED BY <5>1, <6>1
        <5>2. CASE ~enough
          <6>1. BitmapOf(taken[j]) \in 1..NumBitmaps
            BY <1>6, BitmapOfIs
          <6> QED BY <3>1, <5>2, <6>1
        <5> QED BY <5>1, <5>2
      <4> HIDE DEF lo, lastBm
      <4> QED BY <4>2, <4>3
    <3>3. Counting(passed, lo, lastBm)
      BY <2>2 DEF Counting
    <3> HIDE DEF lo, lastBm, passed, k
    <3>4. lo <= lastBm
      <4>1. BitmapOf(taken[1]) \in lo..lastBm
        BY <3>0, <3>2
      <4> QED BY <4>1, <3>1 DEF lo
    <3>5. Took(m, R, s, taken, t)
      <4>1. \A j \in 1..Len(taken) : BitmapOf(taken[j]) \in lo..lastBm
        BY <1>5, <3>2
      <4> QED BY <1>6, <3>1, <3>3, <3>4, <4>1, TakeLoop
    <3> QED BY <3>5 DEF Took
  <2> QED BY <2>1, <2>2
<1> HIDE DEF passed, t
<1>8. CASE ~t.ok
  BY <1>1, <1>7, <1>8 DEF A
<1>9. CASE t.ok /\ ~enough
  <2>1. A = Err(t)
    BY <1>1, <1>9
  <2> QED BY <1>7, <2>1, ErrGood DEF A
<1>10. CASE t.ok /\ enough
  <2>0. k = n
    BY <1>10
  <2> HIDE DEF k
  <2>1. t.free = s.free \ ToSet(taken) /\ t.bfree = s.bfree /\ DOMAIN t = StateFields
    BY <1>7, <1>10 DEF Good
  <2>2. /\ DOMAIN u = StateFields /\ u.res = t.res /\ u.root = t.root /\ u.data = t.data
        /\ u.pend = t.pend /\ u.free = t.free /\ u.rbm = t.rbm /\ u.bfree = s.bfree - n
        /\ u.rfree = t.rfree /\ u.ok = t.ok /\ u.fuel = t.fuel
    BY <2>1 DEF StateFields
  <2> HIDE DEF u
  <2>3. Cardinality(t.free) = c - n
    <3>1. Cardinality(ToSet(taken)) = k /\ ToSet(taken) \subseteq s.free
      <4>1. \A i, j \in 1..Len(taken) : taken[i] = taken[j] => i = j
        <5> SUFFICES ASSUME NEW i \in 1..k, NEW j \in 1..k, taken[i] = taken[j] PROVE i = j
          BY <1>5
        <5>1. taken[i] \in Nat /\ taken[j] \in Nat
          BY <1>3, <1>6
        <5>2. i < j \/ j < i \/ i = j
          BY <1>4
        <5> QED BY <1>5, <5>1, <5>2
      <4>2. ToSet(taken) \subseteq s.free
        BY <1>5 DEF ToSet
      <4> QED BY <4>1, <4>2, <1>5, Elements
    <3>2. s.free \cap ToSet(taken) = ToSet(taken)
      BY <3>1
    <3>3. Cardinality(s.free \ ToSet(taken)) = Cardinality(s.free) - Cardinality(s.free \cap ToSet(taken))
      BY <1>3, FS_Difference
    <3> QED BY <2>0, <2>1, <3>1, <3>2, <3>3 DEF c
  <2>4. m >= 2 => Counted(R, u.root, u.free, u.rbm, u.bfree, u.rfree)
    <3> SUFFICES ASSUME m >= 2 PROVE Counted(R, u.root, u.free, u.rbm, u.bfree, u.rfree)
      OBVIOUS
    <3>1. s.bfree >= c
      BY <1>2 DEF Counted, c
    <3>2. u.bfree >= Cardinality(u.free)
      BY <1>2, <1>3, <2>2, <2>3, <3>1
    <3>3. Counted(R, t.root, t.free, t.rbm, t.bfree, t.rfree)
      BY <1>7 DEF Good, Parts
    <3> QED BY <2>2, <3>2, <3>3 DEF Counted
  <2>5. Good(m, R, u)
    BY <1>2, <1>7, <2>2, <2>4 DEF Good, Parts
  <2>6. A = Ret(u, taken)
    BY <1>1, <1>10
  <2> QED BY <1>5, <1>6, <2>0, <2>5, <2>6, RetGood DEF A
<1> QED BY <1>8, <1>9, <1>10

-----------------------------------------------------------------------------
(* Writing data blocks.  A block outside the data area is not part of "data". *)

PutBlock(t, w) == Then(Io(t), LAMBDA u : [u EXCEPT !.data[w[1]] = w[2]])
PutAll(s, q) == ForEach(s, q, LAMBDA t, w : PutBlock(t, w))
Puts == (Spare \cup DataBlocks) \X DataVal

\* Writing one data block.
LEMMA PutGood ==
  ASSUME NEW m \in Nat, NEW R, NEW s, Good(m, R, s), NEW w \in Puts
  PROVE  Good(m, R, PutBlock(s, w))
<1> DEFINE t == Io(s)
           u == [t EXCEPT !.data[w[1]] = w[2]]
<1>1. Good(m, R, t)
  BY IoGood
<1>2. PutBlock(s, w) = IF t.ok THEN u ELSE t
  BY DEF PutBlock, Then
<1> HIDE DEF t
<1>3. DOMAIN t = StateFields /\ t.data \in [DataBlocks -> DataVal]
  BY <1>1 DEF Good, Parts
<1> DEFINE D == [t.data EXCEPT ![w[1]] = w[2]]
<1>4. w[2] \in DataVal
  BY DEF Puts
<1>5. D \in [DataBlocks -> DataVal]
  BY <1>3, <1>4
<1>6. u = [t EXCEPT !.data = D]
  BY <1>3 DEF StateFields
<1> HIDE DEF D
<1>7. /\ DOMAIN u = StateFields /\ u.res = t.res /\ u.root = t.root /\ u.data = D
      /\ u.pend = t.pend /\ u.free = t.free /\ u.rbm = t.rbm /\ u.bfree = t.bfree
      /\ u.rfree = t.rfree /\ u.ok = t.ok /\ u.fuel = t.fuel
  BY <1>3, <1>6 DEF StateFields
<1> HIDE DEF u
<1>8. Good(m, R, u)
  BY <1>1, <1>5, <1>7 DEF Good, Parts
<1> QED BY <1>1, <1>2, <1>8

\* The loop of write_data_blocks.
PutRun(r, s, q) ==
  /\ r[0] = s /\ PutAll(s, q) = r[Len(q)]
  /\ \A i \in 1..Len(q) : r[i] = IF r[i - 1].ok THEN PutBlock(r[i - 1], q[i]) ELSE r[i - 1]

\* The states of a loop that writes data blocks.
LEMMA PutRunExists ==
  ASSUME NEW s, NEW q, Len(q) \in Nat
  PROVE  \E r : PutRun(r, s, q)
<1> DEFINE n == Len(q)
           St(t, i) == IF t.ok THEN PutBlock(t, q[i]) ELSE t
           Upto(r, k) == r[0] = s /\ \A i \in 1..k : r[i] = St(r[i - 1], i)
           T == {k \in 0..n : \E r : Upto(r, k)}
<1>0. n \in Nat
  OBVIOUS
<1> HIDE DEF n, St
<1>1. 0 \in T
  <2>1. Upto([i \in 0..0 |-> s], 0)
    OBVIOUS
  <2> HIDE DEF Upto
  <2> QED BY <1>0, <2>1
<1>2. ASSUME NEW k \in 1..n, k - 1 \in T PROVE k \in T
  <2>1. PICK r : Upto(r, k - 1)
    BY <1>2
  <2> DEFINE v == St(r[k - 1], k)
             u == [i \in 0..k |-> IF i = k THEN v ELSE r[i]]
  <2>2. k \in 0..n /\ k \in Nat /\ u[0] = s /\ u[k] = v
    BY <1>0, <2>1
  <2>3. ASSUME NEW i \in 1..k PROVE u[i] = St(u[i - 1], i)
    <3>1. i - 1 \in 0..k /\ i - 1 # k /\ i \in 0..k
      BY <2>2
    <3>2. CASE i = k
      BY <2>2, <3>1, <3>2
    <3>3. CASE i # k
      <4>1. i \in 1..(k - 1)
        BY <2>2, <3>3
      <4>2. u[i] = r[i] /\ u[i - 1] = r[i - 1]
        BY <3>1, <3>3
      <4> QED BY <2>1, <4>1, <4>2
    <3> QED BY <3>2, <3>3
  <2>4. Upto(u, k)
    BY <2>2, <2>3
  <2> HIDE DEF Upto
  <2> QED BY <2>2, <2>4
<1>3. n \in T
  <2>1. n \in 0..n
    BY <1>0
  <2> HIDE DEF T
  <2> QED BY <1>0, <1>1, <1>2, <2>1, Climb
<1>4. PICK r : Upto(r, n)
  BY <1>3
<1> DEFINE f == [i \in 0..n |-> r[i]]
<1>5. f = [i \in 0..n |-> IF i = 0 THEN s ELSE IF f[i - 1].ok THEN PutBlock(f[i - 1], q[i]) ELSE f[i - 1]]
  <2>1. ASSUME NEW i \in 0..n
        PROVE  f[i] = IF i = 0 THEN s ELSE IF f[i - 1].ok THEN PutBlock(f[i - 1], q[i]) ELSE f[i - 1]
    <3>1. CASE i = 0
      BY <1>4, <3>1
    <3>2. CASE i # 0
      <4>1. i \in 1..n /\ i - 1 \in 0..n
        BY <1>0, <3>2
      <4>2. f[i] = St(f[i - 1], i)
        BY <1>4, <4>1
      <4> QED BY <3>2, <4>2 DEF St
    <3> QED BY <3>1, <3>2
  <2> QED BY <2>1
<1>6. PICK h : /\ h = [i \in 0..Len(q) |-> IF i = 0 THEN s ELSE IF h[i - 1].ok THEN PutBlock(h[i - 1], q[i]) ELSE h[i - 1]]
               /\ PutAll(s, q) = h[Len(q)]
  <2> HIDE DEF f
  <2> QED BY <1>5, Zenon DEF ForEach, n, PutAll
<1>7. h[0] = s
  BY <1>0, <1>6 DEF n
<1>8. ASSUME NEW i \in 1..Len(q) PROVE h[i] = IF h[i - 1].ok THEN PutBlock(h[i - 1], q[i]) ELSE h[i - 1]
  <2>1. i \in 0..Len(q) /\ i # 0
    BY <1>0 DEF n
  <2> QED BY <1>6, <2>1
<1> QED BY <1>6, <1>7, <1>8 DEF PutRun

\* Such a loop keeps a state good.
LEMMA PutLoop ==
  ASSUME NEW m \in Nat, NEW R, NEW s, Good(m, R, s), NEW q \in Seq(Puts)
  PROVE  Good(m, R, PutAll(s, q))
<1>0. Len(q) \in Nat /\ \A i \in 1..Len(q) : q[i] \in Puts
  OBVIOUS
<1>1. PICK r : PutRun(r, s, q)
  BY <1>0, PutRunExists
<1> DEFINE T == {i \in 0..Len(q) : Good(m, R, r[i])}
<1>2. 0 \in T
  BY <1>0, <1>1 DEF PutRun
<1>3. ASSUME NEW i \in 1..Len(q), i - 1 \in T PROVE i \in T
  <2>1. Good(m, R, r[i - 1]) /\ i \in 0..Len(q)
    BY <1>0, <1>3
  <2>2. r[i - 1].ok => Good(m, R, PutBlock(r[i - 1], q[i]))
    BY <1>0, <2>1, PutGood
  <2> QED BY <1>1, <2>1, <2>2 DEF PutRun
<1>4. Len(q) \in T
  <2>1. Len(q) \in 0..Len(q)
    BY <1>0
  <2> HIDE DEF T
  <2> QED BY <1>0, <1>2, <1>3, <2>1, Climb
<1> QED BY <1>1, <1>4 DEF PutRun

\* Writing a file's content.
LEMMA WriteDataGood ==
  ASSUME NEW m \in Nat, NEW R, NEW s, Good(m, R, s), NEW blks \in Seq(Spare \cup DataBlocks),
         NEW content \in Seq(DataVal), Len(blks) <= Len(content)
  PROVE  Good(m, R, WriteDataBlocks(s, blks, content))
<1> DEFINE q == [i \in DOMAIN blks |-> <<blks[i], content[i]>>]
           t == PutAll(s, q)
<1>1. WriteDataBlocks(s, blks, content) = IF t.ok THEN Io(t) ELSE t
  BY Zenon DEF WriteDataBlocks, PutAll, PutBlock, Then
<1>2. q \in Seq(Puts)
  <2>1. DOMAIN blks = 1..Len(blks) /\ Len(blks) \in Nat /\ Len(content) \in Nat
    OBVIOUS
  <2>2. \A i \in 1..Len(blks) : <<blks[i], content[i]>> \in Puts
    BY <2>1 DEF Puts
  <2>3. q \in [1..Len(blks) -> Puts]
    BY <2>1, <2>2
  <2> HIDE DEF q
  <2> QED BY <2>1, <2>3
<1> HIDE DEF q
<1>3. Good(m, R, t)
  BY <1>2, PutLoop
<1> QED BY <1>1, <1>3, IoGood

-----------------------------------------------------------------------------
(* Kinds of blocks *)

\* The id of a block says which kind of content it is.
LEMMA KindIs ==
  ASSUME NEW b \in ResBlocks, NEW c, Fits(b, c)
  PROVE  /\ c.k = "AB" => b \in Spare /\ c \in AnodeBlocks
         /\ c.k = "DB" => b \in Spare /\ c \in DirBlocks
         /\ c.k = "IB" => b \in Spare \cup {IndexBlk} /\ c \in IndexBlocks
         /\ b \in Spare => b \notin 1..NumBitmaps
<1>1. \A x : (x \in BitmapBlocks => x.k = "BM") /\ (x \in IndexBlocks => x.k = "IB")
             /\ (x \in DelDirBlocks => x.k = "DD") /\ (x \in SuperBlocks => x.k = "SB")
             /\ (x \in DirBlocks => x.k = "DB") /\ (x \in AnodeBlocks => x.k = "AB")
             /\ (x = Unused => x.k = "--")
  <2>1. \A x : x \in BitmapBlocks => x.k = "BM"
    BY DEF BitmapBlocks
  <2>2. \A x : x \in IndexBlocks => x.k = "IB"
    BY DEF IndexBlocks
  <2>3. \A x : x \in DelDirBlocks => x.k = "DD"
    BY DEF DelDirBlocks
  <2>4. \A x : x \in SuperBlocks => x.k = "SB"
    BY DEF SuperBlocks
  <2>5. \A x : x \in DirBlocks => x.k = "DB"
    BY DEF DirBlocks
  <2>6. \A x : x \in AnodeBlocks => x.k = "AB"
    BY DEF AnodeBlocks
  <2>7. \A x : x = Unused => x.k = "--"
    BY DEF Unused
  <2> QED BY <2>1, <2>2, <2>3, <2>4, <2>5, <2>6, <2>7
<1>2. \/ b \in 1..NumBitmaps /\ c \in BitmapBlocks
      \/ b = IndexBlk /\ c \in IndexBlocks
      \/ c \in DelDirBlocks
      \/ c \in SuperBlocks
      \/ b \in Spare /\ (c \in AnodeBlocks \/ c \in IndexBlocks \/ c \in DirBlocks \/ c = Unused)
  BY DEF Fits, Spare, Pinned, SpareBlocks
<1>3. b \in Spare => b \notin 1..NumBitmaps
  BY DEF Spare, Pinned
<1> QED BY <1>1, <1>2, <1>3

\* The same of what the device or the writer shows of any block number.
LEMMA SeenKind ==
  ASSUME NEW R, DiskOK(R), NEW p, PendOK(p), NEW b
  PROVE  /\ BlockAt(R, b).k = "AB" => b \in Spare /\ R[b] \in AnodeBlocks /\ BlockAt(R, b) = R[b]
         /\ BlockAt(R, b).k = "DB" => b \in Spare /\ R[b] \in DirBlocks /\ BlockAt(R, b) = R[b]
         /\ BlockAt(R, b).k = "IB" => b \in Spare \cup {IndexBlk} /\ R[b] \in IndexBlocks /\ BlockAt(R, b) = R[b]
         /\ View(R, p, b).k = "AB" => b \in Spare /\ View(R, p, b) \in AnodeBlocks
         /\ View(R, p, b).k = "DB" => b \in Spare /\ View(R, p, b) \in DirBlocks
<1>1. CASE b \in ResBlocks
  <2>1. BlockAt(R, b) = R[b] /\ Fits(b, R[b]) /\ Fits(b, View(R, p, b))
    BY <1>1, ViewFits DEF BlockAt, DiskOK
  <2> QED BY <1>1, <2>1, KindIs
<1>2. CASE b \notin ResBlocks
  <2>1. \A i \in 1..Len(p) : p[i].blk # b
    <3> DEFINE C == BitmapBlocks \cup DelDirBlocks \cup SuperBlocks \cup SpareBlocks
               W == [blk : ResBlocks, c : C]
    <3>1. p \in Seq(W)
      BY DEF PendOK
    <3> SUFFICES ASSUME NEW i \in 1..Len(p) PROVE p[i].blk # b
      OBVIOUS
    <3>2. p[i] \in W
      <4> HIDE DEF W
      <4> QED BY <3>1
    <3> HIDE DEF C
    <3> QED BY <1>2, <3>2
  <2>2. View(R, p, b) = Unused /\ BlockAt(R, b) = Unused
    BY <1>2, <2>1, ViewIs DEF BlockAt
  <2> QED BY <2>2 DEF Unused
<1> QED BY <1>1, <1>2

\* Index lookups.
LEMMA IndexIs ==
  ASSUME NEW R, DiskOK(R), NEW n \in Nat
  PROVE  IndexBlockOf(R, n) \in {0, IndexBlk} \cup Spare /\ ResolveAnodeBlock(R, n) \in Nat
<1>1. IndexPerBlock \in Nat \ {0} /\ n \div IndexPerBlock \in Nat /\ n % IndexPerBlock \in 0..(IndexPerBlock - 1)
  BY Constants, DivMod
<1>2. PICK q \in Nat : q = n \div IndexPerBlock
  BY <1>1
<1>3. PICK e \in 0..(IndexPerBlock - 1) : e = n % IndexPerBlock
  BY <1>1
<1>4. IndexBlockOf(R, n) \in {0, IndexBlk} \cup Spare
  <2>1. CASE Large
    <3>1. R[SuperBlk] \in SuperBlocks
      <4>1. SuperBlk \in Pinned
        BY <2>1 DEF Pinned
      <4> QED BY <2>1, <4>1, LayoutIs DEF DiskOK, Fits
    <3>2. q < IndexPerBlock => R[SuperBlk].ptr[q] \in {0, IndexBlk} \cup Spare
      <4> SUFFICES ASSUME q < IndexPerBlock PROVE R[SuperBlk].ptr[q] \in {0, IndexBlk} \cup Spare
        OBVIOUS
      <4>1. q \in 0..(IndexPerBlock - 1)
        BY <1>1
      <4> QED BY <3>1, <4>1 DEF SuperBlocks
    <3> QED BY <1>2, <2>1, <3>2 DEF IndexBlockOf
  <2>2. CASE ~Large
    BY <2>2 DEF IndexBlockOf
  <2> QED BY <2>1, <2>2
<1>5. PICK x : x = IndexBlockOf(R, n)
  OBVIOUS
<1>6. BlockAt(R, x).k = "IB" => BlockAt(R, x).ptr[e] \in Nat
  <2>1. PendOK(<<>>)
    BY DEF PendOK
  <2>2. BlockAt(R, x).k = "IB" => R[x] \in IndexBlocks /\ BlockAt(R, x) = R[x]
    BY <2>1, SeenKind
  <2> QED BY <2>2 DEF IndexBlocks
<1>7. ResolveAnodeBlock(R, n) = IF BlockAt(R, x).k = "IB" THEN BlockAt(R, x).ptr[e] ELSE 0
  BY <1>3, <1>5 DEF ResolveAnodeBlock, PointerIn
<1> QED BY <1>4, <1>6, <1>7

\* An anode's number.
LEMMA AnodeNr ==
  ASSUME NEW nr \in Nat
  PROVE  SeqOfAnode(nr) \in Nat /\ OffOfAnode(nr) \in Nat
BY Constants, DivMod DEF SeqOfAnode, OffOfAnode

-----------------------------------------------------------------------------
(* Chains *)

\* The anodes of a volume: where they are, and the blocks they may name.
Anodes(R) ==
  {a \in [nr : Nat, cs : Nat, bn : Nat, nx : Nat] :
     HasAnode(R, a.nr) /\ \A j \in 0..(a.cs - 1) : a.bn + j \in Spare \cup DataBlocks}
Chains0(R) == [ok : BOOLEAN, chain : Seq(Anodes(R))]

\* An anode that get_anode finds.
LEMMA AnodeIs ==
  ASSUME NEW R, DiskOK(R), NEW nr \in Nat, HasAnode(R, nr)
  PROVE  GetAnode(R, nr) \in Anodes(R) /\ GetAnode(R, nr).nr = nr
<1> DEFINE b == ResolveAnodeBlock(R, SeqOfAnode(nr))
           o == OffOfAnode(nr)
<1>1. o \in 0..(AnodesPerBlock - 1)
  <2>1. o \in Nat /\ o < AnodesPerBlock /\ AnodesPerBlock \in Nat
    BY Constants, AnodeNr DEF HasAnode
  <2> QED BY <2>1
<1>2. BlockAt(R, b).k = "AB"
  BY DEF HasAnode, IsAnodeBlock
<1>3. PendOK(<<>>)
  BY DEF PendOK
<1> HIDE DEF b, o
<1>4. R[b] \in AnodeBlocks
  BY <1>2, <1>3, SeenKind
<1>5. R[b].slots[o] \in Slot
  BY <1>1, <1>4 DEF AnodeBlocks
<1>6. PICK a : a = R[b].slots[o]
  OBVIOUS
<1>7. GetAnode(R, nr) = [nr |-> nr, cs |-> a.cs, bn |-> a.bn, nx |-> a.nx]
  BY <1>6 DEF GetAnode, Numbered, b, o
<1> QED BY <1>5, <1>6, <1>7 DEF Anodes, Slot

\* A chain with one more anode in front is a chain.
LEMMA LinkedIs ==
  ASSUME NEW R, NEW a \in Anodes(R), NEW c \in Chains0(R)
  PROVE  Linked(a, c) \in Chains0(R)
<1> DEFINE S == Anodes(R)
<1>0. a \in S /\ c.chain \in Seq(S)
  BY DEF Chains0
<1> HIDE DEF S
<1>1. <<a>> \o c.chain \in Seq(S)
  BY <1>0
<1>2. <<>> \in Seq(S)
  OBVIOUS
<1> QED BY <1>1, <1>2 DEF Linked, NoChain, Chains0, S

\* get_chain, anode by anode.
Hop(R, v) ==
  [nr \in Nat |->
     IF nr = EOF THEN [ok |-> TRUE, chain |-> <<>>]
     ELSE IF ~HasAnode(R, nr) THEN NoChain
     ELSE Linked(GetAnode(R, nr), v[GetAnode(R, nr).nx])]
NoHop == [nr \in Nat |-> IF nr = EOF THEN [ok |-> TRUE, chain |-> <<>>] ELSE NoChain]

\* One step of the walk maps typed results to typed results.
LEMMA HopIs ==
  ASSUME NEW R, DiskOK(R), NEW v \in [Nat -> Chains0(R)]
  PROVE  Hop(R, v) \in [Nat -> Chains0(R)]
<1>1. [ok |-> TRUE, chain |-> <<>>] \in Chains0(R) /\ NoChain \in Chains0(R)
  BY DEF Chains0, NoChain
<1>2. ASSUME NEW nr \in Nat, HasAnode(R, nr)
      PROVE  Linked(GetAnode(R, nr), v[GetAnode(R, nr).nx]) \in Chains0(R)
  <2>1. GetAnode(R, nr) \in Anodes(R)
    BY <1>2, AnodeIs
  <2>2. GetAnode(R, nr).nx \in Nat
    BY <2>1 DEF Anodes
  <2>3. v[GetAnode(R, nr).nx] \in Chains0(R)
    BY <2>2
  <2> QED BY <2>1, <2>3, LinkedIs
<1> QED BY <1>1, <1>2 DEF Hop

\* The walk: what get_chain returns for every anode, by the anodes it may visit.
Walk(w, R) ==
  /\ w[0] = NoHop /\ \A n \in 1..MaxChainLen : w[n] = Hop(R, w[n - 1])
  /\ w \in [0..MaxChainLen -> [Nat -> Chains0(R)]]
  /\ \A head : GetChain(R, head) = w[MaxChainLen][head]

\* The walk along next pointers is defined, up to MAX_CHAIN_LEN anodes.
LEMMA WalkExists ==
  ASSUME NEW R, DiskOK(R)
  PROVE  \E w : Walk(w, R)
<1> DEFINE S == [Nat -> Chains0(R)]
           N == MaxChainLen
           g == [x \in (1..N) \X S |-> Hop(R, x[2])]
<1>0. N \in Nat
  BY Constants
<1>1. NoHop \in S
  BY DEF NoHop, Chains0, NoChain
<1>2. \A v \in S : Hop(R, v) \in S
  BY HopIs
<1> HIDE DEF S, N
<1>3. IsStep(N, S, g)
  BY <1>2 DEF IsStep
<1>4. \A i \in 1..N : \A v \in S : g[<<i, v>>] = Hop(R, v)
  OBVIOUS
<1> HIDE DEF g
<1>5. PICK r : Visits(r, N, S, NoHop, g)
  BY <1>0, <1>1, <1>3, Iterate, Zenon
<1>6. r \in [0..N -> S] /\ r[0] = NoHop
  BY <1>5 DEF Visits
<1>7. ASSUME NEW i \in 1..N PROVE i - 1 \in 0..N /\ r[i] = Hop(R, r[i - 1])
  <2>1. i - 1 \in 0..N
    BY <1>0
  <2>2. r[i - 1] \in S
    BY <1>6, <2>1
  <2> QED BY <1>4, <1>5, <2>1, <2>2 DEF Visits
<1> DEFINE Eq(f) == f = [n \in 0..N |->
             [nr \in Nat |->
                IF nr = EOF THEN [ok |-> TRUE, chain |-> <<>>]
                ELSE IF n = 0 \/ ~HasAnode(R, nr) THEN NoChain
                ELSE Linked(GetAnode(R, nr), f[n - 1][GetAnode(R, nr).nx])]]
<1>8. Eq(r)
  <2>1. ASSUME NEW n \in 0..N
        PROVE  r[n] = [nr \in Nat |->
                         IF nr = EOF THEN [ok |-> TRUE, chain |-> <<>>]
                         ELSE IF n = 0 \/ ~HasAnode(R, nr) THEN NoChain
                         ELSE Linked(GetAnode(R, nr), r[n - 1][GetAnode(R, nr).nx])]
    <3>1. CASE n = 0
      BY <1>6, <3>1 DEF NoHop
    <3>2. CASE n # 0
      <4>1. n \in 1..N
        BY <1>0, <3>2
      <4> QED BY <1>7, <3>2, <4>1 DEF Hop
    <3> QED BY <3>1, <3>2
  <2> QED BY <1>6, <2>1
<1>9. PICK h : Eq(h) /\ \A head : GetChain(R, head) = h[N][head]
  <2>1. \A head : GetChain(R, head) = (CHOOSE h : Eq(h))[N][head]
    BY Zenon DEF GetChain, N
  <2> HIDE DEF Eq
  <2> QED BY <1>8, <2>1, Zenon
<1>10. h[0] = NoHop
  BY <1>0, <1>9 DEF NoHop
<1>11. \A n \in 1..N : h[n] = Hop(R, h[n - 1])
  <2> SUFFICES ASSUME NEW n \in 1..N PROVE h[n] = Hop(R, h[n - 1])
    OBVIOUS
  <2>1. n \in 0..N /\ n # 0
    BY <1>0
  <2> QED BY <1>9, <2>1 DEF Hop
<1> DEFINE T == {n \in 0..N : h[n] \in S}
<1>12. \A n \in 0..N : n \in T
  <2>1. 0 \in T
    BY <1>0, <1>1, <1>10
  <2>2. ASSUME NEW n \in 1..N, n - 1 \in T PROVE n \in T
    <3>1. n \in 0..N
      BY <1>0
    <3> QED BY <1>2, <1>11, <2>2, <3>1
  <2> HIDE DEF T
  <2> QED BY <1>0, <2>1, <2>2, Climb
<1>13. h \in [0..N -> S]
  <2>1. h = [n \in 0..N |-> h[n]]
    BY <1>9
  <2> HIDE DEF Eq
  <2> QED BY <1>12, <2>1
<1> QED BY <1>9, <1>10, <1>11, <1>13 DEF Walk, N, S

\* get_chain returns anodes of the volume, or an error.
LEMMA ChainIs ==
  ASSUME NEW R, DiskOK(R), NEW head \in Nat
  PROVE  GetChain(R, head) \in Chains0(R)
<1>1. PICK w : Walk(w, R)
  BY WalkExists
<1>2. MaxChainLen \in 0..MaxChainLen
  BY Constants
<1>3. w[MaxChainLen] \in [Nat -> Chains0(R)]
  BY <1>1, <1>2 DEF Walk
<1> QED BY <1>1, <1>3 DEF Walk

\* The blocks an anode, and a chain, name.
LEMMA ExtentIs ==
  ASSUME NEW R, NEW a \in Anodes(R)
  PROVE  Extent(a) \in Seq(Spare \cup DataBlocks) /\ Len(Extent(a)) = a.cs
<1> DEFINE B == Spare \cup DataBlocks
<1>1. a.cs \in Nat /\ a.bn \in Nat /\ \A j \in 0..(a.cs - 1) : a.bn + j \in B
  BY DEF Anodes
<1> HIDE DEF B
<1>2. PICK n \in Nat, o \in Nat : n = a.cs /\ o = a.bn
  BY <1>1
<1>3. ASSUME NEW i \in 1..n PROVE o + i - 1 \in B
  <2>1. i - 1 \in 0..(n - 1) /\ o + i - 1 = o + (i - 1)
    OBVIOUS
  <2> QED BY <1>1, <1>2, <2>1
<1>4. Extent(a) = [i \in 1..n |-> o + i - 1]
  BY <1>2 DEF Extent
<1>5. [i \in 1..n |-> o + i - 1] \in Seq(B) /\ Len([i \in 1..n |-> o + i - 1]) = n
  BY <1>3
<1> QED BY <1>2, <1>4, <1>5 DEF B

\* A chain's blocks are spare or data blocks.
LEMMA BlocksOfIs ==
  ASSUME NEW R, NEW chain \in Seq(Anodes(R))
  PROVE  BlocksOf(chain) \in Seq(Spare \cup DataBlocks)
<1> DEFINE B == Spare \cup DataBlocks
           S == Anodes(R)
           q == [i \in DOMAIN chain |-> Extent(chain[i])]
<1>1. \A a \in S : Extent(a) \in Seq(B)
  BY ExtentIs
<1>2. chain \in Seq(S)
  OBVIOUS
<1> HIDE DEF B, S
<1>3. q \in Seq(Seq(B))
  BY <1>1, <1>2
<1> HIDE DEF q
<1>4. FlattenSeq(q) \in Seq(B)
  BY <1>3, FlattenHas
<1> QED BY <1>4 DEF BlocksOf, q, B

\* The index that Find, FindDir and the like return.
LEMMA FindIs ==
  ASSUME NEW S, NEW es \in Seq(S), NEW name
  PROVE  Find(es, name) \in 0..Len(es) /\ FindDir(es, name) \in 0..Len(es)
<1> DEFINE I == {i \in 1..Len(es) : NameEq(es[i].name, name)}
           D == {i \in 1..Len(es) : NameEq(es[i].name, name) /\ es[i].type = "dir"}
<1>0. Len(es) \in Nat
  OBVIOUS
<1>1. Find(es, name) = IF I = {} THEN 0 ELSE Min(I)
  BY Zenon DEF Find, SelectInSeq
<1>2. FindDir(es, name) = IF D = {} THEN 0 ELSE Min(D)
  BY Zenon DEF FindDir, SelectInSeq
<1>3. I \in SUBSET Nat /\ D \in SUBSET Nat
  BY <1>0
<1>4. I # {} => Min(I) \in I
  <2> HIDE DEF I
  <2> QED BY <1>3, MinOf
<1>5. D # {} => Min(D) \in D
  <2> HIDE DEF D
  <2> QED BY <1>3, MinOf
<1> QED BY <1>0, <1>1, <1>2, <1>4, <1>5

\* Directory listings.
LEMMA EntriesInIs ==
  ASSUME NEW R, DiskOK(R), NEW S, NEW blks \in Seq(S)
  PROVE  EntriesIn(R, blks) \in Seq(Entries)
<1> DEFINE E(b) == IF BlockAt(R, b).k = "DB" THEN BlockAt(R, b).es ELSE <<>>
           q == [i \in DOMAIN blks |-> E(blks[i])]
<1>1. PendOK(<<>>)
  BY DEF PendOK
<1>2. ASSUME NEW b PROVE E(b) \in Seq(Entries)
  <2>1. BlockAt(R, b).k = "DB" => R[b] \in DirBlocks /\ BlockAt(R, b) = R[b]
    BY <1>1, SeenKind
  <2>2. \A c \in DirBlocks : c.es \in Seq(Entries)
    BY DEF DirBlocks
  <2>3. <<>> \in Seq(Entries)
    <3> DEFINE X == Entries
    <3> HIDE DEF X
    <3>1. <<>> \in Seq(X)
      OBVIOUS
    <3> QED BY <3>1 DEF X
  <2> QED BY <2>1, <2>2, <2>3
<1> HIDE DEF E
<1>3. q \in Seq(Seq(Entries))
  BY <1>2
<1> HIDE DEF q
<1>4. FlattenSeq(q) \in Seq(Entries)
  BY <1>3, FlattenHas
<1> QED BY <1>4 DEF EntriesIn, q, E

\* A directory listing consists of entries.
LEMMA ListDirIs ==
  ASSUME NEW R, DiskOK(R), NEW d \in Nat
  PROVE  ListDir(R, d).ok \in BOOLEAN /\ ListDir(R, d).es \in Seq(Entries)
<1> DEFINE c == GetChain(R, d)
           L == [ok |-> c.ok, es |-> EntriesIn(R, BlocksOf(c.chain))]
<1>1. c.ok \in BOOLEAN /\ c.chain \in Seq(Anodes(R))
  BY ChainIs DEF Chains0
<1>2. ListDir(R, d) = L
  BY DEF ListDir
<1> HIDE DEF c
<1>3. BlocksOf(c.chain) \in Seq(Spare \cup DataBlocks)
  BY <1>1, BlocksOfIs
<1>4. EntriesIn(R, BlocksOf(c.chain)) \in Seq(Entries)
  BY <1>3, EntriesInIs
<1>5. L.ok = c.ok /\ L.es = EntriesIn(R, BlocksOf(c.chain))
  OBVIOUS
<1> HIDE DEF L
<1> QED BY <1>1, <1>2, <1>4, <1>5

-----------------------------------------------------------------------------
(* Anodes written and chains released *)

SlotPut(c, off, a) == [c EXCEPT !.slots[off] = a]
ZeroSlot == [cs |-> 0, bn |-> 0, nx |-> 0]

\* A slot of a block of another kind does not exist.
LEMMA SlotPutFits ==
  ASSUME NEW b \in Spare, NEW c, Fits(b, c), NEW off \in 0..(AnodesPerBlock - 1), NEW a \in Slot
  PROVE  Fits(b, SlotPut(c, off, a))
<1>0. b \notin Pinned
  BY DEF Spare
<1>1. c \in AnodeBlocks => SlotPut(c, off, a) \in AnodeBlocks
  <2> DEFINE X == Slot
             D == 0..(AnodesPerBlock - 1)
  <2>1. off \in D /\ a \in X
    OBVIOUS
  <2> SUFFICES ASSUME c \in [k : {"AB"}, slots : [D -> X]] PROVE SlotPut(c, off, a) \in [k : {"AB"}, slots : [D -> X]]
    BY DEF AnodeBlocks
  <2> HIDE DEF X, D
  <2> QED BY <2>1 DEF SlotPut
<1>2. c \in IndexBlocks => SlotPut(c, off, a) = c
  <2> DEFINE X == [0..(IndexPerBlock - 1) -> Nat]
  <2> SUFFICES ASSUME c \in [k : {"IB"}, ptr : X] PROVE SlotPut(c, off, a) = c
    BY DEF IndexBlocks
  <2> HIDE DEF X
  <2> QED BY DEF SlotPut
<1>3. c \in DirBlocks => SlotPut(c, off, a) = c
  <2> DEFINE X == Seq(Entries)
  <2> SUFFICES ASSUME c \in [k : {"DB"}, es : X] PROVE SlotPut(c, off, a) = c
    BY DEF DirBlocks
  <2> HIDE DEF X
  <2> QED BY DEF SlotPut
<1>4. c = Unused => SlotPut(c, off, a) = c
  BY DEF SlotPut, Unused
<1>5. c \in SpareBlocks
  BY DEF Fits
<1>6. SlotPut(c, off, a) \in SpareBlocks
  BY <1>1, <1>2, <1>3, <1>4, <1>5 DEF SpareBlocks
<1> QED BY <1>0, <1>6 DEF Fits, Pinned

\* The anodes the writer stores are legal ones.
LEMMA SlotsAre ==
  /\ ZeroSlot \in Slot /\ NoAnode = ZeroSlot
  /\ \A b \in Spare \cup DataBlocks : \A nx \in Nat : [cs |-> 1, bn |-> b, nx |-> nx] \in Slot
<1>1. Spare \cup DataBlocks \subseteq Nat
  BY LayoutIs, SpareFinite
<1> QED BY <1>1 DEF Slot, ZeroSlot, NoAnode

\* Where an anode is.
LEMMA AnodeAt ==
  ASSUME NEW R, DiskOK(R), NEW nr \in Nat, HasAnode(R, nr)
  PROVE  /\ ResolveAnodeBlock(R, SeqOfAnode(nr)) \in Spare
         /\ OffOfAnode(nr) \in 0..(AnodesPerBlock - 1)
<1>1. OffOfAnode(nr) \in Nat /\ OffOfAnode(nr) < AnodesPerBlock /\ AnodesPerBlock \in Nat
  BY Constants, AnodeNr DEF HasAnode
<1>2. PendOK(<<>>)
  BY DEF PendOK
<1>3. BlockAt(R, ResolveAnodeBlock(R, SeqOfAnode(nr))).k = "AB"
  BY DEF HasAnode, IsAnodeBlock
<1> QED BY <1>1, <1>2, <1>3, SeenKind

\* Writing an anode that is there.
LEMMA WriteAnodeGood ==
  ASSUME NEW m \in Nat, NEW R, NEW s, Good(m, R, s), NEW nr \in Nat, HasAnode(R, nr),
         NEW cs, NEW bn, NEW nx, [cs |-> cs, bn |-> bn, nx |-> nx] \in Slot
  PROVE  Good(m, R, WriteAnodeFields(s, nr, cs, bn, nx))
<1> DEFINE b == ResolveAnodeBlock(R, SeqOfAnode(nr))
           o == OffOfAnode(nr)
           a == [cs |-> cs, bn |-> bn, nx |-> nx]
           c == SlotPut(RawRead(s, b), o, a)
<1>1. s.res = R /\ DiskOK(R) /\ PendOK(s.pend)
  BY DEF Good, Parts
<1>2. WriteAnodeFields(s, nr, cs, bn, nx) = Patch(s, b, c)
  BY <1>1 DEF WriteAnodeFields, SlotPut
<1>3. b \in Spare /\ o \in 0..(AnodesPerBlock - 1) /\ a \in Slot
  BY <1>1, AnodeAt
<1>4. b \in ResBlocks /\ b \notin 1..NumBitmaps
  BY <1>3 DEF Spare, Pinned
<1> HIDE DEF b, o, a
<1>5. Fits(b, RawRead(s, b))
  BY <1>1, <1>4, RawReadIs, ViewFits
<1>6. Fits(b, c)
  BY <1>3, <1>5, SlotPutFits
<1> HIDE DEF c
<1> QED BY <1>2, <1>4, <1>6, PatchGood

\* After a lookup the chain is one of the volume.
LEMMA ChainGot ==
  ASSUME NEW m \in Nat, NEW R, NEW s, Good(m, R, s), NEW head \in Nat
  PROVE  /\ Good(m, R, Io(s)) /\ Io(s).res = R /\ s.res = R
         /\ GetChain(s.res, head) = GetChain(R, head)
         /\ GetChain(R, head).chain \in Seq(Anodes(R)) /\ GetChain(R, head).ok \in BOOLEAN
         /\ Good(m, R, Err(Io(s))) /\ ~Err(Io(s)).ok
<1>1. s.res = R /\ DiskOK(R)
  BY DEF Good, Parts
<1>2. Good(m, R, Io(s))
  BY IoGood
<1> QED BY <1>1, <1>2, ChainIs, ErrGood DEF Chains0, Good

ClearOne(t, a) == WriteAnodeFields(t, a.nr, 0, 0, 0)
ClearAll(s, q) == ForEach(s, q, LAMBDA t, a : ClearOne(t, a))

\* Clearing one anode.
LEMMA ClearOneGood ==
  ASSUME NEW m \in Nat, NEW R, NEW s, Good(m, R, s), NEW a \in Anodes(R)
  PROVE  Good(m, R, ClearOne(s, a))
<1>1. a.nr \in Nat /\ HasAnode(R, a.nr)
  BY DEF Anodes
<1>2. [cs |-> 0, bn |-> 0, nx |-> 0] \in Slot
  BY SlotsAre DEF ZeroSlot
<1> QED BY <1>1, <1>2, WriteAnodeGood DEF ClearOne

\* clear_anodes.
ClearRun(r, s, q) ==
  /\ r[0] = s /\ ClearAll(s, q) = r[Len(q)]
  /\ \A i \in 1..Len(q) : r[i] = IF r[i - 1].ok THEN ClearOne(r[i - 1], q[i]) ELSE r[i - 1]

\* The states of a loop that clears anodes.
LEMMA ClearRunExists ==
  ASSUME NEW s, NEW q, Len(q) \in Nat
  PROVE  \E r : ClearRun(r, s, q)
<1> DEFINE n == Len(q)
           St(t, i) == IF t.ok THEN ClearOne(t, q[i]) ELSE t
           Upto(r, k) == r[0] = s /\ \A i \in 1..k : r[i] = St(r[i - 1], i)
           T == {k \in 0..n : \E r : Upto(r, k)}
<1>0. n \in Nat
  OBVIOUS
<1> HIDE DEF n, St
<1>1. 0 \in T
  <2>1. Upto([i \in 0..0 |-> s], 0)
    OBVIOUS
  <2> HIDE DEF Upto
  <2> QED BY <1>0, <2>1
<1>2. ASSUME NEW k \in 1..n, k - 1 \in T PROVE k \in T
  <2>1. PICK r : Upto(r, k - 1)
    BY <1>2
  <2> DEFINE v == St(r[k - 1], k)
             u == [i \in 0..k |-> IF i = k THEN v ELSE r[i]]
  <2>2. k \in 0..n /\ k \in Nat /\ u[0] = s /\ u[k] = v
    BY <1>0, <2>1
  <2>3. ASSUME NEW i \in 1..k PROVE u[i] = St(u[i - 1], i)
    <3>1. i - 1 \in 0..k /\ i - 1 # k /\ i \in 0..k
      BY <2>2
    <3>2. CASE i = k
      BY <2>2, <3>1, <3>2
    <3>3. CASE i # k
      <4>1. i \in 1..(k - 1)
        BY <2>2, <3>3
      <4>2. u[i] = r[i] /\ u[i - 1] = r[i - 1]
        BY <3>1, <3>3
      <4> QED BY <2>1, <4>1, <4>2
    <3> QED BY <3>2, <3>3
  <2>4. Upto(u, k)
    BY <2>2, <2>3
  <2> HIDE DEF Upto
  <2> QED BY <2>2, <2>4
<1>3. n \in T
  <2>1. n \in 0..n
    BY <1>0
  <2> HIDE DEF T
  <2> QED BY <1>0, <1>1, <1>2, <2>1, Climb
<1>4. PICK r : Upto(r, n)
  BY <1>3
<1> DEFINE f == [i \in 0..n |-> r[i]]
<1>5. f = [i \in 0..n |-> IF i = 0 THEN s ELSE IF f[i - 1].ok THEN ClearOne(f[i - 1], q[i]) ELSE f[i - 1]]
  <2>1. ASSUME NEW i \in 0..n
        PROVE  f[i] = IF i = 0 THEN s ELSE IF f[i - 1].ok THEN ClearOne(f[i - 1], q[i]) ELSE f[i - 1]
    <3>1. CASE i = 0
      BY <1>4, <3>1
    <3>2. CASE i # 0
      <4>1. i \in 1..n /\ i - 1 \in 0..n
        BY <1>0, <3>2
      <4>2. f[i] = St(f[i - 1], i)
        BY <1>4, <4>1
      <4> QED BY <3>2, <4>2 DEF St
    <3> QED BY <3>1, <3>2
  <2> QED BY <2>1
<1>6. PICK h : /\ h = [i \in 0..Len(q) |-> IF i = 0 THEN s ELSE IF h[i - 1].ok THEN ClearOne(h[i - 1], q[i]) ELSE h[i - 1]]
               /\ ClearAll(s, q) = h[Len(q)]
  <2> HIDE DEF f
  <2> QED BY <1>5, Zenon DEF ForEach, n, ClearAll
<1>7. h[0] = s
  BY <1>0, <1>6 DEF n
<1>8. ASSUME NEW i \in 1..Len(q) PROVE h[i] = IF h[i - 1].ok THEN ClearOne(h[i - 1], q[i]) ELSE h[i - 1]
  <2>1. i \in 0..Len(q) /\ i # 0
    BY <1>0 DEF n
  <2> QED BY <1>6, <2>1
<1> QED BY <1>6, <1>7, <1>8 DEF ClearRun

\* Such a loop keeps a state good.
LEMMA ClearLoop ==
  ASSUME NEW m \in Nat, NEW R, NEW s, Good(m, R, s), NEW q \in Seq(Anodes(R))
  PROVE  Good(m, R, ClearAll(s, q))
<1>0. Len(q) \in Nat /\ \A i \in 1..Len(q) : q[i] \in Anodes(R)
  OBVIOUS
<1>1. PICK r : ClearRun(r, s, q)
  BY <1>0, ClearRunExists
<1> DEFINE T == {i \in 0..Len(q) : Good(m, R, r[i])}
<1>2. 0 \in T
  BY <1>0, <1>1 DEF ClearRun
<1>3. ASSUME NEW i \in 1..Len(q), i - 1 \in T PROVE i \in T
  <2>1. Good(m, R, r[i - 1]) /\ i \in 0..Len(q)
    BY <1>0, <1>3
  <2>2. r[i - 1].ok => Good(m, R, ClearOne(r[i - 1], q[i]))
    BY <1>0, <2>1, ClearOneGood
  <2> QED BY <1>1, <2>1, <2>2 DEF ClearRun
<1>4. Len(q) \in T
  <2>1. Len(q) \in 0..Len(q)
    BY <1>0
  <2> HIDE DEF T
  <2> QED BY <1>0, <1>2, <1>3, <2>1, Climb
<1> QED BY <1>1, <1>4 DEF ClearRun

\* Clearing an anode chain.
LEMMA ClearAnodeChainGood ==
  ASSUME NEW m \in Nat, NEW R, NEW s, Good(m, R, s), NEW head \in Nat
  PROVE  Good(m, R, ClearAnodeChain(s, head))
<1> DEFINE t == Io(s)
           c == GetChain(s.res, head)
<1>1. ClearAnodeChain(s, head) = IF t.ok /\ c.ok THEN ClearAll(t, c.chain) ELSE Err(t)
  BY DEF ClearAnodeChain, WithChain, ClearAnodes, ClearAll, ClearOne
<1>2. Good(m, R, t) /\ c.chain \in Seq(Anodes(R)) /\ Good(m, R, Err(t))
  BY ChainGot
<1> HIDE DEF t, c
<1> QED BY <1>1, <1>2, ClearLoop

\* Freeing the data blocks of a chain.
LEMMA FreeDataChainGood ==
  ASSUME NEW m \in Nat, NEW R, NEW s, Good(m, R, s), NEW head \in Nat
  PROVE  Good(m, R, FreeDataChain(s, head))
<1> DEFINE t == Io(s)
           c == GetChain(s.res, head)
<1>1. FreeDataChain(s, head) = IF t.ok /\ c.ok THEN ForEach(t, BlocksOf(c.chain), FreeDataBlock) ELSE Err(t)
  BY DEF FreeDataChain, WithChain, FreeExtents
<1>2. Good(m, R, t) /\ c.chain \in Seq(Anodes(R)) /\ Good(m, R, Err(t))
  BY ChainGot
<1> HIDE DEF t, c
<1>3. BlocksOf(c.chain) \in Seq(Spare \cup DataBlocks)
  BY <1>2, BlocksOfIs
<1>4. Good(m, R, ForEach(t, BlocksOf(c.chain), FreeDataBlock))
  BY <1>2, <1>3, FreeDataLoop
<1> QED BY <1>1, <1>2, <1>4

\* Giving the reserved blocks of a chain back.
LEMMA FreeAnodeChainReservedGood ==
  ASSUME NEW m \in Nat, NEW R, NEW s, Good(m, R, s), NEW head \in Nat
  PROVE  Good(m, R, FreeAnodeChainReserved(s, head))
<1> DEFINE t == Io(s)
           c == GetChain(s.res, head)
<1>1. FreeAnodeChainReserved(s, head)
        = IF t.ok /\ c.ok THEN ForEach(t, BlocksOf(c.chain), FreeReservedBlock) ELSE Err(t)
  BY DEF FreeAnodeChainReserved, WithChain
<1>2. Good(m, R, t) /\ c.chain \in Seq(Anodes(R)) /\ Good(m, R, Err(t))
  BY ChainGot
<1> HIDE DEF t, c
<1>3. BlocksOf(c.chain) \in Seq(Spare \cup DataBlocks)
  BY <1>2, BlocksOfIs
<1>4. Good(m, R, ForEach(t, BlocksOf(c.chain), FreeReservedBlock))
  BY <1>2, <1>3, FreeReservedLoop
<1> QED BY <1>1, <1>2, <1>4

FreeOne(t, a) ==
  Then(ForEach(t, Extent(a), FreeDataBlock), LAMBDA u : WriteAnodeFields(u, a.nr, 0, 0, 0))

\* Freeing and clearing one anode of a chain.
LEMMA FreeOneGood ==
  ASSUME NEW m \in Nat, NEW R, NEW s, Good(m, R, s), NEW a \in Anodes(R)
  PROVE  Good(m, R, FreeOne(s, a))
<1> DEFINE t == ForEach(s, Extent(a), FreeDataBlock)
<1>1. FreeOne(s, a) = IF t.ok THEN ClearOne(t, a) ELSE t
  BY DEF FreeOne, Then, ClearOne
<1>2. Extent(a) \in Seq(Spare \cup DataBlocks)
  BY ExtentIs
<1>3. Good(m, R, t)
  BY <1>2, FreeDataLoop
<1> HIDE DEF t
<1> QED BY <1>1, <1>3, ClearOneGood

\* free_and_clear_anodes.
FreeOneRun(r, s, q) ==
  /\ r[0] = s /\ FreeAndClearAnodes(s, q) = r[Len(q)]
  /\ \A i \in 1..Len(q) : r[i] = IF r[i - 1].ok THEN FreeOne(r[i - 1], q[i]) ELSE r[i - 1]

\* The states of a loop that does so.
LEMMA FreeOneRunExists ==
  ASSUME NEW s, NEW q, Len(q) \in Nat
  PROVE  \E r : FreeOneRun(r, s, q)
<1> DEFINE n == Len(q)
           St(t, i) == IF t.ok THEN FreeOne(t, q[i]) ELSE t
           Upto(r, k) == r[0] = s /\ \A i \in 1..k : r[i] = St(r[i - 1], i)
           T == {k \in 0..n : \E r : Upto(r, k)}
<1>0. n \in Nat
  OBVIOUS
<1> HIDE DEF n, St
<1>1. 0 \in T
  <2>1. Upto([i \in 0..0 |-> s], 0)
    OBVIOUS
  <2> HIDE DEF Upto
  <2> QED BY <1>0, <2>1
<1>2. ASSUME NEW k \in 1..n, k - 1 \in T PROVE k \in T
  <2>1. PICK r : Upto(r, k - 1)
    BY <1>2
  <2> DEFINE v == St(r[k - 1], k)
             u == [i \in 0..k |-> IF i = k THEN v ELSE r[i]]
  <2>2. k \in 0..n /\ k \in Nat /\ u[0] = s /\ u[k] = v
    BY <1>0, <2>1
  <2>3. ASSUME NEW i \in 1..k PROVE u[i] = St(u[i - 1], i)
    <3>1. i - 1 \in 0..k /\ i - 1 # k /\ i \in 0..k
      BY <2>2
    <3>2. CASE i = k
      BY <2>2, <3>1, <3>2
    <3>3. CASE i # k
      <4>1. i \in 1..(k - 1)
        BY <2>2, <3>3
      <4>2. u[i] = r[i] /\ u[i - 1] = r[i - 1]
        BY <3>1, <3>3
      <4> QED BY <2>1, <4>1, <4>2
    <3> QED BY <3>2, <3>3
  <2>4. Upto(u, k)
    BY <2>2, <2>3
  <2> HIDE DEF Upto
  <2> QED BY <2>2, <2>4
<1>3. n \in T
  <2>1. n \in 0..n
    BY <1>0
  <2> HIDE DEF T
  <2> QED BY <1>0, <1>1, <1>2, <2>1, Climb
<1>4. PICK r : Upto(r, n)
  BY <1>3
<1> DEFINE f == [i \in 0..n |-> r[i]]
<1>5. f = [i \in 0..n |-> IF i = 0 THEN s ELSE IF f[i - 1].ok THEN FreeOne(f[i - 1], q[i]) ELSE f[i - 1]]
  <2>1. ASSUME NEW i \in 0..n
        PROVE  f[i] = IF i = 0 THEN s ELSE IF f[i - 1].ok THEN FreeOne(f[i - 1], q[i]) ELSE f[i - 1]
    <3>1. CASE i = 0
      BY <1>4, <3>1
    <3>2. CASE i # 0
      <4>1. i \in 1..n /\ i - 1 \in 0..n
        BY <1>0, <3>2
      <4>2. f[i] = St(f[i - 1], i)
        BY <1>4, <4>1
      <4> QED BY <3>2, <4>2 DEF St
    <3> QED BY <3>1, <3>2
  <2> QED BY <2>1
<1>6. PICK h : /\ h = [i \in 0..Len(q) |-> IF i = 0 THEN s ELSE IF h[i - 1].ok THEN FreeOne(h[i - 1], q[i]) ELSE h[i - 1]]
               /\ FreeAndClearAnodes(s, q) = h[Len(q)]
  <2> HIDE DEF f
  <2> QED BY <1>5, Zenon DEF ForEach, n, FreeAndClearAnodes, FreeOne
<1>7. h[0] = s
  BY <1>0, <1>6 DEF n
<1>8. ASSUME NEW i \in 1..Len(q) PROVE h[i] = IF h[i - 1].ok THEN FreeOne(h[i - 1], q[i]) ELSE h[i - 1]
  <2>1. i \in 0..Len(q) /\ i # 0
    BY <1>0 DEF n
  <2> QED BY <1>6, <2>1
<1> QED BY <1>6, <1>7, <1>8 DEF FreeOneRun

\* Freeing and clearing the rest of a chain.
LEMMA FreeAndClearGood ==
  ASSUME NEW m \in Nat, NEW R, NEW s, Good(m, R, s), NEW q \in Seq(Anodes(R))
  PROVE  Good(m, R, FreeAndClearAnodes(s, q))
<1>0. Len(q) \in Nat /\ \A i \in 1..Len(q) : q[i] \in Anodes(R)
  OBVIOUS
<1>1. PICK r : FreeOneRun(r, s, q)
  BY <1>0, FreeOneRunExists
<1> DEFINE T == {i \in 0..Len(q) : Good(m, R, r[i])}
<1>2. 0 \in T
  BY <1>0, <1>1 DEF FreeOneRun
<1>3. ASSUME NEW i \in 1..Len(q), i - 1 \in T PROVE i \in T
  <2>1. Good(m, R, r[i - 1]) /\ i \in 0..Len(q)
    BY <1>0, <1>3
  <2>2. r[i - 1].ok => Good(m, R, FreeOne(r[i - 1], q[i]))
    BY <1>0, <2>1, FreeOneGood
  <2> QED BY <1>1, <2>1, <2>2 DEF FreeOneRun
<1>4. Len(q) \in T
  <2>1. Len(q) \in 0..Len(q)
    BY <1>0
  <2> HIDE DEF T
  <2> QED BY <1>0, <1>2, <1>3, <2>1, Climb
<1> QED BY <1>1, <1>4 DEF FreeOneRun

-----------------------------------------------------------------------------
(* Anodes allocated *)

\* An index or superindex block with one more entry.
LEMMA PointingFits ==
  ASSUME NEW b \in ResBlocks, NEW c, Fits(b, c), NEW i, NEW x \in Nat
  PROVE  /\ b \in Spare \cup {IndexBlk} => Fits(b, Pointing(c, i, x))
         /\ Large /\ b = SuperBlk /\ x \in Spare => Fits(b, Pointing(c, i, x))
<1>1. ASSUME NEW K, NEW X, NEW d \in [k : K, ptr : [0..(IndexPerBlock - 1) -> X]], x \in X
      PROVE  Pointing(d, i, x) \in [k : K, ptr : [0..(IndexPerBlock - 1) -> X]]
  <2> DEFINE D == 0..(IndexPerBlock - 1)
  <2> HIDE DEF D
  <2>1. d \in [k : K, ptr : [D -> X]]
    BY DEF D
  <2>2. Pointing(d, i, x) \in [k : K, ptr : [D -> X]]
    BY <1>1, <2>1 DEF Pointing
  <2> QED BY <2>2 DEF D
<1>2. c \in IndexBlocks => Pointing(c, i, x) \in IndexBlocks
  BY <1>1 DEF IndexBlocks
<1>3. c \in SuperBlocks /\ x \in Spare => Pointing(c, i, x) \in SuperBlocks
  BY <1>1 DEF SuperBlocks
<1>4. c \in AnodeBlocks => Pointing(c, i, x) = c
  <2> DEFINE X == [0..(AnodesPerBlock - 1) -> Slot]
  <2> SUFFICES ASSUME c \in [k : {"AB"}, slots : X] PROVE Pointing(c, i, x) = c
    BY DEF AnodeBlocks
  <2> HIDE DEF X
  <2> QED BY DEF Pointing
<1>5. c \in DirBlocks => Pointing(c, i, x) = c
  <2> DEFINE X == Seq(Entries)
  <2> SUFFICES ASSUME c \in [k : {"DB"}, es : X] PROVE Pointing(c, i, x) = c
    BY DEF DirBlocks
  <2> HIDE DEF X
  <2> QED BY DEF Pointing
<1>6. c = Unused => Pointing(c, i, x) = c
  BY DEF Pointing, Unused
<1>7. CASE b \in Spare
  <2>1. c \in SpareBlocks
    BY <1>7 DEF Fits
  <2>2. Pointing(c, i, x) \in SpareBlocks
    BY <1>2, <1>4, <1>5, <1>6, <2>1 DEF SpareBlocks
  <2> QED BY <1>7, <2>2 DEF Fits, Spare, Pinned
<1>8. CASE b = IndexBlk
  <2>1. c \in IndexBlocks
    BY <1>8 DEF Fits
  <2> QED BY <1>2, <1>8, <2>1, LayoutIs DEF Fits, Spare, Pinned
<1>9. CASE Large /\ b = SuperBlk /\ x \in Spare
  <2>1. c \in SuperBlocks
    BY <1>9 DEF Fits
  <2> QED BY <1>3, <1>9, <2>1, LayoutIs DEF Fits, Spare, Pinned
<1>10. b \in Spare \cup {IndexBlk} => b \in Spare \/ b = IndexBlk
  OBVIOUS
<1> QED BY <1>7, <1>8, <1>9, <1>10

\* Images of new blocks.
LEMMA NewFits ==
  ASSUME NEW b \in Spare
  PROVE  /\ \A i : \A x \in Nat : Fits(b, Pointing([k |-> "IB", ptr |-> NoPointers], i, x))
         /\ Fits(b, [k |-> "AB", slots |-> [o \in 0..(AnodesPerBlock - 1) |-> NoAnode]])
         /\ \A es \in Seq(Entries) : Fits(b, [k |-> "DB", es |-> es])
<1>0. b \in ResBlocks /\ b \notin Pinned
  BY DEF Spare
<1>1. \A c \in SpareBlocks : Fits(b, c)
  BY <1>0 DEF Fits, Pinned
<1>2. [k |-> "IB", ptr |-> NoPointers] \in IndexBlocks
  BY DEF IndexBlocks, NoPointers
<1>3. Fits(b, [k |-> "IB", ptr |-> NoPointers])
  BY <1>1, <1>2 DEF SpareBlocks
<1>4. \A i : \A x \in Nat : Fits(b, Pointing([k |-> "IB", ptr |-> NoPointers], i, x))
  BY <1>0, <1>3, PointingFits
<1>5. [k |-> "AB", slots |-> [o \in 0..(AnodesPerBlock - 1) |-> NoAnode]] \in AnodeBlocks
  <2>1. NoAnode \in Slot
    BY SlotsAre
  <2> HIDE DEF NoAnode
  <2> QED BY <2>1 DEF AnodeBlocks
<1>6. \A es \in Seq(Entries) : [k |-> "DB", es |-> es] \in DirBlocks
  BY DEF DirBlocks
<1> QED BY <1>1, <1>4, <1>5, <1>6 DEF SpareBlocks

\* A new index block is registered in the superindex.
LEMMA AllocIndexGood ==
  ASSUME NEW m \in Nat, NEW R, NEW s, Good(m, R, s), NEW n, NEW x \in Nat, Large
  PROVE  Good(m, R, AllocIndexBlock(s, n, x))
<1> DEFINE t == AllocReservedBlock(s)
           c == Pointing([k |-> "IB", ptr |-> NoPointers], n % IndexPerBlock, x)
           w == WriteReserved(t, t.ret, c)
           d == Pointing(RawRead(t, SuperBlk), n \div IndexPerBlock, t.ret)
<1>1. AllocIndexBlock(s, n, x) = IF t.ok THEN Patch(w, SuperBlk, d) ELSE t
  BY DEF AllocIndexBlock, Then
<1>2. Good(m, R, t) /\ (t.ok => t.ret \in Spare)
  BY AllocReservedGood
<1> HIDE DEF t
<1>3. ASSUME t.ok PROVE Good(m, R, Patch(w, SuperBlk, d))
  <2>1. t.ret \in Spare /\ t.ret \in ResBlocks /\ t.ret \notin 1..NumBitmaps /\ t.ret \in Nat
    BY <1>2, <1>3, SpareFinite DEF Spare, Pinned
  <2>2. Fits(t.ret, c)
    BY <2>1, NewFits
  <2> HIDE DEF c
  <2>3. Good(m, R, w)
    BY <1>2, <2>1, <2>2, WriteReservedGood
  <2>4. SuperBlk \in ResBlocks /\ SuperBlk \notin 1..NumBitmaps
    BY LayoutIs DEF Pinned
  <2>5. Fits(SuperBlk, RawRead(t, SuperBlk))
    BY <1>2, <2>4, RawReadIs, ViewFits DEF Good, Parts
  <2>6. Fits(SuperBlk, d)
    BY <2>1, <2>4, <2>5, PointingFits
  <2> HIDE DEF d, w
  <2> QED BY <2>3, <2>4, <2>6, PatchGood
<1> QED BY <1>1, <1>2, <1>3

\* A new anode block is registered in the index.
LEMMA AllocAnodeBlockGood ==
  ASSUME NEW m \in Nat, NEW R, NEW s, Good(m, R, s), NEW n \in Nat
  PROVE  /\ Good(m, R, AllocAnodeBlock(s, n))
         /\ AllocAnodeBlock(s, n).ok => AllocAnodeBlock(s, n).ret \in Spare
<1> DEFINE t == AllocReservedBlock(s)
           c == [k |-> "AB", slots |-> [o \in 0..(AnodesPerBlock - 1) |-> NoAnode]]
           w == WriteReserved(t, t.ret, c)
           idx == IndexBlockOf(s.res, n)
           d == Pointing(RawRead(w, idx), n % IndexPerBlock, t.ret)
           x == IF idx # 0 THEN Patch(w, idx, d)
                ELSE IF Large /\ n < IndexPerBlock * IndexPerBlock THEN AllocIndexBlock(w, n, t.ret)
                ELSE Err(w)
<1>1. AllocAnodeBlock(s, n) = IF t.ok THEN Ret(x, t.ret) ELSE t
  BY DEF AllocAnodeBlock, Then
<1>2. Good(m, R, t) /\ (t.ok => t.ret \in Spare)
  BY AllocReservedGood
<1>3. idx \in {0, IndexBlk} \cup Spare
  BY IndexIs DEF Good, Parts
<1> HIDE DEF t, idx
<1>4. ASSUME t.ok PROVE Good(m, R, x)
  <2>1. t.ret \in Spare /\ t.ret \in ResBlocks /\ t.ret \notin 1..NumBitmaps /\ t.ret \in Nat
    BY <1>2, <1>4, SpareFinite DEF Spare, Pinned
  <2>2. Fits(t.ret, c)
    BY <2>1, NewFits
  <2> HIDE DEF c
  <2>3. Good(m, R, w)
    BY <1>2, <2>1, <2>2, WriteReservedGood
  <2> HIDE DEF w
  <2>4. idx # 0 => Good(m, R, Patch(w, idx, d))
    <3> SUFFICES ASSUME idx # 0 PROVE Good(m, R, Patch(w, idx, d))
      OBVIOUS
    <3>1. idx \in Spare \cup {IndexBlk} /\ idx \in ResBlocks /\ idx \notin 1..NumBitmaps
      BY <1>3, LayoutIs DEF Spare, Pinned
    <3>2. Fits(idx, RawRead(w, idx))
      BY <2>3, <3>1, RawReadIs, ViewFits DEF Good, Parts
    <3>3. Fits(idx, d)
      BY <2>1, <3>1, <3>2, PointingFits
    <3> HIDE DEF d
    <3> QED BY <2>3, <3>1, <3>3, PatchGood
  <2>5. Large => Good(m, R, AllocIndexBlock(w, n, t.ret))
    BY <2>1, <2>3, AllocIndexGood
  <2>6. Good(m, R, Err(w))
    BY <2>3, ErrGood
  <2> QED BY <2>4, <2>5, <2>6
<1> HIDE DEF x
<1>5. t.ok => Good(m, R, Ret(x, t.ret)) /\ Ret(x, t.ret).ret = t.ret
  BY <1>4, RetGood
<1> QED BY <1>1, <1>2, <1>5

\* An anode in a slot of its block.
LEMMA FillAnodeGood ==
  ASSUME NEW m \in Nat, NEW R, NEW s, Good(m, R, s), NEW n \in Nat, NEW b \in Spare,
         NEW off \in 0..(AnodesPerBlock - 1), NEW a \in Slot
  PROVE  Good(m, R, FillAnode(s, n, b, off, a)) /\ FillAnode(s, n, b, off, a).ret \in Nat
<1> DEFINE c == SlotPut(RawRead(s, b), off, a)
           w == WriteReserved(s, b, c)
<1>1. FillAnode(s, n, b, off, a) = Ret(w, n * Stride + off)
  BY DEF FillAnode, SlotPut
<1>2. b \in ResBlocks /\ b \notin 1..NumBitmaps
  BY DEF Spare, Pinned
<1>3. Fits(b, RawRead(s, b))
  BY <1>2, RawReadIs, ViewFits DEF Good, Parts
<1>4. Fits(b, c)
  BY <1>3, SlotPutFits
<1> HIDE DEF c
<1>5. Good(m, R, w)
  BY <1>2, <1>4, WriteReservedGood
<1> HIDE DEF w
<1>6. n * Stride + off \in Nat
  <2>1. Stride \in Nat /\ off \in Nat /\ n * Stride \in Nat
    BY Constants
  <2> QED BY <2>1
<1> QED BY <1>1, <1>5, <1>6, RetGood

\* alloc_anode.
LEMMA AllocAnodeGood ==
  ASSUME NEW m \in Nat, NEW R, NEW s, Good(m, R, s), NEW cs, NEW bn, NEW nx,
         [cs |-> cs, bn |-> bn, nx |-> nx] \in Slot
  PROVE  /\ Good(m, R, AllocAnode(s, cs, bn, nx))
         /\ AllocAnode(s, cs, bn, nx).ok => AllocAnode(s, cs, bn, nx).ret \in Nat
<1> DEFINE a == [cs |-> cs, bn |-> bn, nx |-> nx]
           Usable(q, b) == \/ b = 0
                           \/ RawRead(s, b).k = "AB" /\ FreeOffsets(RawRead(s, b), q) # {}
           seqs == {q \in 0..(MaxSeqnr - 1) : Usable(q, ResolveAnodeBlock(s.res, q))}
           q0 == Min(seqs)
           b0 == ResolveAnodeBlock(s.res, q0)
           t1 == AllocAnodeBlock(s, q0)
           t2 == ReadIo(s, b0)
           o2 == Min(FreeOffsets(RawRead(s, b0), q0))
<1>1. AllocAnode(s, cs, bn, nx) =
        IF seqs = {} THEN Err(s)
        ELSE IF b0 = 0 THEN IF t1.ok THEN FillAnode(t1, q0, t1.ret, UserFirst, a) ELSE t1
        ELSE IF t2.ok THEN FillAnode(t2, q0, b0, o2, a) ELSE t2
  BY DEF AllocAnode, Then
<1>2. CASE seqs = {}
  BY <1>1, <1>2, ErrGood
<1>3. CASE seqs # {}
  <2>1. q0 \in seqs
    <3>1. seqs \in SUBSET Nat
      BY Constants
    <3> HIDE DEF seqs
    <3> QED BY <1>3, <3>1, MinOf
  <2>2. q0 \in Nat /\ Usable(q0, b0)
    BY <2>1, Constants
  <2> HIDE DEF seqs, q0
  <2>3. UserFirst \in 0..(AnodesPerBlock - 1) /\ a \in Slot
    BY Constants
  <2> HIDE DEF a
  <2>4. CASE b0 = 0
    <3>1. Good(m, R, t1) /\ (t1.ok => t1.ret \in Spare)
      BY <2>2, AllocAnodeBlockGood
    <3> HIDE DEF t1
    <3>2. t1.ok => /\ Good(m, R, FillAnode(t1, q0, t1.ret, UserFirst, a))
                   /\ FillAnode(t1, q0, t1.ret, UserFirst, a).ret \in Nat
      BY <2>2, <2>3, <3>1, FillAnodeGood
    <3> QED BY <1>1, <1>3, <2>4, <3>1, <3>2
  <2>5. CASE b0 # 0
    <3> HIDE DEF b0
    <3>1. RawRead(s, b0).k = "AB" /\ FreeOffsets(RawRead(s, b0), q0) # {}
      BY <2>2, <2>5
    <3>2. b0 \in Spare
      BY <3>1, RawReadIs, SeenKind DEF Good, Parts
    <3>3. o2 \in 0..(AnodesPerBlock - 1)
      <4> DEFINE O == FreeOffsets(RawRead(s, b0), q0)
      <4>1. O \subseteq 0..(AnodesPerBlock - 1)
        BY DEF FreeOffsets
      <4>2. 0..(AnodesPerBlock - 1) \subseteq Nat
        BY Constants
      <4> HIDE DEF O
      <4>3. O \in SUBSET Nat /\ O # {}
        BY <3>1, <4>1, <4>2 DEF O
      <4>4. Min(O) \in O
        BY <4>3, MinOf
      <4> QED BY <4>1, <4>4 DEF O
    <3>4. Good(m, R, t2)
      BY ReadIoGood
    <3> HIDE DEF t2, o2
    <3>5. Good(m, R, FillAnode(t2, q0, b0, o2, a)) /\ FillAnode(t2, q0, b0, o2, a).ret \in Nat
      BY <2>2, <2>3, <3>2, <3>3, <3>4, FillAnodeGood
    <3> QED BY <1>1, <1>3, <2>5, <3>4, <3>5
  <2> QED BY <2>4, <2>5
<1> QED BY <1>2, <1>3

-----------------------------------------------------------------------------
(* Chains created *)

RunStarts(blks) == {i \in DOMAIN blks : i = 1 \/ blks[i] # blks[i - 1] + 1}
RunOf(blks, i) == {j \in DOMAIN blks : j >= i /\ \A h \in i + 1..j : h \notin RunStarts(blks)}
AllocRun(t, i, blks) == AllocAnode(t, Cardinality(RunOf(blks, i)), blks[i], t.ret)
AllocRuns(s, q, blks) == ForEach(s, q, LAMBDA t, i : AllocRun(t, i, blks))

\* The blocks of a run are consecutive.
LEMMA RunIs ==
  ASSUME NEW B \in SUBSET Nat, NEW blks \in Seq(B), NEW i \in RunStarts(blks)
  PROVE  /\ Cardinality(RunOf(blks, i)) \in Nat
         /\ \A j \in 0..(Cardinality(RunOf(blks, i)) - 1) : blks[i] + j \in B
<1> DEFINE n == Len(blks)
           X == RunOf(blks, i)
           S == RunStarts(blks)
           L == Cardinality(X)
<1>1. n \in Nat /\ DOMAIN blks = 1..n /\ i \in 1..n
  BY DEF RunStarts
<1>2. \A j : j \in X <=> j \in 1..n /\ j >= i /\ \A h \in i + 1..j : h \notin S
  BY <1>1 DEF RunOf
<1>3. \A j \in (1..n) \ S : j # 1 /\ blks[j] = blks[j - 1] + 1
  BY <1>1 DEF RunStarts
<1>4. \A j \in 1..n : blks[j] \in B /\ blks[j] \in Nat
  <2>1. \A j \in 1..n : blks[j] \in B
    BY <1>1
  <2> QED BY <2>1
<1> HIDE DEF X, S, n
<1>5. IsFiniteSet(X) /\ L \in Nat
  <2>1. X \subseteq 1..n
    BY <1>2
  <2>2. IsFiniteSet(1..n)
    BY <1>1, FS_Interval
  <2> QED BY <2>1, <2>2, FS_Subset, FS_CardinalityType
<1> HIDE DEF L
<1> DEFINE T == {j \in 0..(L - 1) : i + j \in X /\ blks[i + j] = blks[i] + j}
<1>6. CASE L = 0
  BY <1>5, <1>6 DEF L, X
<1>7. CASE L # 0
  <2>0. L - 1 \in Nat
    BY <1>5, <1>7
  <2>1. 0 \in T
    <3>1. i \in X
      BY <1>1, <1>2
    <3>2. i + 0 = i /\ blks[i] + 0 = blks[i] /\ 0 \in 0..(L - 1)
      BY <1>1, <1>4, <2>0
    <3> QED BY <3>1, <3>2
  <2>2. ASSUME NEW j \in 1..(L - 1), j - 1 \in T PROVE j \in T
    <3>0. j \in Nat /\ j \in 0..(L - 1) /\ j < L /\ i \in Nat
      BY <1>1, <1>5, <2>0
    <3>1. i + j - 1 \in X /\ blks[i + j - 1] = blks[i] + (j - 1)
      <4>1. i + (j - 1) = i + j - 1
        BY <3>0
      <4> QED BY <2>2, <4>1
    <3>2. i + j \in X
      <4> SUFFICES ASSUME i + j \notin X PROVE FALSE
        OBVIOUS
      <4>1. ASSUME NEW x \in X PROVE x \in i..(i + j - 1)
        <5>1. x \in 1..n /\ x >= i /\ \A h \in i + 1..x : h \notin S
          BY <1>2
        <5>2. ~(x >= i + j)
          <6> SUFFICES ASSUME x >= i + j PROVE FALSE
            OBVIOUS
          <6>1. i + j \in 1..n /\ i + j >= i
            BY <1>1, <3>0, <5>1
          <6>2. \A h \in i + 1..(i + j) : h \in i + 1..x
            BY <1>1, <3>0, <5>1
          <6> QED BY <1>2, <5>1, <6>1, <6>2
        <5> QED BY <1>1, <3>0, <5>1, <5>2
      <4>2. IsFiniteSet(i..(i + j - 1)) /\ Cardinality(i..(i + j - 1)) = j
        <5>1. i \in Int /\ i + j - 1 \in Int /\ ~(i > i + j - 1) /\ (i + j - 1) - i + 1 = j
          BY <3>0
        <5> QED BY <5>1, FS_Interval
      <4>3. X \subseteq i..(i + j - 1)
        BY <4>1
      <4>4. L <= j
        BY <4>2, <4>3, FS_Subset, ZenonT(30) DEF L
      <4> QED BY <3>0, <1>5, <4>4
    <3>3. i + j \in (1..n) \ S
      <4>1. i + j \in i + 1..(i + j)
        BY <3>0
      <4> QED BY <1>2, <3>2, <4>1
    <3>4. blks[i + j] = blks[i + j - 1] + 1
      <4>1. PICK k : k = i + j
        OBVIOUS
      <4>2. blks[k] = blks[k - 1] + 1
        BY <1>3, <3>3, <4>1
      <4>3. k - 1 = i + j - 1
        BY <3>0, <4>1
      <4> QED BY <4>1, <4>2, <4>3, Zenon
    <3>5. blks[i + j] = blks[i] + j
      BY <1>1, <1>4, <3>0, <3>1, <3>4
    <3> QED BY <3>0, <3>2, <3>5
  <2>3. \A j \in 0..(L - 1) : j \in T
    <3> HIDE DEF T
    <3> QED BY <2>0, <2>1, <2>2, Climb
  <2>4. ASSUME NEW j \in 0..(L - 1) PROVE blks[i] + j \in B
    <3>1. i + j \in 1..n /\ blks[i + j] = blks[i] + j
      BY <1>2, <2>3
    <3> QED BY <1>4, <3>1
  <2> QED BY <1>5, <2>4 DEF L, X
<1> QED BY <1>6, <1>7

\* The loop of create_anode_chain.
AllocRunsRun(r, s, q, blks) ==
  /\ r[0] = s /\ AllocRuns(s, q, blks) = r[Len(q)]
  /\ \A i \in 1..Len(q) : r[i] = IF r[i - 1].ok THEN AllocRun(r[i - 1], q[i], blks) ELSE r[i - 1]

\* The states of the loop that allocates an anode per run.
LEMMA AllocRunsRunExists ==
  ASSUME NEW s, NEW q, Len(q) \in Nat, NEW blks
  PROVE  \E r : AllocRunsRun(r, s, q, blks)
<1> DEFINE n == Len(q)
           St(t, i) == IF t.ok THEN AllocRun(t, q[i], blks) ELSE t
           Upto(r, k) == r[0] = s /\ \A i \in 1..k : r[i] = St(r[i - 1], i)
           T == {k \in 0..n : \E r : Upto(r, k)}
<1>0. n \in Nat
  OBVIOUS
<1> HIDE DEF n, St
<1>1. 0 \in T
  <2>1. Upto([i \in 0..0 |-> s], 0)
    OBVIOUS
  <2> HIDE DEF Upto
  <2> QED BY <1>0, <2>1
<1>2. ASSUME NEW k \in 1..n, k - 1 \in T PROVE k \in T
  <2>1. PICK r : Upto(r, k - 1)
    BY <1>2
  <2> DEFINE v == St(r[k - 1], k)
             u == [i \in 0..k |-> IF i = k THEN v ELSE r[i]]
  <2>2. k \in 0..n /\ k \in Nat /\ u[0] = s /\ u[k] = v
    BY <1>0, <2>1
  <2>3. ASSUME NEW i \in 1..k PROVE u[i] = St(u[i - 1], i)
    <3>1. i - 1 \in 0..k /\ i - 1 # k /\ i \in 0..k
      BY <2>2
    <3>2. CASE i = k
      BY <2>2, <3>1, <3>2
    <3>3. CASE i # k
      <4>1. i \in 1..(k - 1)
        BY <2>2, <3>3
      <4>2. u[i] = r[i] /\ u[i - 1] = r[i - 1]
        BY <3>1, <3>3
      <4> QED BY <2>1, <4>1, <4>2
    <3> QED BY <3>2, <3>3
  <2>4. Upto(u, k)
    BY <2>2, <2>3
  <2> HIDE DEF Upto
  <2> QED BY <2>2, <2>4
<1>3. n \in T
  <2>1. n \in 0..n
    BY <1>0
  <2> HIDE DEF T
  <2> QED BY <1>0, <1>1, <1>2, <2>1, Climb
<1>4. PICK r : Upto(r, n)
  BY <1>3
<1> DEFINE f == [i \in 0..n |-> r[i]]
<1>5. f = [i \in 0..n |-> IF i = 0 THEN s ELSE IF f[i - 1].ok THEN AllocRun(f[i - 1], q[i], blks) ELSE f[i - 1]]
  <2>1. ASSUME NEW i \in 0..n
        PROVE  f[i] = IF i = 0 THEN s ELSE IF f[i - 1].ok THEN AllocRun(f[i - 1], q[i], blks) ELSE f[i - 1]
    <3>1. CASE i = 0
      BY <1>4, <3>1
    <3>2. CASE i # 0
      <4>1. i \in 1..n /\ i - 1 \in 0..n
        BY <1>0, <3>2
      <4>2. f[i] = St(f[i - 1], i)
        BY <1>4, <4>1
      <4> QED BY <3>2, <4>2 DEF St
    <3> QED BY <3>1, <3>2
  <2> QED BY <2>1
<1>6. PICK h : /\ h = [i \in 0..Len(q) |-> IF i = 0 THEN s ELSE IF h[i - 1].ok THEN AllocRun(h[i - 1], q[i], blks) ELSE h[i - 1]]
               /\ AllocRuns(s, q, blks) = h[Len(q)]
  <2> HIDE DEF f
  <2> QED BY <1>5, Zenon DEF ForEach, n, AllocRuns
<1>7. h[0] = s
  BY <1>0, <1>6 DEF n
<1>8. ASSUME NEW i \in 1..Len(q) PROVE h[i] = IF h[i - 1].ok THEN AllocRun(h[i - 1], q[i], blks) ELSE h[i - 1]
  <2>1. i \in 0..Len(q) /\ i # 0
    BY <1>0 DEF n
  <2> QED BY <1>6, <2>1
<1> QED BY <1>6, <1>7, <1>8 DEF AllocRunsRun

\* That loop keeps a state good and returns an anode number.
LEMMA AllocRunsGood ==
  ASSUME NEW m \in Nat, NEW R, NEW s, Good(m, R, s), s.ret \in Nat,
         NEW blks \in Seq(DataBlocks), NEW q \in Seq(RunStarts(blks))
  PROVE  Good(m, R, AllocRuns(s, q, blks)) /\ (AllocRuns(s, q, blks).ok => AllocRuns(s, q, blks).ret \in Nat)
<1>0. Len(q) \in Nat /\ \A i \in 1..Len(q) : q[i] \in RunStarts(blks)
  OBVIOUS
<1>1. PICK r : AllocRunsRun(r, s, q, blks)
  BY <1>0, AllocRunsRunExists
<1> DEFINE J(t) == Good(m, R, t) /\ (t.ok => t.ret \in Nat)
           T == {i \in 0..Len(q) : J(r[i])}
<1>2. 0 \in T
  BY <1>0, <1>1 DEF AllocRunsRun
<1>3. ASSUME NEW i \in 1..Len(q), i - 1 \in T PROVE i \in T
  <2> DEFINE t == r[i - 1]
             x == q[i]
             cs == Cardinality(RunOf(blks, x))
  <2>1. J(t) /\ i \in 0..Len(q) /\ x \in RunStarts(blks)
    BY <1>0, <1>3
  <2>2. r[i] = IF t.ok THEN AllocRun(t, x, blks) ELSE t
    BY <1>1 DEF AllocRunsRun
  <2> HIDE DEF t, x
  <2>3. ASSUME t.ok PROVE J(AllocRun(t, x, blks))
    <3>1. cs \in Nat /\ \A j \in 0..(cs - 1) : blks[x] + j \in DataBlocks
      <4>1. DataBlocks \in SUBSET Nat
        BY LayoutIs
      <4> QED BY <2>1, <4>1, RunIs
    <3>2. blks[x] \in Nat
      <4>1. x \in DOMAIN blks
        BY <2>1 DEF RunStarts
      <4>2. blks[x] \in DataBlocks
        BY <4>1
      <4> QED BY <4>2, LayoutIs
    <3>3. t.ret \in Nat
      BY <2>1, <2>3
    <3>4. [cs |-> cs, bn |-> blks[x], nx |-> t.ret] \in Slot
      <4> HIDE DEF cs
      <4> QED BY <3>1, <3>2, <3>3 DEF Slot
    <3> HIDE DEF cs
    <3>5. AllocRun(t, x, blks) = AllocAnode(t, cs, blks[x], t.ret)
      BY DEF AllocRun, cs
    <3> QED BY <2>1, <3>4, <3>5, AllocAnodeGood
  <2>4. J(r[i])
    <3> HIDE DEF J
    <3> QED BY <2>1, <2>2, <2>3
  <2> HIDE DEF J
  <2> QED BY <2>1, <2>4
<1>4. Len(q) \in T
  <2>1. Len(q) \in 0..Len(q)
    BY <1>0
  <2> HIDE DEF T
  <2> QED BY <1>0, <1>2, <1>3, <2>1, Climb
<1> QED BY <1>1, <1>4 DEF AllocRunsRun

\* A new anode chain for blocks that were handed out.
LEMMA CreateChainGood ==
  ASSUME NEW m \in Nat, NEW R, NEW s, Good(m, R, s), NEW blks \in Seq(DataBlocks)
  PROVE  /\ Good(m, R, CreateAnodeChain(s, blks))
         /\ CreateAnodeChain(s, blks).ok => CreateAnodeChain(s, blks).ret \in Nat
<1> DEFINE S == RunStarts(blks)
           low == Lowest(S, Cardinality(S))
           q == Reverse(low)
           t == Ret(s, EOF)
<1>1. CreateAnodeChain(s, blks) = AllocRuns(t, q, blks)
  BY DEF CreateAnodeChain, AllocRuns, AllocRun, RunStarts, RunOf
<1>2. IsFiniteSet(S) /\ S \in SUBSET Nat /\ Cardinality(S) \in Nat
  <2>1. S \subseteq 1..Len(blks) /\ Len(blks) \in Nat /\ 1..Len(blks) \subseteq Nat
    BY DEF RunStarts
  <2>2. IsFiniteSet(1..Len(blks))
    BY <2>1, FS_Interval
  <2> HIDE DEF S
  <2>3. IsFiniteSet(S)
    BY <2>1, <2>2, FS_Subset
  <2> QED BY <2>1, <2>3, FS_CardinalityType
<1>3. low \in Seq(S)
  <2>1. Cardinality(S) \in 0..Cardinality(S)
    BY <1>2
  <2> HIDE DEF S
  <2> QED BY <1>2, <2>1, LowestIs
<1> HIDE DEF S, low
<1>4. q \in Seq(S)
  BY <1>3 DEF Reverse
<1>5. Good(m, R, t) /\ t.ret \in Nat
  <2>1. EOF \in Nat
    BY DEF EOF
  <2> QED BY <2>1, RetGood
<1> HIDE DEF q, t
<1> QED BY <1>1, <1>4, <1>5, AllocRunsGood DEF S

-----------------------------------------------------------------------------
(* Chains extended and cut *)

\* A chain linked to the end of another.
LEMMA AppendChainGood ==
  ASSUME NEW m \in Nat, NEW R, NEW s, Good(m, R, s), NEW head \in Nat, NEW new \in Nat
  PROVE  Good(m, R, AppendToAnodeChain(s, head, new))
<1> DEFINE t == Io(s)
           c == GetChain(s.res, head)
           a == c.chain[Len(c.chain)]
           w == WriteAnodeFields(t, a.nr, a.cs, a.bn, new)
<1>1. AppendToAnodeChain(s, head, new)
        = IF t.ok /\ c.ok THEN IF c.chain = <<>> THEN Err(t) ELSE w ELSE Err(t)
  BY DEF AppendToAnodeChain, WithChain
<1>2. Good(m, R, t) /\ c.chain \in Seq(Anodes(R)) /\ Good(m, R, Err(t))
  BY ChainGot
<1> HIDE DEF t, c
<1>3. c.chain # <<>> => Good(m, R, w)
  <2> SUFFICES ASSUME c.chain # <<>> PROVE Good(m, R, w)
    OBVIOUS
  <2>1. a \in Anodes(R)
    <3> DEFINE X == Anodes(R)
    <3> HIDE DEF X
    <3>1. c.chain \in Seq(X)
      BY <1>2 DEF X
    <3>2. a \in X
      BY <3>1
    <3> QED BY <3>2 DEF X
  <2> HIDE DEF a
  <2>2. a.nr \in Nat /\ HasAnode(R, a.nr)
    BY <2>1 DEF Anodes
  <2>3. [cs |-> a.cs, bn |-> a.bn, nx |-> new] \in Slot
    BY <2>1 DEF Anodes, Slot
  <2> QED BY <1>2, <2>2, <2>3, WriteAnodeGood
<1> HIDE DEF w
<1> QED BY <1>1, <1>2, <1>3

\* A directory's chain with one more block.
LEMMA ExtendChainGood ==
  ASSUME NEW m \in Nat, NEW R, NEW s, Good(m, R, s), NEW head \in Nat, NEW b \in Spare
  PROVE  Good(m, R, ExtendAnodeChain(s, head, b))
<1> DEFINE t == AllocAnode(s, 1, b, EOF)
<1>1. ExtendAnodeChain(s, head, b) = IF t.ok THEN AppendToAnodeChain(t, head, t.ret) ELSE t
  BY DEF ExtendAnodeChain, Then
<1>2. [cs |-> 1, bn |-> b, nx |-> EOF] \in Slot
  BY SlotsAre DEF EOF
<1>3. Good(m, R, t) /\ (t.ok => t.ret \in Nat)
  BY <1>2, AllocAnodeGood
<1> HIDE DEF t
<1> QED BY <1>1, <1>3, AppendChainGood

\* The blocks up to an anode of a chain.
LEMMA UptoIs ==
  ASSUME NEW R, NEW chain \in Seq(Anodes(R))
  PROVE  \E off \in [0..Len(chain) -> Nat] :
           /\ off[0] = 0
           /\ \A i \in 1..Len(chain) : off[i] = off[i - 1] + chain[i].cs
           /\ \A i \in 0..Len(chain) : Len(BlocksOf(SubSeq(chain, 1, i))) = off[i]
<1> DEFINE A == Anodes(R)
           B == Spare \cup DataBlocks
           n == Len(chain)
           q == [i \in 1..n |-> Extent(chain[i])]
<1>1. \A a \in A : Extent(a) \in Seq(B) /\ Len(Extent(a)) = a.cs
  BY ExtentIs
<1>2. chain \in Seq(A) /\ n \in Nat
  OBVIOUS
<1> HIDE DEF A, B
<1>3. q \in Seq(Seq(B)) /\ Len(q) = n /\ \A i \in 1..n : q[i] = Extent(chain[i]) /\ chain[i] \in A
  BY <1>1, <1>2
<1> HIDE DEF q, n
<1>4. PICK off : Offsets(q, off)
  BY <1>3, OffsetsExist
<1>5. off \in [0..n -> Nat] /\ off[0] = 0 /\ \A i \in 1..n : off[i] = off[i - 1] + Len(q[i])
  BY <1>3, <1>4 DEF Offsets
<1>6. \A i \in 1..n : off[i] = off[i - 1] + chain[i].cs
  BY <1>1, <1>3, <1>5
<1>7. ASSUME NEW i \in 0..n PROVE Len(BlocksOf(SubSeq(chain, 1, i))) = off[i]
  <2> DEFINE c == SubSeq(chain, 1, i)
             p == [k \in DOMAIN c |-> Extent(c[k])]
             o == [k \in 0..i |-> off[k]]
  <2>0. i \in Nat /\ i <= n
    BY <1>2
  <2>1. DOMAIN c = 1..i /\ \A k \in 1..i : c[k] = chain[k] /\ k \in 1..n
    BY <1>2, <2>0 DEF n
  <2> HIDE DEF c
  <2>2. p = [k \in 1..i |-> q[k]]
    BY <1>3, <2>1
  <2> HIDE DEF p
  <2>3. p \in Seq(Seq(B)) /\ Len(p) = i /\ \A k \in 1..i : p[k] = q[k]
    <3> DEFINE Y == Seq(B)
    <3>1. q \in Seq(Y)
      BY <1>3
    <3> HIDE DEF Y
    <3>2. \A k \in 1..i : q[k] \in Y
      BY <1>3, <2>1, <3>1
    <3>3. p \in Seq(Y) /\ Len(p) = i /\ \A k \in 1..i : p[k] = q[k]
      BY <2>0, <2>2, <3>2
    <3> QED BY <3>3 DEF Y
  <2>4. Offsets(p, o)
    <3>1. o \in [0..i -> Nat] /\ o[0] = 0
      BY <1>5, <2>0, <1>2
    <3>2. ASSUME NEW k \in 1..i PROVE o[k] = o[k - 1] + Len(p[k])
      <4>1. k \in 0..i /\ k - 1 \in 0..i /\ k \in 1..n
        BY <2>0, <2>1
      <4> QED BY <1>5, <2>3, <4>1
    <3> QED BY <2>3, <3>1, <3>2 DEF Offsets
  <2> HIDE DEF o
  <2>5. Prefix(FlattenSeq(p), p, o, Len(p))
    BY <2>3, <2>4, FlattenIs
  <2>6. Len(FlattenSeq(p)) = o[i]
    BY <2>3, <2>5 DEF Prefix
  <2>7. o[i] = off[i]
    BY <2>0 DEF o
  <2> QED BY <2>6, <2>7 DEF BlocksOf, c, p
<1> QED BY <1>5, <1>6, <1>7 DEF n

\* A chain cut to its first blocks.
LEMMA TruncateGood ==
  ASSUME NEW m \in Nat, NEW R, NEW s, Good(m, R, s), NEW head \in Nat, NEW keep \in Nat \ {0}
  PROVE  Good(m, R, TruncateAnodeChain(s, head, keep))
<1> DEFINE s1 == Io(s)
           c == GetChain(s.res, head)
           chain == c.chain
           upto(i) == Len(BlocksOf(SubSeq(chain, 1, i)))
           cut == SelectInSeq([i \in DOMAIN chain |-> upto(i)], LAMBDA n : n >= keep)
           a == chain[cut]
           rest == SubSeq(chain, cut + 1, Len(chain))
           left == keep - upto(cut - 1)
           t == ForEach(s1, SubSeq(Extent(a), left + 1, a.cs), FreeDataBlock)
           u == WriteAnodeFields(t, a.nr, left, a.bn, EOF)
<1>1. TruncateAnodeChain(s, head, keep)
        = IF s1.ok /\ c.ok THEN IF cut = 0 THEN s1
                                ELSE IF t.ok THEN IF u.ok THEN FreeAndClearAnodes(u, rest) ELSE u
                                ELSE t
          ELSE Err(s1)
  BY Zenon DEF TruncateAnodeChain, WithChain, Then
<1>2. Good(m, R, s1) /\ chain \in Seq(Anodes(R)) /\ Good(m, R, Err(s1))
  BY ChainGot
<1>3. DOMAIN chain = 1..Len(chain) /\ Len(chain) \in Nat
  <2> DEFINE X == Anodes(R)
  <2> HIDE DEF X
  <2>1. chain \in Seq(X)
    BY <1>2 DEF X
  <2> HIDE DEF chain
  <2> QED BY <2>1
<1> DEFINE I == {i \in 1..Len(chain) : upto(i) >= keep}
<1>4. cut = IF I # {} THEN Min(I) ELSE 0
  <2> DEFINE v == [i \in DOMAIN chain |-> upto(i)]
             K == {i \in 1..Len(v) : v[i] >= keep}
  <2>1. cut = IF K # {} THEN Min(K) ELSE 0
    BY Zenon DEF SelectInSeq
  <2>2. Len(v) = Len(chain) /\ \A i \in 1..Len(chain) : v[i] = upto(i)
    <3> HIDE DEF upto, chain
    <3> QED BY <1>3
  <2>3. K = I
    <3> HIDE DEF v, upto, chain
    <3> QED BY <2>2
  <2> HIDE DEF K, I, cut
  <2> QED BY <2>1, <2>3
<1>5. PICK off \in [0..Len(chain) -> Nat] :
           /\ off[0] = 0
           /\ \A i \in 1..Len(chain) : off[i] = off[i - 1] + chain[i].cs
           /\ \A i \in 0..Len(chain) : upto(i) = off[i]
  <2> HIDE DEF chain
  <2> QED BY <1>2, UptoIs
<1> HIDE DEF upto, cut, s1, chain, t, u, rest
<1>6. ASSUME cut # 0
      PROVE  /\ a \in Anodes(R) /\ left \in 1..a.cs /\ a.cs \in Nat /\ rest \in Seq(Anodes(R))
             /\ SubSeq(Extent(a), left + 1, a.cs) \in Seq(Spare \cup DataBlocks)
  <2>1. cut \in I /\ \A i \in I : cut <= i
    <3>1. I \in SUBSET Nat /\ I # {}
      BY <1>3, <1>4, <1>6
    <3> HIDE DEF I
    <3> QED BY <1>4, <3>1, MinOf
  <2>2. cut \in 1..Len(chain) /\ cut - 1 \in 0..Len(chain) /\ cut \in 0..Len(chain) /\ cut \in Nat
    BY <1>3, <2>1
  <2>3. PICK x \in Nat : x = off[cut]
    BY <2>2
  <2>4. PICK y \in Nat : y = off[cut - 1]
    BY <2>2
  <2>5. x >= keep /\ upto(cut - 1) = y
    BY <1>5, <2>1, <2>2, <2>3, <2>4
  <2>6. y < keep
    <3>1. CASE cut = 1
      BY <1>5, <2>4, <3>1
    <3>2. CASE cut # 1
      <4>1. cut - 1 \in 1..Len(chain) /\ ~(cut <= cut - 1)
        BY <1>3, <2>2, <3>2
      <4>2. cut - 1 \notin I
        BY <2>1, <4>1
      <4>3. ~(upto(cut - 1) >= keep)
        BY <4>1, <4>2
      <4> QED BY <2>5, <4>3
    <3> QED BY <3>1, <3>2
  <2>7. a \in Anodes(R) /\ rest \in Seq(Anodes(R))
    <3> DEFINE X == Anodes(R)
    <3> HIDE DEF X
    <3>1. chain \in Seq(X)
      BY <1>2 DEF X
    <3>2. chain[cut] \in X
      BY <2>2, <3>1
    <3>3. SubSeq(chain, cut + 1, Len(chain)) \in Seq(X)
      <4>1. cut + 1 \in Nat /\ cut + 1 \in 1..(Len(chain) + 1)
        BY <1>3, <2>2
      <4> QED BY <1>3, <3>1, <4>1
    <3> QED BY <3>2, <3>3 DEF X, rest
  <2>8. a.cs \in Nat /\ x = y + a.cs
    <3>1. a.cs \in Nat
      BY <2>7 DEF Anodes
    <3> QED BY <1>5, <2>2, <2>3, <2>4, <3>1
  <2>9. left = keep - y
    BY <2>5
  <2> HIDE DEF a, left
  <2>10. left \in 1..a.cs
    BY <2>5, <2>6, <2>8, <2>9
  <2>11. SubSeq(Extent(a), left + 1, a.cs) \in Seq(Spare \cup DataBlocks)
    <3> DEFINE B == Spare \cup DataBlocks
               e == Extent(a)
    <3>1. e \in Seq(B) /\ Len(e) = a.cs
      BY <2>7, ExtentIs
    <3> HIDE DEF B, e
    <3>2. left + 1 \in Nat /\ left + 1 >= 1
      BY <2>8, <2>10
    <3>3. SubSeq(e, left + 1, a.cs) \in Seq(B)
      BY <2>8, <3>1, <3>2
    <3> QED BY <3>3 DEF B, e
  <2> QED BY <2>7, <2>8, <2>10, <2>11
<1>7. ASSUME cut # 0 PROVE Good(m, R, t) /\ Good(m, R, u) /\ Good(m, R, FreeAndClearAnodes(u, rest))
  <2>0. /\ a \in Anodes(R) /\ left \in 1..a.cs /\ a.cs \in Nat /\ rest \in Seq(Anodes(R))
        /\ SubSeq(Extent(a), left + 1, a.cs) \in Seq(Spare \cup DataBlocks)
    BY <1>6, <1>7
  <2> HIDE DEF a, left
  <2>1. Good(m, R, t)
    BY <1>2, <2>0, FreeDataLoop DEF t
  <2>2. a.nr \in Nat /\ HasAnode(R, a.nr) /\ a.bn \in Nat /\ \A j \in 0..(a.cs - 1) : a.bn + j \in Spare \cup DataBlocks
    BY <2>0 DEF Anodes
  <2>3. [cs |-> left, bn |-> a.bn, nx |-> EOF] \in Slot
    <3>1. EOF \in Nat /\ left \in Nat
      BY <2>0 DEF EOF
    <3>2. \A j \in 0..(left - 1) : j \in 0..(a.cs - 1)
      BY <2>0
    <3> QED BY <2>2, <3>1, <3>2 DEF Slot
  <2>4. Good(m, R, u)
    BY <2>1, <2>2, <2>3, WriteAnodeGood DEF u
  <2>5. Good(m, R, FreeAndClearAnodes(u, rest))
    BY <2>0, <2>4, FreeAndClearGood
  <2> QED BY <2>1, <2>4, <2>5
<1> QED BY <1>1, <1>2, <1>7

-----------------------------------------------------------------------------
(* Directory entries *)

EsPut(c, es) == [c EXCEPT !.es = es]

\* A directory block with other entries is a directory block.
LEMMA EsPutFits ==
  ASSUME NEW b \in Spare, NEW c \in DirBlocks, NEW es \in Seq(Entries)
  PROVE  Fits(b, EsPut(c, es)) /\ b \in ResBlocks /\ b \notin 1..NumBitmaps
<1>0. b \in ResBlocks /\ b \notin Pinned
  BY DEF Spare
<1>1. EsPut(c, es) \in DirBlocks
  <2> DEFINE X == Seq(Entries)
  <2> SUFFICES ASSUME c \in [k : {"DB"}, es : X], es \in X PROVE EsPut(c, es) \in [k : {"DB"}, es : X]
    BY DEF DirBlocks
  <2> HIDE DEF X
  <2> QED BY DEF EsPut
<1> QED BY <1>0, <1>1 DEF Fits, Pinned, SpareBlocks

\* find_dir_entry returns nothing, or an entry of a directory block.
Located(s, at) ==
  /\ at[1] \in Spare /\ RawRead(s, at[1]) \in DirBlocks
  /\ at[2] \in 1..Len(RawRead(s, at[1]).es)

\* The block and the index find_dir_entry returns hold an entry.
LEMMA LocateIs ==
  ASSUME NEW m \in Nat, NEW R, NEW s, Good(m, R, s), NEW chain \in Seq(Anodes(R)), NEW name
  PROVE  Locate(s, chain, name) = <<>> \/ Located(s, Locate(s, chain, name))
<1> DEFINE q == BlocksOf(chain)
           M(b) == RawRead(s, b).k = "DB" /\ Find(RawRead(s, b).es, name) > 0
           I == {i \in 1..Len(q) : M(q[i])}
           i0 == IF I # {} THEN Min(I) ELSE 0
           at == <<q[i0], Find(RawRead(s, q[i0]).es, name)>>
<1>1. Locate(s, chain, name) = IF i0 = 0 THEN <<>> ELSE at
  BY Zenon DEF Locate, SelectInSeq
<1>2. Len(q) \in Nat
  <2>1. q \in Seq(Spare \cup DataBlocks)
    BY BlocksOfIs
  <2> DEFINE B == Spare \cup DataBlocks
  <2> HIDE DEF q, B
  <2>2. q \in Seq(B)
    BY <2>1 DEF B
  <2> QED BY <2>2
<1> HIDE DEF q
<1>3. ASSUME i0 # 0 PROVE Located(s, at)
  <2>1. i0 \in I
    <3>1. I \in SUBSET Nat
      BY <1>2
    <3>2. I # {}
      BY <1>3
    <3> HIDE DEF I
    <3> QED BY <3>1, <3>2, MinOf
  <2>2. PICK b : b = q[i0]
    OBVIOUS
  <2>3. RawRead(s, b).k = "DB" /\ Find(RawRead(s, b).es, name) > 0
    BY <2>1, <2>2
  <2> HIDE DEF I, i0
  <2>4. b \in Spare /\ RawRead(s, b) \in DirBlocks
    BY <2>3, RawReadIs, SeenKind DEF Good, Parts
  <2>5. RawRead(s, b).es \in Seq(Entries)
    BY <2>4 DEF DirBlocks
  <2>6. PICK es \in Seq(Entries) : es = RawRead(s, b).es
    BY <2>5
  <2>7. Find(es, name) \in 0..Len(es) /\ Find(es, name) > 0 /\ Len(es) \in Nat
    BY <2>3, <2>6, FindIs
  <2>8. Find(es, name) \in 1..Len(es)
    BY <2>7
  <2> QED BY <2>2, <2>4, <2>6, <2>8 DEF Located
<1> QED BY <1>1, <1>3

\* What the entries of a block become.
LEMMA EditsAre ==
  ASSUME NEW es \in Seq(Entries), NEW i \in 1..Len(es), NEW v \in Nat
  PROVE  /\ [es EXCEPT ![i].size = v] \in Seq(Entries)
         /\ [es EXCEPT ![i].prot = v] \in Seq(Entries)
         /\ RemoveAt(es, i) \in Seq(Entries)
         /\ es[i] \in Entries
<1> DEFINE X == Entries
           e == es[i]
<1>1. es[i] \in X /\ es \in Seq(X) /\ Len(es) \in Nat
  OBVIOUS
<1>2. [e EXCEPT !.size = v] \in X /\ [e EXCEPT !.prot = v] \in X
  BY <1>1 DEF Entries
<1> HIDE DEF X
<1>3. [es EXCEPT ![i] = [e EXCEPT !.size = v]] \in Seq(X) /\ [es EXCEPT ![i] = [e EXCEPT !.prot = v]] \in Seq(X)
  BY <1>1, <1>2
<1>4. [es EXCEPT ![i].size = v] = [es EXCEPT ![i] = [e EXCEPT !.size = v]]
      /\ [es EXCEPT ![i].prot = v] = [es EXCEPT ![i] = [e EXCEPT !.prot = v]]
  OBVIOUS
<1>5. RemoveAt(es, i) \in Seq(X)
  <2>1. SubSeq(es, 1, i - 1) \in Seq(X)
    BY <1>1
  <2>2. SubSeq(es, i + 1, Len(es)) \in Seq(X)
    BY <1>1
  <2> QED BY <2>1, <2>2 DEF RemoveAt
<1> QED BY <1>1, <1>3, <1>4, <1>5 DEF X

\* A new size in an entry.
LEMMA UpdateSizeGood ==
  ASSUME NEW m \in Nat, NEW R, NEW s, Good(m, R, s), NEW dir \in Nat, NEW name, NEW size \in Nat
  PROVE  Good(m, R, UpdateDirEntrySize(s, dir, name, size))
<1> DEFINE t == Io(s)
           c == GetChain(s.res, dir)
           at == Locate(t, c.chain, name)
           b == at[1]
           es == RawRead(t, b).es
           i == at[2]
           fs == [es EXCEPT ![i].size = size]
<1>1. UpdateDirEntrySize(s, dir, name, size)
        = IF t.ok /\ c.ok THEN IF at = <<>> THEN Err(t) ELSE Patch(t, b, EsPut(RawRead(t, b), fs))
          ELSE Err(t)
  BY DEF UpdateDirEntrySize, EditDirEntry, WithChain, EsPut
<1>2. Good(m, R, t) /\ c.chain \in Seq(Anodes(R)) /\ Good(m, R, Err(t))
  BY ChainGot
<1> HIDE DEF t, c
<1>3. at = <<>> \/ Located(t, at)
  BY <1>2, LocateIs
<1> HIDE DEF at
<1>4. ASSUME at # <<>> PROVE Good(m, R, Patch(t, b, EsPut(RawRead(t, b), fs)))
  <2>1. b \in Spare /\ RawRead(t, b) \in DirBlocks /\ i \in 1..Len(es)
    BY <1>3, <1>4 DEF Located
  <2>2. es \in Seq(Entries)
    BY <2>1 DEF DirBlocks
  <2> HIDE DEF b, i, es
  <2>3. fs \in Seq(Entries)
    BY <2>1, <2>2, EditsAre
  <2> HIDE DEF fs
  <2>4. Fits(b, EsPut(RawRead(t, b), fs)) /\ b \in ResBlocks /\ b \notin 1..NumBitmaps
    BY <2>1, <2>3, EsPutFits
  <2> QED BY <1>2, <2>4, PatchGood
<1> HIDE DEF fs
<1> QED BY <1>1, <1>2, <1>4

\* An entry removed.
LEMMA RemoveEntryGood ==
  ASSUME NEW m \in Nat, NEW R, NEW s, Good(m, R, s), NEW dir \in Nat, NEW name
  PROVE  Good(m, R, RemoveDirEntry(s, dir, name))
<1> DEFINE t == Io(s)
           c == GetChain(s.res, dir)
           at == Locate(t, c.chain, name)
           b == at[1]
           es == RawRead(t, b).es
           i == at[2]
           fs == RemoveAt(es, i)
<1>1. RemoveDirEntry(s, dir, name)
        = IF t.ok /\ c.ok THEN IF at = <<>> THEN Err(t) ELSE Patch(t, b, EsPut(RawRead(t, b), fs))
          ELSE Err(t)
  BY DEF RemoveDirEntry, EditDirEntry, WithChain, EsPut
<1>2. Good(m, R, t) /\ c.chain \in Seq(Anodes(R)) /\ Good(m, R, Err(t))
  BY ChainGot
<1> HIDE DEF t, c
<1>3. at = <<>> \/ Located(t, at)
  BY <1>2, LocateIs
<1> HIDE DEF at
<1>4. ASSUME at # <<>> PROVE Good(m, R, Patch(t, b, EsPut(RawRead(t, b), fs)))
  <2>1. b \in Spare /\ RawRead(t, b) \in DirBlocks /\ i \in 1..Len(es)
    BY <1>3, <1>4 DEF Located
  <2>2. es \in Seq(Entries)
    BY <2>1 DEF DirBlocks
  <2> HIDE DEF b, i, es
  <2>3. fs \in Seq(Entries)
    BY <2>1, <2>2, EditsAre
  <2> HIDE DEF fs
  <2>4. Fits(b, EsPut(RawRead(t, b), fs)) /\ b \in ResBlocks /\ b \notin 1..NumBitmaps
    BY <2>1, <2>3, EsPutFits
  <2> QED BY <1>2, <2>4, PatchGood
<1> HIDE DEF fs
<1> QED BY <1>1, <1>2, <1>4

ProtectEntry(s, dir, name, prot) ==
  EditDirEntry(s, dir, name, LAMBDA es, i : [es EXCEPT ![i].prot = prot])

\* New protection bits in an entry.
LEMMA ProtectEntryGood ==
  ASSUME NEW m \in Nat, NEW R, NEW s, Good(m, R, s), NEW dir \in Nat, NEW name, NEW prot \in Nat
  PROVE  Good(m, R, ProtectEntry(s, dir, name, prot))
<1> DEFINE t == Io(s)
           c == GetChain(s.res, dir)
           at == Locate(t, c.chain, name)
           b == at[1]
           es == RawRead(t, b).es
           i == at[2]
           fs == [es EXCEPT ![i].prot = prot]
<1>1. ProtectEntry(s, dir, name, prot)
        = IF t.ok /\ c.ok THEN IF at = <<>> THEN Err(t) ELSE Patch(t, b, EsPut(RawRead(t, b), fs))
          ELSE Err(t)
  BY DEF ProtectEntry, EditDirEntry, WithChain, EsPut
<1>2. Good(m, R, t) /\ c.chain \in Seq(Anodes(R)) /\ Good(m, R, Err(t))
  BY ChainGot
<1> HIDE DEF t, c
<1>3. at = <<>> \/ Located(t, at)
  BY <1>2, LocateIs
<1> HIDE DEF at
<1>4. ASSUME at # <<>> PROVE Good(m, R, Patch(t, b, EsPut(RawRead(t, b), fs)))
  <2>1. b \in Spare /\ RawRead(t, b) \in DirBlocks /\ i \in 1..Len(es)
    BY <1>3, <1>4 DEF Located
  <2>2. es \in Seq(Entries)
    BY <2>1 DEF DirBlocks
  <2> HIDE DEF b, i, es
  <2>3. fs \in Seq(Entries)
    BY <2>1, <2>2, EditsAre
  <2> HIDE DEF fs
  <2>4. Fits(b, EsPut(RawRead(t, b), fs)) /\ b \in ResBlocks /\ b \notin 1..NumBitmaps
    BY <2>1, <2>3, EsPutFits
  <2> QED BY <1>2, <2>4, PatchGood
<1> HIDE DEF fs
<1> QED BY <1>1, <1>2, <1>4

\* An entry added, in a new directory block if need be.
LEMMA AddEntryGood ==
  ASSUME NEW m \in Nat, NEW R, NEW s, Good(m, R, s), NEW dir \in Nat, NEW e \in Entries
  PROVE  Good(m, R, AddDirEntry(s, dir, e))
<1> DEFINE t == Io(s)
           c == GetChain(s.res, dir)
           q == BlocksOf(c.chain)
           I == {i \in 1..Len(q) : RawRead(t, q[i]).k = "DB" /\ Len(RawRead(t, q[i]).es) < DirCapacity}
           i0 == IF I # {} THEN Min(I) ELSE 0
           b == q[i0]
           fs == Append(RawRead(t, b).es, e)
           u == AllocReservedBlock(t)
           w == WriteReserved(u, u.ret, [k |-> "DB", es |-> <<e>>])
<1>1. AddDirEntry(s, dir, e)
        = IF t.ok /\ c.ok
            THEN IF i0 = 0 THEN IF u.ok THEN ExtendAnodeChain(w, dir, u.ret) ELSE u
                 ELSE Patch(t, b, EsPut(RawRead(t, b), fs))
          ELSE Err(t)
  BY Zenon DEF AddDirEntry, WithChain, Then, EsPut, SelectInSeq
<1>2. Good(m, R, t) /\ c.chain \in Seq(Anodes(R)) /\ Good(m, R, Err(t))
  BY ChainGot
<1> HIDE DEF t, c
<1>3. Len(q) \in Nat
  <2> DEFINE B == Spare \cup DataBlocks
  <2>1. q \in Seq(B)
    BY <1>2, BlocksOfIs
  <2> HIDE DEF q, B
  <2> QED BY <2>1
<1> HIDE DEF q
<1>4. ASSUME i0 # 0 PROVE Good(m, R, Patch(t, b, EsPut(RawRead(t, b), fs)))
  <2>1. i0 \in I
    <3>1. I \in SUBSET Nat
      BY <1>3
    <3>2. I # {}
      BY <1>4
    <3> HIDE DEF I
    <3> QED BY <3>1, <3>2, MinOf
  <2>2. RawRead(t, b).k = "DB"
    BY <2>1
  <2> HIDE DEF I, i0, b
  <2>3. b \in Spare /\ RawRead(t, b) \in DirBlocks
    BY <1>2, <2>2, RawReadIs, SeenKind DEF Good, Parts
  <2>4. fs \in Seq(Entries)
    <3>1. RawRead(t, b).es \in Seq(Entries)
      BY <2>3 DEF DirBlocks
    <3> QED BY <3>1
  <2> HIDE DEF fs
  <2>5. Fits(b, EsPut(RawRead(t, b), fs)) /\ b \in ResBlocks /\ b \notin 1..NumBitmaps
    BY <2>3, <2>4, EsPutFits
  <2> QED BY <1>2, <2>5, PatchGood
<1>5. Good(m, R, u) /\ (u.ok => u.ret \in Spare)
  BY <1>2, AllocReservedGood
<1> HIDE DEF u
<1>6. ASSUME u.ok PROVE Good(m, R, ExtendAnodeChain(w, dir, u.ret))
  <2>1. u.ret \in Spare /\ u.ret \in ResBlocks /\ u.ret \notin 1..NumBitmaps
    BY <1>5, <1>6 DEF Spare, Pinned
  <2>2. <<e>> \in Seq(Entries)
    <3> DEFINE X == Entries
    <3>1. e \in X
      OBVIOUS
    <3> HIDE DEF X
    <3>2. <<e>> \in Seq(X)
      BY <3>1
    <3> QED BY <3>2 DEF X
  <2>3. Fits(u.ret, [k |-> "DB", es |-> <<e>>])
    BY <2>1, <2>2, NewFits
  <2>4. Good(m, R, w)
    BY <1>5, <2>1, <2>3, WriteReservedGood
  <2> HIDE DEF w
  <2> QED BY <2>1, <2>4, ExtendChainGood
<1> HIDE DEF i0, b, fs, w
<1> QED BY <1>1, <1>2, <1>4, <1>5, <1>6

-----------------------------------------------------------------------------
(* The commit *)

FlushOne(t, p) == Then(Io(t), LAMBDA u : [u EXCEPT !.res[p.blk] = p.c])
FlushAll(s, q) == ForEach(s, q, LAMBDA t, p : FlushOne(t, p))

\* Nothing is left to write.
Committed(r) ==
  r.pend = <<>> /\ r.root = [bfree |-> r.bfree, rfree |-> r.rfree, rbm |-> r.rbm]

\* The device after i of the pending blocks were written.
Flushed(Q, R, p, i) ==
  \A b \in ResBlocks :
    /\ \A k \in 1..i : p[k].blk = b => Q[b] = p[k].c
    /\ (\A k \in 1..i : p[k].blk # b) => Q[b] = R[b]
Flushing(m, R, s, t, i) ==
  /\ DOMAIN t = StateFields /\ DiskOK(t.res) /\ t.pend = <<>> /\ t.root = s.root
  /\ t.data = s.data /\ t.free = s.free /\ t.rbm = s.rbm /\ t.bfree = s.bfree
  /\ t.rfree = s.rfree /\ t.ok \in BOOLEAN /\ t.fuel \in Int
  /\ m >= 1 => t.fuel < 0 /\ t.ok
  /\ t.ok => Flushed(t.res, R, s.pend, i)

\* The loop of update_rootblock.
FlushRun(r, s, q) ==
  /\ r[0] = s /\ FlushAll(s, q) = r[Len(q)]
  /\ \A i \in 1..Len(q) : r[i] = IF r[i - 1].ok THEN FlushOne(r[i - 1], q[i]) ELSE r[i - 1]

\* The states of the loop that writes the pending blocks.
LEMMA FlushRunExists ==
  ASSUME NEW s, NEW q, Len(q) \in Nat
  PROVE  \E r : FlushRun(r, s, q)
<1> DEFINE n == Len(q)
           St(t, i) == IF t.ok THEN FlushOne(t, q[i]) ELSE t
           Upto(r, k) == r[0] = s /\ \A i \in 1..k : r[i] = St(r[i - 1], i)
           T == {k \in 0..n : \E r : Upto(r, k)}
<1>0. n \in Nat
  OBVIOUS
<1> HIDE DEF n, St
<1>1. 0 \in T
  <2>1. Upto([i \in 0..0 |-> s], 0)
    OBVIOUS
  <2> HIDE DEF Upto
  <2> QED BY <1>0, <2>1
<1>2. ASSUME NEW k \in 1..n, k - 1 \in T PROVE k \in T
  <2>1. PICK r : Upto(r, k - 1)
    BY <1>2
  <2> DEFINE v == St(r[k - 1], k)
             u == [i \in 0..k |-> IF i = k THEN v ELSE r[i]]
  <2>2. k \in 0..n /\ k \in Nat /\ u[0] = s /\ u[k] = v
    BY <1>0, <2>1
  <2>3. ASSUME NEW i \in 1..k PROVE u[i] = St(u[i - 1], i)
    <3>1. i - 1 \in 0..k /\ i - 1 # k /\ i \in 0..k
      BY <2>2
    <3>2. CASE i = k
      BY <2>2, <3>1, <3>2
    <3>3. CASE i # k
      <4>1. i \in 1..(k - 1)
        BY <2>2, <3>3
      <4>2. u[i] = r[i] /\ u[i - 1] = r[i - 1]
        BY <3>1, <3>3
      <4> QED BY <2>1, <4>1, <4>2
    <3> QED BY <3>2, <3>3
  <2>4. Upto(u, k)
    BY <2>2, <2>3
  <2> HIDE DEF Upto
  <2> QED BY <2>2, <2>4
<1>3. n \in T
  <2>1. n \in 0..n
    BY <1>0
  <2> HIDE DEF T
  <2> QED BY <1>0, <1>1, <1>2, <2>1, Climb
<1>4. PICK r : Upto(r, n)
  BY <1>3
<1> DEFINE f == [i \in 0..n |-> r[i]]
<1>5. f = [i \in 0..n |-> IF i = 0 THEN s ELSE IF f[i - 1].ok THEN FlushOne(f[i - 1], q[i]) ELSE f[i - 1]]
  <2>1. ASSUME NEW i \in 0..n
        PROVE  f[i] = IF i = 0 THEN s ELSE IF f[i - 1].ok THEN FlushOne(f[i - 1], q[i]) ELSE f[i - 1]
    <3>1. CASE i = 0
      BY <1>4, <3>1
    <3>2. CASE i # 0
      <4>1. i \in 1..n /\ i - 1 \in 0..n
        BY <1>0, <3>2
      <4>2. f[i] = St(f[i - 1], i)
        BY <1>4, <4>1
      <4> QED BY <3>2, <4>2 DEF St
    <3> QED BY <3>1, <3>2
  <2> QED BY <2>1
<1>6. PICK h : /\ h = [i \in 0..Len(q) |-> IF i = 0 THEN s ELSE IF h[i - 1].ok THEN FlushOne(h[i - 1], q[i]) ELSE h[i - 1]]
               /\ FlushAll(s, q) = h[Len(q)]
  <2> HIDE DEF f
  <2> QED BY <1>5, Zenon DEF ForEach, n, FlushAll
<1>7. h[0] = s
  BY <1>0, <1>6 DEF n
<1>8. ASSUME NEW i \in 1..Len(q) PROVE h[i] = IF h[i - 1].ok THEN FlushOne(h[i - 1], q[i]) ELSE h[i - 1]
  <2>1. i \in 0..Len(q) /\ i # 0
    BY <1>0 DEF n
  <2> QED BY <1>6, <2>1
<1> QED BY <1>6, <1>7, <1>8 DEF FlushRun

ResPut(Q, b, c) == [Q EXCEPT ![b] = c]

\* One pending block written.
LEMMA FlushStep ==
  ASSUME NEW m \in Nat, NEW R, NEW s, PendOK(s.pend), NEW t, NEW i \in 1..Len(s.pend),
         Flushing(m, R, s, t, i - 1), t.ok
  PROVE  Flushing(m, R, s, FlushOne(t, s.pend[i]), i)
<1> DEFINE p == s.pend
           b == p[i].blk
           c == p[i].c
           u == Io(t)
           v == [u EXCEPT !.res[b] = c]
           Q == ResPut(t.res, b, c)
<1>1. FlushOne(t, p[i]) = IF u.ok THEN v ELSE u
  BY DEF FlushOne, Then
<1>2. b \in ResBlocks /\ Fits(b, c) /\ Len(p) \in Nat
  <2> DEFINE C == BitmapBlocks \cup DelDirBlocks \cup SuperBlocks \cup SpareBlocks
             W == [blk : ResBlocks, c : C]
  <2>1. p \in Seq(W)
    BY DEF PendOK
  <2>2. p[i] \in W /\ Len(p) \in Nat
    <3> HIDE DEF W
    <3> QED BY <2>1
  <2> HIDE DEF C
  <2>3. p[i].blk \in ResBlocks
    BY <2>2
  <2> QED BY <2>2, <2>3 DEF PendOK
<1>3. /\ SameVolume(t, u) /\ u.fuel \in Int /\ u.ok \in BOOLEAN
      /\ t.fuel < 0 => u = t
  BY IoIs DEF Flushing
<1> HIDE DEF u
<1>4. CASE ~u.ok
  <2>1. ~(m >= 1)
    BY <1>3, <1>4 DEF Flushing
  <2>2. Flushing(m, R, s, u, i)
    BY <1>3, <1>4, <2>1 DEF Flushing, SameVolume
  <2> QED BY <1>1, <1>4, <2>2
<1>5. CASE u.ok
  <2>1. DOMAIN u = StateFields /\ u.res = t.res
    BY <1>3 DEF Flushing, SameVolume
  <2>2. v = [u EXCEPT !.res = Q]
    BY <2>1 DEF ResPut, StateFields
  <2> HIDE DEF Q, b, c
  <2>3. /\ DOMAIN v = StateFields /\ v.res = Q /\ v.root = u.root /\ v.data = u.data
        /\ v.pend = u.pend /\ v.free = u.free /\ v.rbm = u.rbm /\ v.bfree = u.bfree
        /\ v.rfree = u.rfree /\ v.ok = u.ok /\ v.fuel = u.fuel
    BY <2>1, <2>2 DEF StateFields
  <2> HIDE DEF v
  <2>4. DiskOK(t.res) /\ Flushed(t.res, R, p, i - 1)
    BY DEF Flushing
  <2>5. /\ DOMAIN Q = ResBlocks /\ Q[b] = c /\ \A d \in ResBlocks : d # b => Q[d] = t.res[d]
        /\ Q = [d \in ResBlocks |-> Q[d]]
    <3>1. DOMAIN t.res = ResBlocks
      BY <2>4 DEF DiskOK
    <3> QED BY <1>2, <3>1 DEF Q, ResPut
  <2>6. DiskOK(Q)
    <3>1. \A d \in ResBlocks : Fits(d, Q[d])
      BY <1>2, <2>4, <2>5 DEF DiskOK
    <3> QED BY <2>5, <3>1 DEF DiskOK
  <2>7. Flushed(Q, R, p, i)
    <3> SUFFICES ASSUME NEW d \in ResBlocks
                 PROVE  /\ \A k \in 1..i : p[k].blk = d => Q[d] = p[k].c
                        /\ (\A k \in 1..i : p[k].blk # d) => Q[d] = R[d]
      BY DEF Flushed
    <3>0. i \in 1..i /\ \A k \in 1..i : k = i \/ k \in 1..(i - 1)
      BY <1>2
    <3>1. \A k \in 1..(i - 1) : k \in 1..i /\ k # i /\ k \in 1..Len(p)
      BY <1>2
    <3>2. CASE d = b
      <4>1. \A k \in 1..i : p[k].blk = d => k = i
        BY <3>0, <3>1, <3>2 DEF PendOK, b
      <4> QED BY <2>5, <3>0, <3>2, <4>1 DEF b, c
    <3>3. CASE d # b
      <4>1. Q[d] = t.res[d]
        BY <2>5, <3>3
      <4>2. \A k \in 1..i : p[k].blk = d => k \in 1..(i - 1)
        BY <3>0, <3>3 DEF b
      <4>3. /\ \A k \in 1..(i - 1) : p[k].blk = d => t.res[d] = p[k].c
            /\ (\A k \in 1..(i - 1) : p[k].blk # d) => t.res[d] = R[d]
        BY <2>4 DEF Flushed
      <4> QED BY <3>1, <4>1, <4>2, <4>3
    <3> QED BY <3>2, <3>3
  <2>8. Flushing(m, R, s, v, i)
    BY <1>3, <2>3, <2>6, <2>7 DEF Flushing, SameVolume
  <2> QED BY <1>1, <1>5, <2>8
<1> QED BY <1>4, <1>5

\* The whole list written, or an error.
LEMMA FlushLoop ==
  ASSUME NEW m \in Nat, NEW R, NEW s, Good(m, R, s), s.ok, NEW f, f = [s EXCEPT !.pend = <<>>]
  PROVE  Flushing(m, R, s, FlushAll(f, s.pend), Len(s.pend))
<1> DEFINE q == s.pend
<1>0. PendOK(q) /\ Len(q) \in Nat
  BY DEF Good, Parts, PendOK
<1>1. DOMAIN s = StateFields /\ s.res = R /\ DiskOK(R) /\ s.fuel \in Int /\ (m >= 1 => s.fuel < 0)
  BY DEF Good, Parts
<1>2. Flushing(m, R, s, f, 0)
  <2>1. /\ DOMAIN f = StateFields /\ f.res = R /\ f.root = s.root /\ f.data = s.data
        /\ f.pend = <<>> /\ f.free = s.free /\ f.rbm = s.rbm /\ f.bfree = s.bfree
        /\ f.rfree = s.rfree /\ f.ok = s.ok /\ f.fuel = s.fuel
    BY <1>1 DEF StateFields
  <2>2. Flushed(R, R, q, 0)
    BY DEF Flushed
  <2>3. f.ok \in BOOLEAN
    BY <2>1 DEF Good
  <2> QED BY <1>1, <2>1, <2>2, <2>3 DEF Flushing
<1> HIDE DEF q
<1>3. PICK r : FlushRun(r, f, q)
  BY <1>0, FlushRunExists
<1> DEFINE T == {i \in 0..Len(q) : Flushing(m, R, s, r[i], i)}
<1>4. 0 \in T
  BY <1>0, <1>2, <1>3 DEF FlushRun
<1>5. ASSUME NEW i \in 1..Len(q), i - 1 \in T PROVE i \in T
  <2>1. Flushing(m, R, s, r[i - 1], i - 1) /\ i \in 0..Len(q)
    BY <1>0, <1>5
  <2>2. CASE r[i - 1].ok
    <3>1. Flushing(m, R, s, FlushOne(r[i - 1], q[i]), i)
      BY <1>0, <2>1, <2>2, FlushStep DEF q
    <3> QED BY <1>3, <2>1, <2>2, <3>1 DEF FlushRun
  <2>3. CASE ~r[i - 1].ok
    <3>1. r[i] = r[i - 1]
      BY <1>3, <2>3 DEF FlushRun
    <3>2. Flushing(m, R, s, r[i], i)
      BY <2>1, <2>3, <3>1 DEF Flushing
    <3> QED BY <2>1, <3>2
  <2> QED BY <2>2, <2>3
<1>6. Len(q) \in T
  <2>1. Len(q) \in 0..Len(q)
    BY <1>0
  <2> HIDE DEF T
  <2> QED BY <1>0, <1>4, <1>5, <2>1, Climb
<1> QED BY <1>3, <1>6 DEF FlushRun, q

\* With the bitmap blocks in step, the bitmap on the device is that in memory.
LEMMA BitmapLoads ==
  ASSUME NEW Q, NEW free \in SUBSET DataBlocks, Sync(Q, <<>>, free)
  PROVE  LoadDataBitmap(Q) = free
<1>1. PendOK(<<>>)
  BY DEF PendOK
<1>2. ASSUME NEW i \in 1..NumBitmaps PROVE Q[i].free = free \cap BitmapRange(i)
  <2>1. i \in ResBlocks
    BY LayoutIs DEF Pinned
  <2>2. View(Q, <<>>, i) = Q[i]
    BY <1>1, <2>1, ViewIs DEF BlockAt
  <2> QED BY <2>2 DEF Sync
<1>3. \A b \in DataBlocks : BitmapOf(b) \in 1..NumBitmaps /\ b \in BitmapRange(BitmapOf(b))
  BY BitmapOfIs DEF BitmapRange
<1>4. LoadDataBitmap(Q) \subseteq free
  BY <1>2 DEF LoadDataBitmap, BitmapBlk
<1>5. free \subseteq LoadDataBitmap(Q)
  BY <1>2, <1>3 DEF LoadDataBitmap, BitmapBlk
<1> QED BY <1>4, <1>5

RootOf(u) == [bfree |-> u.bfree, rfree |-> u.rfree, rbm |-> u.rbm]

\* update_rootblock.
LEMMA CommitGood ==
  ASSUME NEW m \in Nat, NEW R, NEW s, Good(m, R, s), s.ok
  PROVE  LET r == UpdateRootblock(s) IN Good(m, r.res, r) /\ (r.ok => Committed(r))
<1> DEFINE r == UpdateRootblock(s)
           f == [s EXCEPT !.pend = <<>>]
           t == FlushAll(f, s.pend)
           u == Io(t)
           v == [u EXCEPT !.root = RootOf(u)]
<1>1. r = IF t.ok THEN IF u.ok THEN Io(v) ELSE u ELSE t
  BY Zenon DEF UpdateRootblock, Then, FlushAll, FlushOne, RootOf
<1>2. Flushing(m, R, s, t, Len(s.pend))
  BY FlushLoop
<1> HIDE DEF t, r
<1>3. /\ SameVolume(t, u) /\ u.fuel \in Int /\ u.ok \in BOOLEAN
      /\ t.fuel < 0 => u = t
  BY <1>2, IoIs DEF Flushing
<1> HIDE DEF u
<1>4. PendOK(<<>>) /\ PendOK(s.pend) /\ DiskOK(R)
  <2>1. PendOK(<<>>)
    BY DEF PendOK
  <2> QED BY <2>1 DEF Good, Parts
<1>5. /\ s.data \in [DataBlocks -> DataVal] /\ s.free \subseteq DataBlocks /\ s.rbm \subseteq Spare
      /\ s.bfree \in Int /\ s.rfree \in Int /\ RootOK(s.root)
      /\ m >= 1 => Sync(R, s.pend, s.free)
      /\ m >= 2 => Counted(R, s.root, s.free, s.rbm, s.bfree, s.rfree)
  BY DEF Good, Parts
<1>6. CASE ~t.ok \/ ~u.ok
  <2>1. ~(m >= 1) /\ ~(m >= 2)
    BY <1>2, <1>3, <1>6 DEF Flushing
  <2>2. Good(m, t.res, t)
    BY <1>2, <1>4, <1>5, <2>1 DEF Good, Parts, Flushing
  <2>3. Good(m, u.res, u)
    BY <1>3, <2>1, <2>2, SameIsGood DEF SameVolume
  <2>4. (r = t /\ ~t.ok) \/ (r = u /\ ~u.ok)
    <3> HIDE DEF v
    <3>1. CASE ~t.ok
      <4>1. r = t
        BY <1>1, <3>1, Zenon
      <4> QED BY <3>1, <4>1
    <3>2. CASE t.ok /\ ~u.ok
      BY <1>1, <3>2
    <3> QED BY <1>6, <3>1, <3>2
  <2> QED BY <2>2, <2>3, <2>4 DEF r
<1>7. CASE t.ok /\ u.ok
  <2>1. /\ DOMAIN u = StateFields /\ DiskOK(u.res) /\ u.pend = <<>>
        /\ u.data = s.data /\ u.free = s.free /\ u.rbm = s.rbm /\ u.bfree = s.bfree
        /\ u.rfree = s.rfree /\ Flushed(u.res, R, s.pend, Len(s.pend)) /\ (m >= 1 => u.fuel < 0)
    BY <1>2, <1>3, <1>7 DEF Flushing, SameVolume
  <2>2. PICK root : root = RootOf(u)
    OBVIOUS
  <2>3. /\ DOMAIN v = StateFields /\ v.res = u.res /\ v.root = root /\ v.data = u.data
        /\ v.pend = <<>> /\ v.free = s.free /\ v.rbm = s.rbm /\ v.bfree = s.bfree
        /\ v.rfree = s.rfree /\ v.ok = u.ok /\ v.fuel = u.fuel
    BY <2>1, <2>2 DEF StateFields
  <2>4. root.bfree = s.bfree /\ root.rfree = s.rfree /\ root.rbm = s.rbm
    BY <2>1, <2>2 DEF RootOf
  <2> HIDE DEF v
  <2>5. m >= 1 => Sync(u.res, <<>>, s.free)
    <3> SUFFICES ASSUME m >= 1, NEW i \in 1..NumBitmaps
                 PROVE  View(u.res, <<>>, i).free = s.free \cap BitmapRange(i)
      BY DEF Sync
    <3>1. i \in ResBlocks
      BY LayoutIs DEF Pinned
    <3>2. View(u.res, <<>>, i) = u.res[i]
      BY <1>4, <3>1, ViewIs DEF BlockAt
    <3>3. u.res[i] = View(R, s.pend, i)
      <4>1. CASE \E k \in 1..Len(s.pend) : s.pend[k].blk = i
        <5>1. PICK k \in 1..Len(s.pend) : s.pend[k].blk = i
          BY <4>1
        <5>2. u.res[i] = s.pend[k].c
          BY <2>1, <3>1, <5>1 DEF Flushed
        <5> QED BY <1>4, <5>1, <5>2, ViewIs
      <4>2. CASE \A k \in 1..Len(s.pend) : s.pend[k].blk # i
        <5>1. u.res[i] = R[i]
          BY <2>1, <3>1, <4>2 DEF Flushed
        <5> QED BY <1>4, <3>1, <4>2, <5>1, ViewIs DEF BlockAt
      <4> QED BY <4>1, <4>2
    <3> QED BY <1>5, <3>2, <3>3 DEF Sync
  <2>6. m >= 2 => Counted(u.res, root, s.free, s.rbm, s.bfree, s.rfree)
    <3> SUFFICES ASSUME m >= 2 PROVE Counted(u.res, root, s.free, s.rbm, s.bfree, s.rfree)
      OBVIOUS
    <3>1. LoadDataBitmap(u.res) = s.free
      BY <1>5, <2>5, BitmapLoads
    <3> QED BY <1>5, <2>4, <3>1 DEF Counted
  <2>7. RootOK(root)
    BY <1>5, <2>4 DEF RootOK
  <2>8. Good(m, u.res, v)
    BY <1>3, <1>4, <1>5, <2>1, <2>3, <2>5, <2>6, <2>7 DEF Good, Parts
  <2>9. Good(m, u.res, Io(v)) /\ SameVolume(v, Io(v))
    BY <2>8, IoGood
  <2>10. r = Io(v)
    BY <1>1, <1>7
  <2>11. r.res = u.res /\ r.pend = <<>> /\ r.root = root /\ r.bfree = s.bfree /\ r.rfree = s.rfree /\ r.rbm = s.rbm
    BY <2>3, <2>9, <2>10 DEF SameVolume
  <2>12. Committed(r)
    BY <2>1, <2>2, <2>11 DEF Committed, RootOf
  <2> QED BY <2>9, <2>10, <2>11, <2>12 DEF r
<1> QED BY <1>2, <1>3, <1>6, <1>7 DEF Flushing

-----------------------------------------------------------------------------
(* Operations: each ends in a commit or in an error. *)

Done(m, r) == Good(m, r.res, r) /\ (r.ok => Committed(r))

\* An operation that ends in a commit.
LEMMA CommitDone ==
  ASSUME NEW m \in Nat, NEW R, NEW x, Good(m, R, x)
  PROVE  Done(m, IF x.ok THEN UpdateRootblock(x) ELSE x)
<1>1. CASE x.ok
  BY <1>1, CommitGood DEF Done
<1>2. CASE ~x.ok
  <2>1. x.res = R
    BY DEF Good
  <2> QED BY <1>2, <2>1 DEF Done
<1> QED BY <1>1, <1>2

\* An operation that fails before it does anything.
LEMMA FailDone ==
  ASSUME NEW m \in Nat, NEW R, NEW x, Good(m, R, x)
  PROVE  Done(m, Err(x))
<1>1. Good(m, R, Err(x)) /\ ~Err(x).ok
  BY ErrGood
<1> QED BY <1>1 DEF Done, Good

\* The blocks of a content: at least one.
LEMMA SectorsAre ==
  ASSUME NEW content \in Seq(DataVal)
  PROVE  Sectors(content) \in Seq(DataVal) /\ Len(Sectors(content)) \in Nat \ {0} /\ Len(content) \in Nat
<1>1. <<0, 0>> \in DataVal
  BY DEF DataVal
<1> DEFINE z == <<0, 0>>
<1>2. z \in DataVal
  BY <1>1
<1> HIDE DEF z
<1>3. <<z>> \in Seq(DataVal) /\ Len(<<z>>) = 1
  BY <1>2
<1>4. Len(content) \in Nat /\ (content # <<>> => Len(content) # 0)
  OBVIOUS
<1> QED BY <1>3, <1>4 DEF Sectors, z

\* A new file up to its commit.
LEMMA AddFileGood ==
  ASSUME NEW m \in Nat, NEW R, NEW s, Good(m, R, s), s.ok, NEW dir \in Nat, NEW name \in Names,
         NEW type \in {"file", "dir", "soft", "link"}, NEW content \in Seq(DataVal)
  PROVE  Good(m, R, AddFileNoCommit(s, dir, name, type, content))
<1> DEFINE z == Sectors(content)
           t == AllocDataBlocks(s, Len(z))
           u == WriteDataBlocks(t, t.ret, z)
           v == CreateAnodeChain(u, t.ret)
           e == Entry(name, type, v.ret, Len(content), 0)
           w == AddDirEntry(v, dir, e)
<1>1. AddFileNoCommit(s, dir, name, type, content)
        = IF t.ok THEN IF u.ok THEN IF v.ok THEN w ELSE v ELSE u ELSE t
  BY DEF AddFileNoCommit, Then
<1>2. z \in Seq(DataVal) /\ Len(z) \in Nat \ {0} /\ Len(content) \in Nat
  BY SectorsAre
<1> HIDE DEF z
<1>3. Good(m, R, t) /\ (t.ok => t.ret \in Seq(DataBlocks) /\ Len(t.ret) = Len(z))
  BY <1>2, AllocDataGood
<1> HIDE DEF t
<1>4. t.ok => t.ret \in Seq(Spare \cup DataBlocks)
  BY <1>3
<1>5. t.ok => Good(m, R, u)
  <2>1. t.ok => Len(t.ret) <= Len(z)
    BY <1>2, <1>3
  <2> QED BY <1>2, <1>3, <1>4, <2>1, WriteDataGood
<1> HIDE DEF u
<1>6. t.ok => Good(m, R, v) /\ (v.ok => v.ret \in Nat)
  BY <1>3, <1>5, CreateChainGood
<1> HIDE DEF v
<1>7. t.ok /\ v.ok => e \in Entries
  BY <1>2, <1>6 DEF Entry, Entries
<1> HIDE DEF e
<1>8. t.ok /\ v.ok => Good(m, R, w)
  BY <1>6, <1>7, AddEntryGood
<1> HIDE DEF w
<1> QED BY <1>1, <1>3, <1>5, <1>6, <1>8

\* overwrite_file_in, up to the entry's size.
LEMMA OverwriteDone ==
  ASSUME NEW m \in Nat, NEW R, NEW s, Good(m, R, s), NEW dir \in Nat, NEW name,
         NEW anode \in Nat, NEW content \in Seq(DataVal)
  PROVE  Done(m, OverwriteFileIn(s, dir, name, anode, content))
<1> DEFINE z == Sectors(content)
           n == Len(z)
           s1 == Io(s)
           c == GetChain(s.res, anode)
           old == BlocksOf(c.chain)
           l == Len(old)
           reuse == IF n < l THEN n ELSE l
           extra == SubSeq(z, l + 1, n)
           x0 == WriteDataBlocks(s1, SubSeq(old, 1, reuse), z)
           u == AllocDataBlocks(x0, n - l)
           v == WriteDataBlocks(u, u.ret, extra)
           x == CreateAnodeChain(v, u.ret)
           y == AppendToAnodeChain(x, anode, x.ret)
           g == IF n <= l THEN TruncateAnodeChain(x0, anode, n)
                ELSE IF u.ok THEN IF v.ok THEN IF x.ok THEN y ELSE x ELSE v ELSE u
           x1 == IF x0.ok THEN g ELSE x0
           x2 == IF x1.ok THEN UpdateDirEntrySize(x1, dir, name, Len(content)) ELSE x1
<1>1. OverwriteFileIn(s, dir, name, anode, content)
        = IF s1.ok /\ c.ok THEN IF x2.ok THEN UpdateRootblock(x2) ELSE x2 ELSE Err(s1)
  BY Zenon DEF OverwriteFileIn, WithChain, Then
<1>2. z \in Seq(DataVal) /\ n \in Nat \ {0} /\ Len(content) \in Nat
  BY SectorsAre
<1>3. Good(m, R, s1) /\ c.chain \in Seq(Anodes(R))
  BY ChainGot
<1> HIDE DEF s1, c
<1> DEFINE B == Spare \cup DataBlocks
<1>4. old \in Seq(B) /\ l \in Nat
  <2>1. old \in Seq(B)
    BY <1>3, BlocksOfIs
  <2> HIDE DEF B, old
  <2> QED BY <2>1
<1>5. SubSeq(old, 1, reuse) \in Seq(B) /\ Len(SubSeq(old, 1, reuse)) <= n
  <2>1. reuse \in Nat /\ reuse <= l /\ reuse <= n
    BY <1>2, <1>4
  <2> HIDE DEF old, B, reuse, z
  <2>2. SubSeq(old, 1, reuse) \in Seq(B) /\ Len(SubSeq(old, 1, reuse)) = reuse
    BY <1>4, <2>1
  <2> QED BY <2>1, <2>2
<1> HIDE DEF z, old, reuse
<1>6. Good(m, R, x0)
  BY <1>2, <1>3, <1>5, WriteDataGood
<1> HIDE DEF x0
<1>7. x0.ok => Good(m, R, g)
  <2> SUFFICES ASSUME x0.ok PROVE Good(m, R, g)
    OBVIOUS
  <2>1. CASE n <= l
    <3>1. Good(m, R, TruncateAnodeChain(x0, anode, n))
      BY <1>2, <1>6, TruncateGood
    <3> QED BY <2>1, <3>1
  <2>2. CASE ~(n <= l)
    <3>1. n - l \in Nat \ {0}
      BY <1>2, <1>4, <2>2
    <3>2. Good(m, R, u) /\ (u.ok => u.ret \in Seq(DataBlocks) /\ Len(u.ret) = n - l)
      BY <1>6, <3>1, AllocDataGood
    <3> HIDE DEF u
    <3>3. u.ok => u.ret \in Seq(B)
      BY <3>2
    <3>4. extra \in Seq(DataVal) /\ Len(extra) = n - l
      <4> HIDE DEF l
      <4> QED BY <1>2, <1>4, <2>2
    <3> HIDE DEF extra
    <3>5. u.ok => Good(m, R, v)
      <4>1. u.ok => Len(u.ret) <= Len(extra)
        BY <3>1, <3>2, <3>4
      <4> QED BY <3>2, <3>3, <3>4, <4>1, WriteDataGood
    <3> HIDE DEF v
    <3>6. u.ok => Good(m, R, x) /\ (x.ok => x.ret \in Nat)
      BY <3>2, <3>5, CreateChainGood
    <3> HIDE DEF x
    <3>7. u.ok /\ x.ok => Good(m, R, y)
      BY <3>6, AppendChainGood
    <3> HIDE DEF y
    <3>8. g = IF u.ok THEN IF v.ok THEN IF x.ok THEN y ELSE x ELSE v ELSE u
      BY <2>2
    <3> HIDE DEF g
    <3> QED BY <3>2, <3>5, <3>6, <3>7, <3>8
  <2> QED BY <2>1, <2>2
<1> HIDE DEF g
<1>8. Good(m, R, x1)
  BY <1>6, <1>7
<1> HIDE DEF x1
<1>9. Good(m, R, x2)
  BY <1>2, <1>8, UpdateSizeGood
<1> HIDE DEF x2
<1>10. Done(m, IF x2.ok THEN UpdateRootblock(x2) ELSE x2) /\ Done(m, Err(s1))
  BY <1>3, <1>9, CommitDone, FailDone
<1> QED BY <1>1, <1>10

\* write_file_in: an old file is overwritten, a new one added.
LEMMA WriteFileDone ==
  ASSUME NEW m \in Nat, NEW R, NEW s, Good(m, R, s), s.ok, NEW dir \in Nat, NEW name \in Names,
         NEW content \in Seq(DataVal)
  PROVE  Done(m, WriteFileIn(s, dir, name, content))
<1> DEFINE c == GetChain(s.res, dir)
           t == Io(s)
           at == IF t.ok /\ c.ok THEN Locate(s, c.chain, name) ELSE <<>>
           e == IF at = <<>> THEN Entry(name, "", 0, 0, 0) ELSE RawRead(s, at[1]).es[at[2]]
           i == Ignore(t)
           a == AddFileNoCommit(i, dir, name, "file", content)
<1>1. WriteFileIn(s, dir, name, content)
        = IF e.type = "file" THEN OverwriteFileIn(t, dir, name, e.anode, content)
          ELSE IF a.ok THEN UpdateRootblock(a) ELSE a
  BY DEF WriteFileIn, Then
<1>2. Good(m, R, t) /\ c.chain \in Seq(Anodes(R))
  BY ChainGot
<1>3. Good(m, R, i) /\ i.ok
  <2>1. DOMAIN t = StateFields
    BY <1>2 DEF Good
  <2> HIDE DEF t
  <2> QED BY <1>2, <2>1, IgnoreGood, IgnoreIs
<1> HIDE DEF c, t, i
<1>4. Good(m, R, a)
  BY <1>3, AddFileGood
<1> HIDE DEF a
<1>5. at = <<>> \/ Located(s, at)
  BY <1>2, LocateIs
<1> HIDE DEF at
<1>6. e.type = "file" => e.anode \in Nat
  <2>1. CASE at = <<>>
    <3>1. e.type = ""
      BY <2>1 DEF Entry
    <3> QED BY <3>1
  <2>2. CASE at # <<>>
    <3>1. RawRead(s, at[1]) \in DirBlocks /\ at[2] \in 1..Len(RawRead(s, at[1]).es)
      BY <1>5, <2>2 DEF Located
    <3>2. PICK es \in Seq(Entries) : es = RawRead(s, at[1]).es
      BY <3>1 DEF DirBlocks
    <3>3. es[at[2]] \in Entries
      BY <3>1, <3>2
    <3>4. e = es[at[2]]
      BY <2>2, <3>2
    <3> QED BY <3>3, <3>4 DEF Entries
  <2> QED BY <2>1, <2>2
<1> HIDE DEF e
<1>7. e.type = "file" => Done(m, OverwriteFileIn(t, dir, name, e.anode, content))
  BY <1>2, <1>6, OverwriteDone
<1>8. Done(m, IF a.ok THEN UpdateRootblock(a) ELSE a)
  BY <1>4, CommitDone
<1> QED BY <1>1, <1>7, <1>8

\* create_softlink_in.
LEMMA SoftlinkDone ==
  ASSUME NEW m \in Nat, NEW R, NEW s, Good(m, R, s), s.ok, NEW dir \in Nat, NEW name \in Names,
         NEW content \in Seq(DataVal)
  PROVE  Done(m, CreateSoftlinkIn(s, dir, name, content))
<1> DEFINE a == AddFileNoCommit(s, dir, name, "soft", content)
<1>1. CreateSoftlinkIn(s, dir, name, content) = IF a.ok THEN UpdateRootblock(a) ELSE a
  BY DEF CreateSoftlinkIn, Then
<1>2. Good(m, R, a)
  BY AddFileGood
<1> HIDE DEF a
<1> QED BY <1>1, <1>2, CommitDone

\* create_hardlink.
LEMMA HardlinkDone ==
  ASSUME NEW m \in Nat, NEW R, NEW s, Good(m, R, s), NEW dir \in Nat, NEW name \in Names,
         NEW anode \in Nat
  PROVE  Done(m, CreateHardlink(s, dir, name, anode))
<1> DEFINE e == Entry(name, "link", anode, 0, 0)
           a == AddDirEntry(s, dir, e)
<1>1. CreateHardlink(s, dir, name, anode) = IF a.ok THEN UpdateRootblock(a) ELSE a
  BY DEF CreateHardlink, Then
<1>2. e \in Entries
  BY DEF Entry, Entries
<1> HIDE DEF e
<1>3. Good(m, R, a)
  BY <1>2, AddEntryGood
<1> HIDE DEF a
<1> QED BY <1>1, <1>3, CommitDone

\* create_dir_in.
LEMMA CreateDirDone ==
  ASSUME NEW m \in Nat, NEW R, NEW s, Good(m, R, s), NEW dir \in Nat, NEW name \in Names
  PROVE  Done(m, CreateDirIn(s, dir, name))
<1> DEFINE t == AllocReservedBlock(s)
           u == AllocAnode(t, 1, t.ret, EOF)
           w == WriteReserved(u, t.ret, [k |-> "DB", es |-> <<>>])
           e == Entry(name, "dir", u.ret, 0, 0)
           a == AddDirEntry(w, dir, e)
<1>1. CreateDirIn(s, dir, name)
        = IF t.ok THEN IF u.ok THEN IF a.ok THEN UpdateRootblock(a) ELSE a ELSE u ELSE t
  BY DEF CreateDirIn, Then
<1>2. Good(m, R, t) /\ (t.ok => t.ret \in Spare)
  BY AllocReservedGood
<1> HIDE DEF t
<1>3. t.ok => [cs |-> 1, bn |-> t.ret, nx |-> EOF] \in Slot
  BY <1>2, SlotsAre DEF EOF
<1>4. t.ok => Good(m, R, u) /\ (u.ok => u.ret \in Nat)
  BY <1>2, <1>3, AllocAnodeGood
<1> HIDE DEF u
<1>5. t.ok => t.ret \in Spare /\ t.ret \in ResBlocks /\ t.ret \notin 1..NumBitmaps
  BY <1>2 DEF Spare, Pinned
<1>6. t.ok => Fits(t.ret, [k |-> "DB", es |-> <<>>])
  <2>1. <<>> \in Seq(Entries)
    <3> DEFINE X == Entries
    <3> HIDE DEF X
    <3>1. <<>> \in Seq(X)
      OBVIOUS
    <3> QED BY <3>1 DEF X
  <2> QED BY <1>5, <2>1, NewFits
<1>7. t.ok => Good(m, R, w)
  BY <1>4, <1>5, <1>6, WriteReservedGood
<1> HIDE DEF w
<1>8. t.ok /\ u.ok => e \in Entries
  BY <1>4 DEF Entry, Entries
<1> HIDE DEF e
<1>9. t.ok /\ u.ok => Good(m, R, a)
  BY <1>7, <1>8, AddEntryGood
<1> HIDE DEF a
<1>10. t.ok /\ u.ok => Done(m, IF a.ok THEN UpdateRootblock(a) ELSE a)
  BY <1>9, CommitDone
<1>11. ~t.ok => Done(m, t)
  BY <1>2 DEF Done, Good
<1>12. t.ok /\ ~u.ok => Done(m, u)
  BY <1>4 DEF Done, Good
<1> QED BY <1>1, <1>10, <1>11, <1>12

\* update_dir_entry_protection.
LEMMA ProtectDone ==
  ASSUME NEW m \in Nat, NEW R, NEW s, Good(m, R, s), NEW dir \in Nat, NEW name, NEW prot \in Nat
  PROVE  Done(m, UpdateDirEntryProtection(s, dir, name, prot))
<1> DEFINE a == ProtectEntry(s, dir, name, prot)
<1>1. UpdateDirEntryProtection(s, dir, name, prot) = IF a.ok THEN UpdateRootblock(a) ELSE a
  BY Zenon DEF UpdateDirEntryProtection, ProtectEntry, Then
<1>2. Good(m, R, a)
  BY ProtectEntryGood
<1> HIDE DEF a
<1> QED BY <1>1, <1>2, CommitDone

-----------------------------------------------------------------------------
(* The deldir *)

Bins == [anode : Nat, size : Nat, name : Names \cup {""}]

\* What the writer sees of the deldir is a deldir.
LEMMA DelDirIs ==
  ASSUME NEW m \in Nat, NEW R, NEW s, Good(m, R, s), DelDirSlots > 0
  PROVE  /\ RawRead(s, DelDirBlk).slots \in [1..DelDirSlots -> Bins]
         /\ DelDirBlk \in ResBlocks /\ DelDirBlk \notin 1..NumBitmaps
<1>1. DelDirBlk \in ResBlocks /\ DelDirBlk \notin 1..NumBitmaps
  BY LayoutIs DEF Pinned
<1>2. Fits(DelDirBlk, RawRead(s, DelDirBlk))
  BY <1>1, RawReadIs, ViewFits DEF Good, Parts
<1>3. RawRead(s, DelDirBlk) \in DelDirBlocks
  BY <1>2 DEF Fits
<1> QED BY <1>1, <1>3 DEF DelDirBlocks, Bins

BinPut(slots, i, d) == [k |-> "DD", slots |-> [slots EXCEPT ![i] = d]]

\* A deldir with another slot is a deldir.
LEMMA BinFits ==
  ASSUME DelDirSlots > 0, NEW slots \in [1..DelDirSlots -> Bins], NEW i, NEW d \in Bins
  PROVE  Fits(DelDirBlk, BinPut(slots, i, d))
<1>1. DelDirBlk \in Pinned /\ DelDirBlk \notin 1..NumBitmaps /\ DelDirBlk # IndexBlk
      /\ (Large => SuperBlk # DelDirBlk)
  BY LayoutIs DEF Pinned
<1> DEFINE D == 1..DelDirSlots
           X == Bins
           c == BinPut(slots, i, d)
<1>2. slots \in [D -> X] /\ d \in X
  OBVIOUS
<1> HIDE DEF D, X
<1>3. c \in [k : {"DD"}, slots : [D -> X]]
  BY <1>2 DEF BinPut
<1>4. c \in DelDirBlocks
  BY <1>3 DEF DelDirBlocks, D, X, Bins
<1> QED BY <1>1, <1>4 DEF Fits, Spare

\* A slot of the deldir written.
LEMMA StoreBinGood ==
  ASSUME NEW m \in Nat, NEW R, NEW s, Good(m, R, s), DelDirSlots > 0,
         NEW slots \in [1..DelDirSlots -> Bins], NEW i, NEW d \in Bins
  PROVE  Good(m, R, WriteReserved(s, DelDirBlk, BinPut(slots, i, d)))
         /\ Good(m, R, Patch(s, DelDirBlk, BinPut(slots, i, d)))
<1>1. Fits(DelDirBlk, BinPut(slots, i, d))
  BY BinFits
<1>2. DelDirBlk \in ResBlocks /\ DelDirBlk \notin 1..NumBitmaps
  BY DelDirIs
<1> QED BY <1>1, <1>2, WriteReservedGood, PatchGood

\* move_to_deldir, which may free the file in slot 1.
LEMMA MoveGood ==
  ASSUME NEW m \in Nat, NEW R, NEW s, Good(m, R, s), NEW e \in Entries
  PROVE  Good(m, R, MoveToDelDir(s, e))
<1> DEFINE s1 == ReadIo(s, DelDirBlk)
           slots == RawRead(s, DelDirBlk).slots
           empty == IF s1.ok THEN SelectInSeq(slots, LAMBDA d : d.anode = 0) ELSE 0
           Store(t, i) == Ret(WriteReserved(t, DelDirBlk, BinPut(slots, i, DelDirEntry(e))), TRUE)
           i2 == Ignore(s1)
           s2 == ReadIo(i2, DelDirBlk)
           nr == slots[1].anode
           f1 == FreeDataChain(s2, nr)
           f2 == Ignore(f1)
           f3 == ClearAnodeChain(f2, nr)
           f4 == Ignore(f3)
<1>1. MoveToDelDir(s, e)
        = IF DelDirSlots = 0 THEN Ret(s, FALSE)
          ELSE IF empty > 0 THEN Store(s1, empty)
          ELSE IF ~s2.ok THEN Ret(Ignore(s2), FALSE)
          ELSE IF nr # 0 THEN Store(f4, 1) ELSE Store(s2, 1)
  <2>1. MoveToDelDir(s, e)
          = IF DelDirSlots = 0 THEN Ret(s, FALSE)
            ELSE IF empty > 0 THEN Store(s1, empty)
            ELSE IF ~s2.ok THEN Ret(Ignore(s2), FALSE)
            ELSE Store(IF nr # 0 THEN f4 ELSE s2, 1)
    BY Zenon DEF MoveToDelDir, BinPut
  <2> HIDE DEF f4, s2, s1, Store, nr, empty
  <2> QED BY <2>1, Zenon
<1>2. DelDirSlots \in Nat
  BY Constants
<1>3. CASE DelDirSlots = 0
  <2> HIDE DEF s1, s2, f4, Store, empty, nr
  <2>1. MoveToDelDir(s, e) = Ret(s, FALSE)
    BY <1>1, <1>3, Zenon
  <2>2. Good(m, R, Ret(s, FALSE))
    BY RetGood
  <2> QED BY <2>1, <2>2
<1>4. CASE DelDirSlots # 0
  <2>1. DelDirSlots > 0
    BY <1>2, <1>4
  <2>2. slots \in [1..DelDirSlots -> Bins]
    BY <2>1, DelDirIs
  <2>3. DelDirEntry(e) \in Bins
    BY DEF DelDirEntry, Bins, Entries
  <2>4. nr \in Nat
    <3>1. 1 \in 1..DelDirSlots
      BY <1>2, <2>1
    <3>2. slots[1] \in Bins
      BY <2>2, <3>1
    <3> QED BY <3>2 DEF Bins
  <2> HIDE DEF slots, nr, empty
  <2>5. ASSUME NEW t, Good(m, R, t), NEW i PROVE Good(m, R, Store(t, i))
    <3>1. Good(m, R, WriteReserved(t, DelDirBlk, BinPut(slots, i, DelDirEntry(e))))
      BY <2>1, <2>2, <2>3, <2>5, StoreBinGood
    <3> QED BY <3>1, RetGood
  <2> HIDE DEF Store
  <2>6. Good(m, R, s1)
    BY ReadIoGood
  <2> HIDE DEF s1
  <2>7. Good(m, R, i2)
    BY <2>6, IgnoreGood
  <2> HIDE DEF i2
  <2>8. Good(m, R, s2)
    BY <2>7, ReadIoGood
  <2> HIDE DEF s2
  <2>9. Good(m, R, Ret(Ignore(s2), FALSE))
    BY <2>8, IgnoreGood, RetGood
  <2>10. Good(m, R, f1)
    BY <2>4, <2>8, FreeDataChainGood
  <2> HIDE DEF f1
  <2>11. Good(m, R, f2)
    BY <2>10, IgnoreGood
  <2> HIDE DEF f2
  <2>12. Good(m, R, f3)
    BY <2>4, <2>11, ClearAnodeChainGood
  <2> HIDE DEF f3
  <2>13. Good(m, R, f4)
    BY <2>12, IgnoreGood
  <2> HIDE DEF f4
  <2>14. Good(m, R, Store(s1, empty)) /\ Good(m, R, Store(f4, 1)) /\ Good(m, R, Store(s2, 1))
    BY <2>5, <2>6, <2>8, <2>13
  <2> QED BY <1>1, <1>4, <2>9, <2>14
<1> QED BY <1>3, <1>4

\* What delete_in does before it removes the entry.
LEMMA ReleaseGood ==
  ASSUME NEW m \in Nat, NEW R, NEW s, Good(m, R, s), NEW e \in Entries
  PROVE  Good(m, R, Release(s, e))
<1> DEFINE t == MoveToDelDir(s, e)
           a == e.anode
           f == FreeDataChain(t, a)
           FF == IF f.ok THEN ClearAnodeChain(f, a) ELSE f
           u == Io(s)
           g == FreeAnodeChainReserved(u, a)
           GG == IF g.ok THEN ClearAnodeChain(g, a) ELSE g
<1>1. Release(s, e)
        = IF e.type # "dir" THEN IF t.ret THEN t ELSE FF
          ELSE IF IsEmptyDir(ListDir(s.res, a)) THEN IF u.ok THEN GG ELSE u
          ELSE Err(s)
  BY DEF Release, FreeDir, FreeFile, Then
<1>2. a \in Nat
  BY DEF Entries
<1>3. Good(m, R, t) /\ Good(m, R, u)
  BY MoveGood, IoGood
<1> HIDE DEF t, u, a
<1>4. Good(m, R, f) /\ Good(m, R, g)
  BY <1>2, <1>3, FreeDataChainGood, FreeAnodeChainReservedGood
<1> HIDE DEF f, g
<1>5. Good(m, R, ClearAnodeChain(f, a)) /\ Good(m, R, ClearAnodeChain(g, a)) /\ Good(m, R, Err(s))
  BY <1>2, <1>4, ClearAnodeChainGood, ErrGood
<1> QED BY <1>1, <1>3, <1>4, <1>5

\* The entry of a name.
LEMMA EntryInIs ==
  ASSUME NEW R, DiskOK(R), NEW dir \in Nat, NEW name
  PROVE  EntryIn(ListDir(R, dir), name) \subseteq Entries
<1>1. PICK es \in Seq(Entries) : es = ListDir(R, dir).es
  BY ListDirIs
<1>2. Find(es, name) \in 0..Len(es) /\ Len(es) \in Nat
  BY FindIs
<1>3. \A i \in {Find(es, name)} \ {0} : es[i] \in Entries
  BY <1>2
<1> QED BY <1>1, <1>3 DEF EntryIn

\* delete_in.
LEMMA DeleteDone ==
  ASSUME NEW m \in Nat, NEW R, NEW s, Good(m, R, s), NEW dir \in Nat, NEW name
  PROVE  Done(m, DeleteIn(s, dir, name))
<1> DEFINE found == EntryIn(ListDir(s.res, dir), name)
           e == CHOOSE x \in found : TRUE
           t == Io(s)
           u == Release(t, e)
           v == IF u.ok THEN RemoveDirEntry(u, dir, name) ELSE u
<1>1. DeleteIn(s, dir, name)
        = IF t.ok THEN IF found = {} THEN Err(t) ELSE IF v.ok THEN UpdateRootblock(v) ELSE v
          ELSE t
  BY Zenon DEF DeleteIn, OnEntry, Then
<1>2. found \subseteq Entries /\ (found # {} => e \in found)
  <2>1. found \subseteq Entries
    BY EntryInIs DEF Good, Parts
  <2> HIDE DEF found
  <2> QED BY <2>1
<1>3. Good(m, R, t)
  BY IoGood
<1> HIDE DEF found, e, t
<1>4. found # {} => Good(m, R, u)
  BY <1>2, <1>3, ReleaseGood
<1> HIDE DEF u
<1>5. found # {} => Good(m, R, v)
  BY <1>4, RemoveEntryGood
<1> HIDE DEF v
<1>6. found # {} => Done(m, IF v.ok THEN UpdateRootblock(v) ELSE v)
  BY <1>5, CommitDone
<1>7. Done(m, Err(t))
  BY <1>3, FailDone
<1>8. ~t.ok => Done(m, t)
  BY <1>3 DEF Done, Good
<1> QED BY <1>1, <1>6, <1>7, <1>8

\* rename_in, which may delete the target first.
LEMMA RenameDone ==
  ASSUME NEW m \in Nat, NEW R, NEW s, Good(m, R, s), NEW srcDir \in Nat, NEW srcName,
         NEW dstDir \in Nat, NEW dstName \in Names
  PROVE  Done(m, RenameIn(s, srcDir, srcName, dstDir, dstName))
<1> DEFINE found == EntryIn(ListDir(s.res, srcDir), srcName)
           e == CHOOSE x \in found : TRUE
           t == Io(s)
           t2 == Io(t)
           there == EntryIn(ListDir(s.res, dstDir), dstName) # {}
           u == IF t2.ok /\ there THEN DeleteIn(t2, dstDir, dstName) ELSE Ignore(t2)
           n == Entry(dstName, e.type, e.anode, e.size, e.prot)
           v == IF u.ok THEN AddDirEntry(u, dstDir, n) ELSE u
           w == IF v.ok THEN RemoveDirEntry(v, srcDir, srcName) ELSE v
<1>1. RenameIn(s, srcDir, srcName, dstDir, dstName)
        = IF t.ok THEN IF found = {} THEN Err(t) ELSE IF w.ok THEN UpdateRootblock(w) ELSE w
          ELSE t
  BY Zenon DEF RenameIn, OnEntry, Then
<1>2. found \subseteq Entries /\ (found # {} => e \in found)
  <2>1. found \subseteq Entries
    BY EntryInIs DEF Good, Parts
  <2> HIDE DEF found
  <2> QED BY <2>1
<1>3. Good(m, R, t)
  BY IoGood
<1> HIDE DEF found, e, t, there
<1>4. Good(m, R, t2)
  BY <1>3, IoGood
<1> HIDE DEF t2
<1>5. Good(m, u.res, u)
  <2>1. Done(m, DeleteIn(t2, dstDir, dstName))
    BY <1>4, DeleteDone
  <2>2. Good(m, R, Ignore(t2))
    BY <1>4, IgnoreGood
  <2>3. Good(m, Ignore(t2).res, Ignore(t2))
    BY <2>2 DEF Good
  <2> QED BY <2>1, <2>3 DEF Done
<1>6. PICK Q : Q = u.res
  OBVIOUS
<1>7. Good(m, Q, u)
  BY <1>5, <1>6
<1> HIDE DEF u
<1>8. found # {} => n \in Entries
  BY <1>2 DEF Entry, Entries
<1> HIDE DEF n
<1>9. found # {} => Good(m, Q, v)
  BY <1>7, <1>8, AddEntryGood
<1> HIDE DEF v
<1>10. found # {} => Good(m, Q, w)
  BY <1>9, RemoveEntryGood
<1> HIDE DEF w
<1>11. found # {} => Done(m, IF w.ok THEN UpdateRootblock(w) ELSE w)
  BY <1>10, CommitDone
<1>12. Done(m, Err(t))
  BY <1>3, FailDone
<1>13. ~t.ok => Done(m, t)
  BY <1>3 DEF Done, Good
<1> QED BY <1>1, <1>11, <1>12, <1>13

\* What is read from a file can be written to one.
LEMMA ReadFileIs ==
  ASSUME NEW R, DiskOK(R), NEW data \in [DataBlocks -> DataVal], NEW anode \in Nat, NEW size \in Nat
  PROVE  ReadFileData(R, data, anode, size) \in Seq(DataVal)
<1> DEFINE q == BlocksOf(GetChain(R, anode).chain)
           n == Min({size, Len(q)})
           f == [i \in 1..n |-> ReadBlock(data, q[i])]
<1>1. ReadFileData(R, data, anode, size) = f
  BY DEF ReadFileData
<1>2. q \in Seq(Spare \cup DataBlocks)
  BY ChainIs, BlocksOfIs DEF Chains0
<1>3. n \in Nat
  <2>1. Len(q) \in Nat
    <3> DEFINE B == Spare \cup DataBlocks
    <3>1. q \in Seq(B)
      BY <1>2
    <3> HIDE DEF B, q
    <3> QED BY <3>1
  <2> DEFINE S == {size, Len(q)}
  <2>2. S \in SUBSET Nat /\ S # {}
    BY <2>1
  <2>3. Min(S) \in S
    <3> HIDE DEF S
    <3> QED BY <2>2, MinOf
  <2> QED BY <2>1, <2>3
<1>4. \A b : ReadBlock(data, b) \in DataVal
  <2>1. <<>> \in DataVal
    BY DEF DataVal
  <2> QED BY <2>1 DEF ReadBlock
<1> HIDE DEF n, q
<1>5. f \in Seq(DataVal)
  BY <1>3, <1>4
<1> QED BY <1>1, <1>5

\* undelete.
LEMMA UndeleteDone ==
  ASSUME NEW m \in Nat, NEW R, NEW s, Good(m, R, s), NEW idx \in 1..DelDirSlots,
         NEW dir \in Nat, NEW name \in Names
  PROVE  Done(m, Undelete(s, idx, dir, name))
<1> DEFINE slot == RawRead(s, DelDirBlk).slots[idx]
           l == ListDir(s.res, dir)
           taken == slot.anode = 0 \/ ~(l.ok /\ Find(l.es, name) = 0)
           t == ReadIo(s, DelDirBlk)
           u == Io(t)
           c == GetChain(t.res, slot.anode)
           content == ReadFileData(s.res, s.data, slot.anode, slot.size)
           a == AddFileNoCommit(u, dir, name, "file", content)
           b0 == ClearAnodeChain(a, slot.anode)
           b == IF a.ok THEN Ignore(b0) ELSE a
           d == Patch(b, DelDirBlk, BinPut(RawRead(b, DelDirBlk).slots, idx, NoSlot))
           e == IF b.ok THEN d ELSE b
<1>1. Undelete(s, idx, dir, name)
        = IF t.ok THEN IF taken THEN Err(t)
                       ELSE IF u.ok /\ c.ok THEN IF e.ok THEN UpdateRootblock(e) ELSE e ELSE Err(u)
          ELSE t
  BY Zenon DEF Undelete, WithChain, Then, BinPut
<1>2. DelDirSlots > 0
  BY Constants
<1>3. slot \in Bins
  BY <1>2, DelDirIs
<1>4. slot.anode \in Nat /\ slot.size \in Nat
  BY <1>3 DEF Bins
<1> HIDE DEF slot
<1>5. Good(m, R, t)
  BY ReadIoGood
<1> HIDE DEF t
<1>6. Good(m, R, u)
  BY <1>5, IoGood
<1>7. content \in Seq(DataVal)
  BY <1>4, ReadFileIs DEF Good, Parts
<1> HIDE DEF u, content, c, taken
<1>8. u.ok => Good(m, R, a)
  BY <1>6, <1>7, AddFileGood
<1> HIDE DEF a
<1>9. u.ok => Good(m, R, b0)
  BY <1>4, <1>8, ClearAnodeChainGood
<1> HIDE DEF b0
<1>10. u.ok => Good(m, R, b)
  BY <1>8, <1>9, IgnoreGood
<1> HIDE DEF b
<1>11. u.ok => Good(m, R, d)
  <2> SUFFICES ASSUME u.ok PROVE Good(m, R, d)
    OBVIOUS
  <2>1. RawRead(b, DelDirBlk).slots \in [1..DelDirSlots -> Bins]
    BY <1>2, <1>10, DelDirIs
  <2>2. NoSlot \in Bins
    BY DEF NoSlot, Bins
  <2> QED BY <1>2, <1>10, <2>1, <2>2, StoreBinGood
<1> HIDE DEF d
<1>12. u.ok => Good(m, R, e)
  BY <1>10, <1>11
<1> HIDE DEF e
<1>13. u.ok => Done(m, IF e.ok THEN UpdateRootblock(e) ELSE e)
  BY <1>12, CommitDone
<1>14. Done(m, Err(t)) /\ Done(m, Err(u))
  BY <1>5, <1>6, FailDone
<1>15. ~t.ok => Done(m, t)
  BY <1>5 DEF Done, Good
<1> QED BY <1>1, <1>13, <1>14, <1>15
-----------------------------------------------------------------------------
(* The operations, entered by path *)

\* split_path returns an anode number.
LEMMA PathIs ==
  ASSUME NEW R, DiskOK(R), NEW p
  PROVE  SplitPath(R, p) \in Nat
<1>1. RootDir \in Nat
  BY Constants
<1>2. PICK es \in Seq(Entries) : es = ListDir(R, RootDir).es
  BY <1>1, ListDirIs
<1> DEFINE i == FindDir(es, p[1])
<1>3. i \in 0..Len(es) /\ Len(es) \in Nat
  BY FindIs
<1>4. SplitPath(R, p) = IF p = <<>> THEN RootDir ELSE IF i = 0 THEN 0 ELSE es[i].anode
  BY <1>2, Zenon DEF SplitPath
<1> HIDE DEF i
<1>5. i # 0 => es[i] \in Entries
  BY <1>3
<1>6. i # 0 => es[i].anode \in Nat
  BY <1>5 DEF Entries
<1> QED BY <1>1, <1>4, <1>6

\* The contents that are written.
LEMMA ContentIs ==
  ASSUME NEW v \in Versions, NEW k \in 0..MaxBlocks
  PROVE  Content(v, k) \in Seq(DataVal)
<1>1. k \in Nat /\ MaxBlocks \in Nat
  BY Constants
<1>2. \A i \in 1..k : i \in 1..MaxBlocks
  BY <1>1
<1>3. \A i \in 1..k : <<v, i>> \in DataVal
  BY <1>2 DEF DataVal
<1> DEFINE X == DataVal
           w == Content(v, k)
<1>4. w \in [1..k -> X]
  BY <1>3 DEF Content
<1> HIDE DEF X, w
<1>5. w \in Seq(X)
  BY <1>1, <1>4
<1> QED BY <1>5 DEF X, w

WriteAt(s, p, n, v, k) ==
  InDir(s, p, LAMBDA t, d : WriteFileIn(t, d, n, Content(v, k)))
SoftlinkAt(s, p, n, v) ==
  InDir(s, p, LAMBDA t, d : CreateSoftlinkIn(t, d, n, Content(v, 1)))
CreateDirAt(s, p, n) ==
  InDir(s, p, LAMBDA t, d : CreateDirIn(t, d, n))
DeleteAt(s, p, n) ==
  InDir(s, p, LAMBDA t, d : DeleteIn(t, d, n))
RenameAt(s, p, q, n, o) ==
  InDir(s, p, LAMBDA t, d : InDir(t, q, LAMBDA u, e : RenameIn(u, d, n, e, o)))
ProtectAt(s, p, n) ==
  InDir(s, p, LAMBDA t, d : UpdateDirEntryProtection(t, d, n, 1))
UndeleteAt(s, p, k, n) ==
  InDir(s, p, LAMBDA t, d : Undelete(t, k, d, n))
HardlinkAt(s, p, n, o) ==
  InDir(s, p, LAMBDA t, d :
    LET es == ListDir(s.res, RootDir).es
    IN  CreateHardlink(t, d, n, es[Find(es, o)].anode))

\* write_file.
LEMMA WriteAtDone ==
  ASSUME NEW m \in Nat, NEW R, NEW s, Good(m, R, s), s.ok, NEW p, NEW n \in Names,
         NEW v \in Versions, NEW k \in 0..MaxBlocks
  PROVE  Done(m, WriteAt(s, p, n, v, k))
<1> DEFINE d == SplitPath(s.res, p)
           c == Content(v, k)
<1>1. WriteAt(s, p, n, v, k) = IF d = 0 THEN Err(s) ELSE WriteFileIn(s, d, n, c)
  BY Zenon DEF WriteAt, InDir
<1>2. d \in Nat
  BY PathIs DEF Good, Parts
<1>3. c \in Seq(DataVal)
  BY ContentIs
<1> HIDE DEF d, c
<1>4. Done(m, Err(s)) /\ Done(m, WriteFileIn(s, d, n, c))
  BY <1>2, <1>3, FailDone, WriteFileDone
<1> QED BY <1>1, <1>4

\* create_softlink.
LEMMA SoftlinkAtDone ==
  ASSUME NEW m \in Nat, NEW R, NEW s, Good(m, R, s), s.ok, NEW p, NEW n \in Names,
         NEW v \in Versions
  PROVE  Done(m, SoftlinkAt(s, p, n, v))
<1> DEFINE d == SplitPath(s.res, p)
           c == Content(v, 1)
<1>1. SoftlinkAt(s, p, n, v) = IF d = 0 THEN Err(s) ELSE CreateSoftlinkIn(s, d, n, c)
  BY Zenon DEF SoftlinkAt, InDir
<1>2. d \in Nat
  BY PathIs DEF Good, Parts
<1>3. c \in Seq(DataVal)
  <2>1. 1 \in 0..MaxBlocks
    BY Constants
  <2> QED BY <2>1, ContentIs
<1> HIDE DEF d, c
<1>4. Done(m, Err(s)) /\ Done(m, CreateSoftlinkIn(s, d, n, c))
  BY <1>2, <1>3, FailDone, SoftlinkDone
<1> QED BY <1>1, <1>4

\* create_dir.
LEMMA CreateDirAtDone ==
  ASSUME NEW m \in Nat, NEW R, NEW s, Good(m, R, s), NEW p, NEW n \in Names
  PROVE  Done(m, CreateDirAt(s, p, n))
<1> DEFINE d == SplitPath(s.res, p)
<1>1. CreateDirAt(s, p, n) = IF d = 0 THEN Err(s) ELSE CreateDirIn(s, d, n)
  BY Zenon DEF CreateDirAt, InDir
<1>2. d \in Nat
  BY PathIs DEF Good, Parts
<1> HIDE DEF d
<1>4. Done(m, Err(s)) /\ Done(m, CreateDirIn(s, d, n))
  BY <1>2, FailDone, CreateDirDone
<1> QED BY <1>1, <1>4

\* delete.
LEMMA DeleteAtDone ==
  ASSUME NEW m \in Nat, NEW R, NEW s, Good(m, R, s), NEW p, NEW n \in Names
  PROVE  Done(m, DeleteAt(s, p, n))
<1> DEFINE d == SplitPath(s.res, p)
<1>1. DeleteAt(s, p, n) = IF d = 0 THEN Err(s) ELSE DeleteIn(s, d, n)
  BY Zenon DEF DeleteAt, InDir
<1>2. d \in Nat
  BY PathIs DEF Good, Parts
<1> HIDE DEF d
<1>4. Done(m, Err(s)) /\ Done(m, DeleteIn(s, d, n))
  BY <1>2, FailDone, DeleteDone
<1> QED BY <1>1, <1>4

\* rename.
LEMMA RenameAtDone ==
  ASSUME NEW m \in Nat, NEW R, NEW s, Good(m, R, s), NEW p, NEW q, NEW n \in Names, NEW o \in Names
  PROVE  Done(m, RenameAt(s, p, q, n, o))
<1> DEFINE d == SplitPath(s.res, p)
           e == SplitPath(s.res, q)
<1>1. RenameAt(s, p, q, n, o)
        = IF d = 0 THEN Err(s) ELSE IF e = 0 THEN Err(s) ELSE RenameIn(s, d, n, e, o)
  BY Zenon DEF RenameAt, InDir
<1>2. d \in Nat /\ e \in Nat
  BY PathIs DEF Good, Parts
<1> HIDE DEF d, e
<1>4. Done(m, Err(s)) /\ Done(m, RenameIn(s, d, n, e, o))
  BY <1>2, FailDone, RenameDone
<1> QED BY <1>1, <1>4

\* set_protection.
LEMMA ProtectAtDone ==
  ASSUME NEW m \in Nat, NEW R, NEW s, Good(m, R, s), NEW p, NEW n \in Names
  PROVE  Done(m, ProtectAt(s, p, n))
<1> DEFINE d == SplitPath(s.res, p)
<1>1. ProtectAt(s, p, n) = IF d = 0 THEN Err(s) ELSE UpdateDirEntryProtection(s, d, n, 1)
  BY Zenon DEF ProtectAt, InDir
<1>2. d \in Nat
  BY PathIs DEF Good, Parts
<1> HIDE DEF d
<1>4. Done(m, Err(s)) /\ Done(m, UpdateDirEntryProtection(s, d, n, 1))
  BY <1>2, FailDone, ProtectDone
<1> QED BY <1>1, <1>4

\* undelete, into a directory by path.
LEMMA UndeleteAtDone ==
  ASSUME NEW m \in Nat, NEW R, NEW s, Good(m, R, s), NEW p, NEW k \in 1..DelDirSlots,
         NEW n \in Names
  PROVE  Done(m, UndeleteAt(s, p, k, n))
<1> DEFINE d == SplitPath(s.res, p)
<1>1. UndeleteAt(s, p, k, n) = IF d = 0 THEN Err(s) ELSE Undelete(s, k, d, n)
  BY Zenon DEF UndeleteAt, InDir
<1>2. d \in Nat
  BY PathIs DEF Good, Parts
<1> HIDE DEF d
<1>4. Done(m, Err(s)) /\ Done(m, Undelete(s, k, d, n))
  BY <1>2, FailDone, UndeleteDone
<1> QED BY <1>1, <1>4

\* A hard link is made to an entry that is there.
LEMMA HardlinkAtDone ==
  ASSUME NEW m \in Nat, NEW R, NEW s, Good(m, R, s), NEW p, NEW n \in Names, NEW o,
         Find(ListDir(s.res, RootDir).es, o) # 0
  PROVE  Done(m, HardlinkAt(s, p, n, o))
<1> DEFINE d == SplitPath(s.res, p)
           es == ListDir(s.res, RootDir).es
           i == Find(es, o)
           a == es[i].anode
<1>1. HardlinkAt(s, p, n, o) = IF d = 0 THEN Err(s) ELSE CreateHardlink(s, d, n, a)
  BY Zenon DEF HardlinkAt, InDir
<1>2. d \in Nat /\ DiskOK(s.res)
  BY PathIs DEF Good, Parts
<1>3. es \in Seq(Entries)
  BY <1>2, Constants, ListDirIs
<1>4. i # 0
  OBVIOUS
<1> HIDE DEF es, d
<1>5. i \in 0..Len(es) /\ Len(es) \in Nat
  BY <1>3, FindIs
<1> HIDE DEF i
<1>6. es[i] \in Entries
  BY <1>3, <1>4, <1>5
<1>7. a \in Nat
  BY <1>6 DEF Entries
<1> HIDE DEF a
<1>8. Done(m, Err(s)) /\ Done(m, CreateHardlink(s, d, n, a))
  BY <1>2, <1>7, FailDone, HardlinkDone
<1> QED BY <1>1, <1>8

-----------------------------------------------------------------------------
(* The state machine *)

\* What the constants let hold: with I/O errors the bitmap blocks on the
\* device may fall behind the bitmap in memory, and with kills the counters on
\* the device behind its bitmap blocks.
Mode == IF MaxFaults # 0 THEN 0 ELSE IF MaxKills # 0 THEN 1 ELSE 2

\* The inductive invariant, at level m: an operation may start, and from level
\* 1 on an operation that returned Ok has left nothing to write.
Steady(m) ==
  /\ Good(m, device.res, Start(-1, FALSE))
  /\ m >= 1 /\ last.ok => mem = Loaded(device.res, device.root)
  /\ DOMAIN device = {"res", "root", "data"}
Counts ==
  /\ count.ops \in Nat /\ count.faults \in Nat /\ count.kills \in Nat
  /\ DOMAIN count = {"ops", "faults", "kills"}
Inv == Steady(Mode) /\ Counts

\* How an operation may end at level m.
Ended(m) ==
  \E tag, r :
    \/ Settle(tag, r, "ops") /\ Done(m, r)
    \/ Settle(tag, r, "faults") /\ m = 0 /\ Done(0, r)
    \/ Settle(tag, r, "kills") /\ m <= 1 /\ Done(0, r)

\* What a level above 0 says of the bounds on faults.
LEMMA ModeIs == Mode \in Nat /\ (MaxFaults # 0 => Mode = 0) /\ (MaxKills # 0 => Mode <= 1)
BY DEF Mode

\* A state that is good at a level is good at the lower ones.
LEMMA LowerGood ==
  ASSUME NEW m \in Nat, NEW k \in Nat, k <= m, NEW R, NEW s, Good(m, R, s)
  PROVE  Good(k, R, s)
BY DEF Good, Parts

\* An operation may start, with or without a fault to come.
LEMMA StartGood ==
  ASSUME NEW m \in Nat, Steady(m)
  PROVE  /\ Good(m, device.res, Start(-1, FALSE)) /\ Start(-1, FALSE).ok
         /\ \A j \in 0..MaxIo : \A b \in BOOLEAN :
              Good(0, device.res, Start(j, b)) /\ Start(j, b).ok
<1>1. Good(m, device.res, Start(-1, FALSE))
  BY DEF Steady
<1>2. ASSUME NEW j, NEW b
      PROVE  /\ DOMAIN Start(j, b) = StateFields /\ Start(j, b).fuel = j /\ Start(j, b).ok = TRUE
             /\ SameVolume(Start(-1, FALSE), Start(j, b))
  BY DEF Start, StateFields, SameVolume
<1>3. ASSUME NEW j \in 0..MaxIo, NEW b \in BOOLEAN
      PROVE  Good(0, device.res, Start(j, b)) /\ Start(j, b).ok
  <2>1. j \in Int
    BY Constants
  <2>2. /\ Start(j, b).fuel = j /\ Start(j, b).ok = TRUE
        /\ SameVolume(Start(-1, FALSE), Start(j, b))
    BY <1>2, Zenon
  <2>3. Good(0, device.res, Start(-1, FALSE))
    <3>1. 0 \in Nat /\ 0 <= m
      OBVIOUS
    <3> QED BY <1>1, <3>1, LowerGood, Zenon
  <2>4. 0 \in Nat /\ ~(0 >= 1)
    OBVIOUS
  <2>5. Start(j, b).ok \in BOOLEAN /\ Start(j, b).fuel \in Int
    BY <2>1, <2>2, Zenon
  <2>6. Good(0, device.res, Start(j, b))
    BY <2>3, <2>4, <2>5, <2>2, SameIsGood, Zenon
  <2> QED BY <2>2, <2>6, Zenon
<1>4. Start(-1, FALSE).ok
  BY <1>2, Zenon
<1> QED BY <1>1, <1>3, <1>4

\* An operation ends in a state of its level, or at level 0 after a fault.
LEMMA WriteEnds ==
  ASSUME NEW m \in Nat, m <= Mode, Steady(m), Counts, WriteFile
  PROVE  Ended(m)
<1>1. PICK p \in Parents, n \in Names, v \in Versions, k \in 0..MaxBlocks :
        \/ Settle("write", WriteAt(Start(-1, FALSE), p, n, v, k), "ops")
        \/ count.faults < MaxFaults /\ \E j \in 0..MaxIo :
             Settle("write", WriteAt(Start(j, FALSE), p, n, v, k), "faults")
        \/ count.kills < MaxKills /\ \E j \in 0..MaxIo :
             Settle("write", WriteAt(Start(j, TRUE), p, n, v, k), "kills")
  BY ZenonT(30) DEF WriteFile, Perform, WriteAt
<1>2. Done(m, WriteAt(Start(-1, FALSE), p, n, v, k))
  BY StartGood, WriteAtDone
<1>3. \A j \in 0..MaxIo : Done(0, WriteAt(Start(j, FALSE), p, n, v, k)) /\ Done(0, WriteAt(Start(j, TRUE), p, n, v, k))
  <2> SUFFICES ASSUME NEW j \in 0..MaxIo PROVE Done(0, WriteAt(Start(j, FALSE), p, n, v, k)) /\ Done(0, WriteAt(Start(j, TRUE), p, n, v, k))
    OBVIOUS
  <2>1. Good(0, device.res, Start(j, FALSE)) /\ Start(j, FALSE).ok
    BY StartGood
  <2>2. Good(0, device.res, Start(j, TRUE)) /\ Start(j, TRUE).ok
    BY StartGood
  <2> QED BY <2>1, <2>2, WriteAtDone
<1>4. count.faults < MaxFaults => m = 0
  BY ModeIs, Constants DEF Counts
<1>5. count.kills < MaxKills => m <= 1
  BY ModeIs, Constants DEF Counts
<1> QED BY <1>1, <1>2, <1>3, <1>4, <1>5 DEF Ended

\* The same of create_softlink.
LEMMA SoftlinkEnds ==
  ASSUME NEW m \in Nat, m <= Mode, Steady(m), Counts, CreateSoftlink
  PROVE  Ended(m)
<1>1. PICK p \in Parents, n \in Names, v \in Versions :
        \/ Settle("softlink", SoftlinkAt(Start(-1, FALSE), p, n, v), "ops")
        \/ count.faults < MaxFaults /\ \E j \in 0..MaxIo :
             Settle("softlink", SoftlinkAt(Start(j, FALSE), p, n, v), "faults")
        \/ count.kills < MaxKills /\ \E j \in 0..MaxIo :
             Settle("softlink", SoftlinkAt(Start(j, TRUE), p, n, v), "kills")
  BY Zenon DEF CreateSoftlink, Perform, SoftlinkAt
<1>2. Done(m, SoftlinkAt(Start(-1, FALSE), p, n, v))
  BY StartGood, SoftlinkAtDone
<1>3. \A j \in 0..MaxIo : Done(0, SoftlinkAt(Start(j, FALSE), p, n, v)) /\ Done(0, SoftlinkAt(Start(j, TRUE), p, n, v))
  <2> SUFFICES ASSUME NEW j \in 0..MaxIo PROVE Done(0, SoftlinkAt(Start(j, FALSE), p, n, v)) /\ Done(0, SoftlinkAt(Start(j, TRUE), p, n, v))
    OBVIOUS
  <2>1. Good(0, device.res, Start(j, FALSE)) /\ Start(j, FALSE).ok
    BY StartGood
  <2>2. Good(0, device.res, Start(j, TRUE)) /\ Start(j, TRUE).ok
    BY StartGood
  <2> QED BY <2>1, <2>2, SoftlinkAtDone
<1>4. count.faults < MaxFaults => m = 0
  BY ModeIs, Constants DEF Counts
<1>5. count.kills < MaxKills => m <= 1
  BY ModeIs, Constants DEF Counts
<1> QED BY <1>1, <1>2, <1>3, <1>4, <1>5 DEF Ended

\* The same of create_dir.
LEMMA CreateDirEnds ==
  ASSUME NEW m \in Nat, m <= Mode, Steady(m), Counts, CreateDir
  PROVE  Ended(m)
<1>1. PICK p \in Parents, n \in Names :
        \/ Settle("mkdir", CreateDirAt(Start(-1, FALSE), p, n), "ops")
        \/ count.faults < MaxFaults /\ \E j \in 0..MaxIo :
             Settle("mkdir", CreateDirAt(Start(j, FALSE), p, n), "faults")
        \/ count.kills < MaxKills /\ \E j \in 0..MaxIo :
             Settle("mkdir", CreateDirAt(Start(j, TRUE), p, n), "kills")
  BY Zenon DEF CreateDir, Perform, CreateDirAt
<1>2. Done(m, CreateDirAt(Start(-1, FALSE), p, n))
  BY StartGood, CreateDirAtDone
<1>3. \A j \in 0..MaxIo : Done(0, CreateDirAt(Start(j, FALSE), p, n)) /\ Done(0, CreateDirAt(Start(j, TRUE), p, n))
  <2> SUFFICES ASSUME NEW j \in 0..MaxIo PROVE Done(0, CreateDirAt(Start(j, FALSE), p, n)) /\ Done(0, CreateDirAt(Start(j, TRUE), p, n))
    OBVIOUS
  <2>1. Good(0, device.res, Start(j, FALSE)) /\ Start(j, FALSE).ok
    BY StartGood
  <2>2. Good(0, device.res, Start(j, TRUE)) /\ Start(j, TRUE).ok
    BY StartGood
  <2> QED BY <2>1, <2>2, CreateDirAtDone
<1>4. count.faults < MaxFaults => m = 0
  BY ModeIs, Constants DEF Counts
<1>5. count.kills < MaxKills => m <= 1
  BY ModeIs, Constants DEF Counts
<1> QED BY <1>1, <1>2, <1>3, <1>4, <1>5 DEF Ended

\* The same of delete.
LEMMA DeleteEnds ==
  ASSUME NEW m \in Nat, m <= Mode, Steady(m), Counts, Delete
  PROVE  Ended(m)
<1>1. PICK p \in Parents, n \in Names :
        \/ Settle("delete", DeleteAt(Start(-1, FALSE), p, n), "ops")
        \/ count.faults < MaxFaults /\ \E j \in 0..MaxIo :
             Settle("delete", DeleteAt(Start(j, FALSE), p, n), "faults")
        \/ count.kills < MaxKills /\ \E j \in 0..MaxIo :
             Settle("delete", DeleteAt(Start(j, TRUE), p, n), "kills")
  BY Zenon DEF Delete, Perform, DeleteAt
<1>2. Done(m, DeleteAt(Start(-1, FALSE), p, n))
  BY StartGood, DeleteAtDone
<1>3. \A j \in 0..MaxIo : Done(0, DeleteAt(Start(j, FALSE), p, n)) /\ Done(0, DeleteAt(Start(j, TRUE), p, n))
  <2> SUFFICES ASSUME NEW j \in 0..MaxIo PROVE Done(0, DeleteAt(Start(j, FALSE), p, n)) /\ Done(0, DeleteAt(Start(j, TRUE), p, n))
    OBVIOUS
  <2>1. Good(0, device.res, Start(j, FALSE)) /\ Start(j, FALSE).ok
    BY StartGood
  <2>2. Good(0, device.res, Start(j, TRUE)) /\ Start(j, TRUE).ok
    BY StartGood
  <2> QED BY <2>1, <2>2, DeleteAtDone
<1>4. count.faults < MaxFaults => m = 0
  BY ModeIs, Constants DEF Counts
<1>5. count.kills < MaxKills => m <= 1
  BY ModeIs, Constants DEF Counts
<1> QED BY <1>1, <1>2, <1>3, <1>4, <1>5 DEF Ended

\* The same of rename.
LEMMA RenameEnds ==
  ASSUME NEW m \in Nat, m <= Mode, Steady(m), Counts, Rename
  PROVE  Ended(m)
<1>1. PICK p \in Parents, q \in Parents, n \in Names, o \in Names :
        \/ Settle("rename", RenameAt(Start(-1, FALSE), p, q, n, o), "ops")
        \/ count.faults < MaxFaults /\ \E j \in 0..MaxIo :
             Settle("rename", RenameAt(Start(j, FALSE), p, q, n, o), "faults")
        \/ count.kills < MaxKills /\ \E j \in 0..MaxIo :
             Settle("rename", RenameAt(Start(j, TRUE), p, q, n, o), "kills")
  BY ZenonT(30) DEF Rename, Perform, RenameAt
<1>2. Done(m, RenameAt(Start(-1, FALSE), p, q, n, o))
  BY StartGood, RenameAtDone
<1>3. \A j \in 0..MaxIo : Done(0, RenameAt(Start(j, FALSE), p, q, n, o)) /\ Done(0, RenameAt(Start(j, TRUE), p, q, n, o))
  <2> SUFFICES ASSUME NEW j \in 0..MaxIo PROVE Done(0, RenameAt(Start(j, FALSE), p, q, n, o)) /\ Done(0, RenameAt(Start(j, TRUE), p, q, n, o))
    OBVIOUS
  <2>1. Good(0, device.res, Start(j, FALSE)) /\ Start(j, FALSE).ok
    BY StartGood
  <2>2. Good(0, device.res, Start(j, TRUE)) /\ Start(j, TRUE).ok
    BY StartGood
  <2> QED BY <2>1, <2>2, RenameAtDone
<1>4. count.faults < MaxFaults => m = 0
  BY ModeIs, Constants DEF Counts
<1>5. count.kills < MaxKills => m <= 1
  BY ModeIs, Constants DEF Counts
<1> QED BY <1>1, <1>2, <1>3, <1>4, <1>5 DEF Ended

\* The same of set_protection.
LEMMA ProtectEnds ==
  ASSUME NEW m \in Nat, m <= Mode, Steady(m), Counts, Protect
  PROVE  Ended(m)
<1>1. PICK p \in Parents, n \in Names :
        \/ Settle("protect", ProtectAt(Start(-1, FALSE), p, n), "ops")
        \/ count.faults < MaxFaults /\ \E j \in 0..MaxIo :
             Settle("protect", ProtectAt(Start(j, FALSE), p, n), "faults")
        \/ count.kills < MaxKills /\ \E j \in 0..MaxIo :
             Settle("protect", ProtectAt(Start(j, TRUE), p, n), "kills")
  BY Zenon DEF Protect, Perform, ProtectAt
<1>2. Done(m, ProtectAt(Start(-1, FALSE), p, n))
  BY StartGood, ProtectAtDone
<1>3. \A j \in 0..MaxIo : Done(0, ProtectAt(Start(j, FALSE), p, n)) /\ Done(0, ProtectAt(Start(j, TRUE), p, n))
  <2> SUFFICES ASSUME NEW j \in 0..MaxIo PROVE Done(0, ProtectAt(Start(j, FALSE), p, n)) /\ Done(0, ProtectAt(Start(j, TRUE), p, n))
    OBVIOUS
  <2>1. Good(0, device.res, Start(j, FALSE)) /\ Start(j, FALSE).ok
    BY StartGood
  <2>2. Good(0, device.res, Start(j, TRUE)) /\ Start(j, TRUE).ok
    BY StartGood
  <2> QED BY <2>1, <2>2, ProtectAtDone
<1>4. count.faults < MaxFaults => m = 0
  BY ModeIs, Constants DEF Counts
<1>5. count.kills < MaxKills => m <= 1
  BY ModeIs, Constants DEF Counts
<1> QED BY <1>1, <1>2, <1>3, <1>4, <1>5 DEF Ended

\* The same of undelete.
LEMMA UndeleteEnds ==
  ASSUME NEW m \in Nat, m <= Mode, Steady(m), Counts, UndeleteNamed
  PROVE  Ended(m)
<1>1. PICK k \in 1..DelDirSlots, p \in Parents, n \in Names :
        \/ Settle("undelete", UndeleteAt(Start(-1, FALSE), p, k, n), "ops")
        \/ count.faults < MaxFaults /\ \E j \in 0..MaxIo :
             Settle("undelete", UndeleteAt(Start(j, FALSE), p, k, n), "faults")
        \/ count.kills < MaxKills /\ \E j \in 0..MaxIo :
             Settle("undelete", UndeleteAt(Start(j, TRUE), p, k, n), "kills")
  BY Zenon DEF UndeleteNamed, UndeleteEntry, Perform, UndeleteAt
<1>2. Done(m, UndeleteAt(Start(-1, FALSE), p, k, n))
  BY StartGood, UndeleteAtDone
<1>3. \A j \in 0..MaxIo : Done(0, UndeleteAt(Start(j, FALSE), p, k, n)) /\ Done(0, UndeleteAt(Start(j, TRUE), p, k, n))
  <2> SUFFICES ASSUME NEW j \in 0..MaxIo PROVE Done(0, UndeleteAt(Start(j, FALSE), p, k, n)) /\ Done(0, UndeleteAt(Start(j, TRUE), p, k, n))
    OBVIOUS
  <2>1. Good(0, device.res, Start(j, FALSE)) /\ Start(j, FALSE).ok
    BY StartGood
  <2>2. Good(0, device.res, Start(j, TRUE)) /\ Start(j, TRUE).ok
    BY StartGood
  <2> QED BY <2>1, <2>2, UndeleteAtDone
<1>4. count.faults < MaxFaults => m = 0
  BY ModeIs, Constants DEF Counts
<1>5. count.kills < MaxKills => m <= 1
  BY ModeIs, Constants DEF Counts
<1> QED BY <1>1, <1>2, <1>3, <1>4, <1>5 DEF Ended

\* create_hardlink on the anode of a file that is there.
LEMMA HardlinkEnds ==
  ASSUME NEW m \in Nat, m <= Mode, Steady(m), Counts, Hardlink
  PROVE  Ended(m)
<1>1. PICK p \in Parents, n \in Names, o \in Names :
        /\ TypeAt(<<>>, o) = "file"
        /\ \/ Settle("link", HardlinkAt(Start(-1, FALSE), p, n, o), "ops")
           \/ count.faults < MaxFaults /\ \E j \in 0..MaxIo :
                Settle("link", HardlinkAt(Start(j, FALSE), p, n, o), "faults")
           \/ count.kills < MaxKills /\ \E j \in 0..MaxIo :
                Settle("link", HardlinkAt(Start(j, TRUE), p, n, o), "kills")
  BY ZenonT(30) DEF Hardlink, Perform, HardlinkAt
<1>2. Find(ListDir(device.res, RootDir).es, o) # 0
  <2> DEFINE l == ListDir(device.res, RootDir)
             found == EntryIn(l, o)
  <2>1. SplitPath(device.res, <<>>) = RootDir /\ RootDir # 0
    BY VolumeAssumption DEF SplitPath
  <2>2. PICK d : d = SplitPath(device.res, <<>>)
    OBVIOUS
  <2>a. PICK E : E = IF d = 0 THEN {} ELSE EntryIn(ListDir(device.res, d), o)
    OBVIOUS
  <2>b. TypeAt(<<>>, o) = IF E = {} THEN "" ELSE (CHOOSE e \in E : TRUE).type
    BY <2>2, <2>a, SMT DEF TypeAt
  <2>3. found # {}
    <3>1. E = found
      BY <2>1, <2>2, <2>a
    <3> HIDE DEF found
    <3> QED BY <1>1, <2>b, <3>1
  <2>4. found = {l.es[i] : i \in {Find(l.es, o)} \ {0}}
    BY DEF EntryIn
  <2> HIDE DEF found, l
  <2>5. Find(l.es, o) # 0
    BY <2>3, <2>4
  <2> QED BY <2>5 DEF l
<1>a. ASSUME NEW j, NEW b PROVE Find(ListDir(Start(j, b).res, RootDir).es, o) # 0
  <2>1. Start(j, b).res = device.res
    BY DEF Start
  <2> QED BY <1>2, <2>1
<1>3. Done(m, HardlinkAt(Start(-1, FALSE), p, n, o))
  <2>1. Find(ListDir(Start(-1, FALSE).res, RootDir).es, o) # 0
    BY <1>a, Zenon
  <2> QED BY <2>1, StartGood, HardlinkAtDone
<1>4. \A j \in 0..MaxIo : Done(0, HardlinkAt(Start(j, FALSE), p, n, o))
                          /\ Done(0, HardlinkAt(Start(j, TRUE), p, n, o))
  <2> SUFFICES ASSUME NEW j \in 0..MaxIo
               PROVE  Done(0, HardlinkAt(Start(j, FALSE), p, n, o))
                      /\ Done(0, HardlinkAt(Start(j, TRUE), p, n, o))
    OBVIOUS
  <2>1. Good(0, device.res, Start(j, FALSE)) /\ Good(0, device.res, Start(j, TRUE))
    BY StartGood
  <2>2. /\ Find(ListDir(Start(j, FALSE).res, RootDir).es, o) # 0
        /\ Find(ListDir(Start(j, TRUE).res, RootDir).es, o) # 0
    BY <1>a, Zenon
  <2> QED BY <2>1, <2>2, HardlinkAtDone
<1>5. count.faults < MaxFaults => m = 0
  BY ModeIs, Constants DEF Counts
<1>6. count.kills < MaxKills => m <= 1
  BY ModeIs, Constants DEF Counts
<1> QED BY <1>1, <1>3, <1>4, <1>5, <1>6 DEF Ended

\* Opening a volume: what is loaded from the bitmap blocks is in step with them.
LEMMA LoadedSync ==
  ASSUME NEW Q, DiskOK(Q)
  PROVE  LoadDataBitmap(Q) \subseteq DataBlocks /\ Sync(Q, <<>>, LoadDataBitmap(Q))
<1>1. PendOK(<<>>)
  BY DEF PendOK
<1>2. ASSUME NEW i \in 1..NumBitmaps
      PROVE  /\ View(Q, <<>>, i) = Q[i] /\ Q[i].free \subseteq BitmapRange(i)
             /\ Q[i].free \subseteq DataBlocks
  <2>1. i \in ResBlocks
    BY LayoutIs DEF Pinned
  <2>2. View(Q, <<>>, i) = Q[i]
    BY <1>1, <2>1, ViewIs DEF BlockAt
  <2>3. Fits(i, Q[i])
    BY <2>1 DEF DiskOK
  <2>4. Q[i].free \subseteq BitmapRange(i)
    BY <2>3 DEF Fits
  <2> QED BY <2>2, <2>4 DEF BitmapRange
<1>3. \A i, j \in 1..NumBitmaps : \A b \in BitmapRange(i) \cap BitmapRange(j) : i = j
  BY DEF BitmapRange
<1>4. LoadDataBitmap(Q) = UNION {Q[i].free : i \in 1..NumBitmaps}
  BY DEF LoadDataBitmap, BitmapBlk
<1>5. LoadDataBitmap(Q) \subseteq DataBlocks
  BY <1>2, <1>4
<1>6. ASSUME NEW i \in 1..NumBitmaps
      PROVE  Q[i].free = LoadDataBitmap(Q) \cap BitmapRange(i)
  BY <1>2, <1>3, <1>4
<1> QED BY <1>2, <1>5, <1>6 DEF Sync

\* The state from which the next operation starts.
Opened(dev, mm) ==
  [res |-> dev.res, root |-> dev.root, data |-> dev.data,
   pend |-> mm.pend, free |-> mm.free, rbm |-> mm.rbm,
   bfree |-> mm.bfree, rfree |-> mm.rfree,
   ok |-> TRUE, ret |-> 0, fuel |-> -1, sticky |-> FALSE, hit |-> FALSE]

\* After Writer::open.
LEMMA LoadedGood ==
  ASSUME NEW m \in Nat, NEW dev, DiskOK(dev.res), RootOK(dev.root),
         dev.data \in [DataBlocks -> DataVal],
         m >= 2 => dev.root.bfree >= Cardinality(LoadDataBitmap(dev.res))
                   /\ dev.root.rfree >= Cardinality(dev.root.rbm)
  PROVE  Good(m, dev.res, Opened(dev, Loaded(dev.res, dev.root)))
<1> DEFINE s == Opened(dev, Loaded(dev.res, dev.root))
           F == LoadDataBitmap(dev.res)
<1>1. /\ DOMAIN s = StateFields /\ s.res = dev.res /\ s.root = dev.root /\ s.data = dev.data
      /\ s.pend = <<>> /\ s.free = F /\ s.rbm = dev.root.rbm
      /\ s.bfree = dev.root.bfree /\ s.rfree = dev.root.rfree /\ s.fuel = -1 /\ s.ok = TRUE
  <2> HIDE DEF F
  <2> QED BY DEF Opened, Loaded, StateFields, LoadReservedBitmap, F
<1>2. F \subseteq DataBlocks /\ Sync(dev.res, <<>>, F)
  BY LoadedSync
<1>3. PendOK(<<>>)
  BY DEF PendOK
<1>4. m >= 2 => dev.root.bfree >= Cardinality(F)
  OBVIOUS
<1> HIDE DEF s
<1>a. s.fuel \in Int /\ s.fuel < 0 /\ s.ok \in BOOLEAN
  <2>1. PICK n : n = s.fuel
    OBVIOUS
  <2>2. n = -1
    BY <1>1, <2>1, Zenon
  <2>3. n \in Int /\ n < 0
    BY <2>2
  <2>4. s.ok \in BOOLEAN
    BY <1>1, Zenon
  <2> QED BY <2>1, <2>3, <2>4, Zenon
<1>b. dev.root.bfree \in Int /\ dev.root.rfree \in Int /\ dev.root.rbm \subseteq Spare
  BY DEF RootOK
<1>c. m >= 2 => Counted(s.res, s.root, s.free, s.rbm, s.bfree, s.rfree)
  BY <1>1 DEF Counted
<1> HIDE DEF F
<1>5. Good(m, dev.res, s)
  BY <1>1, <1>2, <1>3, <1>a, <1>b, <1>c DEF Good, Parts
<1> QED BY <1>5 DEF s

\* After an operation that ran to its end or into an error.
LEMMA KeptGood ==
  ASSUME NEW m \in Nat, NEW r, Done(m, r), m >= 1 \/ m = 0,
         NEW dev, dev.res = r.res, dev.root = r.root, dev.data = r.data
  PROVE  /\ Good(m, dev.res, Opened(dev, Kept(r)))
         /\ m >= 1 /\ r.ok => Kept(r) = Loaded(dev.res, dev.root)
<1> DEFINE s == Opened(dev, Kept(r))
<1>1. /\ DOMAIN s = StateFields /\ s.res = r.res /\ s.root = r.root /\ s.data = r.data
      /\ s.pend = r.pend /\ s.free = r.free /\ s.rbm = r.rbm
      /\ s.bfree = r.bfree /\ s.rfree = r.rfree /\ s.fuel = -1 /\ s.ok = TRUE
  BY DEF Opened, Kept, StateFields
<1>2. Good(m, r.res, r) /\ (r.ok => Committed(r))
  BY DEF Done
<1> HIDE DEF s
<1>a. s.fuel \in Int /\ s.fuel < 0 /\ s.ok \in BOOLEAN
  <2>1. PICK n : n = s.fuel
    OBVIOUS
  <2>2. n = -1
    BY <1>1, <2>1, Zenon
  <2>3. n \in Int /\ n < 0
    BY <2>2
  <2>4. s.ok \in BOOLEAN
    BY <1>1, Zenon
  <2> QED BY <2>1, <2>3, <2>4, Zenon
<1>3. Good(m, r.res, s)
  BY <1>1, <1>2, <1>a DEF Good, Parts
<1>4. ASSUME m >= 1, r.ok PROVE Kept(r) = Loaded(dev.res, dev.root)
  <2>1. r.pend = <<>> /\ r.root = [bfree |-> r.bfree, rfree |-> r.rfree, rbm |-> r.rbm]
    BY <1>2, <1>4 DEF Committed
  <2>2. r.free \subseteq DataBlocks /\ Sync(r.res, r.pend, r.free)
    BY <1>2, <1>4 DEF Good, Parts
  <2>3. LoadDataBitmap(r.res) = r.free
    BY <2>1, <2>2, BitmapLoads
  <2>4. r.root.bfree = r.bfree /\ r.root.rfree = r.rfree /\ r.root.rbm = r.rbm
    BY <2>1
  <2> QED BY <2>1, <2>3, <2>4 DEF Kept, Loaded, LoadReservedBitmap
<1> QED BY <1>3, <1>4 DEF s

\* The invariant after an operation.
LEMMA EndedSteady ==
  ASSUME NEW m \in Nat, Counts, Ended(m)
  PROVE  Steady(m)' /\ Counts'
<1>1. PICK tag, r, kind :
        /\ Settle(tag, r, kind)
        /\ \/ kind = "ops" /\ Done(m, r)
           \/ kind = "faults" /\ m = 0 /\ Done(0, r)
           \/ kind = "kills" /\ m <= 1 /\ Done(0, r)
  BY DEF Ended
<1> DEFINE dev == [res |-> r.res, root |-> r.root, data |-> r.data]
<1>2. /\ device' = dev /\ last' = [op |-> tag, ok |-> r.ok]
      /\ mem' = IF kind = "kills" THEN Loaded(r.res, r.root) ELSE Kept(r)
      /\ count' = [count EXCEPT ![kind] = @ + 1]
  BY <1>1 DEF Settle
<1>3. Counts'
  BY <1>1, <1>2 DEF Counts
<1>4. /\ dev.res = r.res /\ dev.root = r.root /\ dev.data = r.data
      /\ DOMAIN dev = {"res", "root", "data"}
  OBVIOUS
<1> HIDE DEF dev
<1>5. Start(-1, FALSE)' = Opened(device', mem')
  BY DEF Start, Opened
<1>6. last'.ok = r.ok
  BY <1>2
<1>7. CASE kind = "kills"
  <2>1. mem' = Loaded(dev.res, dev.root) /\ m <= 1 /\ Good(0, r.res, r)
    BY <1>1, <1>2, <1>4, <1>7 DEF Done
  <2>2. DiskOK(dev.res) /\ RootOK(dev.root) /\ dev.data \in [DataBlocks -> DataVal] /\ ~(m >= 2)
    BY <1>4, <2>1 DEF Good, Parts
  <2>3. Good(m, dev.res, Opened(dev, Loaded(dev.res, dev.root)))
    BY <2>2, LoadedGood
  <2>4. Good(m, device.res, Start(-1, FALSE))'
    BY <1>2, <1>5, <2>1, <2>3
  <2> QED BY <1>2, <1>3, <1>4, <2>1, <2>4 DEF Steady
<1>8. CASE kind # "kills"
  <2>1. mem' = Kept(r) /\ Done(m, r)
    BY <1>1, <1>2, <1>8
  <2>2. /\ Good(m, dev.res, Opened(dev, Kept(r)))
        /\ m >= 1 /\ r.ok => Kept(r) = Loaded(dev.res, dev.root)
    BY <1>4, <2>1, KeptGood
  <2>3. Good(m, device.res, Start(-1, FALSE))'
    BY <1>2, <1>5, <2>1, <2>2
  <2> QED BY <1>2, <1>3, <1>4, <1>6, <2>1, <2>2, <2>3 DEF Steady
<1> QED BY <1>7, <1>8

\* The invariant after the volume is opened again.
LEMMA ReopenSteady ==
  ASSUME NEW m \in Nat, Steady(m), Counts, Reopen
  PROVE  Steady(m)' /\ Counts'
<1>1. /\ device' = device /\ mem' = Loaded(device.res, device.root) /\ count' = count
      /\ last' = [op |-> "open", ok |-> TRUE]
  BY DEF Reopen
<1>2. Start(-1, FALSE)' = Opened(device', mem')
  BY DEF Start, Opened
<1>3. Good(m, device.res, Start(-1, FALSE))
  BY DEF Steady
<1>4. /\ DiskOK(device.res) /\ RootOK(device.root) /\ device.data \in [DataBlocks -> DataVal]
      /\ m >= 2 => device.root.bfree >= Cardinality(LoadDataBitmap(device.res))
                   /\ device.root.rfree >= Cardinality(device.root.rbm)
  <2>1. Start(-1, FALSE).root = device.root /\ Start(-1, FALSE).data = device.data
    BY DEF Start
  <2> QED BY <1>3, <2>1 DEF Good, Parts, Counted
<1>5. Good(m, device.res, Opened(device, Loaded(device.res, device.root)))
  BY <1>4, LoadedGood
<1>6. Good(m, device.res, Start(-1, FALSE))'
  BY <1>1, <1>2, <1>5
<1> QED BY <1>1, <1>6 DEF Steady, Counts

\* Every step of the writer keeps the invariant, at any level it may be on.
LEMMA NextSteady ==
  ASSUME NEW m \in Nat, m <= Mode, Steady(m), Counts, [Next]_vars
  PROVE  Steady(m)' /\ Counts'
<1>1. CASE Reopen
  BY <1>1, ReopenSteady
<1>2. CASE UNCHANGED vars
  BY <1>2 DEF vars, Steady, Counts, Start, Good
<1>3. CASE WriteFile \/ CreateSoftlink \/ CreateDir \/ Delete \/ Rename \/ Protect
           \/ UndeleteNamed \/ Hardlink
  <2>1. Ended(m)
    BY <1>3, WriteEnds, SoftlinkEnds, CreateDirEnds, DeleteEnds, RenameEnds, ProtectEnds,
       UndeleteEnds, HardlinkEnds
  <2> QED BY <2>1, EndedSteady
<1> QED BY <1>1, <1>2, <1>3 DEF Next

\* A formatted volume: every block holds what it may hold.
LEMMA FormattedFits ==
  ASSUME NEW b \in ResBlocks
  PROVE  Fits(b, FormattedRes[b])
<1> DEFINE anodes == [o \in 0..(AnodesPerBlock - 1) |->
                        IF o = RootDir THEN [cs |-> 1, bn |-> RootDirBlk, nx |-> EOF] ELSE NoAnode]
           index == [q \in 0..(IndexPerBlock - 1) |-> IF q = 0 THEN FirstAnodeBlk ELSE 0]
           super == [q \in 0..(IndexPerBlock - 1) |-> IF q = 0 THEN IndexBlk ELSE 0]
           bins == [i \in 1..DelDirSlots |-> NoSlot]
           c == FormattedRes[b]
<1>1. c = IF b = FirstAnodeBlk THEN [k |-> "AB", slots |-> anodes]
          ELSE IF b = IndexBlk THEN [k |-> "IB", ptr |-> index]
          ELSE IF b = RootDirBlk THEN [k |-> "DB", es |-> <<>>]
          ELSE IF b \in {BitmapBlk(i) : i \in 1..NumBitmaps}
            THEN [k |-> "BM", free |-> BitmapRange(b - BitmapBlk(0))]
          ELSE IF Large /\ b = SuperBlk THEN [k |-> "SB", ptr |-> super]
          ELSE IF b \in FixedBlocks THEN [k |-> "DD", slots |-> bins]
          ELSE Unused
  BY DEF FormattedRes
<1>2. /\ NumBitmaps \in Nat \ {0} /\ FirstAnodeBlk \in Spare /\ RootDirBlk \in Spare
      /\ FirstAnodeBlk \in Nat /\ IndexBlk \in Nat
  BY BitmapOfIs, LayoutIs DEF FirstAnodeBlk, IndexBlk
<1>3. [k |-> "AB", slots |-> anodes] \in AnodeBlocks
  <2>1. NoAnode \in Slot
    BY DEF NoAnode, Slot
  <2>2. [cs |-> 1, bn |-> RootDirBlk, nx |-> EOF] \in Slot
    <3>1. RootDirBlk \in Nat
      BY <1>2 DEF RootDirBlk
    <3> QED BY <1>2, <3>1 DEF Slot, EOF
  <2>3. anodes \in [0..(AnodesPerBlock - 1) -> Slot]
    BY <2>1, <2>2
  <2> HIDE DEF anodes
  <2> QED BY <2>3 DEF AnodeBlocks
<1>4. [k |-> "IB", ptr |-> index] \in IndexBlocks
  BY <1>2 DEF IndexBlocks
<1>5. [k |-> "SB", ptr |-> super] \in SuperBlocks
  BY DEF SuperBlocks
<1>6. [k |-> "DB", es |-> <<>>] \in DirBlocks
  <2> DEFINE X == Entries
  <2>1. <<>> \in Seq(X)
    <3> HIDE DEF X
    <3> QED OBVIOUS
  <2>2. <<>> \in Seq(Entries)
    BY <2>1
  <2> QED BY <2>2 DEF DirBlocks
<1>7. [k |-> "DD", slots |-> bins] \in DelDirBlocks
  <2>1. NoSlot \in [anode : Nat, size : Nat, name : Names \cup {""}]
    BY DEF NoSlot
  <2> QED BY <2>1 DEF DelDirBlocks
<1>8. b \in 1..NumBitmaps =>
        /\ [k |-> "BM", free |-> BitmapRange(b - BitmapBlk(0))] \in BitmapBlocks
        /\ b - BitmapBlk(0) = b
  <2>1. b \in 1..NumBitmaps => b - BitmapBlk(0) = b
    BY <1>2 DEF BitmapBlk
  <2>2. \A i : BitmapRange(i) \in SUBSET DataBlocks
    BY DEF BitmapRange
  <2> QED BY <2>1, <2>2 DEF BitmapBlocks
<1>9. {BitmapBlk(i) : i \in 1..NumBitmaps} = 1..NumBitmaps
  BY DEF BitmapBlk
<1>10. /\ FirstAnodeBlk # IndexBlk /\ RootDirBlk # IndexBlk
       /\ FirstAnodeBlk \notin 1..NumBitmaps /\ RootDirBlk \notin 1..NumBitmaps
       /\ b \in Spare => b \notin 1..NumBitmaps /\ b # IndexBlk /\ (Large => b # SuperBlk)
                         /\ (DelDirSlots > 0 => b # DelDirBlk)
       /\ FirstAnodeBlk # RootDirBlk
  <2>1. \A x \in Spare : /\ x \notin 1..NumBitmaps /\ x # IndexBlk /\ (Large => x # SuperBlk)
                         /\ (DelDirSlots > 0 => x # DelDirBlk)
    BY DEF Spare, Pinned
  <2> QED BY <1>2, <2>1 DEF FirstAnodeBlk, RootDirBlk
<1>11. b \in Spare /\ b # FirstAnodeBlk /\ b # RootDirBlk => b \notin FixedBlocks
  BY <1>2, Constants DEF Spare, Pinned, FixedBlocks, SuperBlk, FirstAnodeBlk, RootDirBlk, IndexBlk, DelDirBlk
<1>12. DelDirSlots > 0 => DelDirBlk \in FixedBlocks
  BY <1>2, Constants DEF FixedBlocks, SuperBlk, DelDirBlk
<1> HIDE DEF anodes, index, super, bins
<1>13. c = IF b = FirstAnodeBlk THEN [k |-> "AB", slots |-> anodes]
          ELSE IF b = IndexBlk THEN [k |-> "IB", ptr |-> index]
          ELSE IF b = RootDirBlk THEN [k |-> "DB", es |-> <<>>]
          ELSE IF b \in 1..NumBitmaps THEN [k |-> "BM", free |-> BitmapRange(b - BitmapBlk(0))]
          ELSE IF Large /\ b = SuperBlk THEN [k |-> "SB", ptr |-> super]
          ELSE IF b \in FixedBlocks THEN [k |-> "DD", slots |-> bins]
          ELSE Unused
  BY <1>1, <1>9
<1> HIDE DEF c
<1>14. b \in 1..NumBitmaps => c \in BitmapBlocks /\ c.free \subseteq BitmapRange(b)
  BY <1>8, <1>10, <1>13, LayoutIs
<1>15. b = IndexBlk => c \in IndexBlocks
  BY <1>4, <1>10, <1>13
<1>16. DelDirSlots > 0 /\ b = DelDirBlk => c \in DelDirBlocks
  <2>1. DelDirSlots > 0 => DelDirBlk \notin Spare
    BY DEF Spare, Pinned
  <2> QED BY <1>2, <1>7, <1>12, <1>13, <2>1, LayoutIs
<1>17. Large /\ b = SuperBlk => c \in SuperBlocks
  <2>1. Large => SuperBlk \notin Spare
    BY DEF Spare, Pinned
  <2> QED BY <1>2, <1>5, <1>13, <2>1, LayoutIs
<1>18. b \in Spare => c \in SpareBlocks
  BY <1>3, <1>6, <1>10, <1>11, <1>13 DEF SpareBlocks
<1>19. Fits(b, c)
  BY <1>14, <1>15, <1>16, <1>17, <1>18 DEF Fits
<1> QED BY <1>19 DEF c

\* Its counters are those of its bitmaps.
LEMMA FormattedGood ==
  /\ DiskOK(FormattedRes) /\ RootOK(FormattedRoot)
  /\ FormattedRoot.bfree >= Cardinality(LoadDataBitmap(FormattedRes))
  /\ FormattedRoot.rfree >= Cardinality(FormattedRoot.rbm)
<1>1. DiskOK(FormattedRes)
  <2>1. FormattedRes = [b \in ResBlocks |-> FormattedRes[b]]
    BY DEF FormattedRes
  <2> QED BY <2>1, FormattedFits DEF DiskOK
<1>2. NumReserved \in Nat \ {0} /\ NumData \in Nat \ {0} /\ NumBitmaps \in Nat \ {0}
  BY Constants, BitmapOfIs
<1>3. /\ FormattedRoot.bfree = NumData /\ FormattedRoot.rbm = ResBlocks \ FixedBlocks
      /\ FormattedRoot.rfree = NumReserved - Cardinality(FixedBlocks)
  BY DEF FormattedRoot
<1>4. IsFiniteSet(ResBlocks) /\ Cardinality(ResBlocks) = NumReserved
  BY <1>2, FS_Interval DEF ResBlocks
<1>5. IsFiniteSet(FixedBlocks) /\ Cardinality(FixedBlocks) \in Nat
  BY <1>4, LayoutAssumption, FS_Subset, FS_CardinalityType
<1>6. ResBlocks \cap FixedBlocks = FixedBlocks
  BY LayoutAssumption
<1>7. Cardinality(ResBlocks \ FixedBlocks) = NumReserved - Cardinality(FixedBlocks)
  BY <1>4, <1>6, FS_Difference
<1>8. ResBlocks \ FixedBlocks \subseteq Spare
  <2>1. Pinned \subseteq FixedBlocks
    BY <1>2, Constants DEF Pinned, FixedBlocks, SuperBlk, IndexBlk, DelDirBlk
  <2> QED BY <2>1 DEF Spare
<1>9. RootOK(FormattedRoot)
  BY <1>2, <1>3, <1>5, <1>8 DEF RootOK
<1>10. Cardinality(LoadDataBitmap(FormattedRes)) <= NumData
  <2>1. LoadDataBitmap(FormattedRes) \subseteq DataBlocks
    BY <1>1, LoadedSync
  <2>2. IsFiniteSet(DataBlocks) /\ Cardinality(DataBlocks) = NumData
    BY <1>2, FS_Interval DEF DataBlocks, BitmapStart
  <2>3. Cardinality(LoadDataBitmap(FormattedRes)) <= Cardinality(DataBlocks)
    BY <2>1, <2>2, FS_Subset
  <2> QED BY <2>2, <2>3
<1>11. Cardinality(LoadDataBitmap(FormattedRes)) \in Nat
  <2>1. LoadDataBitmap(FormattedRes) \subseteq DataBlocks
    BY <1>1, LoadedSync
  <2> QED BY <2>1, SpareFinite, FS_Subset, FS_CardinalityType
<1> QED BY <1>1, <1>2, <1>3, <1>5, <1>7, <1>9, <1>10, <1>11

\* The invariant on a formatted volume.
LEMMA InitSteady ==
  ASSUME NEW m \in Nat, Init
  PROVE  Steady(m) /\ Counts
<1> DEFINE dev == [res |-> FormattedRes, root |-> FormattedRoot,
                   data |-> [b \in DataBlocks |-> <<0, 0>>]]
<1>1. device = dev /\ mem = Loaded(FormattedRes, FormattedRoot)
      /\ count = [ops |-> 0, faults |-> 0, kills |-> 0]
  BY DEF Init
<1>2. dev.res = FormattedRes /\ dev.root = FormattedRoot
      /\ dev.data = [b \in DataBlocks |-> <<0, 0>>]
      /\ DOMAIN dev = {"res", "root", "data"}
  OBVIOUS
<1>3. dev.data \in [DataBlocks -> DataVal]
  BY <1>2 DEF DataVal
<1> HIDE DEF dev
<1>4. Good(m, dev.res, Opened(dev, Loaded(dev.res, dev.root)))
  BY <1>2, <1>3, FormattedGood, LoadedGood
<1>5. Start(-1, FALSE) = Opened(device, mem)
  BY DEF Start, Opened
<1>6. Good(m, device.res, Start(-1, FALSE)) /\ mem = Loaded(device.res, device.root)
  BY <1>1, <1>2, <1>4, <1>5
<1>7. Counts
  BY <1>1 DEF Counts
<1>8. DOMAIN device = {"res", "root", "data"}
  BY <1>1, <1>2
<1> QED BY <1>6, <1>7, <1>8 DEF Steady

-----------------------------------------------------------------------------
(* The theorems *)

\* Inv is an invariant, for every value of the constants.
THEOREM Invariance == Spec => []Inv
<1>1. Init => Inv
  BY InitSteady, ModeIs DEF Inv
<1>2. Inv /\ [Next]_vars => Inv'
  <2> SUFFICES ASSUME Inv, [Next]_vars PROVE Inv'
    OBVIOUS
  <2>1. Mode \in Nat /\ Mode <= Mode
    BY ModeIs
  <2>2. Steady(Mode)' /\ Counts'
    BY <2>1, NextSteady DEF Inv
  <2> QED BY <2>2 DEF Inv
<1> QED BY <1>1, <1>2, PTL DEF Spec

\* What the invariant says of the variables.
LEMMA SteadyIs ==
  ASSUME NEW m \in Nat, Steady(m)
  PROVE  /\ DiskOK(device.res) /\ RootOK(device.root) /\ PendOK(mem.pend)
         /\ device.data \in [DataBlocks -> DataVal]
         /\ mem.free \subseteq DataBlocks /\ mem.rbm \subseteq Spare
         /\ mem.bfree \in Int /\ mem.rfree \in Int
         /\ m >= 2 => mem.bfree >= Cardinality(mem.free) /\ mem.rfree >= Cardinality(mem.rbm)
<1>1. Good(m, device.res, Start(-1, FALSE))
  BY DEF Steady
<1> DEFINE s == Start(-1, FALSE)
<1>2. /\ s.root = device.root /\ s.data = device.data /\ s.pend = mem.pend /\ s.free = mem.free
      /\ s.rbm = mem.rbm /\ s.bfree = mem.bfree /\ s.rfree = mem.rfree
  BY DEF Start
<1> HIDE DEF s
<1> QED BY <1>1, <1>2 DEF Good, Parts, Counted, s

\* With I/O errors and kills anywhere in any operation: every block of the
\* bitmap, the index, the deldir and the superindex keeps its kind, every other
\* reserved block holds an anode, index or directory block or none, no anode
\* covers one of the former or leaves the volume, and neither bitmap has a bit
\* outside its area (the alloc and free functions of writer.rs).
THEOREM WriterTyped == Spec => []TypeOK
<1>1. Inv => TypeOK
  BY SteadyIs, ModeIs DEF Inv, TypeOK
<1> QED BY <1>1, Invariance, PTL

\* Without I/O errors an operation that returned Ok has committed everything,
\* also when the process is killed in others: update_rootblock wrote every
\* pending block, the root cluster and thus both bitmaps and counters.
THEOREM WriterDurable ==
  ASSUME MaxFaults = 0
  PROVE  Spec => []DurableOnOk
<1>1. Inv => DurableOnOk
  <2>1. Mode >= 1
    BY DEF Mode
  <2> QED BY <2>1 DEF Inv, Steady, DurableOnOk
<1> QED BY <1>1, Invariance, PTL

\* Without I/O errors and kills blocksfree is never below the number of set
\* bits, even after a double free or a failed allocation, and reserved_free is
\* never negative: "blocksfree -= count" does not wrap (alloc_data_blocks).
THEOREM WriterNoWrap ==
  ASSUME MaxFaults = 0, MaxKills = 0
  PROVE  Spec => []FreeCountNoWrap
<1>1. Inv => FreeCountNoWrap
  <2> SUFFICES ASSUME Inv PROVE FreeCountNoWrap
    OBVIOUS
  <2>1. Mode = 2
    BY DEF Mode
  <2>2. /\ mem.bfree >= Cardinality(mem.free) /\ mem.rfree >= Cardinality(mem.rbm)
        /\ mem.rbm \subseteq Spare /\ mem.rfree \in Int
    BY <2>1, SteadyIs DEF Inv
  <2>3. Cardinality(mem.rbm) \in Nat
    BY <2>2, SpareFinite, FS_Subset, FS_CardinalityType
  <2> QED BY <2>2, <2>3 DEF FreeCountNoWrap
<1> QED BY <1>1, Invariance, PTL

=============================================================================
