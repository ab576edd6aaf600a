---------------------------- MODULE FormatProofs ----------------------------
(***************************************************************************)
(* What mkfs promises, proved for every number of sectors from 64 to       *)
(* 2^31 - 1: a refused format leaves the disk alone and none runs out of   *)
(* reserved blocks (FormatRefusesCleanly), the parts of the volume fit     *)
(* (FormatLaysOutFittingVolume), its bitmap marks exactly the data blocks  *)
(* (FormatMakesBitmapCoverData) and its root directory is found            *)
(* (FormatMakesRootDirReadable).                                           *)
(*                                                                         *)
(* The argument has three parts.  The geometry: calc_num_reserved is a     *)
(* staircase with 24 steps for the sizes in question, and on each the      *)
(* roundings are linear arithmetic (Sizing).  The writes: each phase       *)
(* determines the disk (FormatInv).  The readers: the finished disk,       *)
(* looked at through the operators a mount uses.                           *)
(***************************************************************************)
EXTENDS Layout, FiniteSetTheorems, TLAPS

(* calc_num_reserved *)

\* The values of the variable "taken" round after round.
TakenTable == <<32, 60, 112, 210, 393, 736, 1380, 2587, 4850, 9093, 14776,
                24011, 39017, 63402, 103028, 167420, 272057,
                442092, 718399, 1167398, 1897021, 3082659>>

\* The recursive function exists: here it is.
LEMMA TakenExists ==
  \E f : f = [j \in Doublings |->
               IF j = 0 THEN 32 ELSE Grown(f[j - 1], IF j > 9 THEN 10 ELSE 14)]
<1> DEFINE f == [j \in Doublings |-> TakenTable[j + 1]]
<1>1. ASSUME NEW j \in Doublings
      PROVE  f[j] = IF j = 0 THEN 32 ELSE Grown(f[j - 1], IF j > 9 THEN 10 ELSE 14)
  BY DEF Doublings, TakenTable, Grown
<1> QED BY <1>1

\* So it satisfies its equation.
LEMMA TakenStep ==
  \A j \in Doublings :
    Taken[j] = IF j = 0 THEN 32 ELSE Grown(Taken[j - 1], IF j > 9 THEN 10 ELSE 14)
<1>1. Taken = [j \in Doublings |->
               IF j = 0 THEN 32 ELSE Grown(Taken[j - 1], IF j > 9 THEN 10 ELSE 14)]
  BY TakenExists DEF Taken
<1> QED BY <1>1

\* The value of each round.
LEMMA TakenValues == \A j \in Doublings : Taken[j] = TakenTable[j + 1]
BY TakenStep DEF Doublings, TakenTable, Grown

\* The bounds between which the number of doublings does not change.
Limit == [j \in 0..20 |-> 1024 * 2^j]

\* The limits as numbers.
LEMMA LimitValues ==
  /\ Limit[0] = 1024 /\ Limit[1] = 2048 /\ Limit[2] = 4096 /\ Limit[3] = 8192
  /\ Limit[4] = 16384 /\ Limit[5] = 32768 /\ Limit[6] = 65536 /\ Limit[7] = 131072
  /\ Limit[8] = 262144 /\ Limit[9] = 524288 /\ Limit[10] = 1048576 /\ Limit[11] = 2097152
  /\ Limit[12] = 4194304 /\ Limit[13] = 8388608 /\ Limit[14] = 16777216 /\ Limit[15] = 33554432
  /\ Limit[16] = 67108864 /\ Limit[17] = 134217728 /\ Limit[18] = 268435456 /\ Limit[19] = 536870912
  /\ Limit[20] = 1073741824
BY DEF Limit

\* They increase.
LEMMA LimitsIncrease ==
  Limit \in [0..20 -> Nat] /\ \A i, j \in 0..20 : i < j => Limit[i] < Limit[j]
<1>1. DOMAIN Limit = 0..20 /\ Limit = [j \in 0..20 |-> Limit[j]]
  BY DEF Limit
<1> QED BY <1>1, LimitValues

\* The loop of calc_num_reserved goes round once for every limit below n.
LEMMA RoundsBetween ==
  ASSUME NEW n \in Nat, NEW r \in 0..21,
         r > 0 => Limit[r - 1] < n, r < 21 => n <= Limit[r]
  PROVE  Rounds(n) = r
<1>1. {j \in 0..20 : 1024 * 2^j < n} = {j \in 0..20 : Limit[j] < n}
  BY DEF Limit
<1>2. ASSUME NEW j \in 0..20 PROVE Limit[j] < n <=> j < r
  <2>1. j < r => j = r - 1 \/ Limit[j] < Limit[r - 1]
    BY LimitsIncrease
  <2>2. j >= r => j = r \/ Limit[r] < Limit[j]
    BY LimitsIncrease
  <2>3. Limit[j] \in Nat /\ (r < 21 => Limit[r] \in Nat) /\ (r > 0 => Limit[r - 1] \in Nat)
    BY LimitsIncrease
  <2> QED BY <2>1, <2>2, <2>3
<1>3. {j \in 0..20 : Limit[j] < n} = 0..(r - 1)
  BY <1>2
<1>4. Cardinality(0..(r - 1)) = r
  BY FS_Interval
<1> QED BY <1>1, <1>3, <1>4 DEF Rounds

\* What the code computes for a disk of n sectors.
Row(n, rbs, num, resbm) ==
  /\ ResBlockSize(n) = rbs /\ CalcNumReserved(n, rbs) = num
  /\ DivCeil(1024 * BitmapKilobytes(num), rbs) = resbm

\* The data area that remains, the bitmap blocks and their index blocks.
DataOf(n, rbs, num) == n - ((rbs \div SectorSize) * num + FirstReserved)
BitmapsOf(n, rbs, num) == DivCeil(DataOf(n, rbs, num), (rbs \div 4 - 3) * 32)
IndexesOf(n, rbs, num) == DivCeil(BitmapsOf(n, rbs, num), rbs \div 4 - 3)

\* There is room for them.
Roomy(n, rbs, num, resbm) ==
  /\ 1 + BitmapsOf(n, rbs, num) + IndexesOf(n, rbs, num) + 3 <= num - resbm
  /\ num <= 32 * ((resbm * rbs - SectorSize - 12) \div 4)
  /\ IndexesOf(n, rbs, num) <= MaxBitmapIndex + 1
  /\ n <= MaxSmallDisk => IndexesOf(n, rbs, num) <= MaxSmallBitmapIndex + 1

\* Its result, where neither the lower nor the upper bound cuts in.
LEMMA CalcFromRounds ==
  ASSUME NEW n \in Nat, NEW rbs \in {1024, 2048, 4096}, NEW r \in Doublings, Rounds(n) = r,
         NEW t \in Nat, t = TakenTable[r + 1] \div (rbs \div 1024), t > 32, t < MaxNumReserved
  PROVE  CalcNumReserved(n, rbs) = 32 * ((t + 30) \div 32)
<1>1. Taken[Rounds(n)] \div (rbs \div 1024) = t
  BY TakenValues
<1>2. t - 1 > 0 /\ t - 1 < MaxNumReserved
  BY SMT DEF MaxNumReserved
<1> QED BY <1>1, <1>2 DEF CalcNumReserved, AtMost, AtLeast, DivCeil, MaxNumReserved

\* The staircase: for every size the reserved area has room for everything
\* that format puts there, and the indexes reach.
LEMMA Sizing ==
  ASSUME NEW n \in Nat, 64 <= n, n <= 2147483647
  PROVE  \E rbs \in {1024, 2048, 4096}, num, resbm \in Nat :
           Row(n, rbs, num, resbm) /\ Roomy(n, rbs, num, resbm)
<1> USE DEF Doublings

<1>1. CASE n <= 1024
  <2>1. Rounds(n) = 0
    BY <1>1, RoundsBetween, LimitValues
  <2>2. ResBlockSize(n) = 1024
    BY <1>1 DEF ResBlockSize, MaxDisk1K, MaxDisk2K, MaxBitmapIndex
  <2>3. CalcNumReserved(n, 1024) = 32
    BY <2>1, TakenValues DEF TakenTable, CalcNumReserved, AtMost, AtLeast, DivCeil, MaxNumReserved
  <2>4. DivCeil(1024 * BitmapKilobytes(32), 1024) = 1
    BY DEF DivCeil, BitmapKilobytes, AtLeast
  <2>5. Roomy(n, 1024, 32, 1)
    BY <1>1 DEF Roomy, BitmapsOf, IndexesOf, DataOf, DivCeil, SectorSize, FirstReserved,
             MaxBitmapIndex, MaxSmallBitmapIndex, MaxSmallDisk
  <2> QED BY <2>2, <2>3, <2>4, <2>5 DEF Row
<1>2. CASE 1024 < n /\ n <= 2048
  <2>1. Rounds(n) = 1
    BY <1>2, RoundsBetween, LimitValues
  <2>2. ResBlockSize(n) = 1024
    BY <1>2 DEF ResBlockSize, MaxDisk1K, MaxDisk2K, MaxBitmapIndex
  <2>3. CalcNumReserved(n, 1024) = 64
    <3>1. TakenTable[1 + 1] \div (1024 \div 1024) = 60
      BY DEF TakenTable
    <3> QED BY <2>1, <3>1, CalcFromRounds DEF MaxNumReserved
  <2>4. DivCeil(1024 * BitmapKilobytes(64), 1024) = 1
    BY DEF DivCeil, BitmapKilobytes, AtLeast
  <2>5. Roomy(n, 1024, 64, 1)
    BY <1>2 DEF Roomy, BitmapsOf, IndexesOf, DataOf, DivCeil, SectorSize, FirstReserved,
             MaxBitmapIndex, MaxSmallBitmapIndex, MaxSmallDisk
  <2> QED BY <2>2, <2>3, <2>4, <2>5 DEF Row
<1>3. CASE 2048 < n /\ n <= 4096
  <2>1. Rounds(n) = 2
    BY <1>3, RoundsBetween, LimitValues
  <2>2. ResBlockSize(n) = 1024
    BY <1>3 DEF ResBlockSize, MaxDisk1K, MaxDisk2K, MaxBitmapIndex
  <2>3. CalcNumReserved(n, 1024) = 128
    <3>1. TakenTable[2 + 1] \div (1024 \div 1024) = 112
      BY DEF TakenTable
    <3> QED BY <2>1, <3>1, CalcFromRounds DEF MaxNumReserved
  <2>4. DivCeil(1024 * BitmapKilobytes(128), 1024) = 1
    BY DEF DivCeil, BitmapKilobytes, AtLeast
  <2>5. Roomy(n, 1024, 128, 1)
    BY <1>3 DEF Roomy, BitmapsOf, IndexesOf, DataOf, DivCeil, SectorSize, FirstReserved,
             MaxBitmapIndex, MaxSmallBitmapIndex, MaxSmallDisk
  <2> QED BY <2>2, <2>3, <2>4, <2>5 DEF Row
<1>4. CASE 4096 < n /\ n <= 8192
  <2>1. Rounds(n) = 3
    BY <1>4, RoundsBetween, LimitValues
  <2>2. ResBlockSize(n) = 1024
    BY <1>4 DEF ResBlockSize, MaxDisk1K, MaxDisk2K, MaxBitmapIndex
  <2>3. CalcNumReserved(n, 1024) = 224
    <3>1. TakenTable[3 + 1] \div (1024 \div 1024) = 210
      BY DEF TakenTable
    <3> QED BY <2>1, <3>1, CalcFromRounds DEF MaxNumReserved
  <2>4. DivCeil(1024 * BitmapKilobytes(224), 1024) = 1
    BY DEF DivCeil, BitmapKilobytes, AtLeast
  <2>5. Roomy(n, 1024, 224, 1)
    BY <1>4 DEF Roomy, BitmapsOf, IndexesOf, DataOf, DivCeil, SectorSize, FirstReserved,
             MaxBitmapIndex, MaxSmallBitmapIndex, MaxSmallDisk
  <2> QED BY <2>2, <2>3, <2>4, <2>5 DEF Row
<1>5. CASE 8192 < n /\ n <= 16384
  <2>1. Rounds(n) = 4
    BY <1>5, RoundsBetween, LimitValues
  <2>2. ResBlockSize(n) = 1024
    BY <1>5 DEF ResBlockSize, MaxDisk1K, MaxDisk2K, MaxBitmapIndex
  <2>3. CalcNumReserved(n, 1024) = 416
    <3>1. TakenTable[4 + 1] \div (1024 \div 1024) = 393
      BY DEF TakenTable
    <3> QED BY <2>1, <3>1, CalcFromRounds DEF MaxNumReserved
  <2>4. DivCeil(1024 * BitmapKilobytes(416), 1024) = 1
    BY DEF DivCeil, BitmapKilobytes, AtLeast
  <2>5. Roomy(n, 1024, 416, 1)
    BY <1>5 DEF Roomy, BitmapsOf, IndexesOf, DataOf, DivCeil, SectorSize, FirstReserved,
             MaxBitmapIndex, MaxSmallBitmapIndex, MaxSmallDisk
  <2> QED BY <2>2, <2>3, <2>4, <2>5 DEF Row
<1>6. CASE 16384 < n /\ n <= 32768
  <2>1. Rounds(n) = 5
    BY <1>6, RoundsBetween, LimitValues
  <2>2. ResBlockSize(n) = 1024
    BY <1>6 DEF ResBlockSize, MaxDisk1K, MaxDisk2K, MaxBitmapIndex
  <2>3. CalcNumReserved(n, 1024) = 736
    <3>1. TakenTable[5 + 1] \div (1024 \div 1024) = 736
      BY DEF TakenTable
    <3> QED BY <2>1, <3>1, CalcFromRounds DEF MaxNumReserved
  <2>4. DivCeil(1024 * BitmapKilobytes(736), 1024) = 1
    BY DEF DivCeil, BitmapKilobytes, AtLeast
  <2>5. Roomy(n, 1024, 736, 1)
    BY <1>6 DEF Roomy, BitmapsOf, IndexesOf, DataOf, DivCeil, SectorSize, FirstReserved,
             MaxBitmapIndex, MaxSmallBitmapIndex, MaxSmallDisk
  <2> QED BY <2>2, <2>3, <2>4, <2>5 DEF Row
<1>7. CASE 32768 < n /\ n <= 65536
  <2>1. Rounds(n) = 6
    BY <1>7, RoundsBetween, LimitValues
  <2>2. ResBlockSize(n) = 1024
    BY <1>7 DEF ResBlockSize, MaxDisk1K, MaxDisk2K, MaxBitmapIndex
  <2>3. CalcNumReserved(n, 1024) = 1408
    <3>1. TakenTable[6 + 1] \div (1024 \div 1024) = 1380
      BY DEF TakenTable
    <3> QED BY <2>1, <3>1, CalcFromRounds DEF MaxNumReserved
  <2>4. DivCeil(1024 * BitmapKilobytes(1408), 1024) = 1
    BY DEF DivCeil, BitmapKilobytes, AtLeast
  <2>5. Roomy(n, 1024, 1408, 1)
    BY <1>7 DEF Roomy, BitmapsOf, IndexesOf, DataOf, DivCeil, SectorSize, FirstReserved,
             MaxBitmapIndex, MaxSmallBitmapIndex, MaxSmallDisk
  <2> QED BY <2>2, <2>3, <2>4, <2>5 DEF Row
<1>8. CASE 65536 < n /\ n <= 131072
  <2>1. Rounds(n) = 7
    BY <1>8, RoundsBetween, LimitValues
  <2>2. ResBlockSize(n) = 1024
    BY <1>8 DEF ResBlockSize, MaxDisk1K, MaxDisk2K, MaxBitmapIndex
  <2>3. CalcNumReserved(n, 1024) = 2592
    <3>1. TakenTable[7 + 1] \div (1024 \div 1024) = 2587
      BY DEF TakenTable
    <3> QED BY <2>1, <3>1, CalcFromRounds DEF MaxNumReserved
  <2>4. DivCeil(1024 * BitmapKilobytes(2592), 1024) = 1
    BY DEF DivCeil, BitmapKilobytes, AtLeast
  <2>5. Roomy(n, 1024, 2592, 1)
    BY <1>8 DEF Roomy, BitmapsOf, IndexesOf, DataOf, DivCeil, SectorSize, FirstReserved,
             MaxBitmapIndex, MaxSmallBitmapIndex, MaxSmallDisk
  <2> QED BY <2>2, <2>3, <2>4, <2>5 DEF Row
<1>9. CASE 131072 < n /\ n <= 262144
  <2>1. Rounds(n) = 8
    BY <1>9, RoundsBetween, LimitValues
  <2>2. ResBlockSize(n) = 1024
    BY <1>9 DEF ResBlockSize, MaxDisk1K, MaxDisk2K, MaxBitmapIndex
  <2>3. CalcNumReserved(n, 1024) = 4864
    <3>1. TakenTable[8 + 1] \div (1024 \div 1024) = 4850
      BY DEF TakenTable
    <3> QED BY <2>1, <3>1, CalcFromRounds DEF MaxNumReserved
  <2>4. DivCeil(1024 * BitmapKilobytes(4864), 1024) = 2
    BY DEF DivCeil, BitmapKilobytes, AtLeast
  <2>5. Roomy(n, 1024, 4864, 2)
    BY <1>9 DEF Roomy, BitmapsOf, IndexesOf, DataOf, DivCeil, SectorSize, FirstReserved,
             MaxBitmapIndex, MaxSmallBitmapIndex, MaxSmallDisk
  <2> QED BY <2>2, <2>3, <2>4, <2>5 DEF Row
<1>10. CASE 262144 < n /\ n <= 524288
  <2>1. Rounds(n) = 9
    BY <1>10, RoundsBetween, LimitValues
  <2>2. ResBlockSize(n) = 1024
    BY <1>10 DEF ResBlockSize, MaxDisk1K, MaxDisk2K, MaxBitmapIndex
  <2>3. CalcNumReserved(n, 1024) = 9120
    <3>1. TakenTable[9 + 1] \div (1024 \div 1024) = 9093
      BY DEF TakenTable
    <3> QED BY <2>1, <3>1, CalcFromRounds DEF MaxNumReserved
  <2>4. DivCeil(1024 * BitmapKilobytes(9120), 1024) = 2
    BY DEF DivCeil, BitmapKilobytes, AtLeast
  <2>5. Roomy(n, 1024, 9120, 2)
    BY <1>10 DEF Roomy, BitmapsOf, IndexesOf, DataOf, DivCeil, SectorSize, FirstReserved,
             MaxBitmapIndex, MaxSmallBitmapIndex, MaxSmallDisk
  <2> QED BY <2>2, <2>3, <2>4, <2>5 DEF Row
<1>11. CASE 524288 < n /\ n <= 1048576
  <2>1. Rounds(n) = 10
    BY <1>11, RoundsBetween, LimitValues
  <2>2. ResBlockSize(n) = 1024
    BY <1>11 DEF ResBlockSize, MaxDisk1K, MaxDisk2K, MaxBitmapIndex
  <2>3. CalcNumReserved(n, 1024) = 14784
    <3>1. TakenTable[10 + 1] \div (1024 \div 1024) = 14776
      BY DEF TakenTable
    <3> QED BY <2>1, <3>1, CalcFromRounds DEF MaxNumReserved
  <2>4. DivCeil(1024 * BitmapKilobytes(14784), 1024) = 3
    BY DEF DivCeil, BitmapKilobytes, AtLeast
  <2>5. Roomy(n, 1024, 14784, 3)
    BY <1>11 DEF Roomy, BitmapsOf, IndexesOf, DataOf, DivCeil, SectorSize, FirstReserved,
             MaxBitmapIndex, MaxSmallBitmapIndex, MaxSmallDisk
  <2> QED BY <2>2, <2>3, <2>4, <2>5 DEF Row
<1>12. CASE 1048576 < n /\ n <= 2097152
  <2>1. Rounds(n) = 11
    BY <1>12, RoundsBetween, LimitValues
  <2>2. ResBlockSize(n) = 1024
    BY <1>12 DEF ResBlockSize, MaxDisk1K, MaxDisk2K, MaxBitmapIndex
  <2>3. CalcNumReserved(n, 1024) = 24032
    <3>1. TakenTable[11 + 1] \div (1024 \div 1024) = 24011
      BY DEF TakenTable
    <3> QED BY <2>1, <3>1, CalcFromRounds DEF MaxNumReserved
  <2>4. DivCeil(1024 * BitmapKilobytes(24032), 1024) = 4
    BY DEF DivCeil, BitmapKilobytes, AtLeast
  <2>5. Roomy(n, 1024, 24032, 4)
    BY <1>12 DEF Roomy, BitmapsOf, IndexesOf, DataOf, DivCeil, SectorSize, FirstReserved,
             MaxBitmapIndex, MaxSmallBitmapIndex, MaxSmallDisk
  <2> QED BY <2>2, <2>3, <2>4, <2>5 DEF Row
<1>13. CASE 2097152 < n /\ n <= 4194304
  <2>1. Rounds(n) = 12
    BY <1>13, RoundsBetween, LimitValues
  <2>2. ResBlockSize(n) = 1024
    BY <1>13 DEF ResBlockSize, MaxDisk1K, MaxDisk2K, MaxBitmapIndex
  <2>3. CalcNumReserved(n, 1024) = 39040
    <3>1. TakenTable[12 + 1] \div (1024 \div 1024) = 39017
      BY DEF TakenTable
    <3> QED BY <2>1, <3>1, CalcFromRounds DEF MaxNumReserved
  <2>4. DivCeil(1024 * BitmapKilobytes(39040), 1024) = 6
    BY DEF DivCeil, BitmapKilobytes, AtLeast
  <2>5. Roomy(n, 1024, 39040, 6)
    BY <1>13 DEF Roomy, BitmapsOf, IndexesOf, DataOf, DivCeil, SectorSize, FirstReserved,
             MaxBitmapIndex, MaxSmallBitmapIndex, MaxSmallDisk
  <2> QED BY <2>2, <2>3, <2>4, <2>5 DEF Row
<1>14. CASE 4194304 < n /\ n <= 8388608
  <2>1. Rounds(n) = 13
    BY <1>14, RoundsBetween, LimitValues
  <2>2. ResBlockSize(n) = 1024
    BY <1>14 DEF ResBlockSize, MaxDisk1K, MaxDisk2K, MaxBitmapIndex
  <2>3. CalcNumReserved(n, 1024) = 63424
    <3>1. TakenTable[13 + 1] \div (1024 \div 1024) = 63402
      BY DEF TakenTable
    <3> QED BY <2>1, <3>1, CalcFromRounds DEF MaxNumReserved
  <2>4. DivCeil(1024 * BitmapKilobytes(63424), 1024) = 9
    BY DEF DivCeil, BitmapKilobytes, AtLeast
  <2>5. Roomy(n, 1024, 63424, 9)
    BY <1>14 DEF Roomy, BitmapsOf, IndexesOf, DataOf, DivCeil, SectorSize, FirstReserved,
             MaxBitmapIndex, MaxSmallBitmapIndex, MaxSmallDisk
  <2> QED BY <2>2, <2>3, <2>4, <2>5 DEF Row
<1>15. CASE 8388608 < n /\ n <= 16777216
  <2>1. Rounds(n) = 14
    BY <1>15, RoundsBetween, LimitValues
  <2>2. ResBlockSize(n) = 1024
    BY <1>15 DEF ResBlockSize, MaxDisk1K, MaxDisk2K, MaxBitmapIndex
  <2>3. CalcNumReserved(n, 1024) = 103040
    <3>1. TakenTable[14 + 1] \div (1024 \div 1024) = 103028
      BY DEF TakenTable
    <3> QED BY <2>1, <3>1, CalcFromRounds DEF MaxNumReserved
  <2>4. DivCeil(1024 * BitmapKilobytes(103040), 1024) = 14
    BY DEF DivCeil, BitmapKilobytes, AtLeast
  <2>5. Roomy(n, 1024, 103040, 14)
    BY <1>15 DEF Roomy, BitmapsOf, IndexesOf, DataOf, DivCeil, SectorSize, FirstReserved,
             MaxBitmapIndex, MaxSmallBitmapIndex, MaxSmallDisk
  <2> QED BY <2>2, <2>3, <2>4, <2>5 DEF Row
<1>16. CASE 16777216 < n /\ n <= 33554432
  <2>1. Rounds(n) = 15
    BY <1>16, RoundsBetween, LimitValues
  <2>2. ResBlockSize(n) = 1024
    BY <1>16 DEF ResBlockSize, MaxDisk1K, MaxDisk2K, MaxBitmapIndex
  <2>3. CalcNumReserved(n, 1024) = 167424
    <3>1. TakenTable[15 + 1] \div (1024 \div 1024) = 167420
      BY DEF TakenTable
    <3> QED BY <2>1, <3>1, CalcFromRounds DEF MaxNumReserved
  <2>4. DivCeil(1024 * BitmapKilobytes(167424), 1024) = 21
    BY DEF DivCeil, BitmapKilobytes, AtLeast
  <2>5. Roomy(n, 1024, 167424, 21)
    BY <1>16 DEF Roomy, BitmapsOf, IndexesOf, DataOf, DivCeil, SectorSize, FirstReserved,
             MaxBitmapIndex, MaxSmallBitmapIndex, MaxSmallDisk
  <2> QED BY <2>2, <2>3, <2>4, <2>5 DEF Row
<1>17. CASE 33554432 < n /\ n <= 67108864
  <2>1. Rounds(n) = 16
    BY <1>17, RoundsBetween, LimitValues
  <2>2. ResBlockSize(n) = 1024
    BY <1>17 DEF ResBlockSize, MaxDisk1K, MaxDisk2K, MaxBitmapIndex
  <2>3. CalcNumReserved(n, 1024) = 272064
    <3>1. TakenTable[16 + 1] \div (1024 \div 1024) = 272057
      BY DEF TakenTable
    <3> QED BY <2>1, <3>1, CalcFromRounds DEF MaxNumReserved
  <2>4. DivCeil(1024 * BitmapKilobytes(272064), 1024) = 34
    BY DEF DivCeil, BitmapKilobytes, AtLeast
  <2>5. Roomy(n, 1024, 272064, 34)
    BY <1>17 DEF Roomy, BitmapsOf, IndexesOf, DataOf, DivCeil, SectorSize, FirstReserved,
             MaxBitmapIndex, MaxSmallBitmapIndex, MaxSmallDisk
  <2> QED BY <2>2, <2>3, <2>4, <2>5 DEF Row
<1>18. CASE 67108864 < n /\ n <= 134217728
  <2>1. Rounds(n) = 17
    BY <1>18, RoundsBetween, LimitValues
  <2>2. ResBlockSize(n) = 1024
    BY <1>18 DEF ResBlockSize, MaxDisk1K, MaxDisk2K, MaxBitmapIndex
  <2>3. CalcNumReserved(n, 1024) = 442112
    <3>1. TakenTable[17 + 1] \div (1024 \div 1024) = 442092
      BY DEF TakenTable
    <3> QED BY <2>1, <3>1, CalcFromRounds DEF MaxNumReserved
  <2>4. DivCeil(1024 * BitmapKilobytes(442112), 1024) = 55
    BY DEF DivCeil, BitmapKilobytes, AtLeast
  <2>5. Roomy(n, 1024, 442112, 55)
    BY <1>18 DEF Roomy, BitmapsOf, IndexesOf, DataOf, DivCeil, SectorSize, FirstReserved,
             MaxBitmapIndex, MaxSmallBitmapIndex, MaxSmallDisk
  <2> QED BY <2>2, <2>3, <2>4, <2>5 DEF Row
<1>19. CASE 134217728 < n /\ n <= 213021952
  <2>1. Rounds(n) = 18
    BY <1>19, RoundsBetween, LimitValues
  <2>2. ResBlockSize(n) = 1024
    BY <1>19 DEF ResBlockSize, MaxDisk1K, MaxDisk2K, MaxBitmapIndex
  <2>3. CalcNumReserved(n, 1024) = 718400
    <3>1. TakenTable[18 + 1] \div (1024 \div 1024) = 718399
      BY DEF TakenTable
    <3> QED BY <2>1, <3>1, CalcFromRounds DEF MaxNumReserved
  <2>4. DivCeil(1024 * BitmapKilobytes(718400), 1024) = 89
    BY DEF DivCeil, BitmapKilobytes, AtLeast
  <2>5. Roomy(n, 1024, 718400, 89)
    BY <1>19 DEF Roomy, BitmapsOf, IndexesOf, DataOf, DivCeil, SectorSize, FirstReserved,
             MaxBitmapIndex, MaxSmallBitmapIndex, MaxSmallDisk
  <2> QED BY <2>2, <2>3, <2>4, <2>5 DEF Row
<1>20. CASE 213021952 < n /\ n <= 268435456
  <2>1. Rounds(n) = 18
    BY <1>20, RoundsBetween, LimitValues
  <2>2. ResBlockSize(n) = 2048
    BY <1>20 DEF ResBlockSize, MaxDisk1K, MaxDisk2K, MaxBitmapIndex
  <2>3. CalcNumReserved(n, 2048) = 359200
    <3>1. TakenTable[18 + 1] \div (2048 \div 1024) = 359199
      BY DEF TakenTable
    <3> QED BY <2>1, <3>1, CalcFromRounds DEF MaxNumReserved
  <2>4. DivCeil(1024 * BitmapKilobytes(359200), 2048) = 23
    BY DEF DivCeil, BitmapKilobytes, AtLeast
  <2>5. Roomy(n, 2048, 359200, 23)
    BY <1>20 DEF Roomy, BitmapsOf, IndexesOf, DataOf, DivCeil, SectorSize, FirstReserved,
             MaxBitmapIndex, MaxSmallBitmapIndex, MaxSmallDisk
  <2> QED BY <2>2, <2>3, <2>4, <2>5 DEF Row
<1>21. CASE 268435456 < n /\ n <= 536870912
  <2>1. Rounds(n) = 19
    BY <1>21, RoundsBetween, LimitValues
  <2>2. ResBlockSize(n) = 2048
    BY <1>21 DEF ResBlockSize, MaxDisk1K, MaxDisk2K, MaxBitmapIndex
  <2>3. CalcNumReserved(n, 2048) = 583712
    <3>1. TakenTable[19 + 1] \div (2048 \div 1024) = 583699
      BY DEF TakenTable
    <3> QED BY <2>1, <3>1, CalcFromRounds DEF MaxNumReserved
  <2>4. DivCeil(1024 * BitmapKilobytes(583712), 2048) = 36
    BY DEF DivCeil, BitmapKilobytes, AtLeast
  <2>5. Roomy(n, 2048, 583712, 36)
    BY <1>21 DEF Roomy, BitmapsOf, IndexesOf, DataOf, DivCeil, SectorSize, FirstReserved,
             MaxBitmapIndex, MaxSmallBitmapIndex, MaxSmallDisk
  <2> QED BY <2>2, <2>3, <2>4, <2>5 DEF Row
<1>22. CASE 536870912 < n /\ n <= 862221568
  <2>1. Rounds(n) = 20
    BY <1>22, RoundsBetween, LimitValues
  <2>2. ResBlockSize(n) = 2048
    BY <1>22 DEF ResBlockSize, MaxDisk1K, MaxDisk2K, MaxBitmapIndex
  <2>3. CalcNumReserved(n, 2048) = 948512
    <3>1. TakenTable[20 + 1] \div (2048 \div 1024) = 948510
      BY DEF TakenTable
    <3> QED BY <2>1, <3>1, CalcFromRounds DEF MaxNumReserved
  <2>4. DivCeil(1024 * BitmapKilobytes(948512), 2048) = 59
    BY DEF DivCeil, BitmapKilobytes, AtLeast
  <2>5. Roomy(n, 2048, 948512, 59)
    BY <1>22 DEF Roomy, BitmapsOf, IndexesOf, DataOf, DivCeil, SectorSize, FirstReserved,
             MaxBitmapIndex, MaxSmallBitmapIndex, MaxSmallDisk
  <2> QED BY <2>2, <2>3, <2>4, <2>5 DEF Row
<1>23. CASE 862221568 < n /\ n <= 1073741824
  <2>1. Rounds(n) = 20
    BY <1>23, RoundsBetween, LimitValues
  <2>2. ResBlockSize(n) = 4096
    BY <1>23 DEF ResBlockSize, MaxDisk1K, MaxDisk2K, MaxBitmapIndex
  <2>3. CalcNumReserved(n, 4096) = 474272
    <3>1. TakenTable[20 + 1] \div (4096 \div 1024) = 474255
      BY DEF TakenTable
    <3> QED BY <2>1, <3>1, CalcFromRounds DEF MaxNumReserved
  <2>4. DivCeil(1024 * BitmapKilobytes(474272), 4096) = 15
    BY DEF DivCeil, BitmapKilobytes, AtLeast
  <2>5. Roomy(n, 4096, 474272, 15)
    BY <1>23 DEF Roomy, BitmapsOf, IndexesOf, DataOf, DivCeil, SectorSize, FirstReserved,
             MaxBitmapIndex, MaxSmallBitmapIndex, MaxSmallDisk
  <2> QED BY <2>2, <2>3, <2>4, <2>5 DEF Row
<1>24. CASE 1073741824 < n /\ n <= 2147483647
  <2>1. Rounds(n) = 21
    BY <1>24, RoundsBetween, LimitValues
  <2>2. ResBlockSize(n) = 4096
    BY <1>24 DEF ResBlockSize, MaxDisk1K, MaxDisk2K, MaxBitmapIndex
  <2>3. CalcNumReserved(n, 4096) = 770688
    <3>1. TakenTable[21 + 1] \div (4096 \div 1024) = 770664
      BY DEF TakenTable
    <3> QED BY <2>1, <3>1, CalcFromRounds DEF MaxNumReserved
  <2>4. DivCeil(1024 * BitmapKilobytes(770688), 4096) = 24
    BY DEF DivCeil, BitmapKilobytes, AtLeast
  <2>5. Roomy(n, 4096, 770688, 24)
    BY <1>24 DEF Roomy, BitmapsOf, IndexesOf, DataOf, DivCeil, SectorSize, FirstReserved,
             MaxBitmapIndex, MaxSmallBitmapIndex, MaxSmallDisk
  <2> QED BY <2>2, <2>3, <2>4, <2>5 DEF Row
<1> QED
  BY <1>1, <1>2, <1>3, <1>4, <1>5, <1>6, <1>7, <1>8, <1>9, <1>10, <1>11, <1>12, <1>13,
     <1>14, <1>15, <1>16, <1>17, <1>18, <1>19, <1>20, <1>21, <1>22, <1>23, <1>24
-----------------------------------------------------------------------------
(* The geometry *)

\* What the later steps of a format rely on: the three sizes of a reserved
\* block and what follows from them, and that everything has room.
Sound(g, n) ==
  /\ \/ g.rbs = 1024 /\ g.rescluster = 2 /\ g.perIndex = 253
     \/ g.rbs = 2048 /\ g.rescluster = 4 /\ g.perIndex = 509
     \/ g.rbs = 4096 /\ g.rescluster = 8 /\ g.perIndex = 1021
  /\ g.num \in Nat /\ g.resbm \in Nat
  /\ g.last = g.rescluster * g.num + 1 /\ g.data = n - (g.last + 1)
  /\ g.bitmaps = DivCeil(g.data, g.perIndex * 32)
  /\ g.indexes = DivCeil(g.bitmaps, g.perIndex)
  /\ (g.large <=> n > MaxSmallDisk)
  /\ Needed(g) <= g.num - g.resbm
  /\ g.num <= 32 * ((g.resbm * g.rbs - SectorSize - 12) \div 4)
  /\ g.indexes <= MaxBitmapIndex + 1
  /\ ~g.large => g.indexes <= MaxSmallBitmapIndex + 1

\* Whether a volume has a superindex.
LEMMA LargeFlag ==
  ASSUME NEW n
  PROVE  Geometry(n).large <=> n > MaxSmallDisk
<1>1. Geometry(n).large = (n > MaxSmallDisk)
  BY DEF Geometry
<1> QED BY <1>1, Zenon

\* format_with_size computes a sound geometry for every size.
LEMMA GeometrySound ==
  ASSUME NEW n \in Nat, 64 <= n, n <= 2147483647
  PROVE  Sound(Geometry(n), n)
<1>1. PICK rbs \in {1024, 2048, 4096}, num \in Nat, resbm \in Nat :
        Row(n, rbs, num, resbm) /\ Roomy(n, rbs, num, resbm)
  BY Sizing
<1> DEFINE g == Geometry(n)
<1>2. g.rbs = rbs /\ g.num = num /\ g.resbm = resbm /\ (g.large <=> n > MaxSmallDisk)
  <2>1. g.rbs = rbs /\ g.num = num /\ g.resbm = resbm
    BY <1>1 DEF Geometry, Row
  <2> QED BY <2>1, LargeFlag
<1>3. g.rescluster = rbs \div SectorSize /\ g.perIndex = rbs \div 4 - 3
  BY <1>1 DEF Geometry, Row
<1>4. \/ rbs = 1024 /\ g.rescluster = 2 /\ g.perIndex = 253
      \/ rbs = 2048 /\ g.rescluster = 4 /\ g.perIndex = 509
      \/ rbs = 4096 /\ g.rescluster = 8 /\ g.perIndex = 1021
  BY <1>3 DEF SectorSize
<1>5. /\ g.last = g.rescluster * g.num + FirstReserved - 1
      /\ g.data = n - (g.last + 1)
      /\ g.bitmaps = DivCeil(g.data, g.perIndex * 32)
      /\ g.indexes = DivCeil(g.bitmaps, g.perIndex)
  BY DEF Geometry
<1> HIDE DEF g
<1>6. g.last = g.rescluster * g.num + 1
  BY <1>2, <1>4, <1>5 DEF FirstReserved
<1>7. g.data = DataOf(n, rbs, num)
  BY <1>2, <1>3, <1>4, <1>5 DEF DataOf, FirstReserved
<1>8. g.bitmaps = BitmapsOf(n, rbs, num) /\ g.indexes = IndexesOf(n, rbs, num)
  BY <1>3, <1>5, <1>7 DEF BitmapsOf, IndexesOf
<1>9. Needed(g) <= g.num - g.resbm
  BY <1>1, <1>2, <1>8 DEF Roomy, Needed
<1>10. g.num <= 32 * ((g.resbm * g.rbs - SectorSize - 12) \div 4)
  BY <1>1, <1>2 DEF Roomy
<1>11. g.indexes <= MaxBitmapIndex + 1 /\ (~g.large => g.indexes <= MaxSmallBitmapIndex + 1)
  <2>1. ~g.large => n <= MaxSmallDisk
    BY <1>2, SMT DEF MaxSmallDisk, MaxSmallBitmapIndex
  <2> QED BY <1>1, <1>8, <2>1 DEF Roomy
<1>12. Sound(g, n)
  BY <1>2, <1>4, <1>5, <1>6, <1>9, <1>10, <1>11 DEF Sound
<1> QED BY <1>12 DEF g

\* Where data blocks are left, the bitmap has a block for each of their bits
\* and the index an entry for each bitmap block, and neither has one more.
LEMMA Coverage ==
  ASSUME NEW n \in Nat, NEW g, Sound(g, n), g.data > 0
  PROVE  /\ g.rescluster \in Nat /\ g.perIndex \in Nat /\ g.data \in Nat /\ g.last \in Nat
         /\ g.bitmaps \in Nat /\ g.indexes \in Nat /\ g.bitmaps > 0 /\ g.indexes > 0
         /\ (g.bitmaps - 1) * (g.perIndex * 32) < g.data
         /\ g.data <= g.bitmaps * (g.perIndex * 32)
         /\ (g.indexes - 1) * g.perIndex < g.bitmaps
         /\ g.bitmaps <= g.indexes * g.perIndex
<1>1. g.data \in Nat /\ g.last \in Nat /\ g.rescluster \in Nat /\ g.perIndex \in Nat
  BY DEF Sound
<1>2. CASE g.perIndex = 253
  BY <1>1, <1>2 DEF Sound, DivCeil
<1>3. CASE g.perIndex = 509
  BY <1>1, <1>3 DEF Sound, DivCeil
<1>4. CASE g.perIndex = 1021
  BY <1>1, <1>4 DEF Sound, DivCeil
<1> QED BY <1>2, <1>3, <1>4 DEF Sound

\* ReservedAllocator::alloc never returns a block twice.
LEMMA AllocatedApart ==
  ASSUME NEW n \in Nat, NEW g, Sound(g, n), NEW i \in Int, NEW j \in Int
  PROVE  /\ Allocated(g, i) \in Int
         /\ Allocated(g, i) = Allocated(g, j) <=> i = j
         /\ Allocated(g, i) - Allocated(g, j) = (i - j) * g.rescluster
         /\ (Allocated(g, i) - Allocated(g, j)) \div g.rescluster = i - j
         /\ (Allocated(g, i) - Allocated(g, j)) % g.rescluster = 0
<1>1. g.resbm \in Nat
  BY DEF Sound
<1>2. PICK d \in Int : d = i - j
  OBVIOUS
<1>3. CASE g.rescluster = 2
  <2>1. Allocated(g, i) - Allocated(g, j) = d * 2 /\ Allocated(g, i) \in Int
    BY <1>1, <1>2, <1>3 DEF Allocated, FirstReserved
  <2> QED BY <1>1, <1>2, <1>3, <2>1 DEF Allocated, FirstReserved
<1>4. CASE g.rescluster = 4
  <2>1. Allocated(g, i) - Allocated(g, j) = d * 4 /\ Allocated(g, i) \in Int
    BY <1>1, <1>2, <1>4 DEF Allocated, FirstReserved
  <2>2. (d * 4) \div 4 = d /\ (d * 4) % 4 = 0
    OBVIOUS
  <2>3. Allocated(g, i) = Allocated(g, j) <=> i = j
    BY <1>1, <1>2, <1>4 DEF Allocated, FirstReserved
  <2> QED BY <1>2, <1>4, <2>1, <2>2, <2>3
<1>5. CASE g.rescluster = 8
  <2>1. Allocated(g, i) - Allocated(g, j) = d * 8 /\ Allocated(g, i) \in Int
    BY <1>1, <1>2, <1>5 DEF Allocated, FirstReserved
  <2>2. (d * 8) \div 8 = d /\ (d * 8) % 8 = 0
    OBVIOUS
  <2>3. Allocated(g, i) = Allocated(g, j) <=> i = j
    BY <1>1, <1>2, <1>5 DEF Allocated, FirstReserved
  <2> QED BY <1>2, <1>5, <2>1, <2>2, <2>3
<1> QED BY <1>3, <1>4, <1>5 DEF Sound

-----------------------------------------------------------------------------
(* The format, step by step *)

\* The reserved blocks after each of the writes that add some.
WithExt(g) == Put(<<>>, NewExt(g))
WithBitmapIndexes(g) == Put(WithExt(g), NewBitmapIndexes(g))
WithAnodeIndex(g) == Put(WithBitmapIndexes(g), NewAnodeIndex(g))
WithAnodes(g) == Put(WithAnodeIndex(g), NewAnodes(g))
WithRootDir(g) == Put(WithAnodes(g), NewRootDir(g))

Stages == {"root", "ext", "bitmapindex", "bitmaps", "anodeindex", "anodes",
           "rootdir", "flush", "done"}

\* The inductive invariant: the sizes that are left after the refusal, a disk
\* that holds exactly what the writes so far have put there, and no way to run
\* out of reserved blocks.
FormatInv ==
  LET g == Geometry(total)
  IN  /\ phase \in Stages \cup {"start", "refused", "allocate", "failed", "mounted"}
      /\ phase # "mounted" => total \in Sizes
      /\ phase \in Stages \cup {"allocate"} => ~TooSmall(g)
      /\ DOMAIN disk = {"boot", "root", "res", "bitmaps"}
      /\ phase \in {"start", "refused", "mounted"} => disk = Blank
      /\ phase \in {"start", "allocate", "root", "ext"} => disk.res = <<>>
      /\ phase \in Stages \ {"root"} => disk.root = NewRoot(total)
      /\ phase = "bitmapindex" => disk.res = WithExt(g)
      /\ phase \in {"bitmaps", "anodeindex"} => disk.res = WithBitmapIndexes(g)
      /\ phase \in {"anodeindex", "anodes", "rootdir", "flush", "done"} =>
           disk.bitmaps = NewBitmaps(g)
      /\ phase = "anodes" => disk.res = WithAnodeIndex(g)
      /\ phase = "rootdir" => disk.res = WithAnodes(g)
      /\ phase \in {"flush", "done"} => disk.res = WithRootDir(g)

\* Every action preserves it; that AllocateAll does rests on the sizing.
LEMMA FormatInvStep ==
  ASSUME FormatInv, [Next]_vars
  PROVE  FormatInv'
<1> USE DEF FormatInv, Stages
<1>1. CASE Refuse
  BY <1>1 DEF Refuse
<1>2. CASE WriteBoot
  BY <1>2 DEF WriteBoot, TooSmall, Blank
<1>3. CASE AllocateAll
  <2>1. Needed(Geometry(total)) <= Geometry(total).num - Geometry(total).resbm
    BY <1>3, SizesAssumption, GeometrySound DEF AllocateAll, Sound
  <2> QED BY <1>3, <2>1 DEF AllocateAll, TooSmall
<1>4. CASE WriteRoot
  BY <1>4 DEF WriteRoot, TooSmall
<1>5. CASE WriteExt
  BY <1>5 DEF WriteExt, WriteRes, WithExt, TooSmall
<1>6. CASE WriteBitmapIndexes
  BY <1>6 DEF WriteBitmapIndexes, WriteRes, WithBitmapIndexes, TooSmall
<1>7. CASE WriteBitmaps
  BY <1>7 DEF WriteBitmaps, TooSmall
<1>8. CASE WriteAnodeIndex
  BY <1>8 DEF WriteAnodeIndex, WriteRes, WithAnodeIndex, TooSmall
<1>9. CASE WriteAnodes
  BY <1>9 DEF WriteAnodes, WriteRes, WithAnodes, TooSmall
<1>10. CASE WriteRootDir
  BY <1>10 DEF WriteRootDir, WriteRes, WithRootDir, TooSmall
<1>11. CASE Flush
  BY <1>11 DEF Flush, TooSmall
<1>12. CASE WriteFails
  BY <1>12 DEF WriteFails, Writing
<1>13. CASE Mount
  BY <1>13 DEF Mount, Blank
<1>14. CASE UNCHANGED fvars
  BY <1>14 DEF fvars, TooSmall
<1> QED
  BY <1>1, <1>2, <1>3, <1>4, <1>5, <1>6, <1>7, <1>8, <1>9, <1>10, <1>11, <1>12, <1>13, <1>14
     DEF Next, FormatNext, vars

\* Every state of the specification satisfies it.
LEMMA FormatInvHolds == Spec => []FormatInv
<1>1. Init => FormatInv
  BY DEF Init, BlankInit, UsedInit, FormatInit, FormatInv, Stages, Blank
<1> QED BY <1>1, FormatInvStep, PTL DEF Spec

\* A format that is refused has not touched the disk, and none runs out of
\* reserved blocks after it wrote the boot block, for every number of sectors.
THEOREM FormatRefusesCleanly == Spec => []RefusalIsClean
<1>1. FormatInv => RefusalIsClean
  BY DEF FormatInv, Stages, RefusalIsClean
<1> QED BY <1>1, FormatInvHolds, PTL

-----------------------------------------------------------------------------
(* The finished volume *)

\* The calls of alloc whose blocks are written one by one: the extension, and
\* after the bitmap blocks the index blocks, the anode block and the directory.
Singles(g) == {0} \cup (1 + g.bitmaps)..(3 + g.bitmaps + g.indexes)

\* What is found in them.
LEMMA Blocks ==
  ASSUME NEW n \in Nat, NEW g, Sound(g, n), g.data > 0
  PROVE  /\ DOMAIN WithRootDir(g) = {Allocated(g, k) : k \in Singles(g)}
         /\ WithRootDir(g)[ExtBlk(g)] =
              [id |-> "EX", superindex |-> IF g.large THEN AnodeIndexBlk(g) ELSE 0]
         /\ \A seq \in 0..(g.indexes - 1) :
              WithRootDir(g)[BitmapIndexNr(g, seq)] = BitmapIndex(g, seq)
         /\ WithRootDir(g)[AnodeIndexBlk(g)] =
              [id |-> "IB", ptr |-> [first |-> AnodeBlk(g), step |-> 0, count |-> 1]]
         /\ WithRootDir(g)[AnodeBlk(g)] =
              [id |-> "AB", anode |-> [a \in {RootDirAnode} |-> RootDirBlock(g)]]
         /\ WithRootDir(g)[RootDirBlock(g)] = [id |-> "DB"]
<1> DEFINE B == g.bitmaps
           I == g.indexes
           A(k) == Allocated(g, k)
           MI == {BitmapIndexNr(g, seq) : seq \in 0..(I - 1)}
<1>1. B \in Nat /\ I \in Nat /\ B > 0 /\ I > 0
  BY Coverage
<1>2. \A i, j \in Int : A(i) = A(j) => i = j
  BY AllocatedApart
<1>3. /\ ExtBlk(g) = A(0) /\ AnodeIndexBlk(g) = A(1 + B + I)
      /\ AnodeBlk(g) = A(2 + B + I) /\ RootDirBlock(g) = A(3 + B + I)
      /\ \A seq : BitmapIndexNr(g, seq) = A(1 + B + seq)
  BY DEF ExtBlk, AnodeIndexBlk, AnodeBlk, RootDirBlock, BitmapIndexNr
<1> DEFINE ext == ExtBlk(g)  ai == AnodeIndexBlk(g)  ab == AnodeBlk(g)  rd == RootDirBlock(g)
<1> HIDE DEF A, B, I
<1>4. /\ ext # ai /\ ext # ab /\ ext # rd /\ ai # ab /\ ai # rd /\ ab # rd
      /\ ext \notin MI /\ ai \notin MI /\ ab \notin MI /\ rd \notin MI
  BY <1>1, <1>2, <1>3
<1>5. ASSUME NEW seq \in 0..(I - 1)
      PROVE  NewBitmapIndexes(g)[BitmapIndexNr(g, seq)] = BitmapIndex(g, seq)
  <2>1. (BitmapIndexNr(g, seq) - BitmapIndexNr(g, 0)) \div g.rescluster = seq
    <3>1. (Allocated(g, 1 + B + seq) - Allocated(g, 1 + B + 0)) \div g.rescluster
            = (1 + B + seq) - (1 + B + 0)
      BY <1>1, AllocatedApart
    <3> QED BY <1>1, <1>3, <3>1 DEF A
  <2>2. BitmapIndexNr(g, seq) \in MI
    OBVIOUS
  <2> QED BY <2>1, <2>2 DEF NewBitmapIndexes, I
<1>6. DOMAIN NewBitmapIndexes(g) = MI
  BY DEF NewBitmapIndexes, I
<1> HIDE DEF ext, ai, ab, rd, MI
<1>7. DOMAIN WithRootDir(g) = {ext} \cup MI \cup {ai} \cup {ab} \cup {rd}
  BY <1>6 DEF WithRootDir, WithAnodes, WithAnodeIndex, WithBitmapIndexes, WithExt, Put, At,
              NewExt, NewAnodeIndex, NewAnodes, NewRootDir, ext, ai, ab, rd
<1>8. {ext} \cup MI \cup {ai} \cup {ab} \cup {rd} = {A(k) : k \in Singles(g)}
  <2>1. Singles(g) = {0} \cup {1 + B + seq : seq \in 0..(I - 1)}
                         \cup {1 + B + I} \cup {2 + B + I} \cup {3 + B + I}
    <3>1. ASSUME NEW k \in (1 + B)..(3 + B + I)
          PROVE  k \in {1 + B + seq : seq \in 0..(I - 1)}
                       \cup {1 + B + I} \cup {2 + B + I} \cup {3 + B + I}
      <4>1. k - 1 - B \in Int /\ k = 1 + B + (k - 1 - B)
        BY <1>1
      <4> QED BY <1>1, <4>1
    <3> QED BY <1>1, <3>1 DEF Singles, B, I
  <2>2. MI = {A(k) : k \in {1 + B + seq : seq \in 0..(I - 1)}}
    BY <1>1, <1>3 DEF MI
  <2> QED BY <2>1, <2>2, <1>3 DEF ext, ai, ab, rd
<1>9. /\ WithRootDir(g)[ext] = NewExt(g)[ext]
      /\ \A b \in MI : WithRootDir(g)[b] = NewBitmapIndexes(g)[b]
      /\ WithRootDir(g)[ai] = NewAnodeIndex(g)[ai] /\ WithRootDir(g)[ab] = NewAnodes(g)[ab]
      /\ WithRootDir(g)[rd] = NewRootDir(g)[rd]
  <2>1. /\ DOMAIN NewExt(g) = {ext} /\ DOMAIN NewAnodeIndex(g) = {ai}
        /\ DOMAIN NewAnodes(g) = {ab} /\ DOMAIN NewRootDir(g) = {rd}
    BY DEF NewExt, NewAnodeIndex, NewAnodes, NewRootDir, At, ext, ai, ab, rd
  <2> QED BY <1>4, <1>6, <2>1
          DEF WithRootDir, WithAnodes, WithAnodeIndex, WithBitmapIndexes, WithExt, Put,
              ext, ai, ab, rd, MI
<1>10. /\ NewExt(g)[ext] = [id |-> "EX", superindex |-> IF g.large THEN AnodeIndexBlk(g) ELSE 0]
       /\ NewAnodeIndex(g)[ai] =
            [id |-> "IB", ptr |-> [first |-> AnodeBlk(g), step |-> 0, count |-> 1]]
       /\ NewAnodes(g)[ab] = [id |-> "AB", anode |-> [a \in {RootDirAnode} |-> RootDirBlock(g)]]
       /\ NewRootDir(g)[rd] = [id |-> "DB"]
  BY DEF NewExt, NewAnodeIndex, NewAnodes, NewRootDir, At, ext, ai, ab, rd
<1> QED BY <1>5, <1>7, <1>8, <1>9, <1>10 DEF ext, ai, ab, rd, MI, A, I

\* The blocks of the bitmap are those of the calls in between.
LEMMA BitmapGroup ==
  ASSUME NEW n \in Nat, NEW g, Sound(g, n), g.data > 0, NEW k \in Int
  PROVE  /\ InGroup(Allocated(g, k), NewBitmaps(g)) <=> k \in 1..g.bitmaps
         /\ (Allocated(g, k) - NewBitmaps(g).first) \div g.rescluster = k - 1
<1>1. g.bitmaps \in Nat /\ g.rescluster \in Nat /\ g.rescluster > 0
  BY Coverage DEF Sound
<1>2. NewBitmaps(g).first = Allocated(g, 1)
  BY DEF NewBitmaps, BitmapNr
<1>3. /\ NewBitmaps(g).step = g.rescluster /\ NewBitmaps(g).count = g.bitmaps
  BY DEF NewBitmaps
<1>4. /\ (Allocated(g, k) - Allocated(g, 1)) \div g.rescluster = k - 1
      /\ (Allocated(g, k) - Allocated(g, 1)) % g.rescluster = 0
      /\ Allocated(g, k) \in Int /\ Allocated(g, 1) \in Int
      /\ Allocated(g, k) - Allocated(g, 1) = (k - 1) * g.rescluster
  BY AllocatedApart
<1>5. Allocated(g, k) >= Allocated(g, 1) <=> k >= 1
  BY <1>4 DEF Sound
<1> QED BY <1>1, <1>2, <1>3, <1>4, <1>5 DEF InGroup

\* What a mount finds after a format has reported success.
LEMMA Finished ==
  ASSUME FormatInv, phase = "done", NEW g, g = Geometry(total)
  PROVE  /\ total \in Nat /\ Sound(g, total) /\ g.data > 0
         /\ disk.root = NewRoot(total) /\ disk.bitmaps = NewBitmaps(g)
         /\ disk.res = WithRootDir(g)
<1>1. total \in Sizes /\ ~TooSmall(g)
  BY DEF FormatInv, Stages
<1>2. total \in Nat /\ Sound(g, total)
  BY <1>1, SizesAssumption, GeometrySound
<1>3. g.last \in Int /\ g.data = total - (g.last + 1)
  BY <1>2 DEF Sound
<1>4. g.data > 0
  BY <1>1, <1>2, <1>3 DEF TooSmall
<1> QED BY <1>2, <1>4 DEF FormatInv, Stages

\* The kinds of blocks a mount sees there.
LEMMA FinishedIds ==
  ASSUME FormatInv, phase = "done", NEW g, g = Geometry(total)
  PROVE  /\ \A k \in Singles(g) : IdOf(Allocated(g, k)) = WithRootDir(g)[Allocated(g, k)].id
         /\ \A k \in 1..g.bitmaps : IdOf(Allocated(g, k)) = "BM"
         /\ IdOf(0) \in {"BM", "--"}
<1>1. /\ total \in Nat /\ Sound(g, total) /\ g.data > 0
      /\ disk.bitmaps = NewBitmaps(g) /\ disk.res = WithRootDir(g)
  BY Finished
<1>2. /\ g.bitmaps \in Nat /\ g.indexes \in Nat /\ g.resbm \in Nat
      /\ g.rescluster \in {2, 4, 8}
  BY <1>1, Coverage DEF Sound
<1>3. DOMAIN disk.res = {Allocated(g, k) : k \in Singles(g)}
  <2>1. DOMAIN WithRootDir(g) = {Allocated(g, k) : k \in Singles(g)}
    BY <1>1, Blocks, ZenonT(40)
  <2> QED BY <1>1, <2>1
<1>4. ASSUME NEW k \in Singles(g)
      PROVE  IdOf(Allocated(g, k)) = WithRootDir(g)[Allocated(g, k)].id
  BY <1>1, <1>3 DEF IdOf
<1>5. ASSUME NEW k \in 1..g.bitmaps PROVE IdOf(Allocated(g, k)) = "BM"
  <2>1. InGroup(Allocated(g, k), disk.bitmaps)
    BY <1>1, BitmapGroup
  <2>2. ASSUME NEW j \in Singles(g) PROVE Allocated(g, j) # Allocated(g, k)
    <3>1. j \in Int /\ j # k
      BY <1>2 DEF Singles
    <3> QED BY <1>1, <3>1, AllocatedApart
  <2> QED BY <1>3, <2>1, <2>2 DEF IdOf
<1>6. IdOf(0) \in {"BM", "--"}
  <2>1. ASSUME NEW k \in Singles(g) PROVE Allocated(g, k) # 0
    <3>1. k \in Nat
      BY <1>2 DEF Singles
    <3> QED BY <1>2, <3>1 DEF Allocated, FirstReserved
  <2> QED BY <1>3, <2>1 DEF IdOf
<1> QED BY <1>4, <1>5, <1>6

\* The root directory of every volume without a superindex is found through
\* rootblock, anode index block and anode block.
THEOREM FormatMakesRootDirReadable == Spec => []SmallRootDirReadable
<1>1. ASSUME FormatInv, phase = "done", ~disk.root.large
      PROVE  Opens /\ IdOf(ListedRootDir) = "DB"
  <2> DEFINE g == Geometry(total)
             D == WithRootDir(g)
  <2>1. /\ total \in Nat /\ Sound(g, total) /\ g.data > 0
        /\ disk.root = NewRoot(total) /\ disk.res = D
    BY <1>1, Finished
  <2> HIDE DEF g
  <2>2. /\ g.bitmaps \in Nat /\ g.indexes \in Nat
    BY <2>1, Coverage
  <2>3. /\ disk.root.id = "PFS" /\ disk.root.large = g.large
        /\ disk.root.ext = ExtBlk(g)
        /\ disk.root.indexblock = IF g.large THEN 0 ELSE AnodeIndexBlk(g)
    BY <2>1 DEF NewRoot, g
  <2>4. \A k \in Singles(g) : IdOf(Allocated(g, k)) = D[Allocated(g, k)].id
    BY <1>1, FinishedIds DEF g
  <2>5. {0, 1 + g.bitmaps + g.indexes, 2 + g.bitmaps + g.indexes, 3 + g.bitmaps + g.indexes}
          \subseteq Singles(g)
    BY <2>2 DEF Singles
  <2>6. /\ IdOf(ExtBlk(g)) = D[ExtBlk(g)].id /\ IdOf(AnodeIndexBlk(g)) = D[AnodeIndexBlk(g)].id
        /\ IdOf(AnodeBlk(g)) = D[AnodeBlk(g)].id /\ IdOf(RootDirBlock(g)) = D[RootDirBlock(g)].id
    BY <2>4, <2>5 DEF ExtBlk, AnodeIndexBlk, AnodeBlk, RootDirBlock
  <2>7. /\ D[ExtBlk(g)].id = "EX" /\ D[AnodeIndexBlk(g)].id = "IB"
        /\ D[AnodeBlk(g)].id = "AB" /\ D[RootDirBlock(g)].id = "DB"
        /\ D[AnodeIndexBlk(g)].ptr = [first |-> AnodeBlk(g), step |-> 0, count |-> 1]
        /\ D[AnodeBlk(g)].anode = [a \in {RootDirAnode} |-> RootDirBlock(g)]
    <3>1. /\ D[ExtBlk(g)] = [id |-> "EX", superindex |-> IF g.large THEN AnodeIndexBlk(g) ELSE 0]
          /\ D[AnodeIndexBlk(g)] =
               [id |-> "IB", ptr |-> [first |-> AnodeBlk(g), step |-> 0, count |-> 1]]
          /\ D[AnodeBlk(g)] = [id |-> "AB", anode |-> [a \in {RootDirAnode} |-> RootDirBlock(g)]]
          /\ D[RootDirBlock(g)] = [id |-> "DB"]
      BY <2>1, Blocks, ZenonT(40)
    <3> QED BY <3>1
  <2>8. Opens
    BY <2>3, <2>6, <2>7 DEF Opens
  <2>9. AnodeBlk(g) \in Int
    BY <2>1, <2>2, AllocatedApart DEF AnodeBlk
  <2>10. FirstAnodeBlock = AnodeBlk(g)
    BY <1>1, <2>1, <2>3, <2>6, <2>7, <2>9 DEF FirstAnodeBlock, IndexEntry, Member
  <2>11. ListedRootDir = RootDirBlock(g)
    BY <2>1, <2>6, <2>7, <2>10 DEF ListedRootDir
  <2> QED BY <2>6, <2>7, <2>8, <2>11
<1>2. FormatInv => SmallRootDirReadable
  BY <1>1 DEF SmallRootDirReadable
<1> QED BY <1>2, FormatInvHolds, PTL

\* As many blocks are written one by one as Needed counts without the bitmap.
LEMMA SinglesCounted ==
  ASSUME NEW n \in Nat, NEW g, Sound(g, n), g.data > 0
  PROVE  Cardinality({Allocated(g, k) : k \in Singles(g)}) = g.indexes + 4
<1> DEFINE S == Singles(g)
           T == {Allocated(g, k) : k \in S}
           Behind == (1 + g.bitmaps)..(3 + g.bitmaps + g.indexes)
           f == [k \in S |-> Allocated(g, k)]
<1>1. g.bitmaps \in Nat /\ g.indexes \in Nat
  BY Coverage
<1>2. IsFiniteSet(Behind) /\ Cardinality(Behind) = g.indexes + 3
  <2>1. PICK a \in Int, b \in Int : a = 1 + g.bitmaps /\ b = 3 + g.bitmaps + g.indexes
    BY <1>1
  <2>2. IsFiniteSet(a..b) /\ Cardinality(a..b) = IF a > b THEN 0 ELSE b - a + 1
    BY FS_Interval
  <2>3. Behind = a..b
    BY <2>1
  <2>4. ~(a > b) /\ b - a + 1 = g.indexes + 3
    BY <1>1, <2>1
  <2> HIDE DEF Behind
  <2> QED BY <2>2, <2>3, <2>4, Zenon
<1>3. 0 \notin Behind
  BY <1>1
<1>4. S = Behind \cup {0}
  BY DEF Singles
<1>5. IsFiniteSet(S) /\ Cardinality(S) = g.indexes + 4
  <2> HIDE DEF Behind, S
  <2>1. IsFiniteSet(Behind \cup {0}) /\ Cardinality(Behind \cup {0}) = Cardinality(Behind) + 1
    BY <1>2, <1>3, FS_AddElement
  <2> QED BY <1>1, <1>2, <1>4, <2>1
<1>6. S \subseteq Int
  BY <1>1 DEF Singles
<1>7. \A i, j \in S : Allocated(g, i) = Allocated(g, j) => i = j
  BY <1>6, AllocatedApart
<1> HIDE DEF S
<1>8. f \in Bijection(S, T)
  <2>1. f \in [S -> T] /\ \A i, j \in S : f[i] = f[j] => i = j
    BY <1>7
  <2>2. \A t \in T : \E s \in S : f[s] = t
    OBVIOUS
  <2> QED BY <2>1, <2>2 DEF Bijection, Injection, Surjection, IsInjective
<1>9. Cardinality(S) = Cardinality(T)
  BY <1>5, <1>8, FS_Bijection DEF ExistsBijection
<1> QED BY <1>5, <1>9 DEF S

\* What format lays out fits the disk without gap or overlap, whatever the size.
THEOREM FormatLaysOutFittingVolume == Spec => []FormatFits
<1>1. ASSUME FormatInv, phase = "done" PROVE FormatFits
  <2> DEFINE g == Geometry(total)
             c == g.rescluster
             r == disk.root
             first == FirstReserved + r.rblkcluster
             words == (g.resbm * g.rbs - SectorSize - 12) \div 4
             Inside(b) == first <= b /\ b + r.rbs \div SectorSize - 1 <= r.last
  <2>1. /\ total \in Nat /\ Sound(g, total) /\ g.data > 0
        /\ disk.root = NewRoot(total) /\ disk.res = WithRootDir(g)
        /\ disk.bitmaps = NewBitmaps(g)
    BY <1>1, Finished
  <2>2. /\ r.last = g.last /\ r.rbs = g.rbs /\ r.blocksfree = g.data
        /\ r.rblkcluster = g.resbm * c
        /\ r.reservedFree = g.num - (g.resbm + Needed(g))
        /\ r.freeFrom = g.resbm + Needed(g)
        /\ r.freeTo = AtMost(g.num, 32 * words) - 1
    BY <2>1 DEF NewRoot
  <2> HIDE DEF g
  <2>3. /\ g.bitmaps \in Nat /\ g.indexes \in Nat /\ g.bitmaps > 0 /\ g.indexes > 0
        /\ g.data \in Nat /\ g.last \in Nat
    BY <2>1, Coverage
  <2>4. /\ g.num \in Nat /\ g.resbm \in Nat /\ c \in {2, 4, 8}
        /\ g.last = c * g.num + 1 /\ g.data = total - (g.last + 1)
        /\ Needed(g) = 4 + g.bitmaps + g.indexes /\ Needed(g) <= g.num - g.resbm
        /\ g.num <= 32 * words
        /\ c = g.rbs \div SectorSize
    BY <2>1, <2>3 DEF Sound, Needed, SectorSize
  <2>5. r.last + 1 + r.blocksfree = total /\ r.blocksfree > 0
    BY <2>1, <2>2, <2>3, <2>4
  <2>6. ASSUME NEW k \in 0..(3 + g.bitmaps + g.indexes) PROVE Inside(Allocated(g, k))
    <3>1. g.resbm + k + 1 <= g.num
      BY <2>3, <2>4
    <3>2. CASE c = 2
      BY <2>2, <2>4, <3>1, <3>2 DEF Allocated, FirstReserved
    <3>3. CASE c = 4
      BY <2>2, <2>4, <3>1, <3>3 DEF Allocated, FirstReserved
    <3>4. CASE c = 8
      BY <2>2, <2>4, <3>1, <3>4 DEF Allocated, FirstReserved
    <3> QED BY <2>4, <3>2, <3>3, <3>4
  <2>7. DOMAIN disk.res = {Allocated(g, k) : k \in Singles(g)}
    <3>1. DOMAIN WithRootDir(g) = {Allocated(g, k) : k \in Singles(g)}
      BY <2>1, Blocks, ZenonT(40)
    <3> QED BY <2>1, <3>1
  <2>8. ASSUME NEW b \in DOMAIN disk.res PROVE Inside(b) /\ ~InGroup(b, disk.bitmaps)
    <3>1. PICK k \in Singles(g) : b = Allocated(g, k)
      BY <2>7
    <3>2. k \in 0..(3 + g.bitmaps + g.indexes) /\ k \notin 1..g.bitmaps /\ k \in Int
      BY <2>3 DEF Singles
    <3>3. ~InGroup(Allocated(g, k), NewBitmaps(g))
      BY <2>1, <3>2, BitmapGroup
    <3> QED BY <2>1, <2>6, <3>1, <3>2, <3>3
  <2>9. Inside(disk.bitmaps.first) /\ Inside(Member(disk.bitmaps, disk.bitmaps.count - 1))
    <3>1. disk.bitmaps.first = Allocated(g, 1) /\ disk.bitmaps.step = c
          /\ disk.bitmaps.count = g.bitmaps
      BY <2>1 DEF NewBitmaps, BitmapNr
    <3>2. Member(disk.bitmaps, disk.bitmaps.count - 1) = Allocated(g, g.bitmaps)
      <4>1. Allocated(g, g.bitmaps) - Allocated(g, 1) = (g.bitmaps - 1) * c
            /\ Allocated(g, g.bitmaps) \in Int /\ Allocated(g, 1) \in Int
        BY <2>1, <2>3, AllocatedApart
      <4>2. (g.bitmaps - 1) * c \in Int
        BY <2>3, <2>4
      <4> QED BY <3>1, <4>1, <4>2 DEF Member
    <3>3. 1 \in 0..(3 + g.bitmaps + g.indexes) /\ g.bitmaps \in 0..(3 + g.bitmaps + g.indexes)
      BY <2>3
    <3> QED BY <2>6, <3>1, <3>2, <3>3
  <2>10. r.freeTo - r.freeFrom + 1 = r.reservedFree
    <3>1. words \in Int
      BY <2>1, <2>4 DEF Sound, SectorSize
    <3>2. r.freeTo = g.num - 1
      BY <2>2, <2>4, <3>1 DEF AtMost
    <3> QED BY <2>2, <2>3, <2>4, <3>2
  <2>11. (r.reservedFree + disk.bitmaps.count + Cardinality(DOMAIN disk.res))
             * (r.rbs \div SectorSize)
           = r.last - first + 1
    <3>1. Cardinality(DOMAIN disk.res) = g.indexes + 4
      BY <2>1, <2>7, SinglesCounted
    <3>2. disk.bitmaps.count = g.bitmaps
      BY <2>1 DEF NewBitmaps
    <3>3. r.reservedFree + disk.bitmaps.count + Cardinality(DOMAIN disk.res) = g.num - g.resbm
      BY <2>2, <2>3, <2>4, <3>1, <3>2
    <3>4. r.last - first + 1 = c * g.num - g.resbm * c
      BY <2>2, <2>4 DEF FirstReserved
    <3>5. (g.num - g.resbm) * c = c * g.num - g.resbm * c
      BY <2>4
    <3> QED BY <2>2, <2>4, <3>3, <3>4, <3>5
  <2> QED BY <2>5, <2>8, <2>9, <2>10, <2>11 DEF FormatFits
<1>2. FormatInv => FormatFits
  BY <1>1 DEF FormatFits
<1> QED BY <1>2, FormatInvHolds, PTL

\* The bitmap of every formatted volume, found through the index as a mount
\* does, marks exactly the data blocks as free, whatever the size.
THEOREM FormatMakesBitmapCoverData == Spec => []BitmapCoversData
<1>1. ASSUME FormatInv, phase = "done" PROVE BitmapCoversData
  <2> DEFINE g == Geometry(total)
             B == g.bitmaps
             p == g.perIndex
             D == WithRootDir(g)
             r == disk.root
             bits == (r.rbs \div 4 - 3) * 32
             count == (r.blocksfree + bits - 1) \div bits
             top == IF g.large THEN g.indexes ELSE AtMost(g.indexes, MaxSmallBitmapIndex + 1)
  <2>1. /\ total \in Nat /\ Sound(g, total) /\ g.data > 0
        /\ disk.root = NewRoot(total) /\ disk.res = D
        /\ disk.bitmaps = NewBitmaps(g)
    BY <1>1, Finished
  <2>2. /\ r.rbs = g.rbs /\ r.blocksfree = g.data /\ r.large = g.large
        /\ r.bitmapindex = [i \in 0..(top - 1) |-> BitmapIndexNr(g, i)]
    BY <2>1 DEF NewRoot
  <2>3. /\ \A k \in Singles(g) : IdOf(Allocated(g, k)) = D[Allocated(g, k)].id
        /\ \A k \in 1..B : IdOf(Allocated(g, k)) = "BM"
        /\ IdOf(0) \in {"BM", "--"}
    BY <1>1, FinishedIds
  <2> HIDE DEF g
  <2>4. /\ B \in Nat /\ g.indexes \in Nat /\ B > 0 /\ g.indexes > 0
        /\ g.data \in Nat /\ (g.indexes - 1) * p < B /\ B <= g.indexes * p
    BY <2>1, Coverage
  <2>5. /\ p \in {253, 509, 1021} /\ g.rescluster \in {2, 4, 8} /\ p = g.rbs \div 4 - 3
        /\ B = DivCeil(g.data, p * 32)
        /\ g.indexes <= MaxBitmapIndex + 1
        /\ ~g.large => g.indexes <= MaxSmallBitmapIndex + 1
    BY <2>1 DEF Sound
  <2>6. bits = p * 32 /\ count = B
    BY <2>2, <2>5 DEF DivCeil
  <2>7. top = g.indexes
    BY <2>4, <2>5 DEF AtMost, MaxSmallBitmapIndex
  <2>8. ASSUME NEW i \in Nat
        PROVE  ParsedBitmapIndex(i) = IF i < g.indexes THEN BitmapIndexNr(g, i) ELSE 0
    BY <2>2, <2>4, <2>5, <2>7 DEF ParsedBitmapIndex, MaxBitmapIndex, MaxSmallBitmapIndex
  <2>9. ASSUME NEW i \in 0..(g.indexes - 1), NEW off \in Nat, off < p
        PROVE  IndexEntry(BitmapIndexNr(g, i), off) =
                 IF i * p + off < B THEN Allocated(g, 1 + i * p + off) ELSE 0
    <3>1. D[BitmapIndexNr(g, i)] = BitmapIndex(g, i)
      BY <2>1, Blocks, ZenonT(40)
    <3>2. IdOf(BitmapIndexNr(g, i)) = "MI"
      <4>1. 1 + B + i \in Singles(g)
        BY <2>4 DEF Singles
      <4>2. IdOf(BitmapIndexNr(g, i)) = D[BitmapIndexNr(g, i)].id
        BY <2>3, <4>1 DEF BitmapIndexNr
      <4> QED BY <3>1, <4>2 DEF BitmapIndex
    <3>3. D[BitmapIndexNr(g, i)].ptr = [first |-> Allocated(g, 1 + i * p), step |-> g.rescluster,
                                        count |-> AtMost(p, B - i * p)]
      BY <3>1 DEF BitmapIndex, BitmapNr
    <3>4. PICK at \in Nat : at = i * p
      BY <2>4, <2>5
    <3>5. off < AtMost(p, B - at) <=> at + off < B
      BY <2>4, <2>5, <2>9 DEF AtMost
    <3>6. Allocated(g, 1 + at) + off * g.rescluster = Allocated(g, 1 + at + off)
      <4>1. /\ Allocated(g, 1 + at + off) \in Int /\ Allocated(g, 1 + at) \in Int
            /\ Allocated(g, 1 + at + off) - Allocated(g, 1 + at)
                 = ((1 + at + off) - (1 + at)) * g.rescluster
        BY <2>1, <3>4, AllocatedApart
      <4>2. (1 + at + off) - (1 + at) = off /\ off * g.rescluster \in Int
        BY <2>5
      <4> QED BY <4>1, <4>2
    <3> QED BY <2>1, <3>2, <3>3, <3>4, <3>5, <3>6 DEF IndexEntry, Member
  <2>10. ASSUME NEW seq \in 0..B
         PROVE  GetBitmapBlock(seq) = IF seq < B THEN Allocated(g, 1 + seq) ELSE 0
    <3>1. /\ GetBitmapBlock(seq) = IndexEntry(ParsedBitmapIndex(seq \div p), seq % p)
      BY <2>2, <2>5 DEF GetBitmapBlock
    <3>2. PICK i \in Nat, off \in Nat : i = seq \div p /\ off = seq % p
      BY <2>4, <2>5
    <3>3. off < p /\ i * p + off = seq
      BY <2>4, <2>5, <3>2
    <3>4. CASE i < g.indexes
      <4>1. IndexEntry(BitmapIndexNr(g, i), off) =
              IF i * p + off < B THEN Allocated(g, 1 + i * p + off) ELSE 0
        BY <2>4, <2>9, <3>3, <3>4
      <4>2. 1 + i * p + off = 1 + seq
        BY <2>5, <3>3
      <4> QED BY <2>8, <3>1, <3>2, <3>3, <3>4, <4>1, <4>2
    <3>5. CASE ~(i < g.indexes)
      <4>1. seq >= B
        BY <2>4, <2>5, <3>3, <3>5
      <4>2. IndexEntry(0, off) = 0
        BY <2>3 DEF IndexEntry
      <4> QED BY <2>4, <2>8, <3>1, <3>2, <3>5, <4>1, <4>2
    <3> QED BY <3>4, <3>5
  <2>11. ASSUME NEW seq \in 0..(B - 1)
         PROVE  /\ IdOf(GetBitmapBlock(seq)) = "BM"
                /\ FreeIn(GetBitmapBlock(seq)) =
                     [from |-> seq * bits, to |-> AtMost((seq + 1) * bits, r.blocksfree) - 1]
    <3>1. GetBitmapBlock(seq) = Allocated(g, 1 + seq)
      BY <2>4, <2>10
    <3>2. IdOf(Allocated(g, 1 + seq)) = "BM"
      BY <2>3, <2>4
    <3>3. (Allocated(g, 1 + seq) - NewBitmaps(g).first) \div g.rescluster = seq
      <4>1. (Allocated(g, 1 + seq) - NewBitmaps(g).first) \div g.rescluster = (1 + seq) - 1
        BY <2>1, <2>4, BitmapGroup
      <4> QED BY <4>1
    <3>4. /\ disk.bitmaps.step = g.rescluster /\ disk.bitmaps.bits = p * 32
          /\ disk.bitmaps.free = g.data
      BY <2>1 DEF NewBitmaps
    <3> QED BY <2>1, <2>2, <2>6, <3>1, <3>2, <3>3, <3>4 DEF FreeIn
  <2>12. GetBitmapBlock(count) = 0
    BY <2>4, <2>6, <2>10
  <2> QED BY <2>6, <2>11, <2>12 DEF BitmapCoversData
<1>2. FormatInv => BitmapCoversData
  BY <1>1 DEF BitmapCoversData
<1> QED BY <1>2, FormatInvHolds, PTL
=============================================================================
