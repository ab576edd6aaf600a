\* A second anode from a new anode block in one operation.
SPECIFICATION Spec
CONSTANTS
  Names = {"a", "b", "c"}
  NumData = 4
  BitsPerBitmap = 4
  NumReserved = 9
  AnodesPerBlock = 3
  Stride = 3
  UserFirst = 2
  RootDir = 1
  IndexPerBlock = 2
  Large = FALSE
  MaxSeqnr = 3
  MaxChainLen = 30
  DirCapacity = 1
  DelDirSlots = 0
  Versions = {1}
  MaxBlocks = 2
  Ops = {"write", "delete"}
  VfsCaller = TRUE
  MaxOps = 4
  MaxIo = 20
  MaxFaults = 0
  MaxKills = 0
  Fold <- FoldMC
  Parents <- RootOnly
INVARIANTS
  NoCrossLink
CHECK_DEADLOCK FALSE
