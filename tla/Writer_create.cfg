\* Files created while I/O errors and deaths of the process cut operations short.
SPECIFICATION Spec
CONSTANTS
  Names = {"a", "b"}
  NumData = 4
  BitsPerBitmap = 4
  NumReserved = 7
  AnodesPerBlock = 8
  Stride = 8
  UserFirst = 2
  RootDir = 1
  IndexPerBlock = 2
  Large = FALSE
  MaxSeqnr = 3
  MaxChainLen = 30
  DirCapacity = 4
  DelDirSlots = 0
  Versions = {1}
  MaxBlocks = 1
  Ops = {"write"}
  VfsCaller = TRUE
  MaxOps = 3
  MaxIo = 20
  MaxFaults = 2
  MaxKills = 2
  Fold <- FoldMC
  Parents <- RootOnly
INVARIANTS
  NoCrossLink
  NoDangling
CHECK_DEADLOCK FALSE
