\* Superindex mode: anode blocks of three anodes, two of them per index block.
SPECIFICATION Spec
CONSTANTS
  Names = {"a", "b"}
  NumData = 8
  BitsPerBitmap = 8
  NumReserved = 16
  AnodesPerBlock = 3
  Stride = 3
  UserFirst = 2
  RootDir = 1
  IndexPerBlock = 2
  Large = TRUE
  MaxSeqnr = 5
  MaxChainLen = 30
  DirCapacity = 9
  DelDirSlots = 0
  Versions = {1}
  MaxBlocks = 1
  Ops = {"write", "mkdir", "link"}
  VfsCaller = FALSE
  MaxOps = 6
  MaxIo = 20
  MaxFaults = 0
  MaxKills = 0
  Fold <- FoldMC
  Parents <- RootOnly
INVARIANTS
  NoLeak
CHECK_DEADLOCK FALSE
