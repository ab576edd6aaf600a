\* Every operation in a root directory and one subdirectory, no faults.
SPECIFICATION Spec
CONSTANTS
  Names = {"a", "b", "d"}
  NumData = 8
  BitsPerBitmap = 5
  NumReserved = 10
  AnodesPerBlock = 12
  Stride = 16
  UserFirst = 2
  RootDir = 1
  IndexPerBlock = 2
  Large = FALSE
  MaxSeqnr = 1
  MaxChainLen = 30
  DirCapacity = 2
  DelDirSlots = 0
  Versions = {1}
  MaxBlocks = 2
  Ops = {"write", "mkdir", "delete", "rename", "softlink", "protect"}
  VfsCaller = TRUE
  MaxOps = 4
  MaxIo = 20
  MaxFaults = 0
  MaxKills = 0
  Fold <- FoldMC
  Parents <- RootAndD
INVARIANTS
  NoCrossLink
  NoLeak
  FreeCountExact
  DurableOnOk
  UniqueNames
PROPERTIES
  ImplementsNodeStore
CHECK_DEADLOCK FALSE
