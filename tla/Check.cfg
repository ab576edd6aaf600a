\* A small volume, written to, killed and damaged, then checked and repaired.
SPECIFICATION CheckSpec
CONSTANTS
  Names = {"a", "d"}
  NumData = 3
  BitsPerBitmap = 3
  NumReserved = 7
  AnodesPerBlock = 8
  Stride = 8
  UserFirst = 2
  RootDir = 1
  IndexPerBlock = 2
  Large = FALSE
  MaxSeqnr = 1
  MaxChainLen = 30
  DirCapacity = 4
  DelDirSlots = 0
  Versions = {1}
  MaxBlocks = 2
  Ops = {"write", "mkdir", "delete"}
  VfsCaller = TRUE
  MaxOps = 3
  MaxIo = 16
  MaxFaults = 1
  MaxKills = 1
  MaxDamage = 1
  Fold <- FoldMC
  Parents <- RootAndD
INVARIANTS
  CleanMeansSound
  RepairConverges
PROPERTIES
  RepairKeepsHealthy
CHECK_DEADLOCK FALSE
