\* Two files are undeleted one after the other.
SPECIFICATION Spec
CONSTANTS
  Names = {"a", "b"}
  NumData = 8
  BitsPerBitmap = 8
  NumReserved = 9
  AnodesPerBlock = 8
  Stride = 8
  UserFirst = 2
  RootDir = 1
  IndexPerBlock = 2
  Large = FALSE
  MaxSeqnr = 3
  MaxChainLen = 30
  DirCapacity = 2
  DelDirSlots = 3
  Versions = {1, 2}
  MaxBlocks = 1
  Ops = {"write", "delete", "undelete"}
  VfsCaller = TRUE
  MaxOps = 8
  MaxIo = 20
  MaxFaults = 0
  MaxKills = 0
  Fold <- FoldMC
  Parents <- RootOnly
PROPERTIES
  UndeleteRestores
CHECK_DEADLOCK FALSE
