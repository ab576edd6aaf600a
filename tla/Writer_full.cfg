\* A disk so small that writes run into DiskFull, with a two-slot deldir that
\* fills, evicts and gives files back; no faults.
SPECIFICATION Spec
CONSTANTS
  Names = {"a", "b"}
  NumData = 3
  BitsPerBitmap = 2
  NumReserved = 7
  AnodesPerBlock = 8
  Stride = 8
  UserFirst = 2
  RootDir = 1
  IndexPerBlock = 2
  Large = FALSE
  MaxSeqnr = 1
  MaxChainLen = 30
  DirCapacity = 2
  DelDirSlots = 2
  Versions = {1, 2}
  MaxBlocks = 2
  Ops = {"write", "delete", "rename", "undelete"}
  VfsCaller = TRUE
  MaxOps = 6
  MaxIo = 20
  MaxFaults = 0
  MaxKills = 0
  Fold <- FoldMC
  Parents <- RootOnly
INVARIANTS
  TypeOK
  NoDangling
  FreeCountNoWrap
PROPERTIES
  ImplementsNodeStore
CHECK_DEADLOCK FALSE
