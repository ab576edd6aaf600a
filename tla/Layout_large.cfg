\* The smallest disk that gets a superindex.
SPECIFICATION Spec
CONSTANTS
  Sizes = {10241440, 10241441}
  Names = {"s"}
  ByteLen <- ByteLenMC
  ReadBack <- ReadBackMC
  FileSizes = {0}
  Low = 4
  Specs = {}
  MaxDirBlocks = 1
  MaxChanges = 1
  MaxAnode = 20
  Used = {}
INVARIANTS
  RootDirReadable
CHECK_DEADLOCK FALSE
