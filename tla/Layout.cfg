\* Disks of every kind formatted, and directories old and new filled and changed.
SPECIFICATION Spec
CONSTANTS
  Sizes = {64, 66, 67, 1024, 1025, 2049, 20000, 262144, 600000, 2097153,
           10241440, 10241441, 213021952, 213021953, 862221568, 862221569, 2140000000}
  Names = {"s", "t", "long", "cut", "umlaut"}
  ByteLen <- ByteLenMC
  ReadBack <- ReadBackMC
  FileSizes = {0, 3, 4, 9}
  Low = 4
  Specs <- SpecsMC
  MaxDirBlocks = 2
  MaxChanges = 3
  MaxAnode = 20
  Used <- UsedMC
INVARIANTS
  RefusalIsClean
  FormatFits
  BitmapCoversData
  SmallRootDirReadable
  EntriesInside
  SizeReadsBack
  FoundAgain
  ShownBitsRestore
CHECK_DEADLOCK FALSE
