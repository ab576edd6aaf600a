\* Two blocks of two sectors, a one-entry cache, two commits, one I/O error
\* and one power loss.
SPECIFICATION Spec
CONSTANTS
  Blocks = {b1, b2}
  NoImage = NoImage
  Capacity = 1
  Data = {x, y}
  Rescluster = 2
  RootSectors = 2
  MaxCommits = 2
  MaxFaults = 1
  MaxCrashes = 1
INVARIANTS
  TypeOK
  PendingDistinct
  CacheCoherent
  ReadYourWrites
  RootBarrier
  FlushedBeforeRoot
  CacheBounded
PROPERTIES
  CrashMixesTwoCommits
  ImplementsBlockStore
