\* Two names, one of them spelt in two ways, and a deldir of one slot.
SPECIFICATION Spec
CONSTANTS
  Root = 5
  Anodes = {6, 7, 8}
  Keys = {1, 2}
  NumSlots = 1
  Zero = 0
  Names = {"a", "A", "b"}
  Mounted <- TwoFiles
  Fold <- FoldMC
  Bytes = {1}
  MaxSize = 2
  MaxHandles = 2
  MaxRequests = 4
  MaxFailures = 1
  DeldirInoBase = 1000
INVARIANTS
  TypeOK
  CacheFaithful
  ReadsAreCurrent
  TrashInodesCurrent
PROPERTIES
  CloseExact
  ChmodKeepsFlags
  BuffersDrain
CHECK_DEADLOCK FALSE
