SPECIFICATION Spec
CONSTANTS
  Threads = {s, t}
  PAGES = 3
  PAGE = 6
  HEADER = 1
  TAIL = 1
  Classes = {3}
  CLASS_MAX_PAGES = 1
  SIZES = {2, 6}
  PRESEED = 1
INVARIANTS
  ChunksTile
  BlocksAreBacked
  ClassListsExact
  FreeNeighboursMerged
  UsedExact
PROPERTY
  ImplementsHeapAllocator
