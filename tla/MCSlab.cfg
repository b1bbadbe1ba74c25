SPECIFICATION SlabSpec
CONSTANTS
  MaxOrder = 1
  BlockFrames <- MCBlockFrames
  PAGE_SIZE = 10
  SLAB_DATA = 3
  LARGE_DATA = 1
  class_sizes <- MCClassSizes
  Pool = {2, 3, 4}
  Requests = {0, 2, 3, 9, 10, 20}
INVARIANTS
  ObjectsDisjoint
  FreeListsExact
  CacheCountersExact
  HeldExact
