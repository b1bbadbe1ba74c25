SPECIFICATION ListSpec
CONSTANTS
  FRAME_BITS = 17
  BUDDY_MAX_ORDER = 3
  RESERVE_FRAMES = 1
  Memmaps <- MCMemmaps
  BlockFrames <- MCBlockFrames
INVARIANTS
  ListsExact
  BlocksPartitionClaimed
  AllocComplete
  FreeingRestoresSeed
PROPERTIES
  BuddyInitTerminates
  RefinesPageAllocator
