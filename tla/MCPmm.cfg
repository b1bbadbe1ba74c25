SPECIFICATION PmmSpec
CONSTANTS
  TopFrame = 9
  FRAME_BITS = 3
  Memmaps <- MCMemmaps
INVARIANTS
  PmmTypeOK
  OwnersPartitionUsed
  StatsExact
  AllocFindsLowest
