SPECIFICATION Spec
CONSTANTS
  ENTRIES = 8
  UNITS = 2
  Memmaps <- MCMemmaps
  HHDM_OFFSET = 2048
  KERNEL_START = 3584
  DATA_START = 3585
  KERNEL_END = 3586
  KERNEL_PHYS = 14
  STACK_PAGE = 2061
  CODE_PAGE = 3584
  ClientPages <- MCClientPages
  ClientFrames = {9}
  ClientFlags <- MCClientFlags
INVARIANTS
  TablesFormTree
  HhdmComplete
  LiveImageMapped
  TlbCoherent
PROPERTIES
  RefinesAddressSpace
