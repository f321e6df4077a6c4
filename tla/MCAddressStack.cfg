SPECIFICATION Spec
CONSTANTS
  Fanout = 6
  Levels = 3
  KernelStart = 72
  MemStart = 79
  MaxOrder = 6
  StackTop = 432
  StackPages = 2
  NR_TASK = 3
  MAX_VMA_NUM = 3
  Images <- MCShortImage
  StoreAddresses <- MCStoreAddresses
  Values <- MCValues
INVARIANTS
  Apart
