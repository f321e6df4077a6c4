SPECIFICATION Spec
CONSTANTS
  NewNames <- MCNewNames
  OtherNames <- MCOtherNames
  PerLong = 6
  ShortTries = 2
  HostRoot <- MCHostRoot
  SlotsPerCluster = 4
  FreeClusters = 2
  MaxCalls = 4
INVARIANTS
  TypeOK
  ListedOpens
  EndMarked
PROPERTIES
  ReadsEach
  KeepsTree
CHECK_DEADLOCK FALSE
