SPECIFICATION BootSpec
CONSTANTS
  NR_TASK = 2
  InitialCounter = 2
  CounterMod = 4
  Values <- MCOneValue
  PcMod = 2
PROPERTIES
  JustReturn
