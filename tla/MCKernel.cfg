SPECIFICATION Spec
CONSTANTS
  NR_TASK = 3
  InitialCounter = 2
  CounterMod = 4
  Values <- MCStored
  PcMod = 2
INVARIANTS
  TypeOK
  UserReady
  TicksAccounted
PROPERTIES
  Isolation
  FreshGetsTick
