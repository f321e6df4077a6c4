SPECIFICATION Spec
CONSTANTS
  P1 = P1  P2 = P2  P3 = P3
  Process = {P1, P2, P3}
  NoProcess = NoProcess
  Character <- MCCharacter
  Pid <- MCPid
  LogCalls <- MCLogCalls
  UserCalls <- MCUserCalls
  MaxLine = 6
  MaxHeld = 4
  Stale <- MCStale
  NtoaSize = 6
  CharBits = 3
  ShortBits = 4
  IntBits = 5
  LongBits = 8
INVARIANTS
  TypeOK
  FormatsAsC
  UserModeUnlocked
PROPERTIES
  TrapReturns
  KeepsLines
CHECK_DEADLOCK FALSE
