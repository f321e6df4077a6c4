SPECIFICATION Spec
CONSTANTS
  NrChunks = 2
  MaxOrder = 3
  Span <- MCSpan
  PageSize = 2
  NrPageMod = 16
  Sizes <- MCSizes
INVARIANTS
  TypeOK
  Tiling
  ListsAgree
  FreeAccounting
  CallsSound
PROPERTIES
  OrderStable
  CallReturns
  KeepsPromise
