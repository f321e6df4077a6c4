SPECIFICATION Spec
CONSTANTS
  c1 = c1
  c2 = c2
  c3 = c3
  c4 = c4
  CPU <- MCCPU
INVARIANTS
  MutualExclusion
  WordMatchesHolder
PROPERTIES
  SomebodyGetsIn
