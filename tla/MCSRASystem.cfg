SPECIFICATION Spec
CONSTANTS
  Threads = {t1, t2, t3}
  t1 = t1
  t2 = t2
  t3 = t3
  x = x
  y = y
  Locations = {x, y}
  Values = {0, 1, 2, 3}
  Operands = {1}
  Modes = {"REL", "ACQ", "REL_ACQ", "RLX"}
  MaxStores = 3
SYMMETRY Symmetry
INVARIANTS
  TypeOK
  OneMessagePerTimestamp
  CausalityRespected
PROPERTIES
  ViewsOnlyAdvance
  ImplementsReleaseAcquire
