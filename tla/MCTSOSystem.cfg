SPECIFICATION Spec
CONSTANTS
  Threads = {t1, t2}
  t1 = t1
  t2 = t2
  x = x
  y = y
  Locations = {x, y}
  Values = {0, 1, 2, 3}
  Operands = {1, 2}
  Modes = {"SEQ_CST", "REL_ACQ"}
  MaxStores = 3
INVARIANTS
  TypeOK
  ProgramOrderKept
  MemoryHoldsLatest
SYMMETRY Symmetry
PROPERTIES
  ImplementsTotalStoreOrder
