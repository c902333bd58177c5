SPECIFICATION Spec
CONSTANTS
  t1 = t1
  t2 = t2
  Threads = {t1, t2}
  a = a
  b = b
  Parts = {a, b}
  Names <- PlainNames
  d1 = d1
  Defs = {d1}
  AnyIds = FALSE
  MaxId = 3
  MaxInputs = 1
  Faults = FALSE
SYMMETRY Symmetry
PROPERTY DeletesOnlyUnused
