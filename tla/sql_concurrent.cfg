SPECIFICATION Spec
CONSTANTS
  t1 = t1
  t2 = t2
  Threads = {t1, t2}
  a = a
  Parts = {a}
  Names <- PlainNames
  d1 = d1
  Defs = {d1}
  AnyIds = TRUE
  MaxId = 4
  MaxInputs = 1
  Faults = TRUE
SYMMETRY Symmetry
INVARIANT Mirrored
INVARIANT EdgesByAge
