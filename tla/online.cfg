SPECIFICATION Spec
CONSTANTS
  k1 = k1
  k2 = k2
  f1 = f1
  f2 = f2
  t1 = t1
  t2 = t2
  Keys = {k1, k2}
  Features = {f1, f2}
  Transfers = {t1, t2}
  Setups <- BothDirections
  MaxVersion = 2
SYMMETRY Symmetry
CHECK_DEADLOCK FALSE
INVARIANT TypeOK
INVARIANT NothingMixedUp
INVARIANT TargetKeptWithoutKeys
INVARIANT NoStaleCells
INVARIANT FullRowsTransferred
