SPECIFICATION FairSpec
CONSTANTS
  f1 = f1
  f2 = f2
  f3 = f3
  Features = {f1, f2, f3}
  MaxCopies = 2
  MaxUses = 1
CHECK_DEADLOCK FALSE
INVARIANT TypeOK
INVARIANT UpstreamFirst
INVARIANT EveryCopyPlaced
INVARIANT NeverRaises
PROPERTY ReturnsWithoutCycle
