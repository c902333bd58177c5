SPECIFICATION FairSpec
CONSTANTS
  f1 = f1
  f2 = f2
  Features = {f1, f2}
  MaxCopies = 1
  MaxUses = 1
CHECK_DEADLOCK FALSE
PROPERTY ReportsCycle
