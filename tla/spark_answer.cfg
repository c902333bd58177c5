SPECIFICATION Spec
CONSTANTS
  Launchers = {"local"}
  CleanUp = TRUE
  Signals = FALSE
  Faults = FALSE
  MaxTime = 1
  MaxStep = 1
  MaxCalls = 1
CHECK_DEADLOCK FALSE
INVARIANT TrueMeansSucceeded
