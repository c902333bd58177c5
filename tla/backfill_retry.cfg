SPECIFICATION Spec
CONSTANTS
  Launchers = {"databricks"}
  CleanUp = TRUE
  Signals = FALSE
  Faults = TRUE
  MaxTime = 1
  MaxStep = 1
  MaxCalls = 2
CHECK_DEADLOCK FALSE
INVARIANT EveryStepSubmitted
