SPECIFICATION FairSpec
CONSTANTS
  Launchers = {"local", "databricks", "synapse"}
  CleanUp = TRUE
  Signals = TRUE
  Faults = TRUE
  MaxTime = 2
  MaxStep = 2
  MaxCalls = 2
CHECK_DEADLOCK FALSE
INVARIANT TypeOK
INVARIANT CutoffsAreTheGrid
INVARIANT CallSubmitsItsSteps
INVARIANT RemoteTrueMeansSucceeded
INVARIANT FalseMeansFailed
INVARIANT NothingLeftRunning
PROPERTY EndedJobIsReported
