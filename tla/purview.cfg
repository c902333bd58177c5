SPECIFICATION Spec
CONSTANTS
  t1 = t1
  t2 = t2
  plain = plain
  streaming = streaming
  Threads = {t1, t2}
  ProjectNames = {"p"}
  Names = {"a"}
  Defs = {plain, streaming}
  Incomparable = {streaming}
  Agrees <- LeavesOut
  Catalogues <- SomeCatalogues
  MaxInputs = 1
  MaxRequests = 4
CHECK_DEADLOCK FALSE
INVARIANT TypeOK
PROPERTY AnsweredIsLinked
INVARIANT NothingDangles
PROPERTY NoUpdates
INVARIANT NoFeatureOfItself
SYMMETRY ThreadSymmetry
