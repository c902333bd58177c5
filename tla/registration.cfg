SPECIFICATION Spec
CONSTANTS
  p1 = p1
  p2 = p2
  Processes = {p1, p2}
  Project = project
  ic = ic
  a1 = a1
  a2 = a2
  f1 = f1
  d1 = d1
  d2 = d2
  old = old
  new = new
  Sources = {ic}
  InputContext = ic
  Anchors = {a1, a2}
  SourceOf <- AllOnInputContext
  FeaturesOf <- OneFeature
  Derived = {d1, d2}
  Notebooks <- ThreeNotebooks
  InputsOf <- OnTopOfEachOther
  Defs = {old, new}
  Nothing = nothing
  MaxId = 30
  MaxCalls = 2
  MaxFaults = 1
CHECK_DEADLOCK FALSE
INVARIANT TypeOK
INVARIANT LineageAsWritten
INVARIANT EveryProjectReadable
INVARIANT ReturnedIsInProject
 
