SPECIFICATION Spec
CONSTANTS
  clean = clean
  other = other
  namesake = namesake
  bad = bad
  Anchors = {1, 2}
  Funcs = {clean, other, namesake, bad}
  NoFunc = NoFunc
  NameOf <- Named
  Broken = {bad}
  Lists <- FiveLists
  Mistyped <- FailLate
  NoList = NoList
  Absent = Absent
  Torn = Torn
  Launchers = {"local", "cloud"}
  Cutoffs <- TwoDays
  MaxBuilds = 2
  MaxJobs = 3
CHECK_DEADLOCK FALSE
INVARIANT TypeOK
INVARIANT JobsRunAsBuilt
INVARIANT AllOrNoFunctions
INVARIANT CloudJobsLoseToFollowers
