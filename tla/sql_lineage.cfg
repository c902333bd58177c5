SPECIFICATION FairSpec
CONSTANTS
  t1 = t1
  Threads = {t1}
  a = a
  b = b
  Parts = {a}
  Names <- JoinedNames
  d1 = d1
  d2 = d2
  Defs = {d1, d2}
  AnyIds = FALSE
  MaxId = 5
  MaxInputs = 2
  Faults = FALSE
INVARIANT TypeOK
INVARIANT EveryEntityReadable
INVARIANT DuplicatesAgree
PROPERTY RefusalIsJustified
PROPERTY ImplementsLineageStore
PROPERTY EveryRequestAnswered
