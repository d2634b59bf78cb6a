SPECIFICATION FairSpec
CONSTANTS
  f1 = f1
  f2 = f2
  N = 3
  Files = {f1, f2}
  Slices <- MCSlices
  Parallelism = 2
  Retries = 1
  Proving = TRUE
INVARIANTS
  LanesAreComponents
  RecordedFixIsInTree
  LanesKeepGoing
PROPERTIES
  EditsAreAtomic
  BatchAdvances
  BatchEnds
CHECK_DEADLOCK FALSE
