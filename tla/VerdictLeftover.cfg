SPECIFICATION Spec
CONSTANTS
  a = a
  b = b
  f = f
  g = g
  m1 = m1
  m2 = m2
  n1 = n1
  Sources = {a, b}
  Anchors = {f, g}
  Mutants = {m1, m2, n1}
  MutantsOf <- MCMutantsOf
  SourceOf <- MCSourceOf
  AnchorOf <- MCAnchorOf
  Suites = {t1}
  NoTests = NoTests
  Versions = {1, 2}
  HasBuild = TRUE
  StopEarly = TRUE
  MaxEdits = 2
INVARIANT AlwaysKeyedAsJudged
