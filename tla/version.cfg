SPECIFICATION FairVSpec
CONSTANTS
  t1 = t1
  t2 = t2
  t3 = t3
  d1 = d1
  d2 = d2
  p1 = p1
  p2 = p2
  p3 = p3
  e1 = e1
  g1 = g1
  x1 = x1
  x2 = x2
  x3 = x3
  h1 = h1
  h2 = h2
  Paths = {p1, p2, p3, e1, g1}
  Prefixes = {x1, x2, x3}
  Under <- NestedUnder
  NumConfigs = 2
  Hashes = {h1, h2}
  Nil = nil
  Scope <- OwnScope
  Choices <- OwnChoices
  MaxRetries = 3
  MaxHeadRetries = 3
  VPrefix = x2
  Excluded = {e1}
  Tagged = {g1}
  ActiveBranch = TRUE
  Threads = {t1, t2, t3, d1, d2}
  Deep = {d1, d2}
  Casts <- MixedCasts
CHECK_DEADLOCK FALSE
INVARIANTS
  VTypeOK
  RootCurrent
  DisabledCleared
  HaltsForCause
  Captured
  NeverVersioned
  BurstCaptured
PROPERTIES
  NoLostUpdate
  HeadExtends
  CascadesEnd
  EventuallyVersioned
