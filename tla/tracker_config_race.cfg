SPECIFICATION Spec
CONSTANTS
  t1 = t1
  t2 = t2
  p1 = p1
  Threads = {t1, t2}
  Paths = {p1}
  Tagged = {}
  Prefixes = {x1}
  Under <- AllUnder
  NumConfigs = 1
  Hashes = {h1, h2}
  Nil = nil
  Scope <- ConfigScope
  Choices <- AnyChoices
  Deep = {}
  MaxRetries = 2
  Casts <- ConfigCasts
SYMMETRY Symmetry
CHECK_DEADLOCK FALSE
INVARIANTS
  RootCurrent
