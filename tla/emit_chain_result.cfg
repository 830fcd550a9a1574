SPECIFICATION Spec
CONSTANTS
  t1 = t1
  t2 = t2
  p1 = p1
  p2 = p2
  q = q
  Threads = {t1, t2}
  Paths = {p1, p2, q}
  BadPath = bad
  Hashes = {h1, h2}
  Chains = {c1}
  NoChain = nochain
  Nil = nil
  Scope <- OwnScope
  HookPaths = {q}
  Ops = {"set"}
  HookOps = {"create"}
  NumHooks = 1
  DepthLimit = 2
  MaxCalls = 3
CHECK_DEADLOCK FALSE
INVARIANTS
  NotCommittedMeansUnchanged
