SPECIFICATION Spec
CONSTANTS
  c1 = c1
  c2 = c2
  c3 = c3
  k1 = k1
  k2 = k2
  Callers = {c1, c2, c3}
  Relays = {c1, c2}
  Conns = {k1, k2}
  Gates = {g1, g2, g3}
  Casts <- MCCasts
  NoConn = NoConn
  NoGate = NoGate
  NoCaller = NoCaller
CHECK_DEADLOCK FALSE
INVARIANT ForwardedMeansProcessed
