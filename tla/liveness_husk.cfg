SPECIFICATION FairSpec
CONSTANTS
  o1 = o1
  o2 = o2
  i1 = i1
  s1 = s1
  s2 = s2
  d1 = d1
  k1 = k1
  r1 = r1
  Outbound = {o1, o2}
  Inbound = {i1}
  Senders = {s1, s2}
  Relays = {r1}
  Dialers = {d1}
  Closers = {k1}
  Casts <- MCCasts
  MaxMissed = 2
  Losses = 1
  NoEP = NoEP
  NoCaller = NoCaller
CHECK_DEADLOCK FALSE
PROPERTY EscalatesUnlessLive
