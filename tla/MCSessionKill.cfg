SPECIFICATION KillFairSpec
CONSTANTS
  s1 = s1
  s2 = s2
  d1 = d1
  d2 = d2
  p1 = p1
  Nothing = Nothing
  Sessions = {s1, s2}
  Screens = {d1, d2}
  Ptys = {p1}
  SessionOf <- MCSessionOf
  MaxKills = 2
  MaxStreams = 2
INVARIANTS
  KillReaches
PROPERTY
  KillResolved
CHECK_DEADLOCK FALSE
