SPECIFICATION Spec
CONSTANTS
  r1 = r1
  r2 = r2
  s1 = s1
  p1 = p1
  p2 = p2
  Runners = {r1, r2}
  Restorers = {}
  Pruners = {}
  OldSessions = 0
  MaxSessions = 2
  Measured <- MCMeasured
  Caps = {1}
  MaxCutoff = 0
  MaxFaults = 0
INVARIANT EvictedMarked
