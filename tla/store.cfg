SPECIFICATION Spec
CONSTANTS
  r1 = r1
  r2 = r2
  s1 = s1
  p1 = p1
  p2 = p2
  Runners = {r1, r2}
  Restorers = {s1}
  Pruners = {p1}
  OldSessions = 1
  MaxSessions = 3
  Measured <- MCMeasured
  Caps = {0, 2}
  MaxCutoff = 2
  MaxFaults = 1
SYMMETRY MCRuns
CONSTRAINT MCSecondRun
INVARIANTS StoreTypeOK NewestKept SealedMeansWhole UnretainedMeansGone
PROPERTIES ReadsStable PrunedStaysPruned ConfirmsShown
