SPECIFICATION Spec
CONSTANTS
  r = r
  d = d
  f = f
  g = g
  None = None
  Root = r
  Folder = d
  Names = {f, g}
  NewNames = {g}
  Backstops = {TRUE}
  MaxEarly = 1
  MaxEdits = 1
  MaxFaults = 0
INVARIANT RemovedIsNew
