SPECIFICATION Spec
CONSTANTS
  r = r
  d = d
  f = f
  g = g
  None = None
  Root = r
  Folder = d
  Names = {f, g}
  NewNames = {g}
  Backstops = {TRUE}
  MaxEarly = 1
  MaxEdits = 2
  MaxFaults = 1
INVARIANTS
  FilesTypeOK
  CaptureExact
  ChangeListExact
  EditsKept
  RestoredIsBaseline
  UnselectedKept
