SPECIFICATION Spec
CONSTANTS
  a = a
  b = b
  s = s
  u = u
  r = r
  None = None
  NoRisk = NoRisk
  Clients = {a, b}
  Batchers = {b}
  Extenders = {}
  Escapers = {b}
  EscapeInBatch = TRUE
  SaveNames = {s}
  Risks = {r}
  MaxRows = 2
  MaxSaves = 0
  MaxEscapes = 1
INVARIANT AcknowledgedSettled
