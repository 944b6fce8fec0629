SPECIFICATION FairSpec
CONSTANTS
  a = a
  b = b
  s = s
  u = u
  r = r
  None = None
  NoRisk = NoRisk
  Clients = {a, b}
  Batchers = {b}
  Extenders = {a}
  Escapers = {a}
  EscapeInBatch = FALSE
  SaveNames = {s}
  Risks = {r}
  MaxRows = 1
  MaxSaves = 0
  MaxEscapes = 1
PROPERTY SealCompletes
