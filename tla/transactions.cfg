SPECIFICATION Spec
CONSTANTS
  a = a
  b = b
  s = s
  u = u
  r = r
  None = None
  NoRisk = NoRisk
  Clients = {a, b}
  Batchers = {b}
  Extenders = {a}
  Escapers = {}
  EscapeInBatch = FALSE
  SaveNames = {s, u}
  Risks = {r}
  MaxRows = 2
  MaxSaves = 2
  MaxEscapes = 0
INVARIANTS
  SavepointsNested
  LedgerExact
  SummaryExact
PROPERTIES
  ForeignWorkKept
  ImplementsSession
