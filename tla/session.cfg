SPECIFICATION Spec
CONSTANTS
  a = a
  b = b
  s = s
  u = u
  r = r
  None = None
  NoRisk = NoRisk
  Clients = {a, b}
  Batchers = {b}
  Extenders = {a}
  Escapers = {a}
  EscapeInBatch = FALSE
  SaveNames = {s}
  Risks = {r}
  MaxRows = 2
  MaxSaves = 0
  MaxEscapes = 1
INVARIANTS
  TypeOK
  OneOpenTransaction
  SavepointsNested
  AcknowledgedSettled
  LedgerExact
  SummaryExact
  EscapeReserved
  EscapesRecorded
PROPERTIES
  ForeignWorkKept
  ImplementsSession
