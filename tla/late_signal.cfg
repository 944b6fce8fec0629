SPECIFICATION Spec
CONSTANTS
  send = send
  ask = ask
  put = put
  gh = gh
  None = None
  HttpCalls = {send}
  Stageable = {send}
  Approvable = {}
  Undoable = {}
  GhCalls = {}
  GhUndoable = {}
  MaySignal = TRUE
INVARIANT OutcomeTruthful
