SPECIFICATION FairSpec
CONSTANTS
  send = send
  ask = ask
  put = put
  gh = gh
  None = None
  HttpCalls = {ask}
  Stageable = {}
  Approvable = {ask}
  Undoable = {ask}
  GhCalls = {gh}
  GhUndoable = {}
  MaySignal = TRUE
PROPERTY RunEnds
