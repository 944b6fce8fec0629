SPECIFICATION Spec
CONSTANTS
  send = send
  ask = ask
  put = put
  gh = gh
  None = None
  HttpCalls = {send, put}
  Stageable = {send}
  Approvable = {}
  Undoable = {put}
  GhCalls = {gh}
  GhUndoable = {gh}
  MaySignal = FALSE
INVARIANTS
  RunTypeOK
  OutcomeTruthful
  NeverHalf
  ApprovedOnDisk
