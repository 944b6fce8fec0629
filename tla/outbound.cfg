SPECIFICATION Spec
CONSTANTS
  send = send
  ask = ask
  put = put
  gh = gh
  None = None
  HttpCalls = {send, put, ask}
  Stageable = {send, put}
  Approvable = {ask}
  Undoable = {ask}
  GhCalls = {}
  GhUndoable = {}
  MaySignal = TRUE
INVARIANTS
  SendsOnDisk
  UndosOnDisk
  ApprovedOnDisk
  NothingBehindReview
  CommitAfterDelivery
