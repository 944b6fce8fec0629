----------------------------- MODULE RunState ------------------------------
(***************************************************************************)
(* The state of one `unring run` (internal/cli runCommand) from its first  *)
(* audit record to its last, with the outbound interceptors it supervises: *)
(* the HTTPS proxy that stages calls (internal/httpsproxy), the shim in    *)
(* front of gh (internal/ghshim) and the PostgreSQL session, of which only *)
(* what Session promises is kept.                                          *)
(***************************************************************************)
EXTENDS Integers, Sequences, FiniteSets

CONSTANTS
  HttpCalls,   \* requests the child sends, each at most once
  Stageable,   \* ... held back until the decision (adapter.TierStageable)
  Approvable,  \* ... sent only after a person approved them; the rest is sent
  Undoable,    \* ... whose adapter declares a compensation
  GhCalls,     \* gh invocations that change something; all need an approval
  GhUndoable,  \* ... whose adapter declares a compensation
  None,        \* no call
  MaySignal    \* whether unring receives a signal

ASSUME CallAssumption ==
  /\ Stageable \subseteq HttpCalls /\ Approvable \subseteq HttpCalls
  /\ Stageable \cap Approvable = {} /\ Undoable \subseteq HttpCalls
  /\ GhUndoable \subseteq GhCalls /\ HttpCalls \cap GhCalls = {}
  /\ None \notin HttpCalls \cup GhCalls
ASSUME SignalAssumption == MaySignal \in BOOLEAN

VARIABLES
  \* runCommand.
  at,          \* where it is
  todo,        \* what the loop it is in has left: indexes, in order
  childErr,    \* result.Err # nil
  interrupted,
  lost,        \* interceptionErr # nil: an interceptor did not seal
  reviewed,    \* ghSummary and httpsSummary, what the decision is about
  decision,    \* "discard" or "commit"
  signalled,   \* postChildSignals.First() # nil
  received,    \* the signal the deferred function saw
  active,      \* runner.Run's activeApproval
  \* The audit record in memory and the file on disk (audit.Session, Store).
  record, disk,
  \* The PostgreSQL session.
  pgFate,      \* "none", "open", "committed", "rolledback", "lost"
  pgSealed,    \* "no", "complete", "incomplete", "failed"
  pgErr,       \* Finalize returned an error
  \* The HTTPS proxy, and what its calls did to their services.
  hpc,         \* where the handler of each request is
  sealing,     \* Seal was called: no new connection, runCtx is cancelled
  staged,      \* the staged calls, each with its state
  requests,    \* the forwarded requests, each with the state of its undo
  undoCalls,   \* indexes of requests to compensate on discard
  approvals,   \* requests with an ApprovalRecord
  finErr,      \* finalizeErr # nil
  origin,      \* external: "none", "applied" or "undone"
  \* The gh shim, and what its invocations did to GitHub.
  gpc, ghSealing, ghRecords, ghErr,
  ghWorld      \* external

controlVars == <<at, todo>>
decisionVars == <<childErr, lost, reviewed, decision>>
signalVars == <<interrupted, signalled, received>>
auditVars == <<record, disk>>
pgVars == <<pgFate, pgSealed, pgErr>>
httpsVars == <<hpc, sealing, staged, requests, undoCalls, approvals, finErr, origin>>
ghVars == <<gpc, ghSealing, ghRecords, ghErr, ghWorld>>
runVars == <<controlVars, decisionVars, signalVars, active, auditVars, pgVars,
             httpsVars, ghVars>>

Goto(label) == at' = label

\* The process is up, and the child was started.
Serving ==
  /\ at \notin {"snapshot", "setup", "exit", "crashed"}
  /\ at = "cleanup" => pgSealed # "no"

(***************************************************************************)
(* audit.Session.Update keeps a change in memory even when Store.Save,     *)
(* which replaces the file atomically or not at all, fails.                *)
(***************************************************************************)
Update(changed, saved) ==
  /\ record' = changed
  /\ disk' = IF saved THEN changed ELSE disk

NewRecord ==
  [decision |-> "discard", outcome |-> "pending", staged |-> <<>>, requests |-> <<>>,
   gh |-> <<>>, approvals |-> {}]

\* updateHTTPSAudit, and the summary of the gh shim.
WithHttps(old, calls, sent) == [old EXCEPT !.staged = calls, !.requests = sent]

WithOutbound(old, calls, sent, invocations) ==
  [WithHttps(old, calls, sent) EXCEPT !.gh = invocations]

\* The approval callbacks record the answer of the person before they return it.
WithApproval(call, yes) ==
  [record EXCEPT !.approvals = IF yes THEN @ \cup {call} ELSE @]

Init ==
  /\ at = "snapshot" /\ todo = <<>> /\ childErr = FALSE
  /\ interrupted = FALSE /\ lost = FALSE /\ decision = "discard"
  /\ reviewed = [gh |-> <<>>, staged |-> <<>>, requests |-> <<>>]
  /\ signalled = FALSE /\ received = FALSE /\ active = None
  /\ record = NewRecord /\ disk = NewRecord
  /\ pgFate = "none" /\ pgSealed = "no" /\ pgErr = FALSE
  /\ hpc = [q \in HttpCalls |-> "idle"] /\ sealing = FALSE
  /\ staged = <<>> /\ requests = <<>> /\ undoCalls = <<>> /\ approvals = {}
  /\ finErr = FALSE /\ origin = [q \in HttpCalls |-> "none"]
  /\ gpc = [g \in GhCalls |-> "idle"] /\ ghSealing = FALSE /\ ghRecords = <<>>
  /\ ghErr = FALSE /\ ghWorld = [g \in GhCalls |-> "none"]
=============================================================================
