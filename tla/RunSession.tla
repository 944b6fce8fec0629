---------------------------- MODULE RunSession -----------------------------
(***************************************************************************)
(* runCommand: how one session starts, ends, is decided and is recorded.   *)
(* Every label of "at" is a phase of it; between two of them a signal may  *)
(* arrive, the handlers of the interceptors run, and the process may die.  *)
(***************************************************************************)
EXTENDS GhShim

ChildFrame == UNCHANGED <<todo, received, decision, lost, reviewed>>

\* StartScopeContext, the record of its snapshot, the automatic retention and
\* its record, which may fail on its own.
Snapshot(ok, saved) ==
  /\ at = "snapshot"
  /\ IF ok /\ saved
     THEN /\ Update(record, TRUE)
          /\ at' \in IF signalled THEN {"cleanup"} ELSE {"setup", "cleanup"}
     ELSE /\ Goto("cleanup")
          /\ IF ~ok /\ signalled THEN UNCHANGED auditVars
             ELSE \E again \in BOOLEAN :
                    Update([record EXCEPT !.outcome = "not_started"], again)
  /\ ChildFrame
  /\ UNCHANGED <<childErr, interrupted, signalled, active, pgVars, httpsVars, ghVars>>

\* The gh shim, PostgreSQL, the HTTPS proxy and the child's environment, in
\* this order; the first step that fails ends the session.
Setup(ok, opened) ==
  /\ at = "setup"
  /\ ok => opened
  /\ pgFate' = IF opened THEN "open" ELSE "none"
  /\ Goto(IF ok /\ ~signalled THEN "child" ELSE "cleanup")
  /\ ChildFrame
  /\ UNCHANGED <<childErr, interrupted, signalled, active, auditVars, pgSealed, pgErr,
                 httpsVars, ghVars>>

\* runner.Run presents one approval at a time.
Prompt(call) ==
  /\ at = "child" /\ active = None
  /\ \/ call \in HttpCalls /\ hpc[call] = "asking"
     \/ call \in GhCalls /\ gpc[call] = "asking"
  /\ active' = call
  /\ UNCHANGED <<controlVars, decisionVars, signalVars, auditVars, pgVars, httpsVars, ghVars>>

\* The approval on the screen ends in an error.
CancelPrompt ==
  /\ active' = None
  /\ hpc' = [q \in HttpCalls |-> IF q = active THEN "refused" ELSE hpc[q]]
  /\ gpc' = [g \in GhCalls |-> IF g = active THEN "refused" ELSE gpc[g]]
  /\ UNCHANGED <<auditVars, pgVars, sealing, staged, requests, undoCalls, approvals, finErr,
                 origin, ghSealing, ghRecords, ghErr, ghWorld>>

\* The first signal; it ends the prompt that is on the screen.  A later one
\* could only cancel the file scan, which is not modelled.
Signal ==
  /\ MaySignal /\ ~signalled /\ at \notin {"exit", "crashed"}
  /\ signalled' = TRUE
  /\ CancelPrompt
  /\ UNCHANGED <<at, childErr, interrupted>>
  /\ ChildFrame

\* The child ends or is killed, by a signal of its own, because it stopped or
\* because the database session is lost.
ChildExits(err, killed) ==
  /\ at = "child"
  /\ childErr' = err
  /\ interrupted' = (signalled \/ killed)
  /\ CancelPrompt
  /\ Goto("scan")
  /\ ChildFrame
  /\ UNCHANGED signalled

\* The file scan, the second retention, and the record of both.
Scan(saved) ==
  /\ at = "scan"
  /\ interrupted' = (interrupted \/ signalled)
  /\ Update(record, saved)
  /\ Goto("sealGh")
  /\ ChildFrame
  /\ UNCHANGED <<childErr, signalled, active, pgVars, httpsVars, ghVars>>

(***************************************************************************)
(* PostgreSQL, as PgProxy implements it: Seal returns a complete or an     *)
(* incomplete summary or the loss of the session, and only a sealed        *)
(* session that is not lost can be committed.                              *)
(***************************************************************************)
ReviewableOutbound ==
  staged # <<>> \/ requests # <<>> \/ approvals # {} \/ ghRecords # <<>>

\* A session in which nothing happened ends without a decision.
PgSeal(result, activity) ==
  /\ at = "sealPg"
  /\ result # "complete" => activity
  /\ pgSealed' = result
  /\ pgFate' = IF result = "failed" THEN "lost" ELSE pgFate
  /\ lost' = (lost \/ result = "failed")
  /\ interrupted' = (interrupted \/ signalled)
  /\ Goto(IF ~lost' /\ ~activity /\ ~ReviewableOutbound THEN "finGh" ELSE "decide")
  /\ UNCHANGED <<todo, childErr, reviewed, decision, signalled, received, active, auditVars,
                 pgErr, httpsVars, ghVars>>

\* --commit, --discard, the prompt or the review; the decision is recorded
\* before it takes effect, and a record that cannot be written discards.
Decide(choice, saved) ==
  /\ at = "decide"
  /\ choice = "commit" =>
       ~lost /\ pgSealed = "complete" /\ ~interrupted /\ ~signalled /\ ~childErr
  /\ decision' = IF saved THEN choice ELSE "discard"
  /\ Update([WithOutbound(record, reviewed.staged, reviewed.requests, reviewed.gh)
               EXCEPT !.decision = choice], saved)
  /\ interrupted' = (interrupted \/ signalled)
  /\ Goto("finGh")
  /\ UNCHANGED <<todo, childErr, lost, reviewed, signalled, received, active, pgVars,
                 httpsVars, ghVars>>

\* A COMMIT whose answer is lost may have happened.
PgFinalize(ok) ==
  /\ at = "finPg"
  /\ pgSealed = "failed" => ~ok
  /\ pgErr' = ~ok
  /\ pgFate' \in IF pgSealed = "failed" THEN {pgFate}
                  ELSE IF decision # "commit" \/ ghErr \/ finErr THEN {"rolledback"}
                  ELSE IF ok THEN {"committed"} ELSE {"committed", "rolledback"}
  /\ interrupted' = (interrupted \/ signalled)
  /\ Goto("record")
  /\ UNCHANGED <<todo, childErr, lost, reviewed, decision, signalled, received, active,
                 auditVars, pgSealed, httpsVars, ghVars>>

Outcome == IF decision = "commit" THEN "committed" ELSE "discarded"

\* Mutant: only the database decides about the outcome.
RecordPgOutcome(saved) ==
  /\ at = "record"
  /\ Update([WithOutbound(record, staged, requests, ghRecords) EXCEPT
               !.outcome = IF pgErr THEN "unknown" ELSE Outcome], saved)
  /\ Goto("cleanup")
  /\ ChildFrame
  /\ UNCHANGED <<childErr, interrupted, signalled, active, pgVars, httpsVars, ghVars>>

RecordFinal(saved) ==
  /\ at = "record"
  /\ Update([WithOutbound(record, staged, requests, ghRecords) EXCEPT
               !.outcome = IF ghErr \/ finErr \/ pgErr THEN "unknown" ELSE Outcome], saved)
  /\ Goto("cleanup")
  /\ ChildFrame
  /\ UNCHANGED <<childErr, interrupted, signalled, active, pgVars, httpsVars, ghVars>>

(***************************************************************************)
(* The deferred function: it closes what was started and not finalized,    *)
(* and writes the last record.                                             *)
(***************************************************************************)
Unfinalized == pgFate = "open" /\ pgSealed = "no"

Cleanup(closed, saved) ==
  /\ at = "cleanup"
  /\ received' = signalled
  /\ pgFate' = IF ~Unfinalized THEN pgFate ELSE IF closed THEN "rolledback" ELSE "lost"
  /\ pgErr' = (pgErr \/ (Unfinalized /\ ~closed))
  /\ closed \/ Unfinalized
  /\ sealing' = TRUE /\ ghSealing' = TRUE
  /\ LET outcome == CASE Unfinalized /\ closed   -> "discarded"
                      [] Unfinalized /\ ~closed  -> "unknown"
                      [] ~Unfinalized /\ signalled -> "discarded"
                      [] OTHER -> IF record.outcome = "pending" THEN "not_started"
                                  ELSE record.outcome
     IN Update([WithOutbound(record, staged, requests, ghRecords) EXCEPT
                  !.outcome = outcome,
                  !.decision = IF signalled THEN "discard" ELSE decision], saved)
  /\ Goto("late")
  /\ UNCHANGED <<todo, decisionVars, interrupted, signalled, active, pgSealed, hpc, staged,
                 requests, undoCalls, approvals, finErr, origin, gpc, ghRecords, ghErr, ghWorld>>

\* Stop drains the signals that came in the meantime.
Late(saved) ==
  /\ at = "late"
  /\ IF signalled /\ ~received
     THEN Update([record EXCEPT !.outcome = "discarded", !.decision = "discard"], saved)
     ELSE saved /\ UNCHANGED auditVars
  /\ Goto("exit")
  /\ ChildFrame
  /\ UNCHANGED <<childErr, interrupted, signalled, active, pgVars, httpsVars, ghVars>>

\* The process is killed or the machine fails; PostgreSQL rolls back.  Of the
\* memory only what the properties compare with the file and with the services
\* is kept, as history.
Crash ==
  /\ at \notin {"exit", "crashed"}
  /\ Goto("crashed")
  /\ pgFate' = IF pgFate = "open" THEN "lost" ELSE pgFate
  /\ record' = disk
  /\ todo' = <<>> /\ active' = None
  /\ childErr' = FALSE /\ interrupted' = FALSE /\ lost' = FALSE /\ decision' = "discard"
  /\ reviewed' = [gh |-> <<>>, staged |-> <<>>, requests |-> <<>>]
  /\ signalled' = FALSE /\ received' = FALSE
  /\ pgErr' = FALSE /\ finErr' = FALSE /\ ghErr' = FALSE
  /\ UNCHANGED <<disk, pgSealed, hpc, sealing, staged, requests, undoCalls, approvals, origin,
                 gpc, ghSealing, ghRecords, ghWorld>>

Terminated == at \in {"exit", "crashed"} /\ UNCHANGED runVars

\* The steps of runCommand that wait for nobody's decision.
RunStep ==
  \/ \E saved \in BOOLEAN : Scan(saved) \/ RecordFinal(saved) \/ Late(saved)
  \/ \E result \in {"complete", "incomplete", "failed"}, activity \in BOOLEAN :
       PgSeal(result, activity)
  \/ \E ok \in BOOLEAN : PgFinalize(ok)
  \/ \E closed, saved \in BOOLEAN : Cleanup(closed, saved)
  \/ HttpsRunNext \/ GhRunNext

Next ==
  \/ RunStep
  \/ \E ok, flag \in BOOLEAN : Snapshot(ok, flag) \/ Setup(ok, flag)
  \/ \E err, killed \in BOOLEAN : ChildExits(err, killed)
  \/ \E choice \in {"commit", "discard"}, saved \in BOOLEAN : Decide(choice, saved)
  \/ Signal
  \/ \E call \in HttpCalls \cup GhCalls : Prompt(call)
  \/ \E q \in HttpCalls : HandlerNext(q)
  \/ \E g \in GhCalls : InvocationNext(g)
  \/ Crash
  \/ Terminated

Spec == Init /\ [][Next]_runVars

(***************************************************************************)
(* Fairness.  Every wait of runCommand after the child has a deadline (10  *)
(* or 30 seconds for an interceptor, one for the connection to PostgreSQL) *)
(* and everything else is local work, so its next step is taken.  The      *)
(* requests, the processes of gh, the child and the person at the terminal *)
(* owe nothing.                                                            *)
(***************************************************************************)
FairSpec == Spec /\ WF_runVars(RunStep)

(***************************************************************************)
(* Properties.                                                             *)
(***************************************************************************)
Labels ==
  {"snapshot", "setup", "child", "scan", "sealGh", "sealingGh", "sealHttps", "sealingHttps",
   "sealPg", "decide", "finGh", "undoGh", "finHttps", "replay", "replaySend", "undo",
   "undoSend", "finPg", "record", "cleanup", "late", "exit", "crashed"}

Handling ==
  {"idle", "received", "asking", "agreed", "refused", "approved", "sending", "done"}

StagedCall ==
  [call: Stageable, state: {"pending", "sending", "sent", "unknown", "not-sent", "discarded"}]

Request ==
  [call: HttpCalls,
   undo: {"none", "available", "unavailable", "undoing", "succeeded", "failed"}]

Invocation ==
  [call: GhCalls, state: {"approved", "not-run", "ran", "failed"},
   undo: {"none", "available", "unavailable", "succeeded", "failed"}]

AuditRecord ==
  [decision: {"commit", "discard"},
   outcome: {"pending", "not_started", "committed", "discarded", "unknown"},
   staged: Seq(StagedCall), requests: Seq(Request), gh: Seq(Invocation),
   approvals: SUBSET (HttpCalls \cup GhCalls)]

\* The type of the state of a run; every index of a list of work left, and of
\* a compensation, is the index of an entry.
RunTypeOK ==
  /\ at \in Labels /\ todo \in Seq(Nat \ {0})
  /\ childErr \in BOOLEAN /\ interrupted \in BOOLEAN /\ lost \in BOOLEAN
  /\ reviewed \in [gh: Seq(Invocation), staged: Seq(StagedCall), requests: Seq(Request)]
  /\ decision \in {"commit", "discard"}
  /\ signalled \in BOOLEAN /\ received \in BOOLEAN
  /\ active \in HttpCalls \cup GhCalls \cup {None}
  /\ record \in AuditRecord /\ disk \in AuditRecord
  /\ pgFate \in {"none", "open", "committed", "rolledback", "lost"}
  /\ pgSealed \in {"no", "complete", "incomplete", "failed"} /\ pgErr \in BOOLEAN
  /\ hpc \in [HttpCalls -> Handling]
  /\ sealing \in BOOLEAN /\ staged \in Seq(StagedCall) /\ requests \in Seq(Request)
  /\ undoCalls \in Seq(DOMAIN requests) /\ approvals \subseteq HttpCalls
  /\ finErr \in BOOLEAN /\ origin \in [HttpCalls -> {"none", "applied", "undone"}]
  /\ gpc \in [GhCalls -> {"idle", "asking", "agreed", "refused", "running", "done"}]
  /\ ghSealing \in BOOLEAN /\ ghRecords \in Seq(Invocation) /\ ghErr \in BOOLEAN
  /\ ghWorld \in [GhCalls -> {"none", "applied", "undone"}]

\* Whenever the process dies and whatever could not be saved, the file on disk
\* knows of every staged call that may have reached its service.
SendsOnDisk ==
  \A i \in DOMAIN staged :
    (at = "replaySend" /\ i = Head(todo)) \/ origin[staged[i].call] # "none" =>
      /\ i \in DOMAIN disk.staged
      /\ disk.staged[i].state \in {"sending", "sent", "unknown"}

\* ... and of every compensation of a request that may have been sent.
UndosOnDisk ==
  \A i \in DOMAIN requests :
    (at = "undoSend" /\ i = Head(todo)) \/ origin[requests[i].call] = "undone" =>
      /\ i \in DOMAIN disk.requests
      /\ disk.requests[i].undo \in {"undoing", "succeeded", "failed"}

\* No request and no gh invocation that needs an approval takes effect before
\* the approval is on disk.
ApprovedOnDisk ==
  /\ \A q \in Approvable : hpc[q] = "sending" \/ origin[q] # "none" => q \in disk.approvals
  /\ \A g \in GhCalls : gpc[g] = "running" \/ ghWorld[g] # "none" => g \in disk.approvals

\* From the decision on, the HTTPS activity is what was reviewed: no request
\* is still on its way to its service, none was staged meanwhile, unless the
\* session is known to be lost and can only be discarded.
NothingBehindReview ==
  at \in {"decide", "finGh", "undoGh", "finHttps", "replay", "replaySend", "finPg", "record"}
    /\ ~lost =>
      /\ \A q \in HttpCalls : hpc[q] \in {"idle", "done"}
      /\ Len(staged) = Len(reviewed.staged)

\* The database is committed only when every staged call was delivered.
CommitAfterDelivery ==
  pgFate = "committed" =>
    \A i \in DOMAIN staged : staged[i].state = "sent" /\ origin[staged[i].call] = "applied"

\* The database is not committed when a call or a gh invocation of the same
\* session was compensated.
NeverHalf ==
  pgFate = "committed" =>
    /\ \A q \in HttpCalls : origin[q] # "undone"
    /\ \A g \in GhCalls : ghWorld[g] # "undone"

\* The outcome on disk when unring has exited is what happened: "committed"
\* means that the database is committed and every staged call delivered,
\* "discarded" that it is known to be rolled back, that no staged call was
\* sent, and that everything the review showed to have run with a compensation
\* was compensated, and "not_started" that there was nothing to undo.
OutcomeTruthful ==
  at = "exit" =>
    CASE disk.outcome = "committed" ->
           /\ pgFate = "committed"
           /\ \A i \in DOMAIN staged : origin[staged[i].call] = "applied"
      [] disk.outcome = "discarded" ->
           /\ pgFate \in {"none", "rolledback"}
           /\ \A i \in DOMAIN staged : origin[staged[i].call] = "none"
           /\ \A i \in DOMAIN reviewed.requests : requests[i].undo \in {"none", "succeeded"}
           /\ \A i \in DOMAIN ghRecords : ghRecords[i].undo \in {"none", "succeeded"}
      [] disk.outcome = "not_started" -> pgFate = "none"
      [] OTHER -> TRUE

\* runCommand ends: the interceptors are sealed in spite of requests, gh
\* processes and approvals that never end, and so is the finalization.
RunEnds ==
  /\ at = "scan" ~> at \in {"decide", "finGh", "crashed"}
  /\ at = "finGh" ~> at \in {"exit", "crashed"}
=============================================================================
