--------------------------- MODULE HttpsStaging ----------------------------
(***************************************************************************)
(* The HTTPS proxy.  The handler of a request is                           *)
(*   idle       not started                                                *)
(*   received   has read the request                                       *)
(*   asking     waits for an approval                                      *)
(*   agreed     was granted it, or                                         *)
(*   refused    denied it, by a message its callback has yet to receive    *)
(*   approved   has it, on record                                          *)
(*   sending    in RoundTrip, with the service                             *)
(*   done       has answered the child                                     *)
(* Finalize runs in runCommand's goroutine, between its labels "finHttps"  *)
(* and "finPg"; every save of the audit record and every call to a service *)
(* is a step of its own, and either may fail.                              *)
(***************************************************************************)
EXTENDS RunState

HandlerFrame ==
  UNCHANGED <<controlVars, decisionVars, signalVars, pgVars, ghVars, sealing, finErr>>

Move(q, label) == hpc' = [hpc EXCEPT ![q] = label]

\* beginHandler, track, intercept
Arrive(q) ==
  /\ Serving /\ hpc[q] = "idle" /\ ~sealing
  /\ Move(q, "received")
  /\ UNCHANGED <<active, auditVars, staged, requests, undoCalls, approvals, origin>>
  /\ HandlerFrame

\* A body that cannot be read or is too long, a failed classification.
Block(q) ==
  /\ Serving /\ hpc[q] = "received"
  /\ Move(q, "done")
  /\ UNCHANGED <<active, auditVars, staged, requests, undoCalls, approvals, origin>>
  /\ HandlerFrame

\* The child gets the adapter's answer, the call waits for the decision.
Stage(q) ==
  /\ Serving /\ hpc[q] = "received" /\ q \in Stageable
  /\ staged' = Append(staged, [call |-> q, state |-> "pending"])
  /\ Move(q, "done")
  /\ UNCHANGED <<active, auditVars, requests, undoCalls, approvals, origin>>
  /\ HandlerFrame

Ask(q) ==
  /\ Serving /\ hpc[q] = "received" /\ q \in Approvable
  /\ Move(q, "asking")
  /\ UNCHANGED <<active, auditVars, staged, requests, undoCalls, approvals, origin>>
  /\ HandlerFrame

\* The person at the terminal answers; the callback has not seen it yet.
AnswerHttps(q, yes) ==
  /\ at = "child" /\ active = q
  /\ active' = None
  /\ Move(q, IF yes THEN "agreed" ELSE "refused")
  /\ UNCHANGED <<auditVars, staged, requests, undoCalls, approvals, origin>>
  /\ HandlerFrame

\* Mutant: an approval counts although it could not be recorded.
RecordHttpsUnsaved(q, saved) ==
  /\ Serving /\ hpc[q] \in {"agreed", "refused"}
  /\ Update(WithApproval(q, hpc[q] = "agreed"), saved)
  /\ approvals' = approvals \cup {q}
  /\ Move(q, IF hpc[q] = "agreed" THEN "approved" ELSE "done")
  /\ UNCHANGED <<active, staged, requests, undoCalls, origin>>
  /\ HandlerFrame

\* The callback records the answer; one it cannot record is an error.
RecordHttps(q, saved) ==
  /\ Serving /\ hpc[q] \in {"agreed", "refused"}
  /\ Update(WithApproval(q, hpc[q] = "agreed"), saved)
  /\ approvals' = approvals \cup {q}
  /\ Move(q, IF hpc[q] = "agreed" /\ saved THEN "approved" ELSE "done")
  /\ UNCHANGED <<active, staged, requests, undoCalls, origin>>
  /\ HandlerFrame

\* Seal cancels the context of an approval, an answer on its way to the
\* callback included.
AskCancelled(q) ==
  /\ Serving /\ hpc[q] \in {"asking", "agreed", "refused"} /\ sealing
  /\ approvals' = approvals \cup {q}
  /\ Move(q, "done")
  /\ UNCHANGED <<active, auditVars, staged, requests, undoCalls, origin>>
  /\ HandlerFrame

MayForward(q) ==
  \/ hpc[q] = "received" /\ q \notin Stageable \cup Approvable
  \/ hpc[q] = "approved"

Forward(q) ==
  /\ Serving /\ MayForward(q) /\ ~sealing
  /\ Move(q, "sending")
  /\ UNCHANGED <<active, auditVars, staged, requests, undoCalls, approvals, origin>>
  /\ HandlerFrame

\* After Seal the request fails before it is sent: its context is cancelled.
ForwardCancelled(q) ==
  /\ Serving /\ MayForward(q) /\ sealing
  /\ requests' = Append(requests, [call |-> q, undo |-> "none"])
  /\ Move(q, "done")
  /\ UNCHANGED <<active, auditVars, staged, undoCalls, approvals, origin>>
  /\ HandlerFrame

\* Mutant: the index of the compensation is one too small.
RespondOff(q, acted, ok, renders) ==
  /\ Serving /\ hpc[q] = "sending"
  /\ ok => acted
  /\ origin' = IF acted THEN [origin EXCEPT ![q] = "applied"] ELSE origin
  /\ LET undo == IF ~ok \/ q \notin Undoable THEN "none"
                 ELSE IF renders THEN "available" ELSE "unavailable"
     IN /\ requests' = Append(requests, [call |-> q, undo |-> undo])
        /\ undoCalls' = IF undo = "none" THEN undoCalls
                        ELSE Append(undoCalls, Len(requests))
  /\ Move(q, "done")
  /\ UNCHANGED <<active, auditVars, staged, approvals>>
  /\ HandlerFrame

\* The service has acted or not; ok is an answer with a 2xx status, after
\* which the compensation is rendered from it.  Seal cancels the request, and
\* then nobody knows what the service did.
Respond(q, acted, ok, renders) ==
  /\ Serving /\ hpc[q] = "sending"
  /\ ok => acted
  /\ origin' = IF acted THEN [origin EXCEPT ![q] = "applied"] ELSE origin
  /\ LET undo == IF ~ok \/ q \notin Undoable THEN "none"
                 ELSE IF renders THEN "available" ELSE "unavailable"
     IN /\ requests' = Append(requests, [call |-> q, undo |-> undo])
        /\ undoCalls' = IF undo = "none" THEN undoCalls
                        ELSE Append(undoCalls, Len(requests) + 1)
  /\ Move(q, "done")
  /\ UNCHANGED <<active, auditVars, staged, approvals>>
  /\ HandlerFrame

(***************************************************************************)
(* Seal, as runCommand calls it.                                           *)
(***************************************************************************)
HttpsSeal ==
  /\ at = "sealHttps"
  /\ sealing' = TRUE
  /\ Goto("sealingHttps")
  /\ UNCHANGED <<todo, decisionVars, signalVars, active, auditVars, pgVars, ghVars,
                 hpc, staged, requests, undoCalls, approvals, finErr, origin>>

Drained == \A q \in HttpCalls : hpc[q] \in {"idle", "done"}

\* Mutant: Seal does not wait for the handlers.
HttpsSealedEarly(ok) ==
  /\ at = "sealingHttps"
  /\ lost' = (lost \/ ~ok)
  /\ interrupted' = (interrupted \/ signalled)
  /\ reviewed' = [reviewed EXCEPT !.staged = staged, !.requests = requests]
  /\ Goto("sealPg")
  /\ UNCHANGED <<todo, childErr, decision, signalled, received, active, auditVars,
                 pgVars, httpsVars, ghVars>>

\* Mutant: Seal waits for the handlers however long they take.
HttpsSealedDrained(ok) ==
  /\ at = "sealingHttps" /\ Drained
  /\ lost' = (lost \/ ~ok)
  /\ interrupted' = (interrupted \/ signalled)
  /\ reviewed' = [reviewed EXCEPT !.staged = staged, !.requests = requests]
  /\ Goto("sealPg")
  /\ UNCHANGED <<todo, childErr, decision, signalled, received, active, auditVars,
                 pgVars, httpsVars, ghVars>>

\* The handlers are done, or the context is, by its deadline or by a signal.
\* A second Seal with a fresh context returns the same error: closeOnce.
HttpsSealed(ok) ==
  /\ at = "sealingHttps"
  /\ ok => Drained
  /\ lost' = (lost \/ ~ok)
  /\ interrupted' = (interrupted \/ signalled)
  /\ reviewed' = [reviewed EXCEPT !.staged = staged, !.requests = requests]
  /\ Goto("sealPg")
  /\ UNCHANGED <<todo, childErr, decision, signalled, received, active, auditVars,
                 pgVars, httpsVars, ghVars>>

(***************************************************************************)
(* Finalize.                                                               *)
(***************************************************************************)
FinalizeFrame ==
  UNCHANGED <<decisionVars, received, signalled, active, pgVars, ghVars, hpc, sealing,
              undoCalls, approvals>>

Mark(i, state) == [staged EXCEPT ![i].state = state]

MarkUndo(i, state) == [requests EXCEPT ![i].undo = state]

\* persistStagedUpdate with these calls and requests.
Persist(calls, sent, saved) == Update(WithHttps(record, calls, sent), saved)

FinalizeHttps(saved) ==
  /\ at = "finHttps"
  /\ IF decision = "commit" /\ ~ghErr
     THEN /\ saved
          /\ Goto("replay")
          /\ todo' = [i \in DOMAIN staged |-> i]
          /\ UNCHANGED <<auditVars, staged, finErr>>
     ELSE /\ staged' = [i \in DOMAIN staged |-> [staged[i] EXCEPT !.state = "discarded"]]
          /\ Persist(staged', requests, saved)
          /\ finErr' = ~saved
          /\ Goto("undo")
          /\ todo' = undoCalls
  /\ UNCHANGED <<interrupted, requests, origin>>
  /\ FinalizeFrame

\* Mutant: a call is sent although "sending" could not be recorded.
ReplayUnsaved(saved) ==
  /\ at = "replay" /\ todo # <<>>
  /\ LET i == Head(todo) IN
     /\ Persist(Mark(i, "sending"), requests, saved)
     /\ staged' = Mark(i, "sending")
     /\ Goto("replaySend")
     /\ UNCHANGED todo
  /\ finErr' = (finErr \/ ~saved)
  /\ UNCHANGED <<interrupted, requests, origin>>
  /\ FinalizeFrame

\* "sending" is on disk before the call is sent.
Replay(saved) ==
  /\ at = "replay" /\ todo # <<>>
  /\ LET i == Head(todo) IN
     /\ Persist(Mark(i, "sending"), requests, saved)
     /\ IF saved
        THEN staged' = Mark(i, "sending") /\ Goto("replaySend") /\ UNCHANGED todo
        ELSE staged' = Mark(i, "not-sent") /\ todo' = Tail(todo) /\ UNCHANGED at
  /\ finErr' = (finErr \/ ~saved)
  /\ UNCHANGED <<interrupted, requests, origin>>
  /\ FinalizeFrame

\* Mutant: the last call decides about the error of all.
ReplaySendForgets(acted, ok, saved) ==
  /\ at = "replaySend"
  /\ ok => acted
  /\ LET i == Head(todo) IN
     /\ origin' = IF acted THEN [origin EXCEPT ![staged[i].call] = "applied"] ELSE origin
     /\ staged' = Mark(i, IF ok THEN "sent" ELSE "unknown")
  /\ Persist(staged', requests, saved)
  /\ finErr' = (~ok \/ ~saved)
  /\ todo' = Tail(todo)
  /\ Goto("replay")
  /\ UNCHANGED <<interrupted, requests>>
  /\ FinalizeFrame

\* Without a 2xx answer nobody knows whether the service acted.  A compensation
\* of the call would be listed after the only use of undoCalls: it is left out.
ReplaySend(acted, ok, saved) ==
  /\ at = "replaySend"
  /\ ok => acted
  /\ LET i == Head(todo) IN
     /\ origin' = IF acted THEN [origin EXCEPT ![staged[i].call] = "applied"] ELSE origin
     /\ staged' = Mark(i, IF ok THEN "sent" ELSE "unknown")
  /\ Persist(staged', requests, saved)
  /\ finErr' = (finErr \/ ~ok \/ ~saved)
  /\ todo' = Tail(todo)
  /\ Goto("replay")
  /\ UNCHANGED <<interrupted, requests>>
  /\ FinalizeFrame

\* Mutant: a compensation is sent although "undoing" could not be recorded.
UndoUnsaved(saved) ==
  /\ at = "undo" /\ todo # <<>>
  /\ LET i == Head(todo) IN
     IF requests[i].undo = "unavailable"
     THEN finErr' = TRUE /\ todo' = Tail(todo) /\ UNCHANGED <<at, auditVars, requests>>
     ELSE /\ Persist(staged, MarkUndo(i, "undoing"), saved)
          /\ requests' = MarkUndo(i, "undoing") /\ Goto("undoSend")
          /\ finErr' = (finErr \/ ~saved) /\ UNCHANGED todo
  /\ UNCHANGED <<interrupted, staged, origin>>
  /\ FinalizeFrame

\* runUndos, up to the call of the service.
Undo(saved) ==
  /\ at = "undo" /\ todo # <<>>
  /\ LET i == Head(todo) IN
     IF requests[i].undo = "unavailable"
     THEN /\ saved /\ finErr' = TRUE /\ todo' = Tail(todo)
          /\ UNCHANGED <<at, auditVars, requests>>
     ELSE /\ Persist(staged, MarkUndo(i, "undoing"), saved)
          /\ IF saved
             THEN requests' = MarkUndo(i, "undoing") /\ Goto("undoSend") /\ UNCHANGED todo
             ELSE requests' = MarkUndo(i, "failed") /\ todo' = Tail(todo) /\ UNCHANGED at
          /\ finErr' = (finErr \/ ~saved)
  /\ UNCHANGED <<interrupted, staged, origin>>
  /\ FinalizeFrame

UndoSend(acted, ok, saved) ==
  /\ at = "undoSend"
  /\ ok => acted
  /\ LET i == Head(todo) IN
     /\ origin' = IF acted THEN [origin EXCEPT ![requests[i].call] = "undone"] ELSE origin
     /\ requests' = MarkUndo(i, IF ok THEN "succeeded" ELSE "failed")
  /\ Persist(staged, requests', saved)
  /\ finErr' = (finErr \/ ~ok \/ ~saved)
  /\ todo' = Tail(todo)
  /\ Goto("undo")
  /\ UNCHANGED <<interrupted, staged>>
  /\ FinalizeFrame

\* The end of Finalize.  Called again after a cancellation it only repeats
\* its error: finalizeOnce.
EndHttps(saved) ==
  /\ at \in {"replay", "undo"} /\ todo = <<>>
  /\ Persist(staged, requests, saved)
  /\ finErr' = (finErr \/ ~saved)
  /\ interrupted' = (interrupted \/ signalled)
  /\ Goto("finPg")
  /\ UNCHANGED <<todo, staged, requests, origin>>
  /\ FinalizeFrame

HandlerNext(q) ==
  \/ Arrive(q) \/ Block(q) \/ Stage(q) \/ Ask(q) \/ AskCancelled(q)
  \/ Forward(q) \/ ForwardCancelled(q)
  \/ \E yes \in BOOLEAN : AnswerHttps(q, yes) \/ RecordHttps(q, yes)
  \/ \E acted, ok, renders \in BOOLEAN : Respond(q, acted, ok, renders)

HttpsRunNext ==
  \/ HttpsSeal
  \/ \E ok \in BOOLEAN : HttpsSealed(ok)
  \/ \E saved \in BOOLEAN :
       \/ FinalizeHttps(saved) \/ Replay(saved) \/ Undo(saved) \/ EndHttps(saved)
       \/ \E acted, ok \in BOOLEAN : ReplaySend(acted, ok, saved) \/ UndoSend(acted, ok, saved)
=============================================================================
