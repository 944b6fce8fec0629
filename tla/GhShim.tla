------------------------------ MODULE GhShim -------------------------------
(***************************************************************************)
(* The shim in front of gh.  The process of an invocation is               *)
(*   idle     not started                                                  *)
(*   asking   waits for an approval, its server side in decide             *)
(*   agreed, refused   the answer is on its way to decide                  *)
(*   running  runs the real gh, which no server side waits for             *)
(*   done     ended                                                        *)
(* An invocation that only reads passes through and is not modelled.       *)
(***************************************************************************)
EXTENDS HttpsStaging

ShimFrame ==
  UNCHANGED <<controlVars, decisionVars, signalVars, pgVars, httpsVars, ghSealing, ghErr>>

MoveGh(g, label) == gpc' = [gpc EXCEPT ![g] = label]

AppendRecord(g, state) ==
  ghRecords' = Append(ghRecords, [call |-> g, state |-> state, undo |-> "none"])

GhAsk(g) ==
  /\ Serving /\ gpc[g] = "idle" /\ ~ghSealing
  /\ MoveGh(g, "asking")
  /\ UNCHANGED <<active, auditVars, ghRecords, ghWorld>>
  /\ ShimFrame

AnswerGh(g, yes) ==
  /\ at = "child" /\ active = g
  /\ active' = None
  /\ MoveGh(g, IF yes THEN "agreed" ELSE "refused")
  /\ UNCHANGED <<auditVars, ghRecords, ghWorld>>
  /\ ShimFrame

\* Mutant: gh runs although its approval could not be recorded.
RecordGhUnsaved(g, saved) ==
  /\ Serving /\ gpc[g] \in {"agreed", "refused"}
  /\ Update(WithApproval(g, gpc[g] = "agreed"), saved)
  /\ AppendRecord(g, IF gpc[g] = "agreed" THEN "approved" ELSE "not-run")
  /\ MoveGh(g, IF gpc[g] = "agreed" THEN "running" ELSE "done")
  /\ UNCHANGED <<active, ghWorld>>
  /\ ShimFrame

\* decide, after the answer.  One that could not be recorded is an error.
RecordGh(g, saved) ==
  /\ Serving /\ gpc[g] \in {"agreed", "refused"}
  /\ Update(WithApproval(g, gpc[g] = "agreed"), saved)
  /\ AppendRecord(g, IF gpc[g] = "agreed" /\ saved THEN "approved" ELSE "not-run")
  /\ MoveGh(g, IF gpc[g] = "agreed" /\ saved THEN "running" ELSE "done")
  /\ UNCHANGED <<active, ghWorld>>
  /\ ShimFrame

\* Seal cancels the context of every approval, as in HttpsStaging.
GhAskCancelled(g) ==
  /\ Serving /\ gpc[g] \in {"asking", "agreed", "refused"} /\ ghSealing
  /\ AppendRecord(g, "not-run")
  /\ MoveGh(g, "done")
  /\ UNCHANGED <<active, auditVars, ghWorld>>
  /\ ShimFrame

\* recordOutcome: an exit status 0 is "ran", and what it printed may name the
\* resource it created.
RecordOutcome(g, result, url) ==
  ghRecords' = [i \in DOMAIN ghRecords |->
    IF ghRecords[i].call # g THEN ghRecords[i]
    ELSE [call |-> g, state |-> result,
          undo |-> IF result # "ran" \/ g \notin GhUndoable THEN "none"
                   ELSE IF url THEN "available" ELSE "unavailable"]]

\* The real gh ends, or is killed, and its report reaches the shim's server
\* as long as that one listens.
GhFinish(g, acted, result, url, reported) ==
  /\ gpc[g] = "running"
  /\ result = "ran" => acted
  /\ result = "not-run" => ~acted
  /\ reported => Serving /\ ~ghSealing
  /\ ghWorld' = IF acted THEN [ghWorld EXCEPT ![g] = "applied"] ELSE ghWorld
  /\ IF reported THEN RecordOutcome(g, result, url) ELSE UNCHANGED ghRecords
  /\ MoveGh(g, "done")
  /\ UNCHANGED <<active, auditVars>>
  /\ ShimFrame

(***************************************************************************)
(* Seal and Finalize, as runCommand calls them.                            *)
(***************************************************************************)
GhSeal ==
  /\ at = "sealGh"
  /\ ghSealing' = TRUE
  /\ Goto("sealingGh")
  /\ UNCHANGED <<todo, decisionVars, signalVars, active, auditVars, pgVars, httpsVars,
                 gpc, ghRecords, ghErr, ghWorld>>

\* The server's handlers have returned, or the context is done.  After a
\* cancellation Seal is called again, and waits again: ok is its last answer.
GhSealed(ok) ==
  /\ at = "sealingGh"
  /\ ok => \A g \in GhCalls : gpc[g] \notin {"asking", "agreed", "refused"}
  /\ lost' = (lost \/ ~ok)
  /\ interrupted' = (interrupted \/ signalled)
  /\ reviewed' = [reviewed EXCEPT !.gh = ghRecords]
  /\ Goto("sealHttps")
  /\ UNCHANGED <<todo, childErr, decision, signalled, received, active, auditVars,
                 pgVars, httpsVars, ghVars>>

GhFinalizeFrame ==
  UNCHANGED <<decisionVars, received, signalled, active, auditVars, pgVars, httpsVars, gpc,
              ghSealing>>

Compensable == {i \in DOMAIN ghRecords : ghRecords[i].undo # "none"}

\* The list of the indexes in S.
InOrder(S) ==
  {list \in [1..Cardinality(S) -> S] :
     /\ S = {list[k] : k \in DOMAIN list}
     /\ \A j, k \in DOMAIN list : j < k => list[j] < list[k]}

\* Mutant: what was approved is compensated on commit as well.
FinalizeGhAlways ==
  /\ at = "finGh"
  /\ Goto("undoGh")
  /\ todo' \in InOrder(Compensable)
  /\ UNCHANGED <<interrupted, ghRecords, ghErr, ghWorld>>
  /\ GhFinalizeFrame

FinalizeGh ==
  /\ at = "finGh"
  /\ Goto("undoGh")
  /\ todo' \in IF decision = "commit" THEN {<<>>} ELSE InOrder(Compensable)
  /\ UNCHANGED <<interrupted, ghRecords, ghErr, ghWorld>>
  /\ GhFinalizeFrame

MarkRecord(i, state) == [ghRecords EXCEPT ![i].undo = state]

\* gh issue close; nothing is recorded on disk before it runs.
UndoGh(acted, ok) ==
  /\ at = "undoGh" /\ todo # <<>>
  /\ ok => acted
  /\ LET i == Head(todo)
         known == ghRecords[i].undo = "available"
     IN /\ acted => known
        /\ ghWorld' = IF acted THEN [ghWorld EXCEPT ![ghRecords[i].call] = "undone"]
                      ELSE ghWorld
        /\ ghRecords' = MarkRecord(i, IF ~known THEN "unavailable"
                                      ELSE IF ok THEN "succeeded" ELSE "failed")
  /\ ghErr' = (ghErr \/ ~ok)
  /\ todo' = Tail(todo)
  /\ UNCHANGED <<at, interrupted>>
  /\ GhFinalizeFrame

\* The context is done: the rest is not attempted, not by a second Finalize
\* with a fresh context either.
UndoGhStops ==
  /\ at = "undoGh" /\ todo # <<>>
  /\ ghErr' = TRUE
  /\ todo' = <<>>
  /\ UNCHANGED <<at, interrupted, ghRecords, ghWorld>>
  /\ GhFinalizeFrame

EndGh ==
  /\ at = "undoGh" /\ todo = <<>>
  /\ interrupted' = (interrupted \/ signalled)
  /\ Goto("finHttps")
  /\ UNCHANGED <<todo, ghRecords, ghErr, ghWorld>>
  /\ GhFinalizeFrame

InvocationNext(g) ==
  \/ GhAsk(g) \/ GhAskCancelled(g)
  \/ \E yes \in BOOLEAN : AnswerGh(g, yes) \/ RecordGh(g, yes)
  \/ \E acted, url, reported \in BOOLEAN, result \in {"ran", "failed", "not-run"} :
       GhFinish(g, acted, result, url, reported)

GhRunNext ==
  \/ GhSeal \/ (\E ok \in BOOLEAN : GhSealed(ok))
  \/ FinalizeGh \/ UndoGhStops \/ EndGh
  \/ \E acted, ok \in BOOLEAN : UndoGh(acted, ok)
=============================================================================
