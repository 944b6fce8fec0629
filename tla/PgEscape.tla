----------------------------- MODULE PgEscape ------------------------------
(***************************************************************************)
(* executeIrreversibleLocked: a statement PostgreSQL cannot roll back runs *)
(* on a connection of its own once a person has approved it.  The handler  *)
(* gives queryMu back before it asks and takes it again when it returns,   *)
(* so every step between the two interleaves with the other clients.       *)
(***************************************************************************)
EXTENDS PgStatement

\* The bound on escapes counts the ones under way.
EscapeBudget ==
  Len(irreversible) < MaxEscapes /\
  Cardinality({d \in Clients : pendingEscape[d] \/ pc[d] \in Asking \cup {"escape"}})
    < MaxEscapes - Len(irreversible)

\* What no step outside of the lock touches.
EscapeFrame ==
  UNCHANGED <<rows, stack, attempted, ledgerVars, tx, txMark, saves,
              activeTransaction, batchVars, rollbackCycle, cycleMark, cycleRisk,
              sealVars, fatal, hungup>>

\* Every early return of executeIrreversibleLocked fails the client's transaction.
Refused(c) ==
  /\ txFailed' = Set(txFailed, c, tx[c])
  /\ Goto(c, "refused")

EscapeStart(c) ==
  /\ Holds(c) /\ ~fatal
  /\ \/ /\ pc[c] = "query" /\ c \in Escapers /\ EscapeBudget
        /\ ~txFailed[c] /\ ~SharedLeaseHeldByOther(c)
        /\ batch[c] => EscapeInBatch
     \/ pc[c] = "escape"
     \/ pc[c] = "sync" /\ pendingEscape[c]
  /\ resume' = Set(resume, c, pc[c])
  /\ pendingEscape' = Set(pendingEscape, c, FALSE)
  /\ queryMu' = None
  /\ Goto(c, "ask")
  /\ UNCHANGED <<server, txFailed, cycleFailed, escapeClient, irreversible, actionIndex>>
  /\ EscapeFrame

\* requestApproval answers; a client that hung up may still be approved.
Approve(c) ==
  /\ pc[c] = "ask"
  /\ Goto(c, "granted")
  /\ UNCHANGED <<server, txFailed, cycleFailed, pendingEscape, queryMu, escapeVars>>
  /\ EscapeFrame

\* Mutant: a cancelled context does not end the wait for an answer.
DeclineByAnswer(c) ==
  /\ pc[c] = "ask" /\ c \notin hungup
  /\ Refused(c)
  /\ UNCHANGED <<server, cycleFailed, pendingEscape, queryMu, escapeVars>>
  /\ EscapeFrame

\* A decline, an error, or the end of the client's context.
Decline(c) ==
  /\ pc[c] = "ask"
  /\ Refused(c)
  /\ UNCHANGED <<server, cycleFailed, pendingEscape, queryMu, escapeVars>>
  /\ EscapeFrame

\* Mutant: the shared backend is checked but not reserved.
EscapeUnleased(c) ==
  /\ pc[c] = "granted" /\ queryMu = None /\ server = "T"
  /\ IF attempted > 0 THEN Refused(c) ELSE Goto(c, "leased") /\ UNCHANGED txFailed
  /\ UNCHANGED <<server, cycleFailed, pendingEscape, queryMu, escapeVars>>
  /\ EscapeFrame

(***************************************************************************)
(* The critical section after the approval takes the lease, whoever has    *)
(* it; the statement is then refused when the shared transaction has an    *)
(* id, which it gets with its first write and keeps through rollbacks.     *)
(***************************************************************************)
EscapeLease(c) ==
  /\ pc[c] = "granted" /\ queryMu = None /\ server = "T"
  /\ escapeClient' = c
  /\ IF attempted > 0 THEN Refused(c) ELSE Goto(c, "leased") /\ UNCHANGED txFailed
  /\ UNCHANGED <<server, cycleFailed, pendingEscape, queryMu, irreversible, resume,
                 actionIndex>>
  /\ EscapeFrame

\* The shared transaction holds a lock the statement would wait for, or one
\* of the two lookups fails and leaves the transaction aborted.
EscapeCheckFails(c) ==
  /\ pc[c] = "granted" /\ queryMu = None
  /\ server' \in {server} \cup (IF server = "T" THEN {"E"} ELSE {})
  /\ Refused(c)
  /\ UNCHANGED <<cycleFailed, pendingEscape, queryMu, escapeVars>>
  /\ EscapeFrame

\* The side connection cannot be opened, or applyEscapeSessionState fails.
EscapeConnectFails(c) ==
  /\ pc[c] = "leased"
  /\ Refused(c)
  /\ UNCHANGED <<server, cycleFailed, pendingEscape, queryMu, escapeVars>>
  /\ EscapeFrame

\* Mutant: the index of the new entry is off by one.
EscapeRecordOff(c) ==
  /\ pc[c] = "dispatched"
  /\ irreversible' = Append(irreversible, [by |-> c, result |-> "none"])
  /\ actionIndex' = Set(actionIndex, c, Len(irreversible))
  /\ Goto(c, "recorded")
  /\ UNCHANGED <<server, txFailed, cycleFailed, pendingEscape, queryMu, escapeClient, resume>>
  /\ EscapeFrame

\* connection.Exec sends the statement, then beginIrreversibleAction records it.
EscapeDispatch(c) ==
  /\ pc[c] = "leased"
  /\ Goto(c, "dispatched")
  /\ UNCHANGED <<server, txFailed, cycleFailed, pendingEscape, queryMu, escapeVars>>
  /\ EscapeFrame

EscapeRecord(c) ==
  /\ pc[c] = "dispatched"
  /\ irreversible' = Append(irreversible, [by |-> c, result |-> "none"])
  /\ actionIndex' = Set(actionIndex, c, Len(irreversible) + 1)
  /\ Goto(c, "recorded")
  /\ UNCHANGED <<server, txFailed, cycleFailed, pendingEscape, queryMu, escapeClient, resume>>
  /\ EscapeFrame

\* finishIrreversibleAction
EscapeResult(c, ok) ==
  /\ pc[c] = "recorded"
  /\ irreversible' = [irreversible EXCEPT ![actionIndex[c]].result = IF ok THEN "ok" ELSE "failed"]
  /\ IF ok THEN Goto(c, "ran") /\ UNCHANGED txFailed ELSE Refused(c)
  /\ UNCHANGED <<server, cycleFailed, pendingEscape, queryMu, escapeClient, resume,
                 actionIndex>>
  /\ EscapeFrame

\* The deferred function, and the return to the handler that called.  A
\* failure after Sync is only reported, and leaves no cycle to fail.
EscapeReturn(c) ==
  /\ pc[c] \in {"ran", "refused"} /\ queryMu = None
  /\ queryMu' = c
  /\ escapeClient' = IF escapeClient = c THEN None ELSE escapeClient
  /\ Goto(c, CASE resume[c] = "sync" -> "sync"
               [] resume[c] = "escape" -> "rotate"
               [] OTHER -> IF pc[c] = "refused" THEN "failed"
                           ELSE IF c \in Batchers THEN "query" ELSE "done")
  /\ cycleFailed' = IF resume[c] = "escape" /\ pc[c] = "refused"
                    THEN Set(cycleFailed, c, TRUE) ELSE cycleFailed
  /\ resume' = Set(resume, c, "query")
  /\ actionIndex' = Set(actionIndex, c, 0)
  /\ UNCHANGED <<server, txFailed, pendingEscape, irreversible>>
  /\ EscapeFrame

EscapeNext(c) ==
  \/ EscapeStart(c) \/ Approve(c) \/ Decline(c)
  \/ EscapeLease(c) \/ EscapeCheckFails(c) \/ EscapeConnectFails(c)
  \/ EscapeDispatch(c) \/ EscapeRecord(c)
  \/ \E ok \in BOOLEAN : EscapeResult(c, ok)
  \/ EscapeReturn(c)
=============================================================================
