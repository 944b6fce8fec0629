---------------------------- MODULE PgStatement ----------------------------
(***************************************************************************)
(* Simple queries: relayQuery, executeStatementLocked, its translation of  *)
(* the clients' transaction control into private savepoints of the shared  *)
(* transaction, and executeRegularLocked.                                  *)
(*                                                                         *)
(* extendedExecute runs the same executeStatementLocked, so the actions    *)
(* for statements are enabled for it too (pc = "control" and "cycle").     *)
(* A read-only statement changes nothing that is modelled; it is Notice.   *)
(***************************************************************************)
EXTENDS PgState

(***************************************************************************)
(* A client that sends several statements in one Query outside of a        *)
(* transaction has them wrapped in a batch savepoint when none of them is  *)
(* transaction control.  A Query that arrives inside an extended-query     *)
(* cycle ends the cycle first (SyncCycle) and starts at pc = "sync".       *)
(***************************************************************************)
StartQuery(c, wrap) ==
  /\ ~fatal
  /\ \/ pc[c] = "idle" /\ queryMu = None
     \/ pc[c] = "sync" /\ Holds(c) /\ ~pendingEscape[c]
  /\ wrap => c \in Batchers /\ ~tx[c]
  /\ queryMu' = c
  /\ Goto(c, "query")
  /\ batch' = Set(batch, c, wrap)
  /\ IF wrap
     THEN /\ Savepoint(SavepointName(c, "b", 0))
          /\ batchMark' = Set(batchMark, c, TakeMark)
     ELSE UNCHANGED <<backendVars, batchMark>>
  /\ UNCHANGED <<ledgerVars, txVars, cycleVars, escapeVars, sealVars, fatal, hungup>>

\* What a statement's result means for the handler that ran it.
Succeed(c) ==
  /\ Goto(c, CASE pc[c] = "query" -> IF c \in Batchers THEN "query" ELSE "done"
               [] pc[c] = "cycle" -> "cycle"
               [] OTHER -> "rotate")
  /\ UNCHANGED cycleFailed

Fail(c) ==
  /\ Goto(c, CASE pc[c] = "query" -> "failed"
               [] pc[c] = "cycle" -> "cycle"
               [] OTHER -> "rotate")
  /\ cycleFailed' = IF pc[c] = "query" THEN cycleFailed ELSE Set(cycleFailed, c, TRUE)

\* The end of relayQuery.
FinishQuery(c) ==
  /\ pc[c] \in {"query", "done", "failed"} /\ Holds(c) /\ ~fatal
  /\ LET name == SavepointName(c, "b", 0) IN
     CASE ~batch[c] -> UNCHANGED <<backendVars, ledgerVars>>
       [] batch[c] /\ pc[c] = "failed" -> /\ RollbackRelease(name)
                                          /\ RestoreLedger(batchMark[c])
       [] batch[c] /\ pc[c] # "failed" -> /\ ReleaseSavepoint(name)
                                          /\ UNCHANGED ledgerVars
  /\ batch' = Set(batch, c, FALSE)
  /\ batchMark' = Set(batchMark, c, NoMark)
  /\ queryMu' = None
  /\ Goto(c, "idle")
  /\ UNCHANGED <<txVars, cycleVars, escapeVars, sealVars, fatal, hungup>>

\* Variables no statement of executeStatementLocked touches.
StatementFrame ==
  UNCHANGED <<batchVars, rollbackCycle, cycleMark, cycleRisk, pendingEscape,
              escapeVars, sealVars, queryMu, fatal, hungup>>

AtStatement(c) == Holds(c) /\ pc[c] \in {"query", "control"}

AtControl(c) == AtStatement(c) /\ ~batch[c]

\* In an extended-query cycle; after an error the rest of it is skipped.
InCycle(c) == Holds(c) /\ pc[c] = "cycle" /\ ~cycleFailed[c]

AtRegular(c) == ((Holds(c) /\ pc[c] = "query") \/ InCycle(c)) /\ ~txFailed[c]

(***************************************************************************)
(* Statements that reach neither the backend nor the transaction state.    *)
(***************************************************************************)

\* A Refusal, prepared-transaction control or unsupported BEGIN options: the
\* client's transaction, if it has one, is failed.
RefuseStatement(c) ==
  /\ AtStatement(c) \/ InCycle(c)
  /\ txFailed' = Set(txFailed, c, tx[c])
  /\ Fail(c)
  /\ UNCHANGED <<backendVars, ledgerVars, tx, txMark, saves, activeTransaction>>
  /\ StatementFrame

\* The transaction is failed already, another client holds a lease, or a
\* savepoint command came outside of a transaction.
RejectStatement(c) ==
  /\ AtStatement(c)
  /\ txFailed[c] \/ SharedLeaseHeldByOther(c) \/ (~tx[c] /\ ~batch[c])
  /\ Fail(c)
  /\ UNCHANGED <<backendVars, ledgerVars, txVars>>
  /\ StatementFrame

\* BEGIN inside and COMMIT or ROLLBACK outside of a transaction; SELECT.
Notice(c) ==
  /\ AtStatement(c) /\ ~txFailed[c]
  /\ Succeed(c)
  /\ UNCHANGED <<backendVars, ledgerVars, txVars>>
  /\ StatementFrame

(***************************************************************************)
(* Transaction control.                                                    *)
(***************************************************************************)
\* Mutant: BEGIN is not refused while another client has a transaction.
BeginUnchecked(c) ==
  /\ AtControl(c) /\ ~tx[c]
  /\ Savepoint(SavepointName(c, "t", 0))
  /\ tx' = Set(tx, c, TRUE)
  /\ txMark' = Set(txMark, c, TakeMark)
  /\ activeTransaction' = c
  /\ Succeed(c)
  /\ UNCHANGED <<ledgerVars, txFailed, saves>>
  /\ StatementFrame

Begin(c) ==
  /\ AtControl(c) /\ ~tx[c] /\ ~SharedLeaseHeldByOther(c)
  /\ Savepoint(SavepointName(c, "t", 0))
  /\ tx' = Set(tx, c, TRUE)
  /\ txFailed' = Set(txFailed, c, FALSE)
  /\ txMark' = Set(txMark, c, TakeMark)
  /\ saves' = Set(saves, c, <<>>)
  /\ activeTransaction' = c
  /\ Succeed(c)
  /\ UNCHANGED ledgerVars
  /\ StatementFrame

\* Mutant: the lease of the transaction outlives it.
ClearWithoutLease(c) ==
  /\ tx' = Set(tx, c, FALSE)
  /\ txFailed' = Set(txFailed, c, FALSE)
  /\ txMark' = Set(txMark, c, NoMark)
  /\ saves' = Set(saves, c, <<>>)
  /\ UNCHANGED activeTransaction

\* clearClientTransaction
ClearTransaction(c) ==
  /\ tx' = Set(tx, c, FALSE)
  /\ txFailed' = Set(txFailed, c, FALSE)
  /\ txMark' = Set(txMark, c, NoMark)
  /\ saves' = Set(saves, c, <<>>)
  /\ activeTransaction' = IF activeTransaction = c THEN None ELSE activeTransaction

Commit(c) ==
  /\ AtControl(c) /\ tx[c]
  /\ IF txFailed[c]
     THEN RollbackRelease(SavepointName(c, "t", 0)) /\ RestoreLedger(txMark[c])
     ELSE ReleaseSavepoint(SavepointName(c, "t", 0)) /\ UNCHANGED ledgerVars
  /\ ClearTransaction(c)
  /\ Succeed(c)
  /\ StatementFrame

Rollback(c) ==
  /\ AtControl(c) /\ tx[c]
  /\ RollbackRelease(SavepointName(c, "t", 0))
  /\ RestoreLedger(txMark[c])
  /\ ClearTransaction(c)
  /\ Succeed(c)
  /\ StatementFrame

\* COMMIT AND CHAIN and ROLLBACK AND CHAIN: the transaction ends and
\* beginClientTransactionLocked opens the next one before the lock is free.
Chain(c, commit) ==
  /\ AtControl(c) /\ tx[c]
  /\ LET name == SavepointName(c, "t", 0)
         keep == commit /\ ~txFailed[c]
     IN /\ server = "T" \/ (server = "E" /\ ~keep)
        /\ \E at \in DOMAIN stack :
             /\ Innermost(name, at)
             /\ rows' = IF keep THEN rows ELSE SubSeq(rows, 1, stack[at].len)
             /\ stack' = Append(SubSeq(stack, 1, at - 1),
                                [name |-> name, len |-> Len(rows')])
        /\ server' = "T"
        /\ UNCHANGED attempted
        /\ IF keep THEN UNCHANGED ledgerVars ELSE RestoreLedger(txMark[c])
  /\ txMark' = Set(txMark, c, [rows |-> rowLedger', uncertain |-> Len(uncertain')])
  /\ txFailed' = Set(txFailed, c, FALSE)
  /\ saves' = Set(saves, c, <<>>)
  /\ UNCHANGED <<tx, activeTransaction>>
  /\ Succeed(c)
  /\ StatementFrame

\* clientSavepointIndex: the innermost client savepoint of that name.
SavesNamed(c, name) == {i \in DOMAIN saves[c] : saves[c][i].name = name}

MakeSavepoint(c, name) ==
  /\ AtControl(c) /\ tx[c] /\ ~txFailed[c]
  /\ Len(saves[c]) < MaxSaves
  /\ Savepoint(SavepointName(c, "u", Len(saves[c]) + 1))
  /\ saves' = Set(saves, c, Append(saves[c], [name |-> name, mark |-> TakeMark]))
  /\ Succeed(c)
  /\ UNCHANGED <<ledgerVars, tx, txFailed, txMark, activeTransaction>>
  /\ StatementFrame

\* Mutant: the ledger goes back to the start of the transaction.
RollbackToStart(c, i) ==
  /\ AtControl(c) /\ tx[c]
  /\ i \in DOMAIN saves[c] /\ \A j \in SavesNamed(c, saves[c][i].name) : j <= i
  /\ RollbackToSavepoint(SavepointName(c, "u", i))
  /\ RestoreLedger(txMark[c])
  /\ saves' = Set(saves, c, SubSeq(saves[c], 1, i))
  /\ txFailed' = Set(txFailed, c, FALSE)
  /\ Succeed(c)
  /\ UNCHANGED <<tx, txMark, activeTransaction>>
  /\ StatementFrame

RollbackTo(c, i) ==
  /\ AtControl(c) /\ tx[c]
  /\ i \in DOMAIN saves[c] /\ \A j \in SavesNamed(c, saves[c][i].name) : j <= i
  /\ RollbackToSavepoint(SavepointName(c, "u", i))
  /\ RestoreLedger(saves[c][i].mark)
  /\ saves' = Set(saves, c, SubSeq(saves[c], 1, i))
  /\ txFailed' = Set(txFailed, c, FALSE)
  /\ Succeed(c)
  /\ UNCHANGED <<tx, txMark, activeTransaction>>
  /\ StatementFrame

\* Mutant: a released savepoint stays in the client's list.
ReleaseRemembered(c, i) ==
  /\ AtControl(c) /\ tx[c] /\ ~txFailed[c]
  /\ i \in DOMAIN saves[c] /\ \A j \in SavesNamed(c, saves[c][i].name) : j <= i
  /\ ReleaseSavepoint(SavepointName(c, "u", i))
  /\ saves' = Set(saves, c, SubSeq(saves[c], 1, i))
  /\ Succeed(c)
  /\ UNCHANGED <<ledgerVars, tx, txFailed, txMark, activeTransaction>>
  /\ StatementFrame

Release(c, i) ==
  /\ AtControl(c) /\ tx[c] /\ ~txFailed[c]
  /\ i \in DOMAIN saves[c] /\ \A j \in SavesNamed(c, saves[c][i].name) : j <= i
  /\ ReleaseSavepoint(SavepointName(c, "u", i))
  /\ saves' = Set(saves, c, SubSeq(saves[c], 1, i - 1))
  /\ Succeed(c)
  /\ UNCHANGED <<ledgerVars, tx, txFailed, txMark, activeTransaction>>
  /\ StatementFrame

\* ROLLBACK TO or RELEASE of a name the client never made.
NoSuchSavepoint(c) ==
  /\ AtControl(c) /\ tx[c]
  /\ \E name \in SaveNames : SavesNamed(c, name) = {}
  /\ txFailed' = Set(txFailed, c, TRUE)
  /\ Fail(c)
  /\ UNCHANGED <<backendVars, ledgerVars, tx, txMark, saves, activeTransaction>>
  /\ StatementFrame

(***************************************************************************)
(* executeRegularLocked: its own savepoint lives and dies inside the step. *)
(* A failed statement leaves its attempted rows in PostgreSQL's counters.  *)
(***************************************************************************)
Regular(c, risk) ==
  /\ AtRegular(c) /\ ~SharedLeaseHeldByOther(c)
  /\ server = "T" /\ attempted < MaxRows
  /\ rows' = Append(rows, [by |-> c, risk |-> risk])
  /\ attempted' = attempted + 1
  /\ uncertain' = AddUncertain(uncertain, risk)
  /\ ReconcileRowChanges(risk = NoRisk)
  /\ Succeed(c)
  /\ UNCHANGED <<stack, server, txVars>>
  /\ StatementFrame

RegularFails(c) ==
  /\ AtRegular(c) /\ ~SharedLeaseHeldByOther(c)
  /\ server = "T"
  /\ attempted' \in {attempted, attempted + 1} \cap 0..MaxRows
  /\ ReconcileRowChanges(FALSE)
  /\ txFailed' = Set(txFailed, c, tx[c])
  /\ Fail(c)
  /\ UNCHANGED <<rows, stack, server, uncertain, tx, txMark, saves, activeTransaction>>
  /\ StatementFrame

(***************************************************************************)
(* A query of the proxy itself fails (a timeout, a cancellation that       *)
(* arrives late, a name PostgreSQL rejects): nothing restores the shared   *)
(* transaction, which stays aborted.  The sample behind                    *)
(* reconcileRowChangesLocked remembers it in setRowLedgerError, the        *)
(* catalog lookup of prepareStatementRiskLocked does not.                  *)
(***************************************************************************)
ProbeFails(c, sample) ==
  /\ Holds(c) /\ pc[c] \in Locked /\ server = "T"
  /\ server' = "E"
  /\ rowLedgerErr' = (rowLedgerErr \/ sample)
  /\ UNCHANGED <<rows, stack, attempted, rowStats, rowLedger, uncertain, txVars,
                 pc, cycleFailed>>
  /\ StatementFrame

StatementNext(c) ==
  \/ \E wrap \in BOOLEAN : StartQuery(c, wrap)
  \/ FinishQuery(c)
  \/ RefuseStatement(c) \/ RejectStatement(c) \/ Notice(c)
  \/ Begin(c) \/ Commit(c) \/ Rollback(c)
  \/ \E commit \in BOOLEAN : Chain(c, commit)
  \/ \E name \in SaveNames : MakeSavepoint(c, name)
  \/ \E i \in 1..MaxSaves : RollbackTo(c, i) \/ Release(c, i)
  \/ NoSuchSavepoint(c)
  \/ \E risk \in Risks \cup {NoRisk} : Regular(c, risk)
  \/ RegularFails(c)
  \/ \E sample \in BOOLEAN : ProbeFails(c, sample)
=============================================================================
