------------------------------ MODULE PgProxy ------------------------------
(***************************************************************************)
(* The PostgreSQL proxy of a session: its clients' handlers, how they are  *)
(* cleaned up, and Seal and Finalize, which end the session.               *)
(***************************************************************************)
EXTENDS PgExtended

\* A client closes its connection, at any moment of what it is doing.
Hangup(c) ==
  /\ c \notin hungup /\ pc[c] # "gone"
  /\ hungup' = hungup \cup {c}
  /\ UNCHANGED <<backendVars, ledgerVars, txVars, batchVars, cycleVars, escapeVars,
                 sealVars, queryMu, fatal, pc>>

\* What cleanupClient clears, and the clientState that goes with the handler.
ClearClient(c) ==
  /\ ClearTransaction(c)
  /\ cycleFailed' = Set(cycleFailed, c, FALSE)
  /\ rollbackCycle' = Set(rollbackCycle, c, FALSE)
  /\ cycleMark' = Set(cycleMark, c, NoMark)
  /\ cycleRisk' = Set(cycleRisk, c, {})
  /\ pendingEscape' = Set(pendingEscape, c, FALSE)
  /\ queryMu' = None
  /\ Goto(c, "gone")
  /\ UNCHANGED <<escapeVars, sealVars, hungup>>

\* cleanupClient rolls back the cycle and then the transaction, whose
\* savepoint is the outer one.
Cleanup(c) ==
  /\ ~fatal /\ c \in hungup
  /\ \/ pc[c] = "idle" /\ queryMu = None
     \/ pc[c] = "cycle" /\ Holds(c)
  /\ CASE tx[c] -> /\ RollbackRelease(SavepointName(c, "t", 0))
                   /\ RestoreLedger(txMark[c])
       [] ~tx[c] /\ pc[c] = "cycle" -> /\ RollbackRelease(CycleName(c))
                                       /\ RestoreLedger(cycleMark[c])
       [] OTHER -> UNCHANGED <<backendVars, ledgerVars>>
  /\ ClearClient(c)
  /\ UNCHANGED <<batchVars, fatal>>

\* After markFatal every handler returns at its next step.  The ledger that
\* an abandoned cycle restores is never looked at again.
CleanupFatal(c) ==
  /\ fatal
  /\ \/ pc[c] = "idle" /\ queryMu = None
     \/ pc[c] \in Locked /\ Holds(c)
  /\ ClearClient(c)
  /\ batch' = Set(batch, c, FALSE)
  /\ UNCHANGED <<backendVars, ledgerVars, batchMark, fatal>>

(***************************************************************************)
(* markFatal: the connection breaks or a command of the proxy fails under  *)
(* a handler, or the listener fails.  The upstream connection is closed.   *)
(***************************************************************************)
MarkFatal ==
  /\ ~fatal /\ phase \in {"running", "stopping"}
  /\ \/ phase = "running"
     \/ \E c \in Clients : pc[c] # "gone"
  /\ fatal' = TRUE
  /\ server' = "lost"
  /\ UNCHANGED <<rows, stack, attempted, ledgerVars, txVars, batchVars, cycleVars,
                 escapeVars, sealVars, queryMu, pc, hungup>>

\* Seal: stopClients closes the listener and every connection ...
Stop ==
  /\ phase = "running"
  /\ phase' = "stopping"
  /\ hungup' = Clients
  /\ UNCHANGED <<backendVars, ledgerVars, txVars, batchVars, cycleVars, escapeVars,
                 complete, outcome, queryMu, fatal, pc>>

\* ... and freezeChangeSummaryLocked runs when every handler has returned.
\* Its queries succeed only in a transaction that is not aborted.
Freeze(ok) ==
  /\ phase = "stopping" /\ queryMu = None /\ \A c \in Clients : pc[c] = "gone"
  /\ ok => server = "T" /\ ~fatal
  /\ UNCHANGED backendVars
  /\ IF ok THEN ReconcileRowChanges(TRUE) /\ UNCHANGED uncertain ELSE UNCHANGED ledgerVars
  /\ complete' = (ok /\ ~rowLedgerErr /\ uncertain = <<>>)
  /\ phase' = "sealed"
  /\ UNCHANGED <<txVars, batchVars, cycleVars, escapeVars, outcome, queryMu, fatal, pc,
                 hungup>>

FinalizeFrame ==
  /\ phase' = "finished"
  /\ UNCHANGED <<rows, stack, attempted, ledgerVars, txVars, batchVars, cycleVars,
                 escapeVars, complete, queryMu, fatal, pc, hungup>>

\* Mutant: COMMIT whatever the summary says.
FinalizeUnreviewed(decision) ==
  /\ phase = "sealed" /\ ~fatal
  /\ server' = IF decision = "commit" THEN "committed" ELSE "rolledback"
  /\ outcome' = server'
  /\ FinalizeFrame

\* Finalize; Close is Finalize("rollback") of an undecided session.
Finalize(decision) ==
  /\ phase = "sealed" /\ ~fatal
  /\ IF decision = "commit" /\ complete
     THEN server' = "committed" /\ outcome' = "committed"
     ELSE /\ server' = "rolledback"
          /\ outcome' = IF decision = "commit" THEN "refused" ELSE "rolledback"
  /\ FinalizeFrame

\* The session was lost before, or the last command fails: a COMMIT whose
\* answer is lost may have happened.
FinalizeUnknown(decision) ==
  /\ phase = "sealed"
  /\ server' \in IF fatal THEN {"lost"}
                 ELSE {"rolledback"} \cup
                      (IF decision = "commit" /\ complete THEN {"committed"} ELSE {})
  /\ outcome' = "unknown"
  /\ FinalizeFrame

Terminated == phase = "finished" /\ UNCHANGED vars

ClientNext(c) == StatementNext(c) \/ EscapeNext(c) \/ ExtendedNext(c)
                 \/ Hangup(c) \/ Cleanup(c) \/ CleanupFatal(c)

Next ==
  \/ \E c \in Clients : ClientNext(c)
  \/ MarkFatal \/ Stop
  \/ \E ok \in BOOLEAN : Freeze(ok)
  \/ \E decision \in {"commit", "rollback"} : Finalize(decision) \/ FinalizeUnknown(decision)
  \/ Terminated

Spec == Init /\ [][Next]_vars

(***************************************************************************)
(* Fairness.  A handler that holds the lock finishes its exchange with the *)
(* backend (Seal puts a deadline on the connection), a mutex that is free  *)
(* is acquired, and a cancelled context ends an approval, a connection     *)
(* attempt and a running statement.  A closed connection has finitely many *)
(* messages left to read, so its handler reaches the end of them and then  *)
(* cleanupClient.  What a client sends next and what a person decides is   *)
(* nobody's obligation.                                                    *)
(***************************************************************************)
ControlStep(c) ==
  /\ pc[c] = "control"
  /\ \/ RefuseStatement(c) \/ RejectStatement(c) \/ Notice(c)
     \/ Begin(c) \/ Commit(c) \/ Rollback(c)

EscapeStep(c) ==
  \/ pc[c] # "query" /\ EscapeStart(c)
  \/ c \in hungup /\ Decline(c)
  \/ EscapeLease(c) \/ EscapeCheckFails(c) \/ EscapeConnectFails(c) \/ EscapeDispatch(c)
  \/ EscapeRecord(c) \/ EscapeReturn(c)
  \/ \E ok \in BOOLEAN : EscapeResult(c, ok)

HandlerStep(c) ==
  \/ FinishQuery(c) \/ ControlStep(c) \/ EscapeStep(c)
  \/ RotateIn(c) \/ Ready(c) \/ CleanupFatal(c)

Fairness ==
  /\ \A c \in Clients : WF_vars(HandlerStep(c)) /\ SF_vars(Cleanup(c))
  /\ WF_vars(server = "E" /\ queryMu # None /\ MarkFatal)
  /\ WF_vars(\E ok \in BOOLEAN : Freeze(ok))

FairSpec == Spec /\ Fairness

(***************************************************************************)
(* Properties.                                                             *)
(***************************************************************************)
Marks == [Clients -> Mark]
Flags == [Clients -> BOOLEAN]

BackendType ==
  /\ rows \in Seq(Row) /\ stack \in Seq(Saved) /\ attempted \in Nat
  /\ server \in {"T", "E", "committed", "rolledback", "lost"}

LedgerType ==
  /\ rowStats \in Nat /\ rowLedger \in Nat /\ rowLedgerErr \in BOOLEAN
  /\ uncertain \in Seq(Risks)

TransactionType ==
  /\ tx \in Flags /\ txFailed \in Flags /\ txMark \in Marks
  /\ saves \in [Clients -> Seq(ClientSavepoint)]
  /\ activeTransaction \in Clients \cup {None}

UnitType ==
  /\ batch \in Flags /\ batchMark \in Marks
  /\ cycleFailed \in Flags /\ rollbackCycle \in Flags /\ cycleMark \in Marks
  /\ cycleRisk \in [Clients -> SUBSET Risks] /\ pendingEscape \in Flags

EscapeType ==
  /\ escapeClient \in Clients \cup {None}
  /\ irreversible \in Seq([by: Clients, result: {"none", "ok", "failed"}])
  /\ resume \in [Clients -> {"query", "escape", "sync"}] /\ actionIndex \in [Clients -> Nat]

ControlType ==
  /\ queryMu \in Clients \cup {None} /\ fatal \in BOOLEAN
  /\ pc \in [Clients -> Labels] /\ hungup \subseteq Clients
  /\ phase \in {"running", "stopping", "sealed", "finished"} /\ complete \in BOOLEAN
  /\ outcome \in {"none", "committed", "rolledback", "refused", "unknown"}

\* The type of the state of the proxy and of the backend it drives; the
\* ledger, a difference of samples, is never negative.
TypeOK ==
  BackendType /\ LedgerType /\ TransactionType /\ UnitType /\ EscapeType /\ ControlType

\* At most one client has an open transaction, and activeTransaction, which
\* the other clients' statements are checked against, names it: BEGIN, COMMIT,
\* AND CHAIN, a disconnect and a failed transaction all keep the two in step.
OneOpenTransaction == \A c \in Clients : tx[c] <=> activeTransaction = c

\* The savepoints a client's transaction stands on, outermost first.
TransactionSavepoints(c) ==
  <<SavepointName(c, "t", 0)>> \o [i \in DOMAIN saves[c] |-> SavepointName(c, "u", i)]

UnitSavepoint(c) ==
  IF batch[c] THEN <<SavepointName(c, "b", 0)>>
  ELSE IF pc[c] = "cycle" THEN <<CycleName(c)>> ELSE <<>>

\* The backend's savepoints are the ones of the one open transaction, in the
\* order its client made them, and on top of them the batch or the cycle of
\* the client that holds the backend, and nothing else: no client can roll
\* back, release or lose a savepoint another one depends on.
SavepointsNested ==
  ~fatal => [i \in DOMAIN stack |-> stack[i].name] =
              (IF activeTransaction = None THEN <<>>
               ELSE TransactionSavepoints(activeTransaction))
              \o (IF queryMu = None THEN <<>> ELSE UnitSavepoint(queryMu))

SettledLength == IF stack = <<>> THEN Len(rows) ELSE stack[1].len

\* A change that some savepoint could still undo belongs to a client in the
\* middle of a transaction, a batch or a cycle: once a client has its
\* ReadyForQuery outside of a transaction, nobody's rollback takes its work.
AcknowledgedSettled ==
  ~fatal => \A i \in (SettledLength + 1)..Len(rows) :
              LET c == rows[i].by IN tx[c] \/ batch[c] \/ pc[c] = "cycle"

\* What a step removes from the backend was written by the client whose
\* handler takes the step, never by another one.
ForeignWorkKept ==
  [][\A i \in (Len(rows') + 1)..Len(rows) :
       LET c == rows[i].by IN queryMu = c \/ (pc[c] = "idle" /\ pc'[c] = "gone")]_vars

\* Between two critical sections the ledger counts exactly the rows that are
\* staged, whatever was rolled back on the way, and every unseen counter has
\* been sampled, unless the proxy knows that it cannot count them.
LedgerExact ==
  queryMu = None /\ ~fatal /\ ~rowLedgerErr /\ uncertain = <<>> =>
    rowLedger = Len(rows) /\ rowStats = attempted

\* A summary sealed as complete counts every staged row once, and no staged
\* row is one whose effect cannot be counted.
SummaryExact ==
  complete => /\ rowLedger = Len(rows)
              /\ \A i \in DOMAIN rows : rows[i].risk = NoRisk

\* From the check of the shared transaction until its answer, an irreversible
\* statement runs beside a shared transaction that has not written anything.
EscapeReserved ==
  (\E c \in Clients : pc[c] \in {"leased", "dispatched", "recorded"}) => attempted = 0

\* When the session is sealed, every statement that was sent to PostgreSQL
\* outside of the transaction has its result in the summary.
EscapesRecorded ==
  phase \in {"sealed", "finished"} =>
    \A i \in DOMAIN irreversible : irreversible[i].result # "none"

\* The proxy implements the log of Session: units of one client at a time,
\* and COMMIT only of what a complete summary showed.
Promise == INSTANCE Session WITH
  log    <- SubSeq(rows, 1, SettledLength),
  sealed <- IF phase \in {"running", "stopping"} THEN "no"
            ELSE IF complete THEN "complete" ELSE "incomplete",
  fate   <- IF server \in {"T", "E"} THEN "open" ELSE server

ImplementsSession == Promise!SessionSpec

\* Seal returns: once the clients are disconnected, no approval, lock, cycle
\* or statement on another connection keeps it waiting for ever.
SealCompletes == phase = "stopping" ~> phase \in {"sealed", "finished"}
=============================================================================
