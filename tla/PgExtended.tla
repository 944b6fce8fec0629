---------------------------- MODULE PgExtended -----------------------------
(***************************************************************************)
(* The extended query protocol: the messages up to a Sync form a cycle,    *)
(* the client keeps queryMu for all of it, and a cycle savepoint makes it  *)
(* one unit.  Parse, Bind, Describe and Close change nothing modelled but  *)
(* when they fail; an Execute is a step of its own.                        *)
(***************************************************************************)
EXTENDS PgEscape, SequencesExt

CycleName(c) == SavepointName(c, "x", 0)

\* startExtended
StartCycle(c) ==
  /\ pc[c] = "idle" /\ c \in Extenders /\ ~fatal
  /\ queryMu = None
  /\ Savepoint(CycleName(c))
  /\ queryMu' = c
  /\ Goto(c, "cycle")
  /\ cycleFailed' = Set(cycleFailed, c, FALSE)
  /\ cycleMark' = Set(cycleMark, c, TakeMark)
  /\ UNCHANGED <<ledgerVars, txVars, batchVars, rollbackCycle, cycleRisk, pendingEscape,
                 escapeVars, sealVars, fatal, hungup>>

CycleFrame ==
  UNCHANGED <<rows, stack, ledgerVars, txVars, batchVars, cycleMark, escapeVars,
              sealVars, queryMu, fatal, pc, hungup>>

\* Mutant: the risk of a forwarded statement is not noted.
ExecuteRiskLost(c, risk) ==
  /\ InCycle(c) /\ ~txFailed[c] /\ ~SharedLeaseHeldByOther(c)
  /\ server = "T" /\ attempted < MaxRows
  /\ rows' = Append(rows, [by |-> c, risk |-> risk])
  /\ attempted' = attempted + 1
  /\ UNCHANGED <<stack, server, ledgerVars, txVars, batchVars, cycleVars, escapeVars,
                 sealVars, queryMu, fatal, pc, hungup>>

\* An Execute the backend runs.  The proxy only notes a risk; the rows are
\* counted when the cycle ends.
Execute(c, risk) ==
  /\ InCycle(c) /\ ~txFailed[c] /\ ~SharedLeaseHeldByOther(c)
  /\ server = "T" /\ attempted < MaxRows
  /\ rows' = Append(rows, [by |-> c, risk |-> risk])
  /\ attempted' = attempted + 1
  /\ cycleRisk' = Set(cycleRisk, c, cycleRisk[c] \cup ({risk} \ {NoRisk}))
  /\ UNCHANGED <<stack, server, ledgerVars, txVars, batchVars, cycleFailed, rollbackCycle,
                 cycleMark, pendingEscape, escapeVars, sealVars, queryMu, fatal, pc, hungup>>

\* A read beside another client's open transaction taints the whole cycle.
ExecuteRead(c) ==
  /\ InCycle(c) /\ SharedLeaseHeldByOther(c) /\ ~EscapeLeaseHeldByOther(c)
  /\ server = "T"
  /\ rollbackCycle' = Set(rollbackCycle, c, TRUE)
  /\ UNCHANGED <<attempted, server, cycleFailed, cycleRisk, pendingEscape>>
  /\ CycleFrame

\* PostgreSQL rejects a forwarded message; SQLSTATE 25001 on an Execute means
\* that the statement has to run outside of the transaction, after Sync.
ExecuteFails(c, escape) ==
  /\ InCycle(c) /\ server = "T"
  /\ escape => /\ c \in Escapers /\ EscapeBudget
               /\ ~txFailed[c] /\ ~SharedLeaseHeldByOther(c)
  /\ server' = "E"
  /\ attempted' \in IF txFailed[c] \/ SharedLeaseHeldByOther(c) THEN {attempted}
                     ELSE {attempted, attempted + 1} \cap 0..MaxRows
  /\ cycleFailed' = Set(cycleFailed, c, TRUE)
  /\ pendingEscape' = Set(pendingEscape, c, escape)
  /\ UNCHANGED <<rollbackCycle, cycleRisk>>
  /\ CycleFrame

\* extendedLocalError: an unknown name, a lease, a failed transaction.
LocalError(c) ==
  /\ InCycle(c)
  /\ cycleFailed' = Set(cycleFailed, c, TRUE)
  /\ UNCHANGED <<attempted, server, rollbackCycle, cycleRisk, pendingEscape>>
  /\ CycleFrame

\* Mutant: the counters are not sampled when a cycle is rolled back.
EndCycleUnsampled(c) ==
  /\ IF cycleFailed[c] \/ rollbackCycle[c]
     THEN RollbackRelease(CycleName(c)) /\ UNCHANGED ledgerVars
     ELSE /\ ReleaseSavepoint(CycleName(c))
          /\ \E details \in SetToSeqs(cycleRisk[c] \ Range(uncertain)) :
               uncertain' = uncertain \o details
          /\ ReconcileRowChanges(cycleRisk[c] = {})
  /\ cycleRisk' = Set(cycleRisk, c, {})
  /\ cycleMark' = Set(cycleMark, c, NoMark)

(***************************************************************************)
(* How a cycle ends, at Sync or before a statement that must not run       *)
(* inside of its savepoint.                                                *)
(***************************************************************************)
EndCycle(c) ==
  /\ IF cycleFailed[c] \/ rollbackCycle[c]
     THEN RollbackRelease(CycleName(c)) /\ RestoreLedger(cycleMark[c])
     ELSE /\ ReleaseSavepoint(CycleName(c))
          /\ \E details \in SetToSeqs(cycleRisk[c] \ Range(uncertain)) :
               uncertain' = uncertain \o details
          /\ ReconcileRowChanges(cycleRisk[c] = {})
  /\ cycleRisk' = Set(cycleRisk, c, {})
  /\ cycleMark' = Set(cycleMark, c, NoMark)

\* Mutant: transaction control runs inside of the cycle's savepoint.
RotateNothing(c, label) ==
  /\ InCycle(c)
  /\ Goto(c, label)
  /\ UNCHANGED <<backendVars, ledgerVars, txVars, batchVars, cycleVars, escapeVars,
                 sealVars, queryMu, fatal, hungup>>

\* rotateExtendedCycleSavepointLocked(client, false)
RotateOut(c, label) ==
  /\ InCycle(c)
  /\ label = "escape" => /\ c \in Escapers /\ EscapeBudget
                         /\ ~txFailed[c] /\ ~SharedLeaseHeldByOther(c)
  /\ EndCycle(c)
  /\ Goto(c, label)
  /\ UNCHANGED <<txVars, batchVars, cycleFailed, rollbackCycle, pendingEscape, escapeVars,
                 sealVars, queryMu, fatal, hungup>>

\* rotateExtendedCycleSavepointLocked(client, true)
RotateIn(c) ==
  /\ Holds(c) /\ pc[c] = "rotate" /\ ~fatal
  /\ Savepoint(CycleName(c))
  /\ cycleMark' = Set(cycleMark, c, TakeMark)
  /\ Goto(c, "cycle")
  /\ UNCHANGED <<ledgerVars, txVars, batchVars, cycleFailed, rollbackCycle, cycleRisk,
                 pendingEscape, escapeVars, sealVars, queryMu, fatal, hungup>>

\* finishExtendedCycleLocked, up to the statement it may still have to run.
SyncCycle(c) ==
  /\ Holds(c) /\ pc[c] = "cycle"
  /\ EndCycle(c)
  /\ txFailed' = IF cycleFailed[c] /\ ~pendingEscape[c] /\ tx[c]
                 THEN Set(txFailed, c, TRUE) ELSE txFailed
  /\ cycleFailed' = Set(cycleFailed, c, FALSE)
  /\ rollbackCycle' = Set(rollbackCycle, c, FALSE)
  /\ Goto(c, "sync")
  /\ UNCHANGED <<tx, txMark, saves, activeTransaction, batchVars, pendingEscape, escapeVars,
                 sealVars, queryMu, fatal, hungup>>

\* ReadyForQuery, and the lock is free.
Ready(c) ==
  /\ Holds(c) /\ pc[c] = "sync" /\ ~pendingEscape[c] /\ ~fatal
  /\ queryMu' = None
  /\ Goto(c, "idle")
  /\ UNCHANGED <<backendVars, ledgerVars, txVars, batchVars, cycleVars, escapeVars,
                 sealVars, fatal, hungup>>

ExtendedNext(c) ==
  \/ StartCycle(c)
  \/ \E risk \in Risks \cup {NoRisk} : Execute(c, risk)
  \/ ExecuteRead(c)
  \/ \E escape \in BOOLEAN : ExecuteFails(c, escape)
  \/ LocalError(c)
  \/ \E label \in {"control", "escape"} : RotateOut(c, label)
  \/ RotateIn(c) \/ SyncCycle(c) \/ Ready(c)
=============================================================================
