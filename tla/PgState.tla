------------------------------ MODULE PgState ------------------------------
(***************************************************************************)
(* The state of one unring PostgreSQL session (internal/pgproxy): the one  *)
(* real backend connection inside its one real transaction, the proxy's    *)
(* own accounting of what is staged in it, and what the proxy remembers    *)
(* about every client that shares it.                                      *)
(*                                                                         *)
(* The modules PgStatement, PgEscape, PgExtended and PgProxy add the       *)
(* actions.  One action is one critical section of the proxy: a handler    *)
(* holds queryMu for the whole exchange, so only the steps between two     *)
(* acquisitions of the lock are visible to other clients.                  *)
(***************************************************************************)
EXTENDS Integers, Sequences, FiniteSets

CONSTANTS
  Clients,        \* client connections (clientState.id)
  None,           \* the zero client id
  Batchers,       \* clients that send several statements in one Query
  Extenders,      \* clients that use the extended query protocol
  Escapers,       \* clients that send statements PostgreSQL cannot roll back
  EscapeInBatch,  \* whether such a statement may be part of a batch
  SaveNames,      \* the names clients give their savepoints
  Risks,          \* details of effects that cannot be counted (SummaryRisk)
  NoRisk,         \* a statement whose effect is counted exactly
  MaxRows,        \* bound: rows ever written through the backend
  MaxSaves,       \* bound: client savepoints alive in one transaction
  MaxEscapes      \* bound: statements ever run outside the transaction

ASSUME ClientAssumption == None \notin Clients
ASSUME RiskAssumption == NoRisk \notin Risks /\ IsFiniteSet(Risks)
ASSUME SubsetAssumption ==
  Batchers \subseteq Clients /\ Extenders \subseteq Clients /\ Escapers \subseteq Clients
ASSUME BoundAssumption ==
  /\ MaxRows \in Nat /\ MaxSaves \in Nat /\ MaxEscapes \in Nat
  /\ EscapeInBatch \in BOOLEAN

VARIABLES
  \* The PostgreSQL server's side of the shared connection.
  rows,        \* rows staged in the shared transaction, oldest first
  stack,       \* its live savepoints, outermost first
  attempted,   \* pg_stat_get_xact_tuples_*: never lowered by an abort
  server,      \* "T" in transaction, "E" aborted, "committed", "rolledback", "lost"
  \* The proxy (type Proxy).
  queryMu,            \* who holds the backend, or None
  activeTransaction,  \* the client with an open transaction, or None
  escapeClient,       \* the client running an escape statement, or None
  rowStats,           \* the last sample of attempted
  rowLedger,          \* rows the proxy believes are staged
  rowLedgerErr,       \* a sample failed: the ledger is not exact any more
  uncertain,          \* uncertainEffects
  fatal,              \* fatalErr # nil
  irreversible,       \* irreversibleActions
  phase,              \* "running", "stopping", "sealed", "finished"
  complete,           \* changes.Complete of the sealed summary
  outcome,            \* what Finalize returned, or "none"
  \* Every client (type clientState) and the position of its handler.
  pc,             \* where the handler of the client is
  hungup,         \* clients whose connection is closed; what they sent before
                  \* may still be waiting to be read
  tx,             \* transactionSavepoint # ""
  txFailed,       \* transactionFailed
  txMark,         \* transactionRows, transactionUncertain
  saves,          \* savepoints
  batch,          \* batchSavepoint # "" in relayQuery
  batchMark,      \* batchRows, batchUncertain
  cycleFailed,    \* extendedFailed
  rollbackCycle,  \* rollbackCycle
  cycleMark,      \* cycleRows, cycleUncertainBase
  cycleRisk,      \* the set of details in cycleUncertain
  pendingEscape,  \* pendingEscape # nil
  resume,         \* the handler executeIrreversibleLocked returns to
  actionIndex     \* its actionIndex

backendVars == <<rows, stack, attempted, server>>
ledgerVars  == <<rowStats, rowLedger, rowLedgerErr, uncertain>>
txVars      == <<tx, txFailed, txMark, saves, activeTransaction>>
batchVars   == <<batch, batchMark>>
cycleVars   == <<cycleFailed, rollbackCycle, cycleMark, cycleRisk, pendingEscape>>
escapeVars  == <<escapeClient, irreversible, resume, actionIndex>>
sealVars    == <<phase, complete, outcome>>
vars == <<backendVars, ledgerVars, txVars, batchVars, cycleVars, escapeVars,
          sealVars, queryMu, fatal, pc, hungup>>

(***************************************************************************)
(* PostgreSQL's savepoints.  The code numbers its private savepoints with  *)
(* a counter per client; the model names the n-th live one of a kind, and  *)
(* a command refers, as in PostgreSQL, to the innermost one of its name.   *)
(***************************************************************************)
Row   == [by: Clients, risk: Risks \cup {NoRisk}]
Name  == [by: Clients, kind: {"b", "t", "u", "x"}, n: Nat]
Saved == [name: Name, len: Nat]

SavepointName(c, kind, n) == [by |-> c, kind |-> kind, n |-> n]

Innermost(name, at) ==
  /\ stack[at].name = name
  /\ \A j \in DOMAIN stack : stack[j].name = name => j <= at

Savepoint(name) ==
  /\ server = "T"
  /\ stack' = Append(stack, [name |-> name, len |-> Len(rows)])
  /\ UNCHANGED <<rows, attempted, server>>

ReleaseSavepoint(name) ==
  /\ server = "T"
  /\ \E at \in DOMAIN stack :
       Innermost(name, at) /\ stack' = SubSeq(stack, 1, at - 1)
  /\ UNCHANGED <<rows, attempted, server>>

\* ROLLBACK TO SAVEPOINT name; RELEASE SAVEPOINT name.
RollbackRelease(name) ==
  /\ server \in {"T", "E"}
  /\ \E at \in DOMAIN stack :
       /\ Innermost(name, at)
       /\ rows' = SubSeq(rows, 1, stack[at].len)
       /\ stack' = SubSeq(stack, 1, at - 1)
  /\ server' = "T"
  /\ UNCHANGED attempted

\* ROLLBACK TO SAVEPOINT name, which stays alive.
RollbackToSavepoint(name) ==
  /\ server \in {"T", "E"}
  /\ \E at \in DOMAIN stack :
       /\ Innermost(name, at)
       /\ rows' = SubSeq(rows, 1, stack[at].len)
       /\ stack' = SubSeq(stack, 1, at)
  /\ server' = "T"
  /\ UNCHANGED attempted

(***************************************************************************)
(* The ledger.  A mark is what the proxy stores beside a savepoint so that *)
(* it can undo its own accounting when the savepoint is rolled back.       *)
(***************************************************************************)
Mark == [rows: Nat, uncertain: Nat]
ClientSavepoint == [name: SaveNames, mark: Mark]

TakeMark == [rows |-> rowLedger, uncertain |-> Len(uncertain)]
NoMark   == [rows |-> 0, uncertain |-> 0]

\* Mutant: one detail too few survives a rollback.
KeepOneLess(length) == SubSeq(uncertain, 1, length - 1)

\* restoreUncertainEffectsLocked
Keep(length) == IF length < Len(uncertain) THEN SubSeq(uncertain, 1, length) ELSE uncertain

\* restoreRowLedgerLocked, restoreUncertainEffectsLocked and
\* reconcileRowChangesLocked(false), which always come together.
RestoreLedger(mark) ==
  /\ rowLedger' = mark.rows
  /\ uncertain' = Keep(mark.uncertain)
  /\ rowStats' = attempted'
  /\ UNCHANGED rowLedgerErr

\* addUncertainEffectLocked
AddUncertain(list, detail) ==
  IF detail = NoRisk \/ \E i \in DOMAIN list : list[i] = detail THEN list
  ELSE Append(list, detail)

\* Mutant: the difference of the two samples is taken the wrong way round.
ReconcileSwapped(keep) ==
  /\ rowStats' = attempted'
  /\ rowLedger' = IF keep /\ ~rowLedgerErr
                  THEN rowLedger + (rowStats - attempted') ELSE rowLedger
  /\ UNCHANGED rowLedgerErr

\* reconcileRowChangesLocked(keep) after the exchange that led to attempted'.
ReconcileRowChanges(keep) ==
  /\ rowStats' = attempted'
  /\ rowLedger' = IF keep /\ ~rowLedgerErr
                  THEN rowLedger + (attempted' - rowStats) ELSE rowLedger
  /\ UNCHANGED rowLedgerErr

(***************************************************************************)
(* The two leases, and the lock.                                           *)
(***************************************************************************)
EscapeLeaseHeldByOther(c) == escapeClient \notin {None, c}

\* Mutant: another client's open transaction is overlooked.
OnlyEscapeLease(c) == EscapeLeaseHeldByOther(c)

SharedLeaseHeldByOther(c) ==
  activeTransaction \notin {None, c} \/ EscapeLeaseHeldByOther(c)

Holds(c) == queryMu = c

Goto(c, label) == pc' = [pc EXCEPT ![c] = label]

Set(f, c, value) == [f EXCEPT ![c] = value]

(***************************************************************************)
(* The handler of a client is                                              *)
(*   idle         waiting for a message, without the lock                  *)
(*   query        in the statement loop of relayQuery                      *)
(*   done, failed after its last statement, or the first one that failed   *)
(*   cycle        between two messages of an extended-query cycle          *)
(*   control      in extendedExecute, the cycle's savepoint put aside for  *)
(*   escape         transaction control or for an irreversible statement   *)
(*   rotate       about to open the cycle's savepoint again                *)
(*   ask .. refused  inside executeIrreversibleLocked, without the lock    *)
(*   sync         after the cycle, about to answer ReadyForQuery           *)
(*   gone         returned: cleanupClient has run                          *)
(***************************************************************************)
Asking == {"ask", "granted", "leased", "dispatched", "recorded", "ran", "refused"}
Locked == {"query", "done", "failed", "cycle", "control", "escape", "rotate", "sync"}
Labels == Asking \cup Locked \cup {"idle", "gone"}

Init ==
  /\ rows = <<>> /\ stack = <<>> /\ attempted = 0 /\ server = "T"
  /\ queryMu = None /\ activeTransaction = None /\ escapeClient = None
  /\ rowStats = 0 /\ rowLedger = 0 /\ rowLedgerErr = FALSE /\ uncertain = <<>>
  /\ fatal = FALSE /\ irreversible = <<>>
  /\ phase = "running" /\ complete = FALSE /\ outcome = "none"
  /\ pc = [c \in Clients |-> "idle"] /\ hungup = {}
  /\ tx = [c \in Clients |-> FALSE] /\ txFailed = [c \in Clients |-> FALSE]
  /\ txMark = [c \in Clients |-> NoMark] /\ saves = [c \in Clients |-> <<>>]
  /\ batch = [c \in Clients |-> FALSE] /\ batchMark = [c \in Clients |-> NoMark]
  /\ cycleFailed = [c \in Clients |-> FALSE]
  /\ rollbackCycle = [c \in Clients |-> FALSE]
  /\ cycleMark = [c \in Clients |-> NoMark] /\ cycleRisk = [c \in Clients |-> {}]
  /\ pendingEscape = [c \in Clients |-> FALSE]
  /\ resume = [c \in Clients |-> "query"] /\ actionIndex = [c \in Clients |-> 0]
=============================================================================
