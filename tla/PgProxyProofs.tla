--------------------------- MODULE PgProxyProofs ---------------------------
(***************************************************************************)
(* Theorems about PgProxy, for every set of clients, every choice of their *)
(* roles and every bound.                                                  *)
(***************************************************************************)
EXTENDS PgProxy, SequenceTheorems, FiniteSetTheorems, TLAPS

(***************************************************************************)
(* The backend's savepoints.  A rollback cuts rows at the length a         *)
(* savepoint remembers, so the lengths must not exceed what is there and   *)
(* must grow with the stack.                                               *)
(***************************************************************************)
StackOrdered ==
  /\ \A i \in DOMAIN stack : stack[i].len <= Len(rows)
  /\ \A i, j \in DOMAIN stack : i <= j => stack[i].len <= stack[j].len

BackendInv == BackendType /\ StackOrdered

LEMMA StackElement ==
  ASSUME BackendInv, NEW i \in DOMAIN stack
  PROVE  /\ i \in 1..Len(stack) /\ stack[i] \in Saved
         /\ stack[i].len \in Nat /\ stack[i].len <= Len(rows)
<1>1. i \in 1..Len(stack) /\ stack[i] \in Saved
  BY DEF BackendInv, BackendType
<1>2. stack[i].len \in Nat
  BY <1>1 DEF Saved
<1>3. stack[i].len <= Len(rows)
  BY DEF BackendInv, StackOrdered
<1> QED BY <1>1, <1>2, <1>3

\* Cutting the stack keeps its order, whatever is left of the rows above it.
LEMMA CutStack ==
  ASSUME BackendInv, NEW n \in 0..Len(stack), NEW m \in Nat, m <= Len(rows),
         \A i \in 1..n : stack[i].len <= m,
         rows' = SubSeq(rows, 1, m), stack' = SubSeq(stack, 1, n)
  PROVE  rows' \in Seq(Row) /\ stack' \in Seq(Saved) /\ StackOrdered' /\ Len(rows') = m
         /\ Len(stack') = n /\ \A i \in 1..n : stack'[i] = stack[i]
<1>1. rows' \in Seq(Row) /\ Len(rows') = m
  BY SubSeqProperties DEF BackendInv, BackendType
<1>2. stack' \in Seq(Saved) /\ Len(stack') = n /\ \A i \in 1..n : stack'[i] = stack[i]
  BY SubSeqProperties DEF BackendInv, BackendType
<1>3. StackOrdered'
  BY <1>1, <1>2 DEF BackendInv, BackendType, StackOrdered
<1> QED BY <1>1, <1>2, <1>3

LEMMA SavepointBackend ==
  ASSUME BackendInv, NEW name \in Name, Savepoint(name)
  PROVE  BackendInv' /\ attempted' = attempted
<1>1. stack' \in Seq(Saved) /\ Len(stack') = Len(stack) + 1
  BY DEF BackendInv, BackendType, Savepoint, Saved
<1>2. \A i \in DOMAIN stack' : stack'[i] = IF i <= Len(stack) THEN stack[i]
                                         ELSE [name |-> name, len |-> Len(rows)]
  BY DEF BackendInv, BackendType, Savepoint, Saved
<1>3. StackOrdered'
  BY <1>1, <1>2 DEF BackendInv, BackendType, StackOrdered, Savepoint, Saved
<1> QED BY <1>1, <1>3 DEF BackendInv, BackendType, Savepoint

LEMMA ReleaseBackend ==
  ASSUME BackendInv, NEW name, ReleaseSavepoint(name)
  PROVE  BackendInv' /\ attempted' = attempted
<1> PICK at \in DOMAIN stack : stack' = SubSeq(stack, 1, at - 1)
  BY DEF ReleaseSavepoint
<1>1. rows' = SubSeq(rows, 1, Len(rows))
  BY SubSeqFull DEF BackendInv, BackendType, ReleaseSavepoint
<1>2. StackOrdered' /\ stack' \in Seq(Saved)
  BY <1>1, CutStack DEF BackendInv, BackendType, StackOrdered
<1> QED BY <1>2 DEF BackendInv, BackendType, ReleaseSavepoint

LEMMA RollbackReleaseBackend ==
  ASSUME BackendInv, NEW name, RollbackRelease(name)
  PROVE  BackendInv' /\ attempted' = attempted
<1> PICK at \in DOMAIN stack : /\ rows' = SubSeq(rows, 1, stack[at].len)
                              /\ stack' = SubSeq(stack, 1, at - 1)
  BY DEF RollbackRelease
<1>1. at \in 1..Len(stack) /\ stack[at].len \in Nat /\ stack[at].len <= Len(rows)
  BY StackElement
<1>2. \A i \in 1..(at - 1) : i \in DOMAIN stack /\ i <= at
  BY <1>1 DEF BackendInv, BackendType
<1>3. \A i \in 1..(at - 1) : stack[i].len <= stack[at].len
  BY <1>2 DEF BackendInv, StackOrdered
<1>4. at - 1 \in 0..Len(stack)
  BY <1>1 DEF BackendInv, BackendType
<1>5. StackOrdered' /\ rows' \in Seq(Row) /\ stack' \in Seq(Saved)
  BY <1>1, <1>3, <1>4, CutStack
<1> QED BY <1>5 DEF BackendInv, BackendType, RollbackRelease

LEMMA RollbackToBackend ==
  ASSUME BackendInv, NEW name, RollbackToSavepoint(name)
  PROVE  BackendInv' /\ attempted' = attempted
<1> PICK at \in DOMAIN stack : /\ rows' = SubSeq(rows, 1, stack[at].len)
                              /\ stack' = SubSeq(stack, 1, at)
  BY DEF RollbackToSavepoint
<1>1. at \in 1..Len(stack) /\ stack[at].len \in Nat /\ stack[at].len <= Len(rows)
  BY StackElement
<1>2. \A i \in 1..(at) : i \in DOMAIN stack /\ i <= at
  BY <1>1 DEF BackendInv, BackendType
<1>3. \A i \in 1..(at) : stack[i].len <= stack[at].len
  BY <1>2 DEF BackendInv, StackOrdered
<1>4. at \in 0..Len(stack)
  BY <1>1 DEF BackendInv, BackendType
<1>5. StackOrdered' /\ rows' \in Seq(Row) /\ stack' \in Seq(Saved)
  BY <1>1, <1>3, <1>4, CutStack
<1> QED BY <1>5 DEF BackendInv, BackendType, RollbackToSavepoint

\* A statement that writes, or fails, leaves the savepoints alone.
LEMMA WriteBackend ==
  ASSUME BackendInv, NEW row \in Row, rows' = Append(rows, row),
         attempted' = attempted + 1, UNCHANGED <<stack, server>>
  PROVE  BackendInv'
<1>1. rows' \in Seq(Row) /\ Len(rows') = Len(rows) + 1
  BY DEF BackendInv, BackendType
<1>2. \A i \in DOMAIN stack : stack[i].len \in Nat /\ stack[i].len <= Len(rows)
  BY StackElement
<1>3. \A i \in DOMAIN stack : stack[i].len <= Len(rows')
  BY <1>1, <1>2 DEF BackendInv, BackendType
<1>4. StackOrdered'
  BY <1>3 DEF BackendInv, StackOrdered
<1> QED BY <1>1, <1>4 DEF BackendInv, BackendType

(***************************************************************************)
(* The ledger: it only ever grows by samples that lie ahead of the last.   *)
(***************************************************************************)
LedgerInv == LedgerType /\ rowStats <= attempted

LEMMA MarkTypes ==
  ASSUME LedgerType
  PROVE  TakeMark \in Mark /\ NoMark \in Mark
BY DEF LedgerType, TakeMark, NoMark, Mark

LEMMA RestoreLedgerOK ==
  ASSUME LedgerInv, attempted \in Nat, attempted' = attempted, NEW mark \in Mark,
         RestoreLedger(mark)
  PROVE  LedgerInv'
<1>1. mark.rows \in Nat /\ mark.uncertain \in Nat
  BY DEF Mark
<1>2. Keep(mark.uncertain) \in Seq(Risks)
  BY <1>1, SubSeqProperties DEF LedgerInv, LedgerType, Keep
<1> QED BY <1>1, <1>2 DEF LedgerInv, LedgerType, RestoreLedger

LEMMA ReconcileOK ==
  ASSUME LedgerInv, attempted \in Nat, attempted' \in Nat, attempted <= attempted',
         NEW keep, ReconcileRowChanges(keep), uncertain' \in Seq(Risks)
  PROVE  LedgerInv'
<1>1. rowLedger' = rowLedger \/ rowLedger' = rowLedger + (attempted' - rowStats)
  BY DEF ReconcileRowChanges
<1>2. rowStats \in Nat /\ rowLedger \in Nat /\ rowStats <= attempted /\ rowStats' = attempted'
  BY DEF LedgerInv, LedgerType, ReconcileRowChanges
<1>3. rowLedger' \in Nat /\ rowStats' \in Nat /\ rowStats' <= attempted'
  BY <1>1, <1>2
<1>4. rowLedgerErr' \in BOOLEAN
  BY DEF LedgerInv, LedgerType, ReconcileRowChanges
<1> QED BY <1>3, <1>4 DEF LedgerInv, LedgerType

LEMMA AddUncertainType ==
  ASSUME NEW list \in Seq(Risks), NEW detail \in Risks \cup {NoRisk}
  PROVE  AddUncertain(list, detail) \in Seq(Risks)
BY DEF AddUncertain

LEMMA NameTypes ==
  ASSUME NEW c \in Clients, NEW kind \in {"b", "t", "u", "x"}, NEW n \in Nat
  PROVE  SavepointName(c, kind, n) \in Name
BY DEF SavepointName, Name

(***************************************************************************)
(* Type correctness.                                                       *)
(***************************************************************************)
TypeInv == BackendInv /\ LedgerInv /\ TransactionType /\ UnitType /\ EscapeType /\ ControlType

LEMMA InitType == Init => TypeInv
<1> SUFFICES ASSUME Init PROVE TypeInv
  OBVIOUS
<1>1. BackendInv
  BY DEF Init, BackendInv, BackendType, StackOrdered
<1>2. LedgerInv
  <2>1. rowStats \in Nat /\ rowLedger \in Nat /\ rowStats <= attempted /\ uncertain \in Seq(Risks)
    BY DEF Init
  <2>2. rowLedgerErr \in BOOLEAN
    BY DEF Init
  <2> QED BY <2>1, <2>2 DEF LedgerInv, LedgerType
<1>3. TransactionType /\ UnitType
  BY DEF Init, TransactionType, UnitType, Flags, Marks, NoMark, Mark
<1>4. EscapeType
  BY DEF Init, EscapeType
<1>5. ControlType
  BY DEF Init, ControlType, Labels, Asking, Locked
<1> QED BY <1>1, <1>2, <1>3, <1>4, <1>5 DEF TypeInv

\* What a step does not touch keeps its type.
LEMMA Untouched ==
  ASSUME TypeInv
  PROVE  /\ UNCHANGED backendVars => BackendInv'
         /\ UNCHANGED <<ledgerVars, attempted>> => LedgerInv'
         /\ UNCHANGED txVars => TransactionType'
         /\ UNCHANGED <<batchVars, cycleVars>> => UnitType'
         /\ UNCHANGED escapeVars => EscapeType'
<1>1. UNCHANGED backendVars => BackendInv'
  BY DEF TypeInv, BackendInv, BackendType, StackOrdered, backendVars
<1>2. UNCHANGED <<ledgerVars, attempted>> => LedgerInv'
  BY DEF TypeInv, LedgerInv, LedgerType, ledgerVars
<1>3. UNCHANGED txVars => TransactionType'
  BY DEF TypeInv, TransactionType, txVars
<1>4. UNCHANGED <<batchVars, cycleVars>> => UnitType'
  BY DEF TypeInv, UnitType, batchVars, cycleVars
<1>5. UNCHANGED escapeVars => EscapeType'
  BY DEF TypeInv, EscapeType, escapeVars
<1> QED BY <1>1, <1>2, <1>3, <1>4, <1>5

(***************************************************************************)
(* Statements.                                                             *)
(***************************************************************************)
LEMMA StatementResult ==
  ASSUME TypeInv, NEW c \in Clients, StatementFrame,
         Succeed(c) \/ Fail(c) \/ UNCHANGED <<pc, cycleFailed>>
  PROVE  UnitType' /\ EscapeType' /\ ControlType'
<1>1. cycleFailed' \in Flags
  BY DEF TypeInv, UnitType, Flags, Set, Succeed, Fail
<1>2. UnitType'
  BY <1>1 DEF TypeInv, UnitType, StatementFrame, batchVars
<1>3. EscapeType'
  BY Untouched DEF StatementFrame
<1>4. pc' \in [Clients -> Labels]
  BY DEF TypeInv, ControlType, Succeed, Fail, Goto, Labels, Locked, Asking
<1>5. ControlType'
  BY <1>4 DEF TypeInv, ControlType, StatementFrame, sealVars
<1> QED BY <1>2, <1>3, <1>5

\* A statement that leaves the backend and the ledger alone.
LEMMA LocalStatement ==
  ASSUME TypeInv, NEW c \in Clients,
         RefuseStatement(c) \/ RejectStatement(c) \/ Notice(c) \/ NoSuchSavepoint(c)
  PROVE  TypeInv'
<1>1. UNCHANGED <<backendVars, ledgerVars>> /\ StatementFrame /\ (Succeed(c) \/ Fail(c))
  BY DEF RefuseStatement, RejectStatement, Notice, NoSuchSavepoint
<1>2. BackendInv' /\ LedgerInv'
  BY <1>1, Untouched DEF backendVars
<1>3. UnitType' /\ EscapeType' /\ ControlType'
  BY <1>1, StatementResult
<1>4. TransactionType'
  <2>1. txFailed' \in Flags
    BY DEF TypeInv, TransactionType, Flags, Set, RefuseStatement, RejectStatement, Notice,
           NoSuchSavepoint, txVars
  <2> QED
    BY <2>1 DEF TypeInv, TransactionType, RefuseStatement, RejectStatement, Notice,
                NoSuchSavepoint, txVars
<1> QED BY <1>2, <1>3, <1>4 DEF TypeInv

LEMMA ClearTransactionType ==
  ASSUME TypeInv, NEW c \in Clients, ClearTransaction(c)
  PROVE  TransactionType'
<1>1. NoMark \in Mark
  BY MarkTypes DEF TypeInv, LedgerInv
<1>2. tx' \in Flags /\ txFailed' \in Flags
  BY DEF TypeInv, TransactionType, ClearTransaction, Flags, Set
<1>3. txMark' \in Marks
  BY <1>1 DEF TypeInv, TransactionType, ClearTransaction, Marks, Set
<1>4. saves' \in [Clients -> Seq(ClientSavepoint)]
  BY DEF TypeInv, TransactionType, ClearTransaction, Set
<1> QED BY <1>2, <1>3, <1>4 DEF TypeInv, TransactionType, ClearTransaction

\* The marks a client stores are marks.
LEMMA StoredMarks ==
  ASSUME TypeInv, NEW c \in Clients
  PROVE  /\ txMark[c] \in Mark /\ batchMark[c] \in Mark /\ cycleMark[c] \in Mark
         /\ attempted \in Nat
         /\ \A i \in DOMAIN saves[c] : saves[c][i].mark \in Mark
<1>1. saves[c] \in Seq(ClientSavepoint)
  BY DEF TypeInv, TransactionType
<1>2. \A i \in DOMAIN saves[c] : saves[c][i] \in ClientSavepoint
  BY <1>1
<1>3. \A i \in DOMAIN saves[c] : saves[c][i].mark \in Mark
  BY <1>2 DEF ClientSavepoint
<1> QED BY <1>3 DEF TypeInv, TransactionType, UnitType, Marks, BackendInv, BackendType

LEMMA TransactionControl ==
  ASSUME TypeInv, NEW c \in Clients, Begin(c) \/ Commit(c) \/ Rollback(c)
  PROVE  TypeInv'
<1> DEFINE name == SavepointName(c, "t", 0)
<1>1. name \in Name
  BY NameTypes
<1>2. UnitType' /\ EscapeType' /\ ControlType'
  BY StatementResult DEF Begin, Commit, Rollback
<1>3. CASE Begin(c)
  <2>1. BackendInv' /\ attempted' = attempted
    BY <1>1, <1>3, SavepointBackend DEF Begin, TypeInv
  <2>2. LedgerInv'
    BY <1>3, <2>1, Untouched DEF Begin
  <2>3. tx' \in Flags /\ txFailed' \in Flags
    BY <1>3 DEF Begin, TypeInv, TransactionType, Flags, Set
  <2>4. txMark' \in Marks
    BY <1>3, MarkTypes DEF Begin, TypeInv, TransactionType, LedgerInv, Marks, Set
  <2>5. saves' \in [Clients -> Seq(ClientSavepoint)]
    BY <1>3 DEF Begin, TypeInv, TransactionType, Set
  <2>6. TransactionType'
    BY <1>3, <2>3, <2>4, <2>5 DEF Begin, TransactionType
  <2> QED BY <1>2, <2>1, <2>2, <2>6 DEF TypeInv
<1>4. CASE Commit(c) \/ Rollback(c)
  <2>1. TransactionType'
    BY <1>4, ClearTransactionType DEF Commit, Rollback
  <2>2. \/ RollbackRelease(name) /\ RestoreLedger(txMark[c])
        \/ ReleaseSavepoint(name) /\ UNCHANGED ledgerVars
    BY <1>4 DEF Commit, Rollback
  <2>3. BackendInv' /\ attempted' = attempted
    BY <2>2, RollbackReleaseBackend, ReleaseBackend DEF TypeInv
  <2>4. LedgerInv'
    BY <2>2, <2>3, StoredMarks, RestoreLedgerOK, Untouched DEF TypeInv
  <2> QED BY <1>2, <2>1, <2>3, <2>4 DEF TypeInv
<1> QED BY <1>3, <1>4

LEMMA ChainType ==
  ASSUME TypeInv, NEW c \in Clients, NEW commit \in BOOLEAN, Chain(c, commit)
  PROVE  TypeInv'
<1> DEFINE name == SavepointName(c, "t", 0)
           keep == commit /\ ~txFailed[c]
<1>1. name \in Name
  BY NameTypes
<1>2. UnitType' /\ EscapeType' /\ ControlType'
  BY StatementResult DEF Chain
<1>3. PICK at \in DOMAIN stack :
        /\ rows' = IF keep THEN rows ELSE SubSeq(rows, 1, stack[at].len)
        /\ stack' = Append(SubSeq(stack, 1, at - 1), [name |-> name, len |-> Len(rows')])
  BY DEF Chain
<1>4. attempted' = attempted /\ server' = "T"
  BY DEF Chain
<1>5. BackendInv'
  <2>1. at \in 1..Len(stack) /\ stack[at].len \in Nat /\ stack[at].len <= Len(rows)
    BY StackElement DEF TypeInv
  <2>2. \A i \in 1..(at - 1) : /\ i \in DOMAIN stack /\ i <= at
                              /\ stack[i].len <= Len(rows) /\ stack[i].len \in Nat
    BY <2>1, StackElement DEF TypeInv, BackendInv, BackendType
  <2>3. \A i \in 1..(at - 1) : stack[i].len <= stack[at].len
    BY <2>2 DEF TypeInv, BackendInv, StackOrdered
  <2>4. /\ rows' \in Seq(Row)
        /\ Len(rows') = Len(rows) \/ Len(rows') = stack[at].len
    BY <1>3, <2>1, SubSeqProperties DEF TypeInv, BackendInv, BackendType
  <2>5. \A i \in 1..(at - 1) : stack[i].len <= Len(rows')
    BY <2>2, <2>3, <2>4
  <2> DEFINE low == SubSeq(stack, 1, at - 1)
             new == [name |-> name, len |-> Len(rows')]
  <2>6. low \in Seq(Saved) /\ Len(low) = at - 1 /\ \A i \in 1..(at - 1) : low[i] = stack[i]
    BY <2>1, SubSeqProperties DEF TypeInv, BackendInv, BackendType
  <2>7. new \in Saved /\ Len(rows') \in Nat /\ new.len = Len(rows')
    BY <1>1, <2>4 DEF Saved
  <2>8. stack' \in Seq(Saved) /\ Len(stack') = at
    BY <1>3, <2>1, <2>6, <2>7 DEF TypeInv
  <2>9. \A i \in 1..at : stack'[i] = IF i <= at - 1 THEN stack[i] ELSE new
    BY <1>3, <2>1, <2>6, <2>7
  <2>10. \A i \in 1..at : stack'[i].len <= Len(rows')
    BY <2>1, <2>5, <2>7, <2>9
  <2>11. ASSUME NEW i \in 1..at, NEW j \in 1..at, i <= j PROVE stack'[i].len <= stack'[j].len
    <3>1. CASE j <= at - 1
      BY SMTT(30), <2>1, <2>2, <2>9, <2>11, <3>1 DEF TypeInv, BackendInv, StackOrdered
    <3>2. CASE ~(j <= at - 1)
      BY <2>7, <2>9, <2>10, <3>2
    <3> QED BY <3>1, <3>2
  <2>12. StackOrdered'
    BY <2>8, <2>10, <2>11 DEF StackOrdered
  <2> QED BY <1>4, <2>4, <2>8, <2>12 DEF TypeInv, BackendInv, BackendType
<1>6. LedgerInv'
  <2>1. UNCHANGED ledgerVars \/ RestoreLedger(txMark[c])
    BY DEF Chain
  <2> QED BY <1>4, <2>1, StoredMarks, RestoreLedgerOK, Untouched DEF TypeInv
<1>7. TransactionType'
  <2>1. [rows |-> rowLedger', uncertain |-> Len(uncertain')] \in Mark
    BY <1>6 DEF LedgerInv, LedgerType, Mark
  <2>2. txMark' \in Marks
    BY <2>1 DEF Chain, TypeInv, TransactionType, Marks, Set
  <2>3. txFailed' \in Flags /\ saves' \in [Clients -> Seq(ClientSavepoint)]
    BY DEF Chain, TypeInv, TransactionType, Flags, Set
  <2> QED BY <2>2, <2>3 DEF Chain, TypeInv, TransactionType
<1> QED BY <1>2, <1>5, <1>6, <1>7 DEF TypeInv

LEMMA SavepointControl ==
  ASSUME TypeInv, NEW c \in Clients,
         \/ \E name \in SaveNames : MakeSavepoint(c, name)
         \/ \E i \in 1..MaxSaves : RollbackTo(c, i) \/ Release(c, i)
  PROVE  TypeInv'
<1>1. UnitType' /\ EscapeType' /\ ControlType'
  BY StatementResult DEF MakeSavepoint, RollbackTo, Release
<1>2. saves[c] \in Seq(ClientSavepoint)
  BY DEF TypeInv, TransactionType
<1>3. ASSUME NEW name \in SaveNames, MakeSavepoint(c, name)
      PROVE  TypeInv'
  <2>1. SavepointName(c, "u", Len(saves[c]) + 1) \in Name
    BY <1>2, NameTypes
  <2>2. BackendInv' /\ attempted' = attempted
    BY <1>3, <2>1, SavepointBackend DEF MakeSavepoint, TypeInv
  <2>3. LedgerInv'
    BY <1>3, <2>2, Untouched DEF MakeSavepoint
  <2>4. [name |-> name, mark |-> TakeMark] \in ClientSavepoint
    BY MarkTypes DEF TypeInv, LedgerInv, ClientSavepoint
  <2>5. Append(saves[c], [name |-> name, mark |-> TakeMark]) \in Seq(ClientSavepoint)
    BY <1>2, <2>4
  <2>6. TransactionType'
    BY <1>3, <2>5 DEF MakeSavepoint, TypeInv, TransactionType, Set
  <2> QED BY <1>1, <2>2, <2>3, <2>6 DEF TypeInv
<1>4. ASSUME NEW i \in 1..MaxSaves, RollbackTo(c, i)
      PROVE  TypeInv'
  <2>1. BackendInv' /\ attempted' = attempted
    BY <1>4, RollbackToBackend DEF RollbackTo, TypeInv
  <2>2. LedgerInv'
    BY <1>4, <2>1, StoredMarks, RestoreLedgerOK DEF RollbackTo, TypeInv
  <2>3. SubSeq(saves[c], 1, i) \in Seq(ClientSavepoint)
    BY <1>2, <1>4, SubSeqProperties DEF RollbackTo
  <2>4. txFailed' \in Flags
    BY <1>4 DEF RollbackTo, TypeInv, TransactionType, Flags, Set
  <2>5. TransactionType'
    BY <1>4, <2>3, <2>4 DEF RollbackTo, TypeInv, TransactionType, Set
  <2> QED BY <1>1, <2>1, <2>2, <2>5 DEF TypeInv
<1>5. ASSUME NEW i \in 1..MaxSaves, Release(c, i)
      PROVE  TypeInv'
  <2>1. BackendInv' /\ attempted' = attempted
    BY <1>5, ReleaseBackend DEF Release, TypeInv
  <2>2. LedgerInv'
    BY <1>5, <2>1, Untouched DEF Release
  <2>3. SubSeq(saves[c], 1, i - 1) \in Seq(ClientSavepoint)
    BY <1>2, <1>5, SubSeqProperties DEF Release
  <2>4. TransactionType'
    BY <1>5, <2>3 DEF Release, TypeInv, TransactionType, Set
  <2> QED BY <1>1, <2>1, <2>2, <2>4 DEF TypeInv
<1> QED BY <1>3, <1>4, <1>5

\* executeRegularLocked, and a query of the proxy itself that fails.
LEMMA RegularType ==
  ASSUME TypeInv, NEW c \in Clients,
         \/ \E risk \in Risks \cup {NoRisk} : Regular(c, risk)
         \/ RegularFails(c)
         \/ \E sample \in BOOLEAN : ProbeFails(c, sample)
  PROVE  TypeInv'
<1>1. UnitType' /\ EscapeType' /\ ControlType'
  BY StatementResult DEF Regular, RegularFails, ProbeFails
<1>2. attempted \in Nat /\ uncertain \in Seq(Risks)
  BY DEF TypeInv, BackendInv, BackendType, LedgerInv, LedgerType
<1>3. ASSUME NEW risk \in Risks \cup {NoRisk}, Regular(c, risk)
      PROVE  TypeInv'
  <2>1. [by |-> c, risk |-> risk] \in Row
    BY DEF Row
  <2>2. BackendInv'
    BY <1>3, <2>1, WriteBackend DEF Regular, TypeInv
  <2>3. uncertain' \in Seq(Risks)
    BY <1>2, <1>3, AddUncertainType DEF Regular
  <2>4. attempted' \in Nat /\ attempted <= attempted'
    BY <1>2, <1>3 DEF Regular
  <2>5. ReconcileRowChanges(risk = NoRisk)
    BY <1>3 DEF Regular
  <2>6. LedgerInv'
    BY <1>2, <2>3, <2>4, <2>5, ReconcileOK DEF TypeInv
  <2>7. TransactionType'
    BY <1>3, Untouched DEF Regular
  <2> QED BY <1>1, <2>2, <2>6, <2>7 DEF TypeInv
<1>4. CASE RegularFails(c)
  <2>1. attempted' \in Nat /\ attempted <= attempted'
    BY <1>2, <1>4 DEF RegularFails
  <2>2. BackendInv'
    BY <1>4, <2>1 DEF RegularFails, TypeInv, BackendInv, BackendType, StackOrdered
  <2>3. ReconcileRowChanges(FALSE) /\ uncertain' \in Seq(Risks)
    BY <1>2, <1>4 DEF RegularFails
  <2>4. LedgerInv'
    BY <1>2, <2>1, <2>3, ReconcileOK DEF TypeInv
  <2>5. txFailed' \in Flags
    BY <1>4 DEF RegularFails, TypeInv, TransactionType, Flags, Set
  <2>6. TransactionType'
    BY <1>4, <2>5 DEF RegularFails, TypeInv, TransactionType
  <2> QED BY <1>1, <2>2, <2>4, <2>6 DEF TypeInv
<1>5. ASSUME NEW sample \in BOOLEAN, ProbeFails(c, sample)
      PROVE  TypeInv'
  <2>1. BackendInv'
    BY <1>5 DEF ProbeFails, TypeInv, BackendInv, BackendType, StackOrdered
  <2>2. rowLedgerErr' \in BOOLEAN
    BY <1>5 DEF ProbeFails
  <2>3. LedgerInv'
    BY <1>5, <2>2 DEF ProbeFails, TypeInv, LedgerInv, LedgerType
  <2>4. TransactionType'
    BY <1>5, Untouched DEF ProbeFails
  <2> QED BY <1>1, <2>1, <2>3, <2>4 DEF TypeInv
<1> QED BY <1>3, <1>4, <1>5

\* The beginning and the end of relayQuery.
LEMMA QueryType ==
  ASSUME TypeInv, NEW c \in Clients,
         (\E wrap \in BOOLEAN : StartQuery(c, wrap)) \/ FinishQuery(c)
  PROVE  TypeInv'
<1> DEFINE name == SavepointName(c, "b", 0)
<1>1. name \in Name
  BY NameTypes
<1>2. TransactionType' /\ EscapeType'
  BY Untouched DEF StartQuery, FinishQuery
<1>3. ControlType'
  <2>1. pc' \in [Clients -> Labels]
    BY DEF TypeInv, ControlType, StartQuery, FinishQuery, Goto, Labels, Locked
  <2> QED BY <2>1 DEF TypeInv, ControlType, StartQuery, FinishQuery, sealVars
<1>4. ASSUME NEW wrap \in BOOLEAN, StartQuery(c, wrap)
      PROVE  TypeInv'
  <2>1. Savepoint(name) \/ UNCHANGED backendVars
    BY <1>4 DEF StartQuery
  <2>2. BackendInv' /\ attempted' = attempted
    BY <1>1, <2>1, SavepointBackend, Untouched DEF TypeInv, backendVars
  <2>3. LedgerInv'
    BY <1>4, <2>2, Untouched DEF StartQuery
  <2>4. batch' \in Flags
    BY <1>4 DEF StartQuery, TypeInv, UnitType, Flags, Set
  <2>5. batchMark' \in Marks
    BY <1>4, MarkTypes DEF StartQuery, TypeInv, UnitType, LedgerInv, Marks, Set
  <2>6. UnitType'
    BY <1>4, <2>4, <2>5 DEF StartQuery, TypeInv, UnitType, cycleVars
  <2> QED BY <1>2, <1>3, <2>2, <2>3, <2>6 DEF TypeInv
<1>5. CASE FinishQuery(c)
  <2>1. \/ UNCHANGED <<backendVars, ledgerVars>>
        \/ RollbackRelease(name) /\ RestoreLedger(batchMark[c])
        \/ ReleaseSavepoint(name) /\ UNCHANGED ledgerVars
    BY <1>5 DEF FinishQuery, TypeInv, UnitType, Flags
  <2>2. BackendInv' /\ attempted' = attempted
    BY <2>1, RollbackReleaseBackend, ReleaseBackend, Untouched DEF TypeInv, backendVars
  <2>3. LedgerInv'
    BY <2>1, <2>2, StoredMarks, RestoreLedgerOK, Untouched DEF TypeInv
  <2>4. batch' \in Flags
    BY <1>5 DEF FinishQuery, TypeInv, UnitType, Flags, Set
  <2>5. batchMark' \in Marks
    BY <1>5, MarkTypes DEF FinishQuery, TypeInv, UnitType, LedgerInv, Marks, Set
  <2>6. UnitType'
    BY <1>5, <2>4, <2>5 DEF FinishQuery, TypeInv, UnitType, cycleVars
  <2> QED BY <1>2, <1>3, <2>2, <2>3, <2>6 DEF TypeInv
<1> QED BY <1>4, <1>5

LEMMA StatementType ==
  ASSUME TypeInv, NEW c \in Clients, StatementNext(c)
  PROVE  TypeInv'
BY QueryType, LocalStatement, TransactionControl, ChainType, SavepointControl, RegularType
   DEF StatementNext

(***************************************************************************)
(* Statements that run outside of the transaction.                         *)
(***************************************************************************)
LEMMA EscapeFrameType ==
  ASSUME TypeInv, EscapeFrame,
         server' \in {server, "E"}, txFailed' \in Flags, cycleFailed' \in Flags,
         pendingEscape' \in Flags
  PROVE  BackendInv' /\ LedgerInv' /\ TransactionType' /\ UnitType'
<1>1. BackendInv'
  BY DEF EscapeFrame, TypeInv, BackendInv, BackendType, StackOrdered
<1>2. LedgerInv'
  BY Untouched DEF EscapeFrame
<1>3. TransactionType'
  BY DEF EscapeFrame, TypeInv, TransactionType
<1>4. UnitType'
  BY DEF EscapeFrame, TypeInv, UnitType, batchVars
<1> QED BY <1>1, <1>2, <1>3, <1>4

Entry == [by: Clients, result: {"none", "ok", "failed"}]

LEMMA EntryUpdate ==
  ASSUME NEW list \in Seq(Entry), NEW k, NEW result \in {"ok", "failed"}
  PROVE  [list EXCEPT ![k].result = result] \in Seq(Entry)
<1>1. \A e \in Entry : [e EXCEPT !.result = result] \in Entry
  BY DEF Entry
<1>2. DOMAIN list = 1..Len(list) /\ Len(list) \in Nat /\ \A i \in 1..Len(list) : list[i] \in Entry
  OBVIOUS
<1> DEFINE new == [list EXCEPT ![k].result = result]
<1>3. new = [i \in 1..Len(list) |-> IF i = k THEN [list[k] EXCEPT !.result = result] ELSE list[i]]
  BY <1>2
<1>4. new \in [1..Len(list) -> Entry]
  <2> HIDE DEF new
  <2>1. \A i \in 1..Len(list) :
          (IF i = k THEN [list[k] EXCEPT !.result = result] ELSE list[i]) \in Entry
    BY <1>1, <1>2
  <2> QED BY <1>3, <2>1, Zenon
<1> QED BY <1>2, <1>4, SeqDef

LEMMA EscapeActionsType ==
  ASSUME TypeInv, NEW c \in Clients, EscapeNext(c)
  PROVE  TypeInv'
<1> USE DEF EscapeNext
<1>1. txFailed' \in Flags
  BY DEF EscapeStart, Approve, Decline, EscapeLease, EscapeCheckFails, EscapeConnectFails,
         EscapeDispatch, EscapeRecord, EscapeResult, EscapeReturn, Refused, TypeInv,
         TransactionType, Flags, Set
<1>2. cycleFailed' \in Flags
  BY DEF EscapeStart, Approve, Decline, EscapeLease, EscapeCheckFails, EscapeConnectFails,
         EscapeDispatch, EscapeRecord, EscapeResult, EscapeReturn, TypeInv, UnitType, Flags, Set
<1>3. pendingEscape' \in Flags
  BY DEF EscapeStart, Approve, Decline, EscapeLease, EscapeCheckFails, EscapeConnectFails,
         EscapeDispatch, EscapeRecord, EscapeResult, EscapeReturn, TypeInv, UnitType, Flags, Set
<1>4. server' \in {server, "E"} /\ EscapeFrame
  BY DEF EscapeStart, Approve, Decline, EscapeLease, EscapeCheckFails, EscapeConnectFails,
         EscapeDispatch, EscapeRecord, EscapeResult, EscapeReturn
<1>5. BackendInv' /\ LedgerInv' /\ TransactionType' /\ UnitType'
  BY <1>1, <1>2, <1>3, <1>4, EscapeFrameType
<1>6. ControlType'
  <2>1. pc' \in [Clients -> Labels]
    BY DEF EscapeStart, Approve, Decline, EscapeLease, EscapeCheckFails, EscapeConnectFails,
           EscapeDispatch, EscapeRecord, EscapeResult, EscapeReturn, Refused, Goto, TypeInv,
           ControlType, Labels, Asking, Locked
  <2>2. queryMu' \in Clients \cup {None}
    BY DEF EscapeStart, Approve, Decline, EscapeLease, EscapeCheckFails, EscapeConnectFails,
           EscapeDispatch, EscapeRecord, EscapeResult, EscapeReturn, TypeInv, ControlType
  <2> QED BY <1>4, <2>1, <2>2 DEF EscapeFrame, TypeInv, ControlType, sealVars
<1>7. EscapeType'
  <2>1. escapeClient' \in Clients \cup {None}
    BY DEF EscapeStart, Approve, Decline, EscapeLease, EscapeCheckFails, EscapeConnectFails,
           EscapeDispatch, EscapeRecord, EscapeResult, EscapeReturn, TypeInv, EscapeType,
           escapeVars
  <2>2. resume' \in [Clients -> {"query", "escape", "sync"}]
    BY DEF EscapeStart, Approve, Decline, EscapeLease, EscapeCheckFails, EscapeConnectFails,
           EscapeDispatch, EscapeRecord, EscapeResult, EscapeReturn, TypeInv, EscapeType,
           escapeVars, Set
  <2>3. irreversible \in Seq(Entry) /\ Len(irreversible) \in Nat
    BY DEF TypeInv, EscapeType, Entry
  <2>4. actionIndex' \in [Clients -> Nat]
    <3>1. CASE EscapeRecord(c)
      BY <2>3, <3>1 DEF EscapeRecord, TypeInv, EscapeType, Set
    <3>2. CASE EscapeReturn(c)
      BY <3>2 DEF EscapeReturn, TypeInv, EscapeType, Set
    <3>3. CASE UNCHANGED actionIndex
      BY <3>3 DEF TypeInv, EscapeType
    <3> QED
      BY <3>1, <3>2, <3>3 DEF EscapeStart, Approve, Decline, EscapeLease, EscapeCheckFails,
         EscapeConnectFails, EscapeDispatch, EscapeResult, escapeVars
  <2>5. irreversible' \in Seq(Entry)
    <3>1. CASE EscapeRecord(c)
      BY <2>3, <3>1 DEF EscapeRecord, Entry
    <3>2. ASSUME NEW ok \in BOOLEAN, EscapeResult(c, ok) PROVE irreversible' \in Seq(Entry)
      <4> DEFINE result == IF ok THEN "ok" ELSE "failed"
      <4>1. irreversible' = [irreversible EXCEPT ![actionIndex[c]].result = result]
        BY <3>2 DEF EscapeResult
      <4>2. result \in {"ok", "failed"}
        OBVIOUS
      <4> QED BY <2>3, <4>1, <4>2, EntryUpdate
    <3>3. CASE UNCHANGED irreversible
      BY <2>3, <3>3
    <3> QED
      BY <3>1, <3>2, <3>3 DEF EscapeStart, Approve, Decline, EscapeLease, EscapeCheckFails,
         EscapeConnectFails, EscapeDispatch, EscapeReturn, escapeVars
  <2> QED BY <2>1, <2>2, <2>4, <2>5 DEF EscapeType, Entry
<1> QED BY <1>5, <1>6, <1>7 DEF TypeInv

(***************************************************************************)
(* The extended query protocol.                                            *)
(***************************************************************************)
LEMMA DetailsType ==
  ASSUME NEW S \in SUBSET Risks, NEW details \in SetToSeqs(S)
  PROVE  details \in Seq(Risks)
<1>1. Cardinality(S) \in Nat
  BY RiskAssumption, FS_Subset, FS_CardinalityType
<1>2. details \in [1..Cardinality(S) -> S]
  BY DEF SetToSeqs
<1>3. details \in Seq(S)
  BY <1>1, <1>2, SeqDef
<1> QED BY <1>3, SeqMonotonic

LEMMA EndCycleType ==
  ASSUME TypeInv, NEW c \in Clients, EndCycle(c)
  PROVE  BackendInv' /\ LedgerInv' /\ cycleMark' \in Marks /\ cycleRisk' \in [Clients -> SUBSET Risks]
<1>1. \/ RollbackRelease(CycleName(c)) /\ RestoreLedger(cycleMark[c])
      \/ /\ ReleaseSavepoint(CycleName(c))
         /\ \E details \in SetToSeqs(cycleRisk[c] \ Range(uncertain)) :
              uncertain' = uncertain \o details
         /\ ReconcileRowChanges(cycleRisk[c] = {})
  BY DEF EndCycle
<1>2. BackendInv' /\ attempted' = attempted
  BY <1>1, RollbackReleaseBackend, ReleaseBackend DEF TypeInv
<1>3. cycleRisk[c] \ Range(uncertain) \in SUBSET Risks /\ uncertain \in Seq(Risks)
  BY DEF TypeInv, UnitType, LedgerInv, LedgerType
<1>4. ASSUME NEW details \in SetToSeqs(cycleRisk[c] \ Range(uncertain)),
             uncertain' = uncertain \o details
      PROVE  uncertain' \in Seq(Risks)
  BY <1>3, <1>4, DetailsType, ConcatProperties
<1>5. LedgerInv'
  <2>1. CASE RestoreLedger(cycleMark[c])
    BY <1>2, <2>1, StoredMarks, RestoreLedgerOK DEF TypeInv
  <2>2. CASE /\ \E details \in SetToSeqs(cycleRisk[c] \ Range(uncertain)) :
                  uncertain' = uncertain \o details
             /\ ReconcileRowChanges(cycleRisk[c] = {})
    <3>1. uncertain' \in Seq(Risks)
      BY <1>4, <2>2
    <3>2. attempted \in Nat /\ attempted <= attempted' /\ attempted' \in Nat
      BY <1>2 DEF TypeInv, BackendInv, BackendType
    <3> QED BY <2>2, <3>1, <3>2, ReconcileOK DEF TypeInv
  <2> QED BY <1>1, <2>1, <2>2
<1>6. cycleMark' \in Marks
  BY MarkTypes DEF EndCycle, TypeInv, UnitType, LedgerInv, Marks, Set
<1>7. cycleRisk' \in [Clients -> SUBSET Risks]
  BY DEF EndCycle, TypeInv, UnitType, Set
<1> QED BY <1>2, <1>5, <1>6, <1>7

\* The ends of a cycle, and the step that opens one again.
LEMMA CycleBoundaryType ==
  ASSUME TypeInv, NEW c \in Clients,
         \/ StartCycle(c) \/ RotateIn(c) \/ SyncCycle(c) \/ Ready(c)
         \/ \E label \in {"control", "escape"} : RotateOut(c, label)
  PROVE  TypeInv'
<1>1. EscapeType'
  BY Untouched DEF StartCycle, RotateIn, SyncCycle, Ready, RotateOut
<1>2. ControlType'
  <2>1. pc' \in [Clients -> Labels]
    BY DEF StartCycle, RotateIn, SyncCycle, Ready, RotateOut, Goto, TypeInv, ControlType,
           Labels, Locked
  <2>2. queryMu' \in Clients \cup {None}
    BY DEF StartCycle, RotateIn, SyncCycle, Ready, RotateOut, TypeInv, ControlType
  <2> QED BY <2>1, <2>2 DEF StartCycle, RotateIn, SyncCycle, Ready, RotateOut, TypeInv,
                            ControlType, sealVars
<1>3. TransactionType'
  <2>1. txFailed' \in Flags
    BY DEF StartCycle, RotateIn, SyncCycle, Ready, RotateOut, TypeInv, TransactionType, txVars,
           Flags, Set
  <2> QED BY <2>1 DEF StartCycle, RotateIn, SyncCycle, Ready, RotateOut, TypeInv,
                      TransactionType, txVars
<1>4. CASE StartCycle(c) \/ RotateIn(c)
  <2>1. CycleName(c) \in Name
    BY NameTypes DEF CycleName
  <2>2. BackendInv' /\ attempted' = attempted
    BY <1>4, <2>1, SavepointBackend DEF StartCycle, RotateIn, TypeInv
  <2>3. LedgerInv'
    BY <1>4, <2>2, Untouched DEF StartCycle, RotateIn
  <2>4. cycleMark' \in Marks
    BY <1>4, MarkTypes DEF StartCycle, RotateIn, TypeInv, UnitType, LedgerInv, Marks, Set
  <2>5. cycleFailed' \in Flags
    BY <1>4 DEF StartCycle, RotateIn, TypeInv, UnitType, Flags, Set
  <2>6. UnitType'
    BY <1>4, <2>4, <2>5 DEF StartCycle, RotateIn, TypeInv, UnitType, batchVars
  <2> QED BY <1>1, <1>2, <1>3, <2>2, <2>3, <2>6 DEF TypeInv
<1>5. CASE SyncCycle(c) \/ \E label \in {"control", "escape"} : RotateOut(c, label)
  <2>1. EndCycle(c)
    BY <1>5 DEF SyncCycle, RotateOut
  <2>2. cycleFailed' \in Flags /\ rollbackCycle' \in Flags
    BY <1>5 DEF SyncCycle, RotateOut, TypeInv, UnitType, Flags, Set
  <2>3. UnitType'
    BY <1>5, <2>1, <2>2, EndCycleType DEF SyncCycle, RotateOut, TypeInv, UnitType, batchVars
  <2> QED BY <1>1, <1>2, <1>3, <2>1, <2>3, EndCycleType DEF TypeInv
<1>6. CASE Ready(c)
  <2>1. BackendInv' /\ LedgerInv' /\ UnitType'
    BY <1>6, Untouched DEF Ready, backendVars
  <2> QED BY <1>1, <1>2, <1>3, <2>1 DEF TypeInv
<1> QED BY <1>4, <1>5, <1>6

LEMMA ExtendedType ==
  ASSUME TypeInv, NEW c \in Clients, ExtendedNext(c)
  PROVE  TypeInv'
<1>1. ASSUME NEW risk \in Risks \cup {NoRisk}, Execute(c, risk)
      PROVE  TypeInv'
  <2>1. [by |-> c, risk |-> risk] \in Row
    BY DEF Row
  <2>2. BackendInv'
    BY <1>1, <2>1, WriteBackend DEF Execute, TypeInv
  <2>3. attempted' = attempted + 1 /\ attempted \in Nat
    BY <1>1 DEF Execute, TypeInv, BackendInv, BackendType
  <2>4. LedgerInv'
    BY <1>1, <2>3 DEF Execute, TypeInv, LedgerInv, LedgerType, ledgerVars
  <2>5. cycleRisk' \in [Clients -> SUBSET Risks]
    BY <1>1 DEF Execute, TypeInv, UnitType, Set
  <2>6. UnitType'
    BY <1>1, <2>5 DEF Execute, TypeInv, UnitType, batchVars
  <2>7. TransactionType' /\ EscapeType'
    BY <1>1, Untouched DEF Execute
  <2>8. ControlType'
    BY <1>1 DEF Execute, TypeInv, ControlType, sealVars
  <2> QED BY <2>2, <2>4, <2>6, <2>7, <2>8 DEF TypeInv
<1>2. CASE \/ ExecuteRead(c) \/ LocalError(c)
           \/ \E escape \in BOOLEAN : ExecuteFails(c, escape)
  <2>1. CycleFrame /\ server' \in {server, "E"}
    BY <1>2 DEF ExecuteRead, LocalError, ExecuteFails
  <2>2. attempted \in Nat /\ attempted' \in Nat /\ attempted <= attempted'
    <3>1. attempted' \in {attempted, attempted + 1}
      BY <1>2 DEF ExecuteRead, LocalError, ExecuteFails
    <3>2. attempted \in Nat
      BY DEF TypeInv, BackendInv, BackendType
    <3> QED BY <3>1, <3>2
  <2>3. BackendInv'
    BY <2>1, <2>2 DEF CycleFrame, TypeInv, BackendInv, BackendType, StackOrdered
  <2>4. LedgerInv'
    <3>1. rowStats' \in Nat /\ rowStats' <= attempted'
      BY <2>1, <2>2 DEF CycleFrame, TypeInv, LedgerInv, LedgerType, ledgerVars
    <3> QED BY <2>1, <3>1 DEF CycleFrame, TypeInv, LedgerInv, LedgerType, ledgerVars
  <2>5. cycleFailed' \in Flags /\ rollbackCycle' \in Flags
    BY <1>2 DEF ExecuteRead, LocalError, ExecuteFails, TypeInv, UnitType, Flags, Set
  <2>6. pendingEscape' \in Flags
    <3>1. pendingEscape' = pendingEscape
          \/ \E escape \in BOOLEAN : pendingEscape' = Set(pendingEscape, c, escape)
      BY <1>2 DEF ExecuteRead, LocalError, ExecuteFails
    <3> QED BY <3>1 DEF TypeInv, UnitType, Flags, Set
  <2>7. cycleRisk' = cycleRisk
    BY <1>2 DEF ExecuteRead, LocalError, ExecuteFails
  <2>8. UnitType'
    BY <2>1, <2>5, <2>6, <2>7 DEF CycleFrame, TypeInv, UnitType, batchVars
  <2>9. TransactionType' /\ EscapeType'
    BY <2>1, Untouched DEF CycleFrame
  <2>10. ControlType'
    BY <2>1 DEF CycleFrame, TypeInv, ControlType, sealVars
  <2> QED BY <2>3, <2>4, <2>8, <2>9, <2>10 DEF TypeInv
<1> QED BY <1>1, <1>2, CycleBoundaryType DEF ExtendedNext

(***************************************************************************)
(* The end of a handler and of the session.                                *)
(***************************************************************************)
LEMMA ClientEndType ==
  ASSUME TypeInv, NEW c \in Clients, Hangup(c) \/ Cleanup(c) \/ CleanupFatal(c)
  PROVE  TypeInv'
<1>1. CASE Hangup(c)
  <2>1. BackendInv' /\ LedgerInv' /\ TransactionType' /\ UnitType' /\ EscapeType'
    BY <1>1, Untouched DEF Hangup, backendVars
  <2>2. ControlType'
    BY <1>1 DEF Hangup, TypeInv, ControlType, sealVars
  <2> QED BY <2>1, <2>2 DEF TypeInv
<1>2. CASE Cleanup(c) \/ CleanupFatal(c)
  <2>1. ClearClient(c) /\ fatal' = fatal /\ batchMark' = batchMark
    BY <1>2 DEF Cleanup, CleanupFatal, batchVars
  <2>2. TransactionType'
    BY <2>1, ClearTransactionType DEF ClearClient
  <2>3. EscapeType'
    BY <2>1, Untouched DEF ClearClient
  <2>4. ControlType'
    <3>1. pc' \in [Clients -> Labels]
      BY <2>1 DEF ClearClient, TypeInv, ControlType, Goto, Labels
    <3> QED BY <2>1, <3>1 DEF ClearClient, TypeInv, ControlType, sealVars
  <2>5. UnitType'
    <3>1. batch' \in Flags
      BY <1>2 DEF Cleanup, CleanupFatal, batchVars, TypeInv, UnitType, Flags, Set
    <3>2. cycleFailed' \in Flags /\ rollbackCycle' \in Flags /\ pendingEscape' \in Flags
      BY <2>1 DEF ClearClient, TypeInv, UnitType, Flags, Set
    <3>3. cycleMark' \in Marks
      BY <2>1, MarkTypes DEF ClearClient, TypeInv, UnitType, LedgerInv, Marks, Set
    <3>4. cycleRisk' \in [Clients -> SUBSET Risks]
      BY <2>1 DEF ClearClient, TypeInv, UnitType, Set
    <3> QED BY <2>1, <3>1, <3>2, <3>3, <3>4 DEF TypeInv, UnitType
  <2>6. \/ UNCHANGED <<backendVars, ledgerVars>>
        \/ /\ \E name \in {SavepointName(c, "t", 0), CycleName(c)} : RollbackRelease(name)
           /\ RestoreLedger(txMark[c]) \/ RestoreLedger(cycleMark[c])
    BY <1>2 DEF Cleanup, CleanupFatal, TypeInv, TransactionType, Flags
  <2>7. BackendInv' /\ attempted' = attempted
    BY <2>6, RollbackReleaseBackend, Untouched DEF TypeInv, backendVars
  <2>8. LedgerInv'
    BY <2>6, <2>7, StoredMarks, RestoreLedgerOK, Untouched DEF TypeInv
  <2> QED BY <2>2, <2>3, <2>4, <2>5, <2>7, <2>8 DEF TypeInv
<1> QED BY <1>1, <1>2

LEMMA SessionEndType ==
  ASSUME TypeInv,
         \/ MarkFatal \/ Stop
         \/ \E ok \in BOOLEAN : Freeze(ok)
         \/ \E decision \in {"commit", "rollback"} :
              Finalize(decision) \/ FinalizeUnknown(decision)
  PROVE  TypeInv'
<1>1. TransactionType' /\ UnitType' /\ EscapeType'
  BY Untouched DEF MarkFatal, Stop, Freeze, Finalize, FinalizeUnknown, FinalizeFrame
<1>2. BackendInv'
  <2>1. UNCHANGED <<rows, stack, attempted>>
    BY DEF MarkFatal, Stop, Freeze, Finalize, FinalizeUnknown, FinalizeFrame, backendVars
  <2>2. server' \in {server, "committed", "rolledback", "lost"}
    BY DEF MarkFatal, Stop, Freeze, Finalize, FinalizeUnknown, backendVars
  <2> QED BY <2>1, <2>2 DEF TypeInv, BackendInv, BackendType, StackOrdered
<1>3. attempted' = attempted /\ attempted \in Nat
  BY DEF MarkFatal, Stop, Freeze, Finalize, FinalizeUnknown, FinalizeFrame, backendVars,
         TypeInv, BackendInv, BackendType
<1>4. LedgerInv'
  <2>1. UNCHANGED ledgerVars \/ (ReconcileRowChanges(TRUE) /\ UNCHANGED uncertain)
    BY DEF MarkFatal, Stop, Freeze, Finalize, FinalizeUnknown, FinalizeFrame
  <2>2. CASE ReconcileRowChanges(TRUE) /\ UNCHANGED uncertain
    <3>1. uncertain' \in Seq(Risks) /\ attempted' \in Nat /\ attempted <= attempted'
      BY <1>3, <2>2 DEF TypeInv, LedgerInv, LedgerType
    <3> QED BY <1>3, <2>2, <3>1, ReconcileOK DEF TypeInv
  <2> QED BY <1>3, <2>1, <2>2, Untouched
<1>5. ControlType'
  <2>1. complete' \in BOOLEAN /\ fatal' \in BOOLEAN
    BY DEF MarkFatal, Stop, Freeze, Finalize, FinalizeUnknown, FinalizeFrame, TypeInv,
           ControlType, sealVars
  <2>2. /\ hungup' \subseteq Clients
        /\ phase' \in {"running", "stopping", "sealed", "finished"}
        /\ outcome' \in {"none", "committed", "rolledback", "refused", "unknown"}
    BY DEF MarkFatal, Stop, Freeze, Finalize, FinalizeUnknown, FinalizeFrame, TypeInv,
           ControlType, sealVars
  <2>3. UNCHANGED <<queryMu, pc>>
    BY DEF MarkFatal, Stop, Freeze, Finalize, FinalizeUnknown, FinalizeFrame
  <2> QED BY <2>1, <2>2, <2>3 DEF TypeInv, ControlType
<1> QED BY <1>1, <1>2, <1>4, <1>5 DEF TypeInv

\* TypeInv is inductive.
LEMMA TypeStep ==
  ASSUME TypeInv, [Next]_vars
  PROVE  TypeInv'
<1>1. CASE UNCHANGED vars
  <2>1. BackendInv' /\ LedgerInv' /\ TransactionType' /\ UnitType' /\ EscapeType'
    BY <1>1, Untouched DEF vars, backendVars
  <2>2. ControlType'
    BY <1>1 DEF vars, TypeInv, ControlType, sealVars
  <2> QED BY <2>1, <2>2 DEF TypeInv
<1>2. ASSUME NEW c \in Clients, ClientNext(c)
      PROVE  TypeInv'
  BY <1>2, StatementType, EscapeActionsType, ExtendedType, ClientEndType DEF ClientNext
<1> QED BY <1>1, <1>2, SessionEndType DEF Next, Terminated

\* Whatever the clients, their roles and the bounds, every variable of the
\* proxy keeps its type.  The ledger of staged rows in particular, which
\* reconcileRowChangesLocked moves by a difference of two samples and every
\* rollback puts back to a stored mark, never becomes negative.
THEOREM TypeCorrect == Spec => []TypeOK
<1>1. TypeInv => TypeOK
  BY DEF TypeInv, TypeOK, BackendInv, LedgerInv
<1> QED BY <1>1, InitType, TypeStep, PTL DEF Spec

(***************************************************************************)
(* The lease of the open transaction.  Only BEGIN takes it, and it looks   *)
(* at activeTransaction and at its own transaction, not at the others': it *)
(* is the equivalence itself that makes the two agree.                     *)
(***************************************************************************)
LEMMA ClearLease ==
  ASSUME TypeInv, OneOpenTransaction, NEW c \in Clients, ClearTransaction(c)
  PROVE  OneOpenTransaction'
<1> SUFFICES ASSUME NEW d \in Clients PROVE tx'[d] <=> activeTransaction' = d
  BY DEF OneOpenTransaction
<1>1. tx[d] <=> activeTransaction = d
  BY DEF OneOpenTransaction
<1>2. tx \in [Clients -> BOOLEAN]
  BY DEF TypeInv, TransactionType, Flags
<1>3. CASE d = c
  BY <1>2, <1>3, ClientAssumption DEF ClearTransaction, Set
<1>4. CASE d # c
  <2>1. tx'[d] = tx[d]
    BY <1>2, <1>4 DEF ClearTransaction, Set
  <2>2. activeTransaction' = d <=> activeTransaction = d
    BY <1>4, ClientAssumption DEF ClearTransaction
  <2> QED BY <1>1, <2>1, <2>2
<1> QED BY <1>3, <1>4

LEMMA BeginLease ==
  ASSUME TypeInv, OneOpenTransaction, NEW c \in Clients, Begin(c)
  PROVE  OneOpenTransaction'
<1> SUFFICES ASSUME NEW d \in Clients PROVE tx'[d] <=> activeTransaction' = d
  BY DEF OneOpenTransaction
<1>1. activeTransaction = None
  BY DEF Begin, OneOpenTransaction, SharedLeaseHeldByOther
<1>2. tx \in [Clients -> BOOLEAN]
  BY DEF TypeInv, TransactionType, Flags
<1>3. ~tx[d]
  BY <1>1, ClientAssumption DEF OneOpenTransaction
<1> QED BY <1>2, <1>3 DEF Begin, Set

LEMMA LeaseStep ==
  ASSUME TypeInv, OneOpenTransaction, [Next]_vars
  PROVE  OneOpenTransaction'
<1>1. CASE UNCHANGED <<tx, activeTransaction>>
  BY <1>1 DEF OneOpenTransaction
<1>2. ASSUME NEW c \in Clients, ClientNext(c)
      PROVE  OneOpenTransaction'
  <2>1. CASE Begin(c)
    BY <2>1, BeginLease
  <2>2. CASE Commit(c) \/ Rollback(c) \/ Cleanup(c) \/ CleanupFatal(c)
    BY <2>2, ClearLease DEF Commit, Rollback, Cleanup, CleanupFatal, ClearClient
  <2>3. CASE StatementNext(c) /\ ~(Begin(c) \/ Commit(c) \/ Rollback(c))
    BY <2>3, <1>1 DEF StatementNext, StartQuery, FinishQuery, RefuseStatement, RejectStatement,
       Notice, Chain, MakeSavepoint, RollbackTo, Release, NoSuchSavepoint, Regular,
       RegularFails, ProbeFails, txVars
  <2>4. CASE EscapeNext(c)
    BY <2>4, <1>1 DEF EscapeNext, EscapeStart, Approve, Decline, EscapeLease, EscapeCheckFails,
       EscapeConnectFails, EscapeDispatch, EscapeRecord, EscapeResult, EscapeReturn, EscapeFrame
  <2>5. CASE ExtendedNext(c)
    BY <2>5, <1>1 DEF ExtendedNext, StartCycle, Execute, ExecuteRead, ExecuteFails, LocalError,
       RotateOut, RotateIn, SyncCycle, Ready, CycleFrame, txVars
  <2>6. CASE Hangup(c)
    BY <2>6, <1>1 DEF Hangup, txVars
  <2> QED BY <1>2, <2>1, <2>2, <2>3, <2>4, <2>5, <2>6 DEF ClientNext
<1>3. CASE MarkFatal \/ Stop \/ (\E ok \in BOOLEAN : Freeze(ok))
  BY <1>1, <1>3 DEF MarkFatal, Stop, Freeze, txVars
<1>4. CASE \E decision \in {"commit", "rollback"} : Finalize(decision) \/ FinalizeUnknown(decision)
  BY <1>1, <1>4 DEF Finalize, FinalizeUnknown, FinalizeFrame, txVars
<1>5. CASE UNCHANGED vars
  BY <1>1, <1>5 DEF vars, txVars
<1> QED BY <1>2, <1>3, <1>4, <1>5 DEF Next, Terminated

\* However many clients share the backend, activeTransaction names the one
\* with an open transaction: no sequence of BEGIN, COMMIT, ROLLBACK, AND
\* CHAIN, failures and disconnects opens two, or leaves a lease behind.
THEOREM SingleTransaction == Spec => []OneOpenTransaction
<1>1. Init => OneOpenTransaction
  BY ClientAssumption DEF Init, OneOpenTransaction
<1> QED BY <1>1, InitType, TypeStep, LeaseStep, PTL DEF Spec
=============================================================================
