-------------------------- MODULE PgNestingProofs ---------------------------
(***************************************************************************)
(* Whose savepoint is where.  The theorems about the savepoints the        *)
(* clients share, about whose work a rollback takes, about statements that *)
(* run outside of the transaction, and that the proxy implements Session.  *)
(***************************************************************************)
EXTENDS PgProxyProofs

(***************************************************************************)
(* The lock.  Who is at a label of Locked has it, and a batch is open only *)
(* while its statements run: executeIrreversibleLocked gives the lock back *)
(* in the middle of a statement, which is why this needs the assumption    *)
(* that no such statement is part of a batch.                              *)
(***************************************************************************)
LockInv ==
  /\ \A c \in Clients : pc[c] \in Locked <=> queryMu = c
  /\ \A c \in Clients : batch[c] => pc[c] \in {"query", "done", "failed"}

LEMMA LockTypes ==
  ASSUME TypeInv
  PROVE  /\ queryMu \in Clients \cup {None} /\ DOMAIN pc = Clients /\ DOMAIN batch = Clients
         /\ batch \in [Clients -> BOOLEAN] /\ pc \in [Clients -> Labels]
BY DEF TypeInv, ControlType, UnitType, Flags

\* The four ways a step of a handler treats the lock.
LEMMA LockKept ==
  ASSUME TypeInv, LockInv, NEW c \in Clients, queryMu = c, queryMu' = queryMu, batch' = batch,
         NEW label, Goto(c, label) \/ UNCHANGED pc, Goto(c, label) => label \in Locked,
         Goto(c, label) /\ batch[c] => label \in {"query", "done", "failed"}
  PROVE  LockInv'
<1>1. \A d \in Clients : d # c => pc'[d] = pc[d]
  BY LockTypes DEF Goto
<1>2. Goto(c, label) => pc'[c] = label
  BY LockTypes DEF Goto
<1> QED BY <1>1, <1>2 DEF LockInv

LEMMA LockFreed ==
  ASSUME TypeInv, LockInv, NEW c \in Clients, queryMu = c, queryMu' = None,
         NEW label, Goto(c, label), label \notin Locked,
         batch' = Set(batch, c, FALSE) \/ (batch' = batch /\ ~batch[c])
  PROVE  LockInv'
<1>1. \A d \in Clients : d # c => pc'[d] = pc[d] /\ batch'[d] = batch[d]
  BY LockTypes DEF Goto, Set
<1>2. pc'[c] = label /\ batch'[c] = FALSE
  BY LockTypes DEF Goto, Set
<1>3. \A d \in Clients : d # None
  BY ClientAssumption
<1> QED BY <1>1, <1>2, <1>3 DEF LockInv

LEMMA LockTaken ==
  ASSUME TypeInv, LockInv, NEW c \in Clients, queryMu = None \/ queryMu = c, queryMu' = c,
         NEW label, Goto(c, label), label \in Locked, NEW wrap,
         batch' = Set(batch, c, wrap) \/ (batch' = batch /\ ~batch[c]),
         batch'[c] => label \in {"query", "done", "failed"}
  PROVE  LockInv'
<1>1. \A d \in Clients : d # c => pc'[d] = pc[d] /\ batch'[d] = batch[d]
  BY LockTypes DEF Goto, Set
<1>2. pc'[c] = label
  BY LockTypes DEF Goto
<1>3. \A d \in Clients : d # None
  BY ClientAssumption
<1> QED BY <1>1, <1>2, <1>3 DEF LockInv

LEMMA LockElsewhere ==
  ASSUME TypeInv, LockInv, NEW c \in Clients, queryMu' = queryMu, pc[c] \notin Locked,
         NEW label, Goto(c, label), label \notin Locked,
         batch' = batch \/ batch' = Set(batch, c, FALSE)
  PROVE  LockInv'
<1>1. \A d \in Clients : d # c => pc'[d] = pc[d] /\ batch'[d] = batch[d]
  BY LockTypes DEF Goto, Set
<1>2. pc'[c] = label
  BY LockTypes DEF Goto
<1>3. ~batch[c] /\ (batch'[c] => batch[c])
  BY LockTypes DEF LockInv, Set, Locked
<1> QED BY <1>1, <1>2, <1>3 DEF LockInv

LEMMA LockUntouched ==
  ASSUME LockInv, UNCHANGED <<queryMu, pc, batch>>
  PROVE  LockInv'
BY DEF LockInv

\* A statement moves its handler from one label of Locked to another.
LEMMA ResultLock ==
  ASSUME TypeInv, LockInv, NEW c \in Clients, Succeed(c) \/ Fail(c), StatementFrame,
         Holds(c), pc[c] \in {"query", "cycle", "control"}
  PROVE  LockInv'
<1>1. queryMu = c /\ queryMu' = queryMu /\ batch' = batch
  BY DEF Holds, StatementFrame, batchVars
<1>2. batch[c] => pc[c] = "query"
  BY DEF LockInv
<1>3. CASE Succeed(c)
  <2> DEFINE label == CASE pc[c] = "query" -> IF c \in Batchers THEN "query" ELSE "done"
                        [] pc[c] = "cycle" -> "cycle"
                        [] OTHER -> "rotate"
  <2>1. Goto(c, label)
    BY <1>3 DEF Succeed
  <2>2. label \in Locked /\ (batch[c] => label \in {"query", "done", "failed"})
    BY <1>2 DEF Locked
  <2> HIDE DEF label
  <2> QED BY <1>1, <2>1, <2>2, LockKept
<1>4. CASE Fail(c)
  <2> DEFINE label == CASE pc[c] = "query" -> "failed"
                        [] pc[c] = "cycle" -> "cycle"
                        [] OTHER -> "rotate"
  <2>1. Goto(c, label)
    BY <1>4 DEF Fail
  <2>2. label \in Locked /\ (batch[c] => label \in {"query", "done", "failed"})
    BY <1>2 DEF Locked
  <2> HIDE DEF label
  <2> QED BY <1>1, <2>1, <2>2, LockKept
<1> QED BY <1>3, <1>4

LEMMA StatementLock ==
  ASSUME TypeInv, LockInv, NEW c \in Clients, StatementNext(c)
  PROVE  LockInv'
<1>1. ASSUME NEW wrap \in BOOLEAN, StartQuery(c, wrap) PROVE LockInv'
  <2>1. /\ queryMu \in {None, c} /\ queryMu' = c /\ Goto(c, "query")
        /\ batch' = Set(batch, c, wrap)
    BY <1>1 DEF StartQuery, Holds
  <2> QED BY <2>1, LockTaken DEF Locked
<1>2. CASE FinishQuery(c)
  <2>1. queryMu = c /\ queryMu' = None /\ Goto(c, "idle") /\ batch' = Set(batch, c, FALSE)
    BY <1>2 DEF FinishQuery, Holds
  <2> QED BY <2>1, LockFreed DEF Locked
<1>3. ASSUME NEW sample \in BOOLEAN, ProbeFails(c, sample) PROVE LockInv'
  BY <1>3, LockUntouched DEF ProbeFails, StatementFrame, batchVars
<1>4. CASE \/ RefuseStatement(c) \/ RejectStatement(c) \/ Notice(c)
           \/ Begin(c) \/ Commit(c) \/ Rollback(c)
           \/ \E commit \in BOOLEAN : Chain(c, commit)
           \/ \E name \in SaveNames : MakeSavepoint(c, name)
           \/ \E i \in 1..MaxSaves : RollbackTo(c, i) \/ Release(c, i)
           \/ NoSuchSavepoint(c)
           \/ \E risk \in Risks \cup {NoRisk} : Regular(c, risk)
           \/ RegularFails(c)
  <2>1. (Succeed(c) \/ Fail(c)) /\ StatementFrame
    BY <1>4 DEF RefuseStatement, RejectStatement, Notice, Begin, Commit, Rollback, Chain,
       MakeSavepoint, RollbackTo, Release, NoSuchSavepoint, Regular, RegularFails
  <2>2. AtStatement(c) \/ InCycle(c) \/ AtRegular(c)
    BY <1>4 DEF RefuseStatement, RejectStatement, Notice, Begin, Commit, Rollback, Chain,
       MakeSavepoint, RollbackTo, Release, NoSuchSavepoint, Regular, RegularFails, AtControl
  <2>3. Holds(c) /\ pc[c] \in {"query", "cycle", "control"}
    BY <2>2 DEF AtStatement, InCycle, AtRegular
  <2> QED BY <2>1, <2>3, ResultLock
<1> QED BY <1>1, <1>2, <1>3, <1>4 DEF StatementNext

LEMMA EscapeLock ==
  ASSUME ~EscapeInBatch, TypeInv, LockInv, NEW c \in Clients, EscapeNext(c)
  PROVE  LockInv'
<1>1. CASE EscapeStart(c)
  <2>1. queryMu = c /\ queryMu' = None /\ Goto(c, "ask") /\ batch' = batch
    BY <1>1 DEF EscapeStart, Holds, EscapeFrame, batchVars
  <2>2. ~batch[c]
    BY <1>1 DEF EscapeStart, LockInv
  <2> QED BY <2>1, <2>2, LockFreed DEF Locked
<1>2. CASE EscapeReturn(c)
  <2> DEFINE label == CASE resume[c] = "sync" -> "sync"
                        [] resume[c] = "escape" -> "rotate"
                        [] OTHER -> IF pc[c] = "refused" THEN "failed"
                                    ELSE IF c \in Batchers THEN "query" ELSE "done"
  <2>1. queryMu = None /\ queryMu' = c /\ Goto(c, label) /\ batch' = batch
    BY <1>2 DEF EscapeReturn, EscapeFrame, batchVars
  <2>2. label \in Locked
    BY DEF Locked
  <2>3. ~batch[c]
    BY <1>2 DEF EscapeReturn, LockInv
  <2> HIDE DEF label
  <2> QED BY <2>1, <2>2, <2>3, LockTaken
<1>3. CASE \/ Approve(c) \/ Decline(c)
           \/ EscapeLease(c) \/ EscapeCheckFails(c) \/ EscapeConnectFails(c)
           \/ EscapeDispatch(c) \/ EscapeRecord(c)
           \/ \E ok \in BOOLEAN : EscapeResult(c, ok)
  <2>1. queryMu' = queryMu /\ batch' = batch /\ pc[c] \notin Locked
    BY <1>3 DEF Approve, Decline, EscapeLease, EscapeCheckFails, EscapeConnectFails,
       EscapeDispatch, EscapeRecord, EscapeResult, EscapeFrame, batchVars, Locked
  <2>2. \E label \in Asking : Goto(c, label)
    BY <1>3 DEF Approve, Decline, EscapeLease, EscapeCheckFails, EscapeConnectFails,
       EscapeDispatch, EscapeRecord, EscapeResult, Refused, Asking
  <2>3. \A label \in Asking : label \notin Locked
    BY DEF Asking, Locked
  <2> QED BY <2>1, <2>2, <2>3, LockElsewhere
<1> QED BY <1>1, <1>2, <1>3 DEF EscapeNext

LEMMA ExtendedLock ==
  ASSUME TypeInv, LockInv, NEW c \in Clients, ExtendedNext(c)
  PROVE  LockInv'
<1>1. CASE StartCycle(c)
  <2>1. queryMu = None /\ queryMu' = c /\ Goto(c, "cycle") /\ batch' = batch /\ ~batch[c]
    BY <1>1 DEF StartCycle, batchVars, LockInv
  <2> QED BY <2>1, LockTaken DEF Locked
<1>2. CASE RotateIn(c) \/ SyncCycle(c) \/ \E label \in {"control", "escape"} : RotateOut(c, label)
  <2>1. queryMu = c /\ queryMu' = queryMu /\ batch' = batch /\ ~batch[c]
    BY <1>2 DEF RotateIn, SyncCycle, RotateOut, InCycle, Holds, batchVars, LockInv
  <2>2. \E label \in Locked : Goto(c, label)
    BY <1>2 DEF RotateIn, SyncCycle, RotateOut, Locked
  <2> QED BY <2>1, <2>2, LockKept
<1>3. CASE Ready(c)
  <2>1. queryMu = c /\ queryMu' = None /\ Goto(c, "idle") /\ batch' = batch /\ ~batch[c]
    BY <1>3 DEF Ready, Holds, batchVars, LockInv
  <2> QED BY <2>1, LockFreed DEF Locked
<1>4. CASE \/ \E risk \in Risks \cup {NoRisk} : Execute(c, risk)
           \/ ExecuteRead(c) \/ LocalError(c)
           \/ \E escape \in BOOLEAN : ExecuteFails(c, escape)
  BY <1>4, LockUntouched DEF Execute, ExecuteRead, LocalError, ExecuteFails, CycleFrame, batchVars
<1> QED BY <1>1, <1>2, <1>3, <1>4 DEF ExtendedNext

LEMMA LockStep ==
  ASSUME ~EscapeInBatch, TypeInv, LockInv, [Next]_vars
  PROVE  LockInv'
<1>1. ASSUME NEW c \in Clients, Cleanup(c) \/ CleanupFatal(c) PROVE LockInv'
  <2>1. /\ queryMu' = None /\ Goto(c, "gone")
        /\ (queryMu = None /\ pc[c] = "idle") \/ (queryMu = c /\ pc[c] \in Locked)
    BY <1>1 DEF Cleanup, CleanupFatal, ClearClient, Holds, Locked
  <2>2. batch' = Set(batch, c, FALSE) \/ (batch' = batch /\ ~batch[c])
    BY <1>1 DEF Cleanup, CleanupFatal, batchVars, LockInv
  <2>3. CASE queryMu = None /\ pc[c] = "idle"
    BY <2>1, <2>2, <2>3, LockElsewhere DEF Locked
  <2>4. CASE queryMu = c
    BY <2>1, <2>2, <2>4, LockFreed DEF Locked
  <2> QED BY <2>1, <2>3, <2>4
<1>2. ASSUME NEW c \in Clients, Hangup(c) PROVE LockInv'
  BY <1>2, LockUntouched DEF Hangup, batchVars
<1>3. ASSUME NEW c \in Clients, ClientNext(c) PROVE LockInv'
  BY <1>1, <1>2, <1>3, StatementLock, EscapeLock, ExtendedLock DEF ClientNext
<1>4. CASE \/ MarkFatal \/ Stop
           \/ \E ok \in BOOLEAN : Freeze(ok)
           \/ \E decision \in {"commit", "rollback"} :
                Finalize(decision) \/ FinalizeUnknown(decision)
           \/ UNCHANGED vars
  BY <1>4, LockUntouched DEF MarkFatal, Stop, Freeze, Finalize, FinalizeUnknown,
     FinalizeFrame, vars, batchVars
<1> QED BY <1>3, <1>4 DEF Next, Terminated

(***************************************************************************)
(* The end of the session.  Seal waits for every handler, a lost backend   *)
(* stays lost, and only a session that was not lost is sealed as complete. *)
(***************************************************************************)
EndInv ==
  /\ phase \in {"sealed", "finished"} => \A c \in Clients : pc[c] = "gone"
  /\ IF fatal THEN server = "lost" ELSE phase # "finished" => server \in {"T", "E"}
  /\ complete => phase \in {"sealed", "finished"} /\ ~fatal

\* A handler that has returned takes no step.
LEMMA GoneIsGone ==
  ASSUME NEW c \in Clients, ClientNext(c)
  PROVE  pc[c] # "gone"
<1>1. ASSUME StatementNext(c) PROVE pc[c] # "gone"
  BY <1>1 DEF StatementNext, StartQuery, FinishQuery, RefuseStatement, RejectStatement, Notice,
     Begin, Commit, Rollback, Chain, MakeSavepoint, RollbackTo, Release, NoSuchSavepoint,
     Regular, RegularFails, ProbeFails, AtStatement, AtControl, InCycle, AtRegular, Locked
<1>2. ASSUME EscapeNext(c) PROVE pc[c] # "gone"
  BY <1>2 DEF EscapeNext, EscapeStart, Approve, Decline, EscapeLease, EscapeCheckFails,
     EscapeConnectFails, EscapeDispatch, EscapeRecord, EscapeResult, EscapeReturn
<1>3. ASSUME ExtendedNext(c) PROVE pc[c] # "gone"
  BY <1>3 DEF ExtendedNext, StartCycle, Execute, ExecuteRead, ExecuteFails, LocalError,
     RotateOut, RotateIn, SyncCycle, Ready, InCycle
<1>4. ASSUME Hangup(c) \/ Cleanup(c) \/ CleanupFatal(c) PROVE pc[c] # "gone"
  BY <1>4 DEF Hangup, Cleanup, CleanupFatal, Locked
<1> QED BY <1>1, <1>2, <1>3, <1>4 DEF ClientNext

\* What a step of a handler does to the session as a whole.
LEMMA ClientSession ==
  ASSUME NEW c \in Clients, ClientNext(c)
  PROVE  /\ UNCHANGED <<phase, complete, outcome, fatal>>
         /\ server' = server \/ (server \in {"T", "E"} /\ server' \in {"T", "E"})
<1>1. ASSUME StatementNext(c)
      PROVE  /\ UNCHANGED <<phase, complete, outcome, fatal>>
             /\ server' = server \/ (server \in {"T", "E"} /\ server' \in {"T", "E"})
  <2>1. UNCHANGED <<phase, complete, outcome, fatal>>
    BY <1>1 DEF StatementNext, StartQuery, FinishQuery, RefuseStatement, RejectStatement, Notice,
       Begin, Commit, Rollback, Chain, MakeSavepoint, RollbackTo, Release, NoSuchSavepoint,
       Regular, RegularFails, ProbeFails, StatementFrame, sealVars
  <2>2. server' = server \/ (server \in {"T", "E"} /\ server' \in {"T", "E"})
    BY <1>1 DEF StatementNext, StartQuery, FinishQuery, RefuseStatement, RejectStatement, Notice,
       Begin, Commit, Rollback, Chain, MakeSavepoint, RollbackTo, Release, NoSuchSavepoint,
       Regular, RegularFails, ProbeFails, backendVars, Savepoint, ReleaseSavepoint,
       RollbackRelease, RollbackToSavepoint
  <2> QED BY <2>1, <2>2
<1>2. ASSUME EscapeNext(c)
      PROVE  /\ UNCHANGED <<phase, complete, outcome, fatal>>
             /\ server' = server \/ (server \in {"T", "E"} /\ server' \in {"T", "E"})
  BY <1>2 DEF EscapeNext, EscapeStart, Approve, Decline, EscapeLease, EscapeCheckFails,
     EscapeConnectFails, EscapeDispatch, EscapeRecord, EscapeResult, EscapeReturn, EscapeFrame,
     sealVars
<1>3. ASSUME ExtendedNext(c)
      PROVE  /\ UNCHANGED <<phase, complete, outcome, fatal>>
             /\ server' = server \/ (server \in {"T", "E"} /\ server' \in {"T", "E"})
  <2>1. UNCHANGED <<phase, complete, outcome, fatal>>
    BY <1>3 DEF ExtendedNext, StartCycle, Execute, ExecuteRead, ExecuteFails, LocalError,
       RotateOut, RotateIn, SyncCycle, Ready, CycleFrame, sealVars
  <2>2. server' = server \/ (server \in {"T", "E"} /\ server' \in {"T", "E"})
    BY <1>3 DEF ExtendedNext, StartCycle, Execute, ExecuteRead, ExecuteFails, LocalError,
       RotateOut, RotateIn, SyncCycle, Ready, EndCycle, backendVars, Savepoint,
       ReleaseSavepoint, RollbackRelease
  <2> QED BY <2>1, <2>2
<1>4. ASSUME Hangup(c) \/ Cleanup(c) \/ CleanupFatal(c)
      PROVE  /\ UNCHANGED <<phase, complete, outcome, fatal>>
             /\ server' = server \/ (server \in {"T", "E"} /\ server' \in {"T", "E"})
  BY <1>4 DEF Hangup, Cleanup, CleanupFatal, ClearClient, sealVars, backendVars,
     RollbackRelease
<1> QED BY <1>1, <1>2, <1>3, <1>4 DEF ClientNext

LEMMA EndStep ==
  ASSUME EndInv, [Next]_vars
  PROVE  EndInv'
<1>1. ASSUME NEW c \in Clients, ClientNext(c) PROVE EndInv'
  <2>1. phase \notin {"sealed", "finished"}
    BY <1>1, GoneIsGone DEF EndInv
  <2> QED BY <1>1, <2>1, ClientSession DEF EndInv
<1>2. CASE MarkFatal \/ Stop
  BY <1>2 DEF EndInv, MarkFatal, Stop, sealVars, backendVars
<1>3. ASSUME NEW ok \in BOOLEAN, Freeze(ok) PROVE EndInv'
  <2>1. complete' => ok
    BY <1>3 DEF Freeze
  <2> QED BY <1>3, <2>1 DEF EndInv, Freeze, backendVars
<1>4. ASSUME NEW decision \in {"commit", "rollback"}, Finalize(decision) \/ FinalizeUnknown(decision)
      PROVE  EndInv'
  BY <1>4 DEF EndInv, Finalize, FinalizeUnknown, FinalizeFrame
<1>5. CASE UNCHANGED vars
  BY <1>5 DEF EndInv, vars, sealVars, backendVars
<1> QED BY <1>1, <1>2, <1>3, <1>4, <1>5 DEF Next, Terminated

(***************************************************************************)
(* Irreversible statements.  An entry without a result belongs to a        *)
(* handler that is about to write it, at the index that handler remembers. *)
(***************************************************************************)
ResultInv ==
  /\ \A c \in Clients : pc[c] = "recorded" => actionIndex[c] \in DOMAIN irreversible
  /\ \A i \in DOMAIN irreversible :
       irreversible[i].result = "none" =>
         \E c \in Clients : pc[c] = "recorded" /\ actionIndex[c] = i

\* A handler that is not at "recorded" moves to another such label.
LEMMA ResultElsewhere ==
  ASSUME TypeInv, ResultInv, NEW c \in Clients, irreversible' = irreversible,
         NEW n, actionIndex' = actionIndex \/ actionIndex' = Set(actionIndex, c, n),
         NEW label, Goto(c, label) \/ (UNCHANGED pc /\ UNCHANGED actionIndex),
         Goto(c, label) => pc[c] # "recorded" /\ label # "recorded"
  PROVE  ResultInv'
<1>1. \A d \in Clients : pc[d] = "recorded" => pc'[d] = "recorded" /\ actionIndex'[d] = actionIndex[d]
  BY LockTypes DEF Goto, Set, TypeInv, EscapeType
<1>2. \A d \in Clients : pc'[d] = "recorded" => pc[d] = "recorded"
  BY LockTypes DEF Goto
<1> QED BY <1>1, <1>2 DEF ResultInv

LEMMA ResultClient ==
  ASSUME TypeInv, ResultInv, NEW c \in Clients, ClientNext(c)
  PROVE  ResultInv'
<1>1. ASSUME StatementNext(c) PROVE ResultInv'
  <2>1. irreversible' = irreversible /\ actionIndex' = actionIndex
    BY <1>1 DEF StatementNext, StartQuery, FinishQuery, RefuseStatement, RejectStatement, Notice,
       Begin, Commit, Rollback, Chain, MakeSavepoint, RollbackTo, Release, NoSuchSavepoint,
       Regular, RegularFails, ProbeFails, StatementFrame, escapeVars
  <2>2. pc[c] # "recorded"
    BY <1>1 DEF StatementNext, StartQuery, FinishQuery, RefuseStatement, RejectStatement, Notice,
       Begin, Commit, Rollback, Chain, MakeSavepoint, RollbackTo, Release, NoSuchSavepoint,
       Regular, RegularFails, ProbeFails, AtStatement, AtControl, InCycle, AtRegular, Locked
  <2>3. UNCHANGED pc \/ \E label : label # "recorded" /\ Goto(c, label)
    BY <1>1 DEF StatementNext, StartQuery, FinishQuery, RefuseStatement, RejectStatement, Notice,
       Begin, Commit, Rollback, Chain, MakeSavepoint, RollbackTo, Release, NoSuchSavepoint,
       Regular, RegularFails, ProbeFails, Succeed, Fail
  <2> QED BY <2>1, <2>2, <2>3, ResultElsewhere
<1>2. ASSUME ExtendedNext(c) \/ Hangup(c) \/ Cleanup(c) \/ CleanupFatal(c) PROVE ResultInv'
  <2>1. irreversible' = irreversible /\ actionIndex' = actionIndex
    BY <1>2 DEF ExtendedNext, StartCycle, Execute, ExecuteRead, ExecuteFails, LocalError,
       RotateOut, RotateIn, SyncCycle, Ready, CycleFrame, Hangup, Cleanup, CleanupFatal,
       ClearClient, escapeVars
  <2>2. UNCHANGED pc \/ (pc[c] # "recorded" /\ \E label : label # "recorded" /\ Goto(c, label))
    BY <1>2 DEF ExtendedNext, StartCycle, Execute, ExecuteRead, ExecuteFails, LocalError,
       RotateOut, RotateIn, SyncCycle, Ready, CycleFrame, Hangup, Cleanup, CleanupFatal,
       ClearClient, InCycle, Locked
  <2>3. CASE UNCHANGED pc
    BY <2>1, <2>3 DEF ResultInv
  <2> QED BY <2>1, <2>2, <2>3, ResultElsewhere
<1>3. CASE EscapeRecord(c)
  <2> DEFINE n == Len(irreversible) + 1
  <2>1. /\ irreversible' = Append(irreversible, [by |-> c, result |-> "none"])
        /\ actionIndex' = Set(actionIndex, c, n) /\ Goto(c, "recorded") /\ pc[c] = "dispatched"
    BY <1>3 DEF EscapeRecord
  <2>2. irreversible \in Seq(Entry) /\ n \in Nat /\ 1 <= n
    BY DEF TypeInv, EscapeType, Entry
  <2>3. /\ DOMAIN irreversible' = 1..n /\ irreversible'[n] = [by |-> c, result |-> "none"]
        /\ \A i \in DOMAIN irreversible : irreversible'[i] = irreversible[i] /\ i \in 1..n
        /\ \A i \in 1..n : i # n => i \in DOMAIN irreversible
    BY <2>1, <2>2
  <2>4. pc'[c] = "recorded" /\ actionIndex'[c] = n
    BY <2>1, LockTypes DEF Goto, Set, TypeInv, EscapeType
  <2>5. \A d \in Clients : d # c => pc'[d] = pc[d] /\ actionIndex'[d] = actionIndex[d]
    BY <2>1, LockTypes DEF Goto, Set, TypeInv, EscapeType
  <2> HIDE DEF n
  <2>6. \A d \in Clients : pc[d] = "recorded" => pc'[d] = "recorded" /\ actionIndex'[d] = actionIndex[d]
    BY <2>1, <2>5
  <2>7. n \in 1..n
    BY <2>2
  <2>8. ASSUME NEW d \in Clients, pc'[d] = "recorded" PROVE actionIndex'[d] \in DOMAIN irreversible'
    BY <2>3, <2>4, <2>5, <2>7, <2>8 DEF ResultInv
  <2>9. ASSUME NEW i \in DOMAIN irreversible', irreversible'[i].result = "none"
        PROVE  \E d \in Clients : pc'[d] = "recorded" /\ actionIndex'[d] = i
    <3>1. CASE i = n
      BY <2>4, <3>1
    <3>2. CASE i # n
      BY <2>3, <2>6, <2>9, <3>2 DEF ResultInv
    <3> QED BY <3>1, <3>2
  <2> QED BY <2>8, <2>9 DEF ResultInv
<1>4. ASSUME NEW ok \in BOOLEAN, EscapeResult(c, ok) PROVE ResultInv'
  <2> DEFINE result == IF ok THEN "ok" ELSE "failed"
             k == actionIndex[c]
  <2>1. /\ irreversible' = [irreversible EXCEPT ![k].result = result]
        /\ actionIndex' = actionIndex /\ pc[c] = "recorded"
        /\ Goto(c, "ran") \/ Goto(c, "refused")
    BY <1>4 DEF EscapeResult, Refused
  <2>2. irreversible \in Seq(Entry)
    BY DEF TypeInv, EscapeType, Entry
  <2>3. DOMAIN irreversible' = DOMAIN irreversible
    BY <2>1, <2>2
  <2>4. \A i \in DOMAIN irreversible : i # k => irreversible'[i] = irreversible[i]
    BY <2>1, <2>2
  <2>5. k \in DOMAIN irreversible => irreversible'[k].result # "none"
    <3>1. \A i \in DOMAIN irreversible : irreversible[i] \in Entry
      BY <2>2
    <3> QED BY <2>1, <3>1 DEF Entry
  <2> HIDE DEF k
  <2>6. \A d \in Clients : pc'[d] = "recorded" <=> d # c /\ pc[d] = "recorded"
    BY <2>1, LockTypes DEF Goto
  <2> QED BY <2>1, <2>3, <2>4, <2>5, <2>6 DEF ResultInv, k
<1>5. ASSUME EscapeNext(c), ~EscapeRecord(c), ~\E ok \in BOOLEAN : EscapeResult(c, ok)
      PROVE  ResultInv'
  <2>1. irreversible' = irreversible /\ pc[c] # "recorded"
    BY <1>5 DEF EscapeNext, EscapeStart, Approve, Decline, EscapeLease, EscapeCheckFails,
       EscapeConnectFails, EscapeDispatch, EscapeReturn, escapeVars
  <2>2. actionIndex' = actionIndex \/ actionIndex' = Set(actionIndex, c, 0)
    BY <1>5 DEF EscapeNext, EscapeStart, Approve, Decline, EscapeLease, EscapeCheckFails,
       EscapeConnectFails, EscapeDispatch, EscapeReturn, escapeVars
  <2>3. \E label : label # "recorded" /\ Goto(c, label)
    BY <1>5 DEF EscapeNext, EscapeStart, Approve, Decline, EscapeLease, EscapeCheckFails,
       EscapeConnectFails, EscapeDispatch, EscapeReturn, Refused
  <2> QED BY <2>1, <2>2, <2>3, ResultElsewhere
<1> QED BY <1>1, <1>2, <1>3, <1>4, <1>5 DEF ClientNext

LEMMA ResultStep ==
  ASSUME TypeInv, ResultInv, [Next]_vars
  PROVE  ResultInv'
<1>1. CASE UNCHANGED <<irreversible, pc, actionIndex>>
  BY <1>1 DEF ResultInv
<1>2. CASE \/ MarkFatal \/ Stop
           \/ \E ok \in BOOLEAN : Freeze(ok)
           \/ \E decision \in {"commit", "rollback"} :
                Finalize(decision) \/ FinalizeUnknown(decision)
           \/ UNCHANGED vars
  BY <1>1, <1>2 DEF MarkFatal, Stop, Freeze, Finalize, FinalizeUnknown,
     FinalizeFrame, vars, escapeVars
<1> QED BY <1>2, ResultClient DEF Next, Terminated

LEMMA InitEnd == Init => EndInv /\ ResultInv
BY DEF Init, EndInv, ResultInv

\* Whatever approvals, failures and disconnects race with Seal, a sealed
\* session lists no statement that was sent and whose result nobody wrote:
\* executeIrreversibleLocked writes it at the index it kept while other
\* handlers appended their own entries.
THEOREM EscapesAlwaysRecorded == Spec => []EscapesRecorded
<1>1. EndInv /\ ResultInv => EscapesRecorded
  BY DEF EndInv, ResultInv, EscapesRecorded
<1> QED BY <1>1, InitType, TypeStep, InitEnd, EndStep, ResultStep, PTL DEF Spec

(***************************************************************************)
(* The lease of an irreversible statement.  The critical section behind    *)
(* the approval takes it whoever has it, so it protects a statement only   *)
(* while one client at a time asks for such statements.                    *)
(***************************************************************************)
OneEscaper == \A c, d \in Escapers : c = d

EscaperInv ==
  \A c \in Clients : pc[c] \in Asking \cup {"escape"} \/ pendingEscape[c] => c \in Escapers

Running == {"leased", "dispatched", "recorded"}

LeaseInv ==
  \A c \in Clients : pc[c] \in Running => escapeClient = c /\ attempted = 0

\* Only the handler of c moves, and it is not led into an escape.
LEMMA EscaperStatement ==
  ASSUME NEW c \in Clients, StatementNext(c)
  PROVE  /\ pendingEscape' = pendingEscape
         /\ UNCHANGED pc \/ \E label \in Locked \ {"escape"} : Goto(c, label)
                         \/ Goto(c, "idle")
<1>1. pendingEscape' = pendingEscape
  BY DEF StatementNext, StartQuery, FinishQuery, RefuseStatement, RejectStatement, Notice,
     Begin, Commit, Rollback, Chain, MakeSavepoint, RollbackTo, Release, NoSuchSavepoint,
     Regular, RegularFails, ProbeFails, StatementFrame, cycleVars
<1>2. Succeed(c) \/ Fail(c) => \E label \in Locked \ {"escape"} : Goto(c, label)
  BY DEF Succeed, Fail, Locked
<1>3. UNCHANGED pc \/ Succeed(c) \/ Fail(c) \/ Goto(c, "query") \/ Goto(c, "idle")
  BY DEF StatementNext, StartQuery, FinishQuery, RefuseStatement, RejectStatement, Notice,
     Begin, Commit, Rollback, Chain, MakeSavepoint, RollbackTo, Release, NoSuchSavepoint,
     Regular, RegularFails, ProbeFails
<1> QED BY <1>1, <1>2, <1>3 DEF Locked

LEMMA EscaperStep ==
  ASSUME TypeInv, EscaperInv, [Next]_vars
  PROVE  EscaperInv'
<1> DEFINE Risky == Asking \cup {"escape"}
<1>1. pendingEscape \in [Clients -> BOOLEAN]
  BY DEF TypeInv, UnitType, Flags
<1>2. ASSUME NEW c \in Clients, NEW label, NEW flag,
             Goto(c, label) \/ UNCHANGED pc,
             Goto(c, label) => label \notin Risky \/ c \in Escapers,
             pendingEscape' = pendingEscape \/ pendingEscape' = Set(pendingEscape, c, flag),
             flag => c \in Escapers
      PROVE  EscaperInv'
  <2>1. \A d \in Clients : d # c => pc'[d] = pc[d] /\ pendingEscape'[d] = pendingEscape[d]
    BY <1>1, <1>2, LockTypes DEF Goto, Set
  <2>2. pc'[c] \in Risky => c \in Escapers
    <3>1. CASE Goto(c, label)
      <4>1. pc'[c] = label
        BY <3>1, LockTypes DEF Goto
      <4> QED BY <1>2, <3>1, <4>1 DEF EscaperInv
    <3>2. CASE UNCHANGED pc
      BY <3>2 DEF EscaperInv
    <3> QED BY <1>2, <3>1, <3>2
  <2>3. pendingEscape'[c] => c \in Escapers
    BY <1>1, <1>2 DEF EscaperInv, Set
  <2> QED BY <2>1, <2>2, <2>3 DEF EscaperInv
<1>3. ASSUME NEW c \in Clients, StatementNext(c) PROVE EscaperInv'
  <2>1. \A label \in (Locked \ {"escape"}) \cup {"idle"} : label \notin Risky
    BY DEF Locked, Asking
  <2>2. CASE UNCHANGED pc
    BY <1>3, <2>2, EscaperStatement DEF EscaperInv
  <2>3. PICK label : UNCHANGED pc \/ (label \notin Risky /\ Goto(c, label))
    BY <1>3, <2>1, EscaperStatement
  <2> QED BY <1>2, <1>3, <2>2, <2>3, EscaperStatement
<1>4. ASSUME NEW c \in Clients, EscapeNext(c) PROVE EscaperInv'
  <2>1. c \in Escapers
    BY <1>4 DEF EscapeNext, EscapeStart, Approve, Decline, EscapeLease, EscapeCheckFails,
       EscapeConnectFails, EscapeDispatch, EscapeRecord, EscapeResult, EscapeReturn, EscaperInv,
       Asking
  <2>2. \E label : Goto(c, label)
    BY <1>4 DEF EscapeNext, EscapeStart, Approve, Decline, EscapeLease, EscapeCheckFails,
       EscapeConnectFails, EscapeDispatch, EscapeRecord, EscapeResult, EscapeReturn, Refused
  <2>3. pendingEscape' = pendingEscape \/ pendingEscape' = Set(pendingEscape, c, FALSE)
    BY <1>4 DEF EscapeNext, EscapeStart, Approve, Decline, EscapeLease, EscapeCheckFails,
       EscapeConnectFails, EscapeDispatch, EscapeRecord, EscapeResult, EscapeReturn
  <2> QED BY <1>2, <2>1, <2>2, <2>3
<1>5. ASSUME NEW c \in Clients, ExtendedNext(c) PROVE EscaperInv'
  <2>1. ASSUME NEW escape \in BOOLEAN, ExecuteFails(c, escape) PROVE EscaperInv'
    BY <1>1, <2>1 DEF ExecuteFails, CycleFrame, EscaperInv, Set
  <2>2. ASSUME NEW label \in {"control", "escape"}, RotateOut(c, label) PROVE EscaperInv'
    <3>1. Goto(c, label) /\ pendingEscape' = pendingEscape /\ (label = "escape" => c \in Escapers)
      BY <2>2 DEF RotateOut
    <3>2. label \notin Risky \/ c \in Escapers
      BY <3>1 DEF Asking
    <3> HIDE DEF Risky
    <3> QED BY <1>2, <3>1, <3>2
  <2>3. CASE ExecuteRead(c) \/ LocalError(c) \/ \E risk \in Risks \cup {NoRisk} : Execute(c, risk)
    BY <2>3 DEF ExecuteRead, LocalError, Execute, CycleFrame, EscaperInv
  <2>4. CASE StartCycle(c) \/ RotateIn(c) \/ SyncCycle(c) \/ Ready(c)
    <3>1. pendingEscape' = pendingEscape
      BY <2>4 DEF StartCycle, RotateIn, SyncCycle, Ready, cycleVars
    <3>2. Goto(c, "cycle") \/ Goto(c, "sync") \/ Goto(c, "idle")
      BY <2>4 DEF StartCycle, RotateIn, SyncCycle, Ready
    <3>3. "cycle" \notin Risky /\ "sync" \notin Risky /\ "idle" \notin Risky
      BY DEF Asking
    <3> HIDE DEF Risky
    <3> QED BY <1>2, <3>1, <3>2, <3>3
  <2> QED BY <1>5, <2>1, <2>2, <2>3, <2>4 DEF ExtendedNext
<1>6. ASSUME NEW c \in Clients, Cleanup(c) \/ CleanupFatal(c) PROVE EscaperInv'
  <2>1. Goto(c, "gone") /\ pendingEscape' = Set(pendingEscape, c, FALSE)
    BY <1>6 DEF Cleanup, CleanupFatal, ClearClient
  <2>2. "gone" \notin Risky
    BY DEF Asking
  <2> HIDE DEF Risky
  <2> QED BY <1>2, <2>1, <2>2
<1>7. CASE \/ \E c \in Clients : Hangup(c)
           \/ MarkFatal \/ Stop
           \/ \E ok \in BOOLEAN : Freeze(ok)
           \/ \E decision \in {"commit", "rollback"} :
                Finalize(decision) \/ FinalizeUnknown(decision)
           \/ UNCHANGED vars
  BY <1>7 DEF Hangup, MarkFatal, Stop, Freeze, Finalize, FinalizeUnknown,
     FinalizeFrame, vars, cycleVars, EscaperInv
<1> QED BY <1>3, <1>4, <1>5, <1>6, <1>7 DEF Next, ClientNext, Terminated

\* While one client runs such a statement, no other writes, fails a write or
\* takes the lease: the lease is of the only client that could take it.
LEMMA LeaseClient ==
  ASSUME OneEscaper, TypeInv, EscaperInv, LeaseInv, NEW c \in Clients, ClientNext(c),
         NEW d \in Clients, pc'[d] \in Running
  PROVE  escapeClient' = d /\ attempted' = 0
<1>1. ASSUME StatementNext(c) \/ ExtendedNext(c) PROVE escapeClient' = escapeClient
  BY <1>1 DEF StatementNext, StartQuery, FinishQuery, RefuseStatement, RejectStatement, Notice,
     Begin, Commit, Rollback, Chain, MakeSavepoint, RollbackTo, Release, NoSuchSavepoint,
     Regular, RegularFails, ProbeFails, StatementFrame, ExtendedNext, StartCycle, Execute,
     ExecuteRead, ExecuteFails, LocalError, RotateOut, RotateIn, SyncCycle, Ready, CycleFrame,
     escapeVars
<1>2. ASSUME StatementNext(c) PROVE attempted' = attempted \/ ~SharedLeaseHeldByOther(c)
  BY <1>2 DEF StatementNext, StartQuery, FinishQuery, RefuseStatement, RejectStatement, Notice,
     Begin, Commit, Rollback, Chain, MakeSavepoint, RollbackTo, Release, NoSuchSavepoint,
     Regular, RegularFails, ProbeFails, Savepoint, ReleaseSavepoint, RollbackRelease,
     RollbackToSavepoint, backendVars, AtRegular
<1>3. ASSUME ExtendedNext(c) PROVE attempted' = attempted \/ ~SharedLeaseHeldByOther(c)
  BY <1>3 DEF ExtendedNext, StartCycle, Execute, ExecuteRead, ExecuteFails, LocalError,
     RotateOut, RotateIn, SyncCycle, Ready, EndCycle, Savepoint, ReleaseSavepoint,
     RollbackRelease, backendVars
<1>4. ASSUME StatementNext(c) \/ ExtendedNext(c) PROVE pc[d] \in Running /\ d # c
  <2>1. \A label \in Locked \cup {"idle"} : label \notin Running
    BY DEF Locked, Running
  <2>2. UNCHANGED pc \/ \E label \in Locked \cup {"idle"} : Goto(c, label)
    <3>1. CASE StatementNext(c)
      BY <3>1, EscaperStatement
    <3>2. CASE ExtendedNext(c)
      BY <3>2 DEF ExtendedNext, StartCycle, Execute, ExecuteRead, ExecuteFails, LocalError,
         RotateOut, RotateIn, SyncCycle, Ready, CycleFrame, Locked
    <3> QED BY <1>4, <3>1, <3>2
  <2>3. pc[c] \notin Running
    BY <1>4 DEF StatementNext, StartQuery, FinishQuery, RefuseStatement, RejectStatement, Notice,
     Begin, Commit, Rollback, Chain, MakeSavepoint, RollbackTo, Release, NoSuchSavepoint,
     Regular, RegularFails, ProbeFails, ExtendedNext, StartCycle, Execute,
     ExecuteRead, ExecuteFails, LocalError, RotateOut, RotateIn, SyncCycle, Ready,
     AtStatement, AtControl, AtRegular, InCycle, Running, Locked
  <2>4. CASE UNCHANGED pc
    BY <2>3, <2>4
  <2>5. ASSUME NEW label \in Locked \cup {"idle"}, Goto(c, label) PROVE pc[d] \in Running /\ d # c
    BY <2>1, <2>5, LockTypes DEF Goto
  <2> QED BY <2>2, <2>4, <2>5
<1>5. CASE StatementNext(c) \/ ExtendedNext(c)
  <2>1. pc[d] \in Running /\ d # c /\ escapeClient = d /\ attempted = 0
    BY <1>4, <1>5 DEF LeaseInv
  <2>2. SharedLeaseHeldByOther(c)
    BY <2>1, ClientAssumption DEF SharedLeaseHeldByOther, EscapeLeaseHeldByOther
  <2> QED BY <1>1, <1>2, <1>3, <1>5, <2>1, <2>2
<1>6. CASE EscapeNext(c)
  <2>1. c \in Escapers /\ attempted' = attempted
    BY <1>6 DEF EscapeNext, EscapeStart, Approve, Decline, EscapeLease, EscapeCheckFails,
       EscapeConnectFails, EscapeDispatch, EscapeRecord, EscapeResult, EscapeReturn, EscapeFrame,
       EscaperInv, Asking
  <2>2. d = c
    <3>1. ASSUME d # c PROVE FALSE
      <4>1. pc'[d] = pc[d]
        BY <1>6, <3>1, LockTypes DEF EscapeNext, EscapeStart, Approve, Decline, EscapeLease,
           EscapeCheckFails, EscapeConnectFails, EscapeDispatch, EscapeRecord, EscapeResult,
           EscapeReturn, Refused, Goto
      <4> QED BY <2>1, <3>1, <4>1 DEF EscaperInv, Asking, Running, OneEscaper
    <3> QED BY <3>1
  <2>3. CASE EscapeLease(c)
    <3>1. escapeClient' = c /\ (attempted > 0 => Refused(c))
      BY <2>3 DEF EscapeLease
    <3>2. ~Refused(c)
      BY <2>2, LockTypes DEF Refused, Goto, Running
    <3>3. attempted \in Nat
      BY DEF TypeInv, BackendInv, BackendType
    <3> QED BY <2>1, <2>2, <3>1, <3>2, <3>3
  <2>4. CASE EscapeDispatch(c) \/ EscapeRecord(c)
    BY <2>1, <2>2, <2>4 DEF EscapeDispatch, EscapeRecord, LeaseInv, Running, escapeVars
  <2>5. CASE \/ EscapeStart(c) \/ Approve(c) \/ Decline(c)
             \/ EscapeCheckFails(c) \/ EscapeConnectFails(c) \/ EscapeReturn(c)
             \/ \E ok \in BOOLEAN : EscapeResult(c, ok)
    <3>1. pc'[c] \notin Running
      BY <2>5, LockTypes DEF EscapeStart, Approve, Decline, EscapeCheckFails, EscapeConnectFails,
         EscapeReturn, EscapeResult, Refused, Goto, Running
    <3> QED BY <2>2, <3>1
  <2> QED BY <1>6, <2>3, <2>4, <2>5 DEF EscapeNext
<1>7. CASE Hangup(c) \/ Cleanup(c) \/ CleanupFatal(c)
  <2>1. UNCHANGED <<escapeClient, attempted>>
    BY <1>7 DEF Hangup, Cleanup, CleanupFatal, ClearClient, escapeVars, backendVars,
       RollbackRelease
  <2>2. pc'[d] = pc[d] \/ pc'[d] = "gone"
    BY <1>7, LockTypes DEF Hangup, Cleanup, CleanupFatal, ClearClient, Goto
  <2> QED BY <2>1, <2>2 DEF LeaseInv, Running
<1> QED BY <1>5, <1>6, <1>7 DEF ClientNext

LEMMA LeaseInvStep ==
  ASSUME OneEscaper, TypeInv, EscaperInv, LeaseInv, [Next]_vars
  PROVE  LeaseInv'
<1>1. ASSUME NEW c \in Clients, ClientNext(c) PROVE LeaseInv'
  BY <1>1, LeaseClient DEF LeaseInv, Running
<1>2. CASE \/ MarkFatal \/ Stop
           \/ \E ok \in BOOLEAN : Freeze(ok)
           \/ \E decision \in {"commit", "rollback"} :
                Finalize(decision) \/ FinalizeUnknown(decision)
           \/ UNCHANGED vars
  BY <1>2 DEF MarkFatal, Stop, Freeze, Finalize, FinalizeUnknown, FinalizeFrame, vars,
     escapeVars, backendVars, LeaseInv
<1> QED BY <1>1, <1>2 DEF Next, Terminated

LEMMA InitLease == Init => EscaperInv /\ LeaseInv
BY DEF Init, EscaperInv, LeaseInv, Running, Asking

\* From the check that the shared transaction has written nothing until the
\* answer of a statement that cannot be rolled back, nobody else writes or
\* fails a write in it: PostgreSQL never sees the two side by side.  With one
\* client that asks for such statements.
THEOREM EscapeAlwaysReserved ==
  ASSUME OneEscaper
  PROVE  Spec => []EscapeReserved
<1>1. LeaseInv => EscapeReserved
  BY DEF LeaseInv, EscapeReserved, Running
<1>2. TypeInv /\ EscaperInv /\ LeaseInv /\ [Next]_vars => LeaseInv'
  BY LeaseInvStep
<1> QED BY <1>1, <1>2, InitType, TypeStep, InitLease, EscaperStep, PTL DEF Spec

(***************************************************************************)
(* The shape of the stack: the savepoints of the open transaction, and on  *)
(* top of them the one of the batch or the cycle of the client that holds  *)
(* the backend.                                                            *)
(***************************************************************************)
HasUnit == queryMu # None /\ (batch[queryMu] \/ pc[queryMu] = "cycle")

UnitName == SavepointName(queryMu, IF batch[queryMu] THEN "b" ELSE "x", 0)

TxDepth == IF activeTransaction = None THEN 0 ELSE Len(saves[activeTransaction]) + 1

TxName(i) == IF i = 1 THEN SavepointName(activeTransaction, "t", 0)
             ELSE SavepointName(activeTransaction, "u", i - 1)

NestInv ==
  ~fatal =>
    /\ Len(stack) = IF HasUnit THEN TxDepth + 1 ELSE TxDepth
    /\ \A i \in 1..TxDepth : stack[i].name = TxName(i)
    /\ HasUnit => stack[Len(stack)].name = UnitName

\* What a savepoint could still undo is the work of the client that made it.
OwnInv ==
  ~fatal => \A k \in DOMAIN stack : \A i \in (stack[k].len + 1)..Len(rows) :
              rows[i].by = stack[k].name.by

ProxyInv == TypeInv /\ OneOpenTransaction /\ LockInv /\ EndInv /\ NestInv /\ OwnInv

LEMMA StackTypes ==
  ASSUME TypeInv
  PROVE  /\ rows \in Seq(Row) /\ Len(rows) \in Nat /\ DOMAIN rows = 1..Len(rows)
         /\ stack \in Seq(Saved) /\ Len(stack) \in Nat /\ DOMAIN stack = 1..Len(stack)
         /\ \A k \in 1..Len(stack) : /\ stack[k] \in Saved /\ stack[k].name \in Name
                                     /\ stack[k].len \in Nat /\ stack[k].len <= Len(rows)
<1>1. rows \in Seq(Row) /\ stack \in Seq(Saved)
  BY DEF TypeInv, BackendInv, BackendType
<1>2. \A k \in DOMAIN stack : stack[k] \in Saved /\ stack[k].len <= Len(rows)
  BY StackElement DEF TypeInv
<1> QED BY <1>1, <1>2 DEF Saved

LEMMA DepthTypes ==
  ASSUME TypeInv
  PROVE  /\ TxDepth \in Nat /\ (TxDepth = 0 <=> activeTransaction = None)
         /\ \A c \in Clients : saves[c] \in Seq(ClientSavepoint) /\ Len(saves[c]) \in Nat
<1>1. \A c \in Clients : saves[c] \in Seq(ClientSavepoint) /\ Len(saves[c]) \in Nat
  BY DEF TypeInv, TransactionType
<1>2. activeTransaction \in Clients \cup {None}
  BY DEF TypeInv, TransactionType
<1> QED BY <1>1, <1>2 DEF TxDepth

\* Where a savepoint of a kind is.
LEMMA StackShape ==
  ASSUME TypeInv, NestInv, ~fatal, NEW k \in DOMAIN stack
  PROVE  /\ stack[k].name.kind = "t" => k = 1 /\ k <= TxDepth
         /\ stack[k].name.kind = "u" => k = stack[k].name.n + 1 /\ 1 < k /\ k <= TxDepth
         /\ stack[k].name.kind \in {"b", "x"} => HasUnit /\ k = Len(stack) /\ k = TxDepth + 1
         /\ k <= TxDepth => stack[k].name.kind \in {"t", "u"} /\ stack[k].name.by = activeTransaction
         /\ k > TxDepth => stack[k].name.kind \in {"b", "x"} /\ stack[k].name.by = queryMu
                           /\ HasUnit /\ k = Len(stack)
<1>1. k \in 1..Len(stack) /\ TxDepth \in Nat
  BY StackTypes, DepthTypes
<1>2. CASE k <= TxDepth
  <2>1. stack[k].name = TxName(k)
    BY <1>1, <1>2 DEF NestInv
  <2>2. CASE k = 1
    <3>1. stack[k].name = SavepointName(activeTransaction, "t", 0)
      BY <2>1, <2>2 DEF TxName
    <3>2. stack[k].name.kind = "t" /\ stack[k].name.by = activeTransaction
      BY <3>1 DEF SavepointName
    <3> QED BY <1>1, <1>2, <2>2, <3>2
  <2>3. CASE k # 1
    <3>1. stack[k].name = SavepointName(activeTransaction, "u", k - 1)
      BY <2>1, <2>3 DEF TxName
    <3>2. stack[k].name.kind = "u" /\ stack[k].name.by = activeTransaction /\ stack[k].name.n = k - 1
      BY <3>1 DEF SavepointName
    <3> QED BY <1>1, <1>2, <2>3, <3>2
  <2> QED BY <2>2, <2>3
<1>3. CASE ~(k <= TxDepth)
  <2>1. HasUnit /\ k = Len(stack) /\ k = TxDepth + 1 /\ stack[k].name = UnitName
    BY <1>1, <1>3 DEF NestInv
  <2>2. stack[k].name.kind \in {"b", "x"} /\ stack[k].name.by = queryMu
    BY <2>1 DEF UnitName, SavepointName
  <2> QED BY <1>1, <1>3, <2>1, <2>2
<1> QED BY <1>2, <1>3

\* The savepoint of an open transaction is the outermost one ...
LEMMA TransactionPlace ==
  ASSUME TypeInv, OneOpenTransaction, NestInv, ~fatal, NEW c \in Clients, tx[c]
  PROVE  /\ 1 \in DOMAIN stack /\ stack[1].name = SavepointName(c, "t", 0)
         /\ \A k \in DOMAIN stack : stack[k].name = SavepointName(c, "t", 0) => k = 1
<1>1. activeTransaction = c /\ c # None
  BY ClientAssumption DEF OneOpenTransaction
<1>2. TxDepth \in Nat /\ TxDepth # 0
  BY <1>1, DepthTypes
<1>3. 1 \in DOMAIN stack
  <2>1. Len(stack) = TxDepth \/ Len(stack) = TxDepth + 1
    BY DEF NestInv
  <2>2. Len(stack) \in Nat
    BY StackTypes
  <2>3. 1 \in 1..Len(stack)
    BY <1>2, <2>1, <2>2
  <2> QED BY <2>3, StackTypes
<1>4. stack[1].name = SavepointName(c, "t", 0)
  BY <1>1, <1>2 DEF NestInv, TxName
<1>5. ASSUME NEW k \in DOMAIN stack, stack[k].name = SavepointName(c, "t", 0) PROVE k = 1
  <2>1. stack[k].name.kind = "t"
    BY <1>5 DEF SavepointName
  <2> QED BY <2>1, StackShape
<1> QED BY <1>3, <1>4, <1>5

\* ... the i-th one its client made is above it ...
LEMMA ClientPlace ==
  ASSUME TypeInv, OneOpenTransaction, NestInv, ~fatal, NEW c \in Clients, tx[c],
         NEW i \in DOMAIN saves[c]
  PROVE  /\ i + 1 \in DOMAIN stack /\ i + 1 <= TxDepth
         /\ stack[i + 1].name = SavepointName(c, "u", i)
         /\ \A k \in DOMAIN stack : stack[k].name = SavepointName(c, "u", i) => k = i + 1
<1>1. activeTransaction = c /\ c # None
  BY ClientAssumption DEF OneOpenTransaction
<1>2. i \in 1..Len(saves[c]) /\ Len(saves[c]) \in Nat
  BY DepthTypes
<1>3. TxDepth = Len(saves[c]) + 1
  BY <1>1 DEF TxDepth
<1>4. i + 1 \in 1..TxDepth /\ i + 1 # 1 /\ (i + 1) - 1 = i
  BY <1>2, <1>3
<1>5. i + 1 \in DOMAIN stack
  <2>1. Len(stack) = TxDepth \/ Len(stack) = TxDepth + 1
    BY DEF NestInv
  <2>2. Len(stack) \in Nat
    BY StackTypes
  <2>3. i + 1 \in 1..Len(stack)
    BY <1>2, <1>3, <1>4, <2>1, <2>2
  <2> QED BY <2>3, StackTypes
<1>6. stack[i + 1].name = SavepointName(c, "u", i)
  BY <1>1, <1>4 DEF NestInv, TxName
<1>7. ASSUME NEW k \in DOMAIN stack, stack[k].name = SavepointName(c, "u", i) PROVE k = i + 1
  <2>1. stack[k].name.kind = "u" /\ stack[k].name.n = i
    BY <1>7 DEF SavepointName
  <2> QED BY <2>1, StackShape
<1> QED BY <1>4, <1>5, <1>6, <1>7

\* ... and the one of a batch or a cycle is the innermost.
LEMMA UnitPlace ==
  ASSUME TypeInv, NestInv, ~fatal, HasUnit
  PROVE  /\ Len(stack) \in DOMAIN stack /\ stack[Len(stack)].name = UnitName
         /\ Len(stack) = TxDepth + 1
         /\ \A k \in DOMAIN stack : stack[k].name = UnitName => k = Len(stack)
<1>1. Len(stack) = TxDepth + 1 /\ TxDepth \in Nat
  BY DepthTypes DEF NestInv
<1>2. Len(stack) \in DOMAIN stack /\ stack[Len(stack)].name = UnitName
  BY <1>1, StackTypes DEF NestInv
<1>3. ASSUME NEW k \in DOMAIN stack, stack[k].name = UnitName PROVE k = Len(stack)
  <2>1. stack[k].name.kind \in {"b", "x"}
    BY <1>3 DEF UnitName, SavepointName
  <2> QED BY <2>1, StackShape
<1> QED BY <1>1, <1>2, <1>3

(***************************************************************************)
(* What the four commands do to the two sequences.                         *)
(***************************************************************************)
\* The outermost n savepoints, and the oldest m rows, are all that is left.
Left(n, m) ==
  /\ Len(stack') = n /\ \A i \in 1..n : stack'[i] = stack[i]
  /\ Len(rows') = m /\ \A i \in 1..m : rows'[i] = rows[i]

Pushed(name) ==
  /\ rows' = rows /\ Len(stack') = Len(stack) + 1
  /\ \A i \in DOMAIN stack : stack'[i] = stack[i]
  /\ stack'[Len(stack) + 1] = [name |-> name, len |-> Len(rows)]

LEMMA SavepointPushes ==
  ASSUME TypeInv, NEW name, Savepoint(name)
  PROVE  Pushed(name) /\ server = "T"
<1>1. stack' = Append(stack, [name |-> name, len |-> Len(rows)]) /\ rows' = rows /\ server = "T"
  BY DEF Savepoint
<1>2. stack \in Seq(Saved)
  BY StackTypes
<1> QED BY <1>1, <1>2 DEF Pushed

LEMMA CutLeaves ==
  ASSUME TypeInv, NEW n \in Nat, n <= Len(stack), NEW m \in Nat, m <= Len(rows),
         stack' = SubSeq(stack, 1, n), rows' = SubSeq(rows, 1, m)
  PROVE  Left(n, m)
<1>1. stack \in Seq(Saved) /\ rows \in Seq(Row) /\ Len(stack) \in Nat /\ Len(rows) \in Nat
  BY StackTypes
<1> QED BY <1>1, SubSeqProperties DEF Left

LEMMA ReleaseLeaves ==
  ASSUME TypeInv, NEW name, ReleaseSavepoint(name), NEW k \in DOMAIN stack,
         \A j \in DOMAIN stack : stack[j].name = name => j = k
  PROVE  Left(k - 1, Len(rows)) /\ rows' = rows
<1>1. stack' = SubSeq(stack, 1, k - 1) /\ rows' = rows
  BY DEF ReleaseSavepoint, Innermost
<1>2. k - 1 \in Nat /\ k - 1 <= Len(stack)
  BY StackTypes
<1>3. rows' = SubSeq(rows, 1, Len(rows)) /\ Len(rows) \in Nat
  BY <1>1, StackTypes, SubSeqFull
<1> QED BY <1>1, <1>2, <1>3, CutLeaves

LEMMA RollbackLeaves ==
  ASSUME TypeInv, NEW name, RollbackRelease(name), NEW k \in DOMAIN stack,
         \A j \in DOMAIN stack : stack[j].name = name => j = k
  PROVE  Left(k - 1, stack[k].len)
<1>1. stack' = SubSeq(stack, 1, k - 1) /\ rows' = SubSeq(rows, 1, stack[k].len)
  BY DEF RollbackRelease, Innermost
<1>2. k - 1 \in Nat /\ k - 1 <= Len(stack) /\ stack[k].len \in Nat /\ stack[k].len <= Len(rows)
  BY StackTypes
<1> QED BY <1>1, <1>2, CutLeaves

LEMMA RollbackToLeaves ==
  ASSUME TypeInv, NEW name, RollbackToSavepoint(name), NEW k \in DOMAIN stack,
         \A j \in DOMAIN stack : stack[j].name = name => j = k
  PROVE  Left(k, stack[k].len)
<1>1. stack' = SubSeq(stack, 1, k) /\ rows' = SubSeq(rows, 1, stack[k].len)
  BY DEF RollbackToSavepoint, Innermost
<1>2. k \in Nat /\ k <= Len(stack) /\ stack[k].len \in Nat /\ stack[k].len <= Len(rows)
  BY StackTypes
<1> QED BY <1>1, <1>2, CutLeaves

(***************************************************************************)
(* What a step of the handler of c does to the two sequences: nothing, or  *)
(* it adds a row, makes a savepoint, ends or rolls back to one of c's own, *)
(* or ends c's transaction and begins the next.                            *)
(***************************************************************************)
Prefix(m) == Len(rows') = m /\ \A i \in 1..m : rows'[i] = rows[i]

Still == UNCHANGED <<rows, stack>>

Wrote(c) ==
  /\ stack' = stack /\ \A k \in DOMAIN stack : stack[k].name.by = c
  /\ Len(rows') = Len(rows) + 1 /\ \A i \in 1..Len(rows) : rows'[i] = rows[i]
  /\ rows'[Len(rows) + 1].by = c

Cut(c) ==
  \E k \in DOMAIN stack :
    /\ stack[k].name.by = c
    /\ \E n \in {k - 1, k}, m \in {stack[k].len, Len(rows)} : Left(n, m)

Pushes(c) == \E name : name.by = c /\ Pushed(name)

Restarted(c) ==
  /\ 1 \in DOMAIN stack /\ stack[1].name.by = c
  /\ Len(stack') = 1 /\ stack'[1] = [name |-> stack[1].name, len |-> Len(rows')]
  /\ \E m \in {stack[1].len, Len(rows)} : Prefix(m)

Shape(c) == Still \/ Wrote(c) \/ Cut(c) \/ Pushes(c) \/ Restarted(c)

\* A statement that writes does so where no other client has a savepoint.
LEMMA WriterOwns ==
  ASSUME TypeInv, NestInv, ~fatal, NEW c \in Clients, Holds(c), ~SharedLeaseHeldByOther(c),
         NEW risk, rows' = Append(rows, [by |-> c, risk |-> risk]), stack' = stack
  PROVE  Wrote(c)
<1>1. queryMu = c /\ activeTransaction \in {None, c}
  BY DEF Holds, SharedLeaseHeldByOther
<1>2. ASSUME NEW k \in DOMAIN stack PROVE stack[k].name.by = c
  <2>1. k \in 1..Len(stack) /\ TxDepth \in Nat /\ (TxDepth = 0 <=> activeTransaction = None)
    BY StackTypes, DepthTypes
  <2>2. CASE k <= TxDepth
    <3>1. stack[k].name.by = activeTransaction
      BY <2>2, StackShape
    <3>2. activeTransaction # None
      BY <2>1, <2>2
    <3> QED BY <1>1, <3>1, <3>2
  <2>3. CASE k > TxDepth
    BY <1>1, <2>3, StackShape
  <2> QED BY <2>1, <2>2, <2>3
<1>3. rows \in Seq(Row)
  BY StackTypes
<1>4. /\ Len(rows') = Len(rows) + 1 /\ \A i \in 1..Len(rows) : rows'[i] = rows[i]
      /\ rows'[Len(rows) + 1].by = c
  BY <1>3
<1> QED BY <1>2, <1>4 DEF Wrote

\* Savepoints and unit of the lock's holder as they were.
LEMMA NestSame ==
  ASSUME NestInv, UNCHANGED <<stack, saves, activeTransaction, fatal>>,
         HasUnit' <=> HasUnit, HasUnit => UnitName' = UnitName
  PROVE  NestInv'
<1>1. TxDepth' = TxDepth
  BY DEF TxDepth
<1> QED BY <1>1 DEF NestInv, TxName

LEMMA UnitSame ==
  ASSUME UNCHANGED <<queryMu, batch>>,
         queryMu # None => (pc'[queryMu] = "cycle" <=> pc[queryMu] = "cycle")
  PROVE  (HasUnit' <=> HasUnit) /\ UnitName' = UnitName
BY DEF HasUnit, UnitName, SavepointName

\* A statement's result leaves a handler in its cycle or outside of one.
LEMMA ResultUnit ==
  ASSUME TypeInv, NEW c \in Clients, Holds(c), UNCHANGED <<queryMu, batch>>,
         Succeed(c) \/ Fail(c) \/ UNCHANGED pc
  PROVE  (HasUnit' <=> HasUnit) /\ UnitName' = UnitName
<1>1. queryMu = c
  BY DEF Holds
<1>2. pc'[c] = "cycle" <=> pc[c] = "cycle"
  <2>1. CASE Succeed(c)
    <3> DEFINE label == CASE pc[c] = "query" -> IF c \in Batchers THEN "query" ELSE "done"
                          [] pc[c] = "cycle" -> "cycle"
                          [] OTHER -> "rotate"
    <3>1. pc'[c] = label
      BY <2>1, LockTypes DEF Succeed, Goto
    <3> QED BY <3>1
  <2>2. CASE Fail(c)
    <3> DEFINE label == CASE pc[c] = "query" -> "failed"
                          [] pc[c] = "cycle" -> "cycle"
                          [] OTHER -> "rotate"
    <3>1. pc'[c] = label
      BY <2>2, LockTypes DEF Fail, Goto
    <3> QED BY <3>1
  <2> QED BY <2>1, <2>2
<1> QED BY <1>1, <1>2, UnitSame

LEMMA PlainNest ==
  ASSUME TypeInv, NestInv, ~fatal, NEW c \in Clients,
         \/ RefuseStatement(c) \/ RejectStatement(c) \/ Notice(c) \/ NoSuchSavepoint(c)
         \/ \E risk \in Risks \cup {NoRisk} : Regular(c, risk)
         \/ RegularFails(c)
         \/ \E sample \in BOOLEAN : ProbeFails(c, sample)
  PROVE  NestInv' /\ Shape(c)
<1>1. /\ UNCHANGED <<stack, saves, activeTransaction, fatal, queryMu, batch>>
      /\ Succeed(c) \/ Fail(c) \/ UNCHANGED pc
  BY DEF RefuseStatement, RejectStatement, Notice, NoSuchSavepoint, Regular, RegularFails,
     ProbeFails, StatementFrame, txVars, batchVars, backendVars
<1>2. Holds(c)
  BY DEF RefuseStatement, RejectStatement, Notice, NoSuchSavepoint, Regular, RegularFails,
     ProbeFails, AtStatement, AtControl, AtRegular, InCycle
<1>3. NestInv'
  BY <1>1, <1>2, ResultUnit, NestSame
<1>4. ASSUME NEW risk \in Risks \cup {NoRisk}, Regular(c, risk) PROVE Wrote(c)
  BY <1>2, <1>4, WriterOwns DEF Regular
<1>5. ASSUME ~\E risk \in Risks \cup {NoRisk} : Regular(c, risk) PROVE Still
  BY <1>5 DEF RefuseStatement, RejectStatement, Notice, NoSuchSavepoint, RegularFails,
     ProbeFails, backendVars, Still
<1> QED BY <1>3, <1>4, <1>5 DEF Shape

(***************************************************************************)
(* Transaction control: it runs outside of every batch and cycle.          *)
(***************************************************************************)
LEMMA ControlUnit ==
  ASSUME TypeInv, NEW c \in Clients, AtControl(c), StatementFrame, Succeed(c)
  PROVE  ~HasUnit /\ ~HasUnit' /\ fatal' = fatal
<1>1. Holds(c) /\ ~batch[c] /\ pc[c] # "cycle" /\ queryMu = c
  BY DEF AtControl, AtStatement, Holds
<1>2. ~HasUnit
  BY <1>1 DEF HasUnit
<1> QED BY <1>1, <1>2, ResultUnit DEF StatementFrame, batchVars

LEMMA NestOutside ==
  ASSUME ~HasUnit', Len(stack') = TxDepth', \A i \in 1..TxDepth' : stack'[i].name = TxName(i)'
  PROVE  NestInv'
BY DEF NestInv

LEMMA BeginNest ==
  ASSUME TypeInv, OneOpenTransaction, NestInv, ~fatal, NEW c \in Clients, Begin(c)
  PROVE  NestInv' /\ Shape(c)
<1> DEFINE name == SavepointName(c, "t", 0)
<1>1. ~HasUnit /\ ~HasUnit'
  BY ControlUnit DEF Begin
<1>2. activeTransaction = None /\ c # None
  BY ClientAssumption DEF Begin, SharedLeaseHeldByOther, OneOpenTransaction
<1>3. Pushed(name)
  BY SavepointPushes DEF Begin
<1>4. Len(stack) = 0
  BY <1>1, <1>2 DEF NestInv, TxDepth
<1>5. Len(stack') = 1 /\ stack'[1].name = name
  BY <1>3, <1>4 DEF Pushed
<1>6. activeTransaction' = c /\ saves'[c] = <<>>
  BY DEF Begin, Set, TypeInv, TransactionType
<1>7. TxDepth' = 1
  BY <1>2, <1>6 DEF TxDepth
<1>8. \A i \in 1..TxDepth' : stack'[i].name = TxName(i)'
  BY <1>5, <1>6, <1>7 DEF TxName
<1>9. NestInv'
  BY <1>1, <1>5, <1>7, <1>8, NestOutside
<1>10. name.by = c
  BY DEF SavepointName
<1> HIDE DEF name
<1> QED BY <1>3, <1>9, <1>10 DEF Shape, Pushes

LEMMA EndTransactionNest ==
  ASSUME TypeInv, OneOpenTransaction, NestInv, ~fatal, NEW c \in Clients, Commit(c) \/ Rollback(c)
  PROVE  NestInv' /\ Shape(c)
<1> DEFINE name == SavepointName(c, "t", 0)
<1>1. ~HasUnit /\ ~HasUnit'
  BY ControlUnit DEF Commit, Rollback
<1>2. activeTransaction = c /\ tx[c]
  BY DEF Commit, Rollback, OneOpenTransaction
<1>3. /\ 1 \in DOMAIN stack /\ stack[1].name = name
      /\ \A k \in DOMAIN stack : stack[k].name = name => k = 1
  BY <1>2, TransactionPlace
<1>4. RollbackRelease(name) \/ ReleaseSavepoint(name)
  BY DEF Commit, Rollback
<1>5. name.by = c
  BY DEF SavepointName
<1> HIDE DEF name
<1>6. \E m \in {stack[1].len, Len(rows)} : Left(1 - 1, m)
  BY <1>3, <1>4, RollbackLeaves, ReleaseLeaves
<1>7. Len(stack') = 0
  BY <1>6 DEF Left
<1>8. TxDepth' = 0
  BY <1>2 DEF Commit, Rollback, ClearTransaction, TxDepth
<1>9. NestInv'
  BY <1>1, <1>7, <1>8, NestOutside
<1>10. Cut(c)
  BY <1>3, <1>5, <1>6 DEF Cut
<1> QED BY <1>9, <1>10 DEF Shape

LEMMA ChainNest ==
  ASSUME TypeInv, OneOpenTransaction, NestInv, ~fatal, NEW c \in Clients,
         NEW commit \in BOOLEAN, Chain(c, commit)
  PROVE  NestInv' /\ Shape(c) /\ Restarted(c)
<1> DEFINE name == SavepointName(c, "t", 0)
           keep == commit /\ ~txFailed[c]
<1>1. ~HasUnit /\ ~HasUnit'
  BY ControlUnit DEF Chain
<1>2. activeTransaction = c /\ tx[c] /\ c # None
  BY ClientAssumption DEF Chain, OneOpenTransaction
<1>3. /\ 1 \in DOMAIN stack /\ stack[1].name = name
      /\ \A k \in DOMAIN stack : stack[k].name = name => k = 1
  BY <1>2, TransactionPlace
<1>4. PICK at \in DOMAIN stack :
        /\ Innermost(name, at)
        /\ rows' = IF keep THEN rows ELSE SubSeq(rows, 1, stack[at].len)
        /\ stack' = Append(SubSeq(stack, 1, at - 1), [name |-> name, len |-> Len(rows')])
  BY DEF Chain
<1>5. at = 1
  BY <1>3, <1>4 DEF Innermost
<1>6. name.by = c
  BY DEF SavepointName
<1> HIDE DEF name, keep
<1>7. SubSeq(stack, 1, at - 1) \in Seq(Saved) /\ Len(SubSeq(stack, 1, at - 1)) = 0
  <2>1. stack \in Seq(Saved) /\ at - 1 = 0
    BY <1>5, StackTypes
  <2> QED BY <2>1, SubSeqProperties
<1>8. Len(stack') = 1 /\ stack'[1] = [name |-> name, len |-> Len(rows')]
  <2>1. SubSeq(stack, 1, at - 1) = << >>
    BY <1>7, EmptySeq
  <2> DEFINE new == [name |-> name, len |-> Len(rows')]
  <2>2. stack' = Append(<< >>, new)
    BY <1>4, <2>1
  <2> HIDE DEF new
  <2>3. Len(stack') = 1 /\ stack'[1] = new
    BY <2>2
  <2> QED BY <2>3 DEF new
<1>9. \E m \in {stack[1].len, Len(rows)} : Prefix(m)
  <2>1. rows \in Seq(Row) /\ stack[1].len \in Nat /\ stack[1].len <= Len(rows) /\ Len(rows) \in Nat
    BY <1>3, StackTypes
  <2>2. CASE keep
    <3>1. Prefix(Len(rows))
      BY <1>4, <2>2 DEF Prefix
    <3> QED BY <3>1
  <2>3. CASE ~keep
    <3>1. Prefix(stack[1].len)
      BY <1>4, <1>5, <2>1, <2>3, SubSeqProperties DEF Prefix
    <3> QED BY <3>1
  <2> QED BY <2>2, <2>3
<1>10. Restarted(c)
  BY <1>3, <1>6, <1>8, <1>9 DEF Restarted
<1>11. activeTransaction' = c /\ saves'[c] = <<>>
  BY <1>2 DEF Chain, Set, TypeInv, TransactionType
<1>12. TxDepth' = 1
  BY <1>2, <1>11 DEF TxDepth
<1>13. \A i \in 1..TxDepth' : stack'[i].name = TxName(i)'
  BY <1>8, <1>11, <1>12 DEF TxName, name
<1>14. NestInv'
  BY <1>1, <1>8, <1>12, <1>13, NestOutside
<1> QED BY <1>10, <1>14 DEF Shape

LEMMA MakeSavepointNest ==
  ASSUME TypeInv, OneOpenTransaction, NestInv, ~fatal, NEW c \in Clients,
         NEW save \in SaveNames, MakeSavepoint(c, save)
  PROVE  NestInv' /\ Shape(c)
<1> DEFINE n == Len(saves[c]) + 1
           name == SavepointName(c, "u", n)
<1>1. ~HasUnit /\ ~HasUnit'
  BY ControlUnit DEF MakeSavepoint
<1>2. activeTransaction = c /\ c # None
  BY ClientAssumption DEF MakeSavepoint, OneOpenTransaction
<1>3. Pushed(name)
  BY SavepointPushes DEF MakeSavepoint
<1>4. saves[c] \in Seq(ClientSavepoint) /\ n \in Nat /\ n >= 1
  BY DepthTypes
<1>5. TxDepth = n /\ Len(stack) = n
  BY <1>1, <1>2 DEF NestInv, TxDepth
<1>6. activeTransaction' = c /\ Len(saves'[c]) = n
  BY <1>2, <1>4 DEF MakeSavepoint, Set, TypeInv, TransactionType
<1>7. TxDepth' = n + 1
  BY <1>2, <1>6 DEF TxDepth
<1>8. name.by = c
  BY DEF SavepointName
<1> HIDE DEF n
<1>9. Len(stack') = n + 1 /\ stack'[n + 1].name = name
  BY <1>3, <1>5 DEF Pushed
<1>10. \A i \in 1..n : stack'[i] = stack[i]
  <2>1. DOMAIN stack = 1..n
    BY <1>5, StackTypes
  <2> QED BY <1>3, <2>1 DEF Pushed
<1>11. \A i \in 1..n : stack[i].name = TxName(i)
  BY <1>5 DEF NestInv
<1>12. \A i \in 1..TxDepth' : stack'[i].name = TxName(i)'
  <2> SUFFICES ASSUME NEW i \in 1..(n + 1) PROVE stack'[i].name = TxName(i)'
    BY <1>7
  <2>1. CASE i = n + 1
    <3>1. i # 1 /\ i - 1 = n
      BY <1>4, <2>1
    <3> QED BY <1>6, <1>9, <2>1, <3>1 DEF TxName
  <2>2. CASE i # n + 1
    <3>1. i \in 1..n
      BY <1>4, <2>2
    <3> QED BY <1>2, <1>6, <1>10, <1>11, <3>1 DEF TxName
  <2> QED BY <2>1, <2>2
<1>13. NestInv'
  BY <1>1, <1>7, <1>9, <1>12, NestOutside
<1> HIDE DEF name
<1> QED BY <1>3, <1>8, <1>13 DEF Shape, Pushes

\* ROLLBACK TO keeps the savepoint, RELEASE drops it with those above it.
LEMMA KeepSavepointsNest ==
  ASSUME TypeInv, OneOpenTransaction, NestInv, ~fatal, NEW c \in Clients,
         NEW i \in 1..MaxSaves, RollbackTo(c, i) \/ Release(c, i)
  PROVE  NestInv' /\ Shape(c)
<1> DEFINE name == SavepointName(c, "u", i)
           n == IF RollbackTo(c, i) THEN i ELSE i - 1
<1>1. ~HasUnit /\ ~HasUnit'
  BY ControlUnit DEF RollbackTo, Release
<1>2. activeTransaction = c /\ c # None /\ tx[c] /\ i \in DOMAIN saves[c]
  BY ClientAssumption DEF RollbackTo, Release, OneOpenTransaction
<1>3. /\ i + 1 \in DOMAIN stack /\ i + 1 <= TxDepth /\ stack[i + 1].name = name
      /\ \A k \in DOMAIN stack : stack[k].name = name => k = i + 1
  BY <1>2, ClientPlace
<1>4. saves[c] \in Seq(ClientSavepoint) /\ Len(saves[c]) \in Nat /\ i \in 1..Len(saves[c])
  BY <1>2, DepthTypes
<1>5. n \in 0..i /\ n \in {i - 1, i}
  BY <1>4
<1>6. name.by = c
  BY DEF SavepointName
<1>7. activeTransaction' = c /\ saves'[c] = SubSeq(saves[c], 1, n)
  BY <1>2 DEF RollbackTo, Release, Set, TypeInv, TransactionType
<1>8. \E m \in {stack[i + 1].len, Len(rows)} : Left(n + 1, m)
  <2> HIDE DEF name
  <2>1. CASE RollbackTo(c, i)
    <3>1. RollbackToSavepoint(name) /\ n + 1 = i + 1
      BY <2>1 DEF RollbackTo, name
    <3> QED BY <1>3, <3>1, RollbackToLeaves
  <2>2. CASE ~RollbackTo(c, i)
    <3>1. ReleaseSavepoint(name) /\ n = i - 1
      BY <2>2 DEF Release, name
    <3>2. (i + 1) - 1 = n + 1
      BY <3>1
    <3> QED BY <1>3, <3>1, <3>2, ReleaseLeaves
  <2> QED BY <2>1, <2>2
<1> HIDE DEF n
<1>9. Len(SubSeq(saves[c], 1, n)) = n
  BY <1>4, <1>5, SubSeqProperties
<1>10. TxDepth' = n + 1
  BY <1>2, <1>7, <1>9 DEF TxDepth
<1>11. Len(stack') = n + 1 /\ \A j \in 1..(n + 1) : stack'[j] = stack[j]
  BY <1>8 DEF Left
<1>12. \A j \in 1..TxDepth' : stack'[j].name = TxName(j)'
  <2> SUFFICES ASSUME NEW j \in 1..(n + 1) PROVE stack'[j].name = TxName(j)'
    BY <1>10
  <2>1. j \in 1..TxDepth
    BY <1>3, <1>4, <1>5, DepthTypes
  <2>2. stack[j].name = TxName(j)
    BY <2>1 DEF NestInv
  <2> QED BY <1>2, <1>7, <1>11, <2>2 DEF TxName
<1>13. NestInv'
  BY <1>1, <1>10, <1>11, <1>12, NestOutside
<1>14. Cut(c)
  <2>1. n + 1 \in {(i + 1) - 1, i + 1}
    BY <1>5, <1>4
  <2> HIDE DEF name
  <2> QED BY <1>3, <1>6, <1>8, <2>1 DEF Cut
<1> QED BY <1>13, <1>14 DEF Shape

(***************************************************************************)
(* Batches and cycles: the unit of the client that holds the backend.      *)
(***************************************************************************)
LEMMA UnitOpens ==
  ASSUME TypeInv, NestInv, ~fatal, ~HasUnit, HasUnit', Pushed(UnitName'),
         UNCHANGED <<saves, activeTransaction>>
  PROVE  NestInv'
<1>1. TxDepth' = TxDepth /\ TxDepth \in Nat
  BY DepthTypes DEF TxDepth
<1>2. Len(stack) = TxDepth /\ \A i \in 1..TxDepth : stack[i].name = TxName(i)
  BY DEF NestInv
<1>3. Len(stack') = TxDepth' + 1 /\ stack'[Len(stack')].name = UnitName'
  BY <1>1, <1>2 DEF Pushed
<1>4. \A i \in 1..TxDepth' : stack'[i].name = TxName(i)'
  <2>1. \A i \in 1..TxDepth : i \in DOMAIN stack
    BY <1>2, StackTypes
  <2>2. \A i \in 1..TxDepth : stack'[i] = stack[i]
    BY <2>1 DEF Pushed
  <2> QED BY <1>1, <1>2, <2>2 DEF TxName
<1> QED BY <1>3, <1>4 DEF NestInv

LEMMA UnitCloses ==
  ASSUME TypeInv, NestInv, ~fatal, HasUnit, ~HasUnit',
         RollbackRelease(UnitName) \/ ReleaseSavepoint(UnitName),
         UNCHANGED <<saves, activeTransaction>>
  PROVE  NestInv' /\ Cut(queryMu)
<1>1. /\ Len(stack) \in DOMAIN stack /\ stack[Len(stack)].name = UnitName
      /\ Len(stack) = TxDepth + 1
      /\ \A k \in DOMAIN stack : stack[k].name = UnitName => k = Len(stack)
  BY UnitPlace
<1>2. TxDepth' = TxDepth /\ TxDepth \in Nat
  BY DepthTypes DEF TxDepth
<1>3. \E m \in {stack[Len(stack)].len, Len(rows)} : Left(Len(stack) - 1, m)
  BY <1>1, RollbackLeaves, ReleaseLeaves
<1>4. Len(stack) - 1 = TxDepth
  BY <1>1, <1>2
<1>5. Len(stack') = TxDepth' /\ \A i \in 1..TxDepth' : stack'[i] = stack[i]
  BY <1>2, <1>3, <1>4 DEF Left
<1>6. \A i \in 1..TxDepth' : stack'[i].name = TxName(i)'
  <2>1. \A i \in 1..TxDepth : stack[i].name = TxName(i)
    BY DEF NestInv
  <2> QED BY <1>2, <1>5, <2>1 DEF TxName
<1>7. NestInv'
  BY <1>5, <1>6, NestOutside
<1>8. stack[Len(stack)].name.by = queryMu
  BY <1>1 DEF UnitName, SavepointName
<1> QED BY <1>1, <1>3, <1>7, <1>8 DEF Cut

LEMMA QueryNest ==
  ASSUME TypeInv, LockInv, NestInv, ~fatal, NEW c \in Clients,
         (\E wrap \in BOOLEAN : StartQuery(c, wrap)) \/ FinishQuery(c)
  PROVE  NestInv' /\ Shape(c)
<1> DEFINE name == SavepointName(c, "b", 0)
<1>1. c # None
  BY ClientAssumption
<1>2. UNCHANGED <<saves, activeTransaction, fatal>>
  BY DEF StartQuery, FinishQuery, txVars
<1>3. name.by = c
  BY DEF SavepointName
<1>4. ASSUME NEW wrap \in BOOLEAN, StartQuery(c, wrap) PROVE NestInv' /\ Shape(c)
  <2>1. ~HasUnit
    <3>1. queryMu = None \/ (queryMu = c /\ pc[c] = "sync")
      BY <1>4 DEF StartQuery, Holds
    <3> QED BY <3>1 DEF HasUnit, LockInv
  <2>2. queryMu' = c /\ pc'[c] = "query" /\ batch'[c] = wrap
    BY <1>4, LockTypes DEF StartQuery, Goto, Set
  <2>3. HasUnit' <=> wrap
    BY <1>1, <2>2 DEF HasUnit
  <2>4. wrap => UnitName' = name
    BY <2>2 DEF UnitName
  <2>5. CASE wrap
    <3>1. Pushed(name)
      BY <1>4, <2>5, SavepointPushes DEF StartQuery
    <3>2. NestInv'
      BY <1>2, <2>1, <2>3, <2>4, <2>5, <3>1, UnitOpens
    <3> HIDE DEF name
    <3> QED BY <1>3, <3>1, <3>2 DEF Shape, Pushes
  <2>6. CASE ~wrap
    <3>1. UNCHANGED <<rows, stack>>
      BY <1>4, <2>6 DEF StartQuery, backendVars
    <3>2. NestInv'
      BY <1>2, <2>1, <2>3, <2>6, <3>1, NestSame
    <3> QED BY <3>1, <3>2 DEF Shape, Still
  <2> QED BY <2>5, <2>6
<1>5. CASE FinishQuery(c)
  <2>1. queryMu = c /\ queryMu' = None /\ pc[c] # "cycle"
    BY <1>5 DEF FinishQuery, Holds
  <2>2. ~HasUnit' /\ (HasUnit <=> batch[c]) /\ (batch[c] => UnitName = name)
    BY <1>1, <2>1 DEF HasUnit, UnitName
  <2>3. CASE batch[c]
    <3>1. RollbackRelease(name) \/ ReleaseSavepoint(name)
      BY <1>5, <2>3 DEF FinishQuery
    <3> QED BY <1>2, <2>1, <2>2, <2>3, <3>1, UnitCloses DEF Shape
  <2>4. CASE ~batch[c]
    <3>1. UNCHANGED <<rows, stack>>
      BY <1>5, <2>4 DEF FinishQuery, backendVars
    <3>2. NestInv'
      BY <1>2, <2>2, <2>4, <3>1, NestSame
    <3> QED BY <3>1, <3>2 DEF Shape, Still
  <2> QED BY <2>3, <2>4
<1> QED BY <1>4, <1>5

LEMMA StatementNest ==
  ASSUME TypeInv, OneOpenTransaction, LockInv, NestInv, ~fatal, NEW c \in Clients, StatementNext(c)
  PROVE  NestInv' /\ Shape(c)
BY QueryNest, PlainNest, BeginNest, EndTransactionNest, ChainNest, MakeSavepointNest,
   KeepSavepointsNest DEF StatementNext

LEMMA CycleNest ==
  ASSUME TypeInv, LockInv, NestInv, ~fatal, NEW c \in Clients, ExtendedNext(c)
  PROVE  NestInv' /\ Shape(c)
<1> DEFINE name == CycleName(c)
<1>1. c # None /\ name.by = c
  BY ClientAssumption DEF CycleName, SavepointName
<1>2. UNCHANGED <<saves, activeTransaction, fatal>>
  BY DEF ExtendedNext, StartCycle, Execute, ExecuteRead, ExecuteFails, LocalError, RotateOut,
     RotateIn, SyncCycle, Ready, CycleFrame, txVars
<1>3. CASE StartCycle(c) \/ RotateIn(c)
  <2>1. ~HasUnit /\ ~batch[c] /\ batch' = batch
    <3>1. queryMu = None \/ (queryMu = c /\ pc[c] = "rotate")
      BY <1>3 DEF StartCycle, RotateIn, Holds
    <3>2. pc[c] \in {"idle", "rotate"} /\ batch' = batch
      BY <1>3 DEF StartCycle, RotateIn, batchVars
    <3> QED BY <3>1, <3>2 DEF HasUnit, LockInv
  <2>2. queryMu' = c /\ pc'[c] = "cycle"
    BY <1>3, LockTypes DEF StartCycle, RotateIn, Goto, Holds
  <2>3. HasUnit' /\ UnitName' = name
    BY <1>1, <2>1, <2>2 DEF HasUnit, UnitName, CycleName
  <2>4. Pushed(name)
    BY <1>3, SavepointPushes DEF StartCycle, RotateIn
  <2>5. NestInv'
    BY <1>2, <2>1, <2>3, <2>4, UnitOpens
  <2> HIDE DEF name
  <2> QED BY <1>1, <2>4, <2>5 DEF Shape, Pushes
<1>4. CASE SyncCycle(c) \/ \E label \in {"control", "escape"} : RotateOut(c, label)
  <2>1. queryMu = c /\ pc[c] = "cycle" /\ queryMu' = c /\ batch' = batch /\ ~batch[c]
    BY <1>4 DEF SyncCycle, RotateOut, InCycle, Holds, batchVars, LockInv
  <2>2. pc'[c] # "cycle"
    BY <1>4, LockTypes DEF SyncCycle, RotateOut, Goto
  <2>3. HasUnit /\ UnitName = name /\ ~HasUnit'
    BY <1>1, <2>1, <2>2 DEF HasUnit, UnitName, CycleName
  <2>4. RollbackRelease(name) \/ ReleaseSavepoint(name)
    BY <1>4 DEF SyncCycle, RotateOut, EndCycle
  <2> QED BY <1>2, <2>1, <2>3, <2>4, UnitCloses DEF Shape
<1>5. CASE Ready(c)
  <2>1. queryMu = c /\ pc[c] = "sync" /\ queryMu' = None /\ UNCHANGED <<rows, stack>>
    BY <1>5 DEF Ready, Holds, backendVars
  <2>2. ~HasUnit /\ ~HasUnit'
    BY <2>1 DEF HasUnit, LockInv
  <2> QED BY <1>2, <2>1, <2>2, NestSame DEF Shape, Still
<1>6. CASE \/ \E risk \in Risks \cup {NoRisk} : Execute(c, risk)
           \/ ExecuteRead(c) \/ LocalError(c)
           \/ \E escape \in BOOLEAN : ExecuteFails(c, escape)
  <2>1. UNCHANGED <<stack, queryMu, batch, pc>>
    BY <1>6 DEF Execute, ExecuteRead, LocalError, ExecuteFails, CycleFrame, batchVars
  <2>2. NestInv'
    BY <1>2, <2>1, UnitSame, NestSame
  <2>3. ASSUME NEW risk \in Risks \cup {NoRisk}, Execute(c, risk) PROVE Wrote(c)
    BY <2>1, <2>3, WriterOwns DEF Execute, InCycle
  <2>4. ASSUME ~\E risk \in Risks \cup {NoRisk} : Execute(c, risk) PROVE Still
    BY <1>6, <2>4 DEF ExecuteRead, LocalError, ExecuteFails, CycleFrame, Still
  <2> QED BY <2>2, <2>3, <2>4 DEF Shape
<1> QED BY <1>3, <1>4, <1>5, <1>6 DEF ExtendedNext

LEMMA EscapeNest ==
  ASSUME ~EscapeInBatch, TypeInv, LockInv, NestInv, ~fatal, NEW c \in Clients, EscapeNext(c)
  PROVE  NestInv' /\ Shape(c)
<1>1. UNCHANGED <<rows, stack, saves, activeTransaction, fatal, batch>>
  BY DEF EscapeNext, EscapeStart, Approve, Decline, EscapeLease, EscapeCheckFails,
     EscapeConnectFails, EscapeDispatch, EscapeRecord, EscapeResult, EscapeReturn, EscapeFrame,
     batchVars
<1>2. CASE EscapeStart(c)
  <2>1. queryMu = c /\ queryMu' = None /\ ~batch[c] /\ pc[c] # "cycle"
    BY <1>2 DEF EscapeStart, Holds, LockInv
  <2>2. ~HasUnit /\ ~HasUnit'
    BY <2>1 DEF HasUnit
  <2> QED BY <1>1, <2>2, NestSame DEF Shape, Still
<1>3. CASE EscapeReturn(c)
  <2>1. queryMu = None /\ queryMu' = c /\ ~batch[c] /\ batch' = batch
    BY <1>1, <1>3 DEF EscapeReturn, LockInv
  <2>2. pc'[c] # "cycle"
    BY <1>3, LockTypes DEF EscapeReturn, Goto
  <2>3. ~HasUnit /\ ~HasUnit'
    BY <2>1, <2>2 DEF HasUnit
  <2> QED BY <1>1, <2>3, NestSame DEF Shape, Still
<1>4. CASE \/ Approve(c) \/ Decline(c)
           \/ EscapeLease(c) \/ EscapeCheckFails(c) \/ EscapeConnectFails(c)
           \/ EscapeDispatch(c) \/ EscapeRecord(c)
           \/ \E ok \in BOOLEAN : EscapeResult(c, ok)
  <2>1. queryMu' = queryMu /\ pc[c] \notin Locked
    BY <1>4 DEF Approve, Decline, EscapeLease, EscapeCheckFails, EscapeConnectFails,
       EscapeDispatch, EscapeRecord, EscapeResult, escapeVars, Locked
  <2>2. queryMu # c
    BY <2>1 DEF LockInv
  <2>3. \A d \in Clients : d # c => pc'[d] = pc[d]
    BY <1>4, LockTypes DEF Approve, Decline, EscapeLease, EscapeCheckFails, EscapeConnectFails,
       EscapeDispatch, EscapeRecord, EscapeResult, Refused, Goto
  <2>4. queryMu # None => pc'[queryMu] = pc[queryMu]
    BY <2>2, <2>3, LockTypes
  <2> QED BY <1>1, <2>1, <2>4, UnitSame, NestSame DEF Shape, Still
<1> QED BY <1>2, <1>3, <1>4 DEF EscapeNext

\* The savepoint of the transaction is rolled back with everything above it,
\* a cycle in the middle of it included.
LEMMA CleanupNest ==
  ASSUME TypeInv, OneOpenTransaction, LockInv, NestInv, ~fatal, NEW c \in Clients,
         Hangup(c) \/ Cleanup(c) \/ CleanupFatal(c)
  PROVE  NestInv' /\ Shape(c)
<1>1. CASE Hangup(c)
  BY <1>1, UnitSame, NestSame DEF Hangup, backendVars, txVars, batchVars, Shape, Still
<1>2. CASE CleanupFatal(c)
  BY <1>2 DEF CleanupFatal
<1>3. CASE Cleanup(c)
  <2>1. queryMu' = None /\ fatal' = fatal
    BY <1>3 DEF Cleanup, ClearClient
  <2>2. ~HasUnit'
    BY <2>1 DEF HasUnit
  <2>3. \/ pc[c] = "idle" /\ queryMu = None
        \/ pc[c] = "cycle" /\ queryMu = c /\ ~batch[c]
    BY <1>3 DEF Cleanup, Holds, LockInv
  <2>4. tx[c] <=> activeTransaction = c
    BY DEF OneOpenTransaction
  <2>5. CASE tx[c]
    <3> DEFINE name == SavepointName(c, "t", 0)
    <3>1. /\ 1 \in DOMAIN stack /\ stack[1].name = name
          /\ \A k \in DOMAIN stack : stack[k].name = name => k = 1
      BY <2>5, TransactionPlace
    <3>2. RollbackRelease(name)
      BY <1>3, <2>5 DEF Cleanup
    <3>3. name.by = c
      BY DEF SavepointName
    <3> HIDE DEF name
    <3>4. Left(1 - 1, stack[1].len)
      BY <3>1, <3>2, RollbackLeaves
    <3>5. Len(stack') = 0
      BY <3>4 DEF Left
    <3>6. TxDepth' = 0
      BY <1>3, <2>4, <2>5 DEF Cleanup, ClearClient, ClearTransaction, TxDepth
    <3>7. NestInv'
      BY <2>2, <3>5, <3>6, NestOutside
    <3> QED BY <3>1, <3>3, <3>4, <3>7 DEF Shape, Cut
  <2>6. CASE ~tx[c]
    <3>1. activeTransaction' = activeTransaction
      BY <1>3, <2>4, <2>6 DEF Cleanup, ClearClient, ClearTransaction
    <3>2. activeTransaction # None => saves'[activeTransaction] = saves[activeTransaction]
      BY <1>3, <2>4, <2>6 DEF Cleanup, ClearClient, ClearTransaction, Set, TypeInv, TransactionType
    <3>3. TxDepth' = TxDepth /\ TxDepth \in Nat
      BY <3>1, <3>2, DepthTypes DEF TxDepth
    <3>4. \A i \in 1..TxDepth : stack[i].name = TxName(i)
      BY DEF NestInv
    <3>5. CASE pc[c] = "cycle" /\ queryMu = c /\ ~batch[c]
      <4> DEFINE name == CycleName(c)
      <4>1. HasUnit /\ UnitName = name
        BY <3>5, ClientAssumption DEF HasUnit, UnitName, CycleName
      <4>2. RollbackRelease(name)
        BY <1>3, <2>6, <3>5 DEF Cleanup
      <4>3. /\ Len(stack) \in DOMAIN stack /\ stack[Len(stack)].name = UnitName
            /\ Len(stack) = TxDepth + 1
            /\ \A k \in DOMAIN stack : stack[k].name = UnitName => k = Len(stack)
        BY <4>1, UnitPlace
      <4> HIDE DEF name
      <4>4. Left(Len(stack) - 1, stack[Len(stack)].len) /\ Len(stack) - 1 = TxDepth
        BY <3>3, <4>1, <4>2, <4>3, RollbackLeaves
      <4>5. Len(stack') = TxDepth' /\ \A i \in 1..TxDepth' : stack'[i] = stack[i]
        BY <3>3, <4>4 DEF Left
      <4>6. NestInv'
        BY <2>2, <3>1, <3>3, <3>4, <4>5, NestOutside DEF TxName
      <4>7. stack[Len(stack)].name.by = c
        BY <3>5, <4>3 DEF UnitName, SavepointName
      <4> QED BY <4>3, <4>4, <4>6, <4>7 DEF Shape, Cut
    <3>6. CASE pc[c] = "idle" /\ queryMu = None
      <4>1. UNCHANGED <<rows, stack>>
        BY <1>3, <2>6, <3>6 DEF Cleanup, backendVars
      <4>2. ~HasUnit
        BY <3>6 DEF HasUnit
      <4>3. Len(stack') = TxDepth'
        BY <3>3, <4>1, <4>2 DEF NestInv
      <4>4. NestInv'
        BY <2>2, <3>1, <3>3, <3>4, <4>1, <4>3, NestOutside DEF TxName
      <4> QED BY <4>1, <4>4 DEF Shape, Still
    <3> QED BY <2>3, <3>5, <3>6
  <2> QED BY <2>5, <2>6
<1> QED BY <1>1, <1>2, <1>3

LEMMA ClientNest ==
  ASSUME ~EscapeInBatch, TypeInv, OneOpenTransaction, LockInv, NestInv, ~fatal,
         NEW c \in Clients, ClientNext(c)
  PROVE  NestInv' /\ Shape(c)
BY StatementNest, EscapeNest, CycleNest, CleanupNest DEF ClientNext

(***************************************************************************)
(* Whose work is above a savepoint, and what a step can take away.         *)
(***************************************************************************)
LEMMA OwnStep ==
  ASSUME TypeInv, TypeInv', OwnInv, ~fatal, NEW c \in Clients, Shape(c), UNCHANGED fatal
  PROVE  OwnInv'
<1> SUFFICES ASSUME NEW k \in DOMAIN stack', NEW i \in (stack'[k].len + 1)..Len(rows')
             PROVE  rows'[i].by = stack'[k].name.by
  BY DEF OwnInv
<1>1. \A j \in DOMAIN stack : \A r \in (stack[j].len + 1)..Len(rows) : rows[r].by = stack[j].name.by
  BY DEF OwnInv
<1>2. \A j \in DOMAIN stack : stack[j].len \in Nat /\ stack[j].len <= Len(rows)
  BY StackTypes
<1>3. Len(rows) \in Nat /\ Len(stack) \in Nat
  BY StackTypes
<1>4. k \in 1..Len(stack')
  BY DEF TypeInv, BackendInv, BackendType
<1>5. \A j \in 1..Len(stack) : j \in DOMAIN stack
  BY StackTypes
<1>6. CASE Still
  BY <1>1, <1>6 DEF Still
<1>7. CASE Wrote(c)
  <2>1. k \in DOMAIN stack /\ stack'[k] = stack[k] /\ stack[k].name.by = c
    BY <1>7 DEF Wrote
  <2>2. stack[k].len \in Nat /\ stack[k].len <= Len(rows)
    BY <1>2, <2>1
  <2>3. CASE i = Len(rows) + 1
    BY <1>7, <2>1, <2>3 DEF Wrote
  <2>4. CASE i # Len(rows) + 1
    <3>1. i \in (stack[k].len + 1)..Len(rows) /\ i \in 1..Len(rows)
      BY <1>3, <1>7, <2>1, <2>2, <2>4 DEF Wrote
    <3>2. rows[i].by = stack[k].name.by
      BY <1>1, <2>1, <3>1
    <3> QED BY <1>7, <2>1, <3>1, <3>2 DEF Wrote
  <2> QED BY <2>3, <2>4
<1>8. CASE Cut(c)
  <2>1. PICK j \in DOMAIN stack :
          \E n \in {j - 1, j}, m \in {stack[j].len, Len(rows)} : Left(n, m)
    BY <1>8 DEF Cut
  <2>2. PICK n \in {j - 1, j}, m \in {stack[j].len, Len(rows)} : Left(n, m)
    BY <2>1
  <2>3. j \in 1..Len(stack)
    BY <2>1, StackTypes
  <2>4. n \in Nat /\ n <= Len(stack) /\ m \in Nat /\ m <= Len(rows)
    BY <1>2, <1>3, <2>3
  <2>5. k \in 1..n
    BY <1>4, <2>2 DEF Left
  <2>6. k \in DOMAIN stack /\ stack'[k] = stack[k]
    BY <1>5, <2>2, <2>4, <2>5 DEF Left
  <2>7. i \in (stack[k].len + 1)..Len(rows) /\ i \in 1..m
    BY <1>2, <1>3, <2>2, <2>4, <2>6 DEF Left
  <2>8. rows[i].by = stack[k].name.by
    BY <1>1, <2>6, <2>7
  <2> QED BY <2>2, <2>6, <2>7, <2>8 DEF Left
<1>9. CASE Pushes(c)
  <2>1. PICK name : Pushed(name)
    BY <1>9 DEF Pushes
  <2>2. CASE k = Len(stack) + 1
    BY <1>3, <2>1, <2>2 DEF Pushed
  <2>3. CASE k # Len(stack) + 1
    <3>1. k \in 1..Len(stack)
      BY <1>3, <1>4, <2>1, <2>3 DEF Pushed
    <3>2. k \in DOMAIN stack /\ stack'[k] = stack[k] /\ rows' = rows
      BY <1>5, <2>1, <3>1 DEF Pushed
    <3> QED BY <1>1, <3>2
  <2> QED BY <2>2, <2>3
<1>10. CASE Restarted(c)
  <2>1. k = 1
    BY <1>4, <1>10 DEF Restarted
  <2>2. stack'[k].len = Len(rows') /\ Len(rows') \in Nat
    <3>1. Len(rows') \in Nat
      BY <1>2, <1>3, <1>10 DEF Restarted, Prefix
    <3> QED BY <1>10, <2>1, <3>1 DEF Restarted
  <2> QED BY <2>2
<1> QED BY <1>6, <1>7, <1>8, <1>9, <1>10 DEF Shape

\* How far the log is settled.
LEMMA SettledAt ==
  ASSUME NEW r \in Seq(Row), NEW s \in Seq(Saved), \A k \in DOMAIN s : s[k].len <= Len(r)
  PROVE  LET settled == IF s = <<>> THEN Len(r) ELSE s[1].len
         IN  /\ settled = IF Len(s) = 0 THEN Len(r) ELSE s[1].len
             /\ settled \in Nat /\ settled <= Len(r)
<1>1. Len(s) \in Nat /\ Len(r) \in Nat
  OBVIOUS
<1>2. s = <<>> <=> Len(s) = 0
  BY <1>1, EmptySeq
<1>3. Len(s) # 0 => 1 \in DOMAIN s /\ s[1] \in Saved
  BY <1>1
<1>4. Len(s) # 0 => s[1].len \in Nat /\ s[1].len <= Len(r)
  BY <1>3 DEF Saved
<1> QED BY <1>1, <1>2, <1>4

\* The rows no savepoint can undo any more stay, and the new ones among them
\* are one client's.
LEMMA SettledGrows ==
  ASSUME TypeInv, TypeInv', OwnInv, ~fatal, NEW c \in Clients, Shape(c)
  PROVE  /\ SettledLength \in Nat /\ SettledLength <= Len(rows)
         /\ SettledLength' \in Nat /\ SettledLength' <= Len(rows')
         /\ SettledLength <= SettledLength'
         /\ \A i \in 1..SettledLength : rows'[i] = rows[i]
         /\ \A i \in (SettledLength + 1)..SettledLength' : rows'[i].by = c
<1>1. /\ SettledLength = IF Len(stack) = 0 THEN Len(rows) ELSE stack[1].len
      /\ SettledLength \in Nat /\ SettledLength <= Len(rows)
  BY SettledAt DEF TypeInv, BackendInv, BackendType, StackOrdered, SettledLength
<1>2. /\ SettledLength' = IF Len(stack') = 0 THEN Len(rows') ELSE stack'[1].len
      /\ SettledLength' \in Nat /\ SettledLength' <= Len(rows')
  BY SettledAt DEF TypeInv, BackendInv, BackendType, StackOrdered, SettledLength
<1> DEFINE S == SettledLength
           T == SettledLength'
<1> HIDE DEF S, T
<1>3. Len(rows) \in Nat /\ Len(stack) \in Nat
  BY StackTypes
<1>4. Len(stack) # 0 => 1 \in DOMAIN stack /\ stack[1].len \in Nat /\ stack[1].len <= Len(rows)
  <2>1. Len(stack) # 0 => 1 \in 1..Len(stack)
    BY <1>3
  <2> QED BY <2>1, StackTypes
<1>5. S = IF Len(stack) = 0 THEN Len(rows) ELSE stack[1].len
  BY <1>1 DEF S
<1>6. T = IF Len(stack') = 0 THEN Len(rows') ELSE stack'[1].len
  BY <1>2 DEF T
<1>7. S \in Nat /\ T \in Nat /\ S <= Len(rows)
  BY <1>1, <1>2 DEF S, T
<1> SUFFICES /\ S <= T
             /\ \A i \in 1..S : rows'[i] = rows[i]
             /\ \A i \in (S + 1)..T : rows'[i].by = c
  BY <1>1, <1>2 DEF S, T
<1>8. CASE Still
  BY <1>5, <1>6, <1>7, <1>8 DEF Still
<1>9. CASE Wrote(c)
  <2>1. \A i \in 1..S : rows'[i] = rows[i]
    BY <1>3, <1>7, <1>9 DEF Wrote
  <2>2. T = S \/ (S = Len(rows) /\ T = Len(rows) + 1)
    BY <1>5, <1>6, <1>9 DEF Wrote
  <2> QED BY <1>3, <1>7, <1>9, <2>1, <2>2 DEF Wrote
<1>10. CASE Pushes(c)
  <2>1. PICK name : Pushed(name)
    BY <1>10 DEF Pushes
  <2>2. T = S
    <3>1. CASE Len(stack) = 0
      BY <1>5, <1>6, <2>1, <3>1 DEF Pushed
    <3>2. CASE Len(stack) # 0
      BY <1>3, <1>4, <1>5, <1>6, <2>1, <3>2 DEF Pushed
    <3> QED BY <3>1, <3>2
  <2> QED BY <1>7, <2>1, <2>2 DEF Pushed
<1>11. ASSUME 1 \in DOMAIN stack, stack[1].name.by = c, NEW m \in {stack[1].len, Len(rows)},
              T = m, Prefix(m)
       PROVE  /\ S <= T
              /\ \A i \in 1..S : rows'[i] = rows[i]
              /\ \A i \in (S + 1)..T : rows'[i].by = c
  <2>1. Len(stack) # 0 /\ S = stack[1].len
    <3>1. 1 \in 1..Len(stack)
      BY <1>11, StackTypes
    <3> QED BY <1>5, <3>1
  <2>2. S <= T /\ T <= Len(rows)
    BY <1>3, <1>4, <1>11, <2>1
  <2>3. \A i \in (S + 1)..Len(rows) : rows[i].by = c
    BY <1>11, <2>1 DEF OwnInv
  <2>4. \A i \in 1..T : rows'[i] = rows[i]
    BY <1>11 DEF Prefix
  <2> QED BY <1>3, <1>7, <2>2, <2>3, <2>4
<1>12. CASE Restarted(c)
  <2>1. PICK m \in {stack[1].len, Len(rows)} : Prefix(m)
    BY <1>12 DEF Restarted
  <2>2. T = m
    BY <1>6, <1>12, <2>1 DEF Restarted, Prefix
  <2>3. 1 \in DOMAIN stack /\ stack[1].name.by = c
    BY <1>12 DEF Restarted
  <2> QED BY <1>11, <2>1, <2>2, <2>3
<1>13. CASE Cut(c)
  <2>1. PICK k \in DOMAIN stack :
          /\ stack[k].name.by = c
          /\ \E n \in {k - 1, k}, m \in {stack[k].len, Len(rows)} : Left(n, m)
    BY <1>13 DEF Cut
  <2>2. PICK n \in {k - 1, k}, m \in {stack[k].len, Len(rows)} : Left(n, m)
    BY <2>1
  <2>3. k \in 1..Len(stack) /\ stack[k].len \in Nat /\ stack[k].len <= Len(rows)
    BY <2>1, StackTypes
  <2>4. n \in Nat /\ m \in Nat
    BY <1>3, <2>3
  <2>5. CASE n = 0
    <3>1. k = 1
      BY <2>3, <2>5
    <3>2. T = m /\ Prefix(m)
      BY <1>6, <2>2, <2>5 DEF Left, Prefix
    <3> QED BY <1>11, <2>1, <2>2, <3>1, <3>2
  <2>6. CASE n # 0
    <3>1. Len(stack') # 0 /\ stack'[1] = stack[1]
      BY <2>2, <2>4, <2>6 DEF Left
    <3>2. Len(stack) # 0
      BY <1>3, <2>3
    <3>3. T = S /\ S = stack[1].len
      BY <1>5, <1>6, <3>1, <3>2
    <3>4. stack[1].len <= stack[k].len
      <4>1. 1 \in DOMAIN stack /\ k \in DOMAIN stack /\ 1 <= k
        BY <1>4, <2>1, <2>3, <3>2
      <4> QED BY <4>1 DEF TypeInv, BackendInv, StackOrdered
    <3>5. S <= m
      BY <1>4, <2>3, <3>2, <3>3, <3>4
    <3>6. \A i \in 1..m : rows'[i] = rows[i]
      BY <2>2 DEF Left
    <3> QED BY <1>7, <2>4, <3>3, <3>5, <3>6
  <2> QED BY <2>5, <2>6
<1> QED BY <1>8, <1>9, <1>10, <1>12, <1>13 DEF Shape

(***************************************************************************)
(* The inductive invariant.                                                *)
(***************************************************************************)
LEMMA InitProxy == Init => ProxyInv
<1> SUFFICES ASSUME Init PROVE ProxyInv
  OBVIOUS
<1>1. OneOpenTransaction /\ LockInv
  BY ClientAssumption DEF Init, OneOpenTransaction, LockInv, Locked
<1>2. NestInv
  BY DEF Init, NestInv, HasUnit, TxDepth
<1>3. OwnInv
  BY DEF Init, OwnInv
<1> QED BY <1>1, <1>2, <1>3, InitType, InitEnd DEF ProxyInv

\* The steps of the session itself, and of nobody.
SessionStep ==
  \/ MarkFatal \/ Stop
  \/ \E ok \in BOOLEAN : Freeze(ok)
  \/ \E decision \in {"commit", "rollback"} : Finalize(decision) \/ FinalizeUnknown(decision)
  \/ UNCHANGED vars

LEMMA NextCases ==
  ASSUME [Next]_vars
  PROVE  SessionStep \/ \E c \in Clients : ClientNext(c)
BY DEF Next, Terminated, SessionStep

\* They touch neither rows nor savepoints.
LEMMA SessionStill ==
  ASSUME SessionStep
  PROVE  /\ UNCHANGED <<rows, stack, saves, activeTransaction, queryMu, batch, pc>>
         /\ fatal' \in {fatal, TRUE}
<1>1. CASE MarkFatal
  BY <1>1 DEF MarkFatal, txVars, batchVars
<1>2. CASE Stop
  BY <1>2 DEF Stop, backendVars, txVars, batchVars
<1>3. ASSUME NEW ok \in BOOLEAN, Freeze(ok)
      PROVE  /\ UNCHANGED <<rows, stack, saves, activeTransaction, queryMu, batch, pc>>
             /\ fatal' = fatal
  BY <1>3 DEF Freeze, backendVars, txVars, batchVars
<1>4. ASSUME NEW decision \in {"commit", "rollback"}, Finalize(decision) \/ FinalizeUnknown(decision)
      PROVE  /\ UNCHANGED <<rows, stack, saves, activeTransaction, queryMu, batch, pc>>
             /\ fatal' = fatal
  BY <1>4 DEF Finalize, FinalizeUnknown, FinalizeFrame, txVars, batchVars
<1>5. CASE UNCHANGED vars
  BY <1>5 DEF vars, backendVars, txVars, batchVars
<1> QED BY <1>1, <1>2, <1>3, <1>4, <1>5 DEF SessionStep

LEMMA ProxyParts ==
  ASSUME ProxyInv
  PROVE  TypeInv /\ OneOpenTransaction /\ LockInv /\ EndInv /\ NestInv /\ OwnInv
BY DEF ProxyInv

LEMMA ClientKeeps ==
  ASSUME ~EscapeInBatch, TypeInv, TypeInv', OneOpenTransaction, LockInv, NestInv, OwnInv,
         NEW c \in Clients, ClientNext(c)
  PROVE  NestInv' /\ OwnInv'
<1>1. UNCHANGED fatal
  BY ClientSession
<1>2. CASE fatal
  BY <1>1, <1>2 DEF NestInv, OwnInv
<1>3. CASE ~fatal
  <2>1. NestInv' /\ Shape(c)
    BY <1>3, ClientNest
  <2> QED BY <1>1, <1>3, <2>1, OwnStep
<1> QED BY <1>2, <1>3

LEMMA SessionKeeps ==
  ASSUME NestInv, OwnInv, SessionStep
  PROVE  NestInv' /\ OwnInv'
<1>1. /\ UNCHANGED <<rows, stack, saves, activeTransaction, queryMu, batch, pc>>
      /\ fatal' \in {fatal, TRUE}
  BY SessionStill
<1>2. CASE fatal' = TRUE
  BY <1>2 DEF NestInv, OwnInv
<1>3. CASE fatal' = fatal
  <2>1. (HasUnit' <=> HasUnit) /\ UnitName' = UnitName
    BY <1>1, UnitSame
  <2>2. NestInv'
    BY <1>1, <1>3, <2>1, NestSame
  <2>3. OwnInv'
    BY <1>1, <1>3 DEF OwnInv
  <2> QED BY <2>2, <2>3
<1> QED BY <1>1, <1>2, <1>3

LEMMA ProxyStep ==
  ASSUME ~EscapeInBatch, ProxyInv, [Next]_vars
  PROVE  ProxyInv'
<1>1. TypeInv /\ OneOpenTransaction /\ LockInv /\ EndInv /\ NestInv /\ OwnInv
  BY ProxyParts
<1>2. TypeInv'
  BY <1>1, TypeStep
<1>3. OneOpenTransaction'
  BY <1>1, LeaseStep
<1>4. LockInv'
  BY <1>1, LockStep
<1>5. EndInv'
  BY <1>1, EndStep
<1>6. NestInv' /\ OwnInv'
  BY <1>1, <1>2, ClientKeeps, SessionKeeps, NextCases
<1> QED BY <1>2, <1>3, <1>4, <1>5, <1>6 DEF ProxyInv

LEMMA ProxyInvariant ==
  ASSUME ~EscapeInBatch
  PROVE  Spec => []ProxyInv
<1>1. ProxyInv /\ [Next]_vars => ProxyInv'
  BY ProxyStep
<1> QED BY <1>1, InitProxy, PTL DEF Spec

(***************************************************************************)
(* The theorems.  An irreversible statement inside of a batch would give   *)
(* the lock away with the batch's savepoint on the stack; the assumption   *)
(* says that no client sends one there.                                    *)
(***************************************************************************)
Below == IF activeTransaction = None THEN <<>> ELSE TransactionSavepoints(activeTransaction)

Above == IF queryMu = None THEN <<>> ELSE UnitSavepoint(queryMu)

LEMMA Joined ==
  ASSUME NEW S, NEW e \in S, NEW t \in Seq(S), NEW r, r = <<e>> \o t
  PROVE  /\ r \in Seq(S) /\ Len(r) = Len(t) + 1 /\ r[1] = e
         /\ \A i \in 1..Len(t) : r[i + 1] = t[i]
<1>1. PICK s \in Seq(S) : s = <<e>> /\ Len(s) = 1 /\ s[1] = e
  <2>1. <<e>> \in Seq(S) /\ Len(<<e>>) = 1 /\ <<e>>[1] = e
    OBVIOUS
  <2> QED BY <2>1
<1>2. Len(t) \in Nat
  OBVIOUS
<1>3. /\ s \o t \in Seq(S) /\ Len(s \o t) = Len(s) + Len(t)
      /\ \A i \in 1..Len(s) + Len(t) : (s \o t)[i] = IF i <= Len(s) THEN s[i] ELSE t[i - Len(s)]
  BY ConcatProperties
<1>4. r = s \o t
  BY <1>1
<1>5. r \in Seq(S) /\ Len(r) = 1 + Len(t)
  BY <1>1, <1>3, <1>4
<1>6. \A i \in 1..1 + Len(t) : r[i] = IF i <= 1 THEN s[i] ELSE t[i - 1]
  BY <1>1, <1>3, <1>4
<1> QED BY <1>1, <1>2, <1>5, <1>6

LEMMA BelowNames ==
  ASSUME TypeInv
  PROVE  Below \in Seq(Name) /\ Len(Below) = TxDepth /\ \A i \in 1..TxDepth : Below[i] = TxName(i)
<1>1. CASE activeTransaction = None
  BY <1>1 DEF TxDepth, Below
<1>2. CASE activeTransaction # None
  <2> DEFINE c == activeTransaction
             n == Len(saves[c])
             first == SavepointName(c, "t", 0)
             tail == [i \in DOMAIN saves[c] |-> SavepointName(c, "u", i)]
  <2>1. c \in Clients
    BY <1>2 DEF TypeInv, TransactionType
  <2>2. saves[c] \in Seq(ClientSavepoint) /\ n \in Nat
    BY <2>1, DepthTypes
  <2>3. DOMAIN saves[c] = 1..n
    BY <2>2
  <2>4. \A i \in Nat : SavepointName(c, "t", i) \in Name /\ SavepointName(c, "u", i) \in Name
    BY <2>1, NameTypes
  <2>5. first \in Name
    BY <2>4
  <2>6. tail \in Seq(Name) /\ Len(tail) = n /\ \A i \in 1..n : tail[i] = SavepointName(c, "u", i)
    <3>1. tail = [i \in 1..n |-> SavepointName(c, "u", i)]
      BY <2>3
    <3>2. \A i \in 1..n : SavepointName(c, "u", i) \in Name
      BY <2>2, <2>4
    <3> HIDE DEF n, c, tail
    <3>3. tail \in [1..n -> Name] /\ n \in Nat
      BY <2>2, <3>1, <3>2
    <3>4. tail \in Seq(Name)
      BY <3>3, SeqDef
    <3>5. Len(tail) = n
      BY <3>3, <3>4, LenProperties
    <3> QED BY <3>1, <3>4, <3>5
  <2>7. Below = <<first>> \o tail
    BY <1>2 DEF TransactionSavepoints, Below
  <2>8. TxDepth = n + 1
    BY <1>2 DEF TxDepth
  <2>9. TxName(1) = first /\ \A i \in Nat : i # 1 => TxName(i) = SavepointName(c, "u", i - 1)
    BY DEF TxName
  <2> HIDE DEF first, tail, n, c
  <2>10. /\ Below \in Seq(Name) /\ Len(Below) = Len(tail) + 1 /\ Below[1] = first
         /\ \A i \in 1..Len(tail) : Below[i + 1] = tail[i]
    BY <2>5, <2>6, <2>7, Joined
  <2>11. Below \in Seq(Name) /\ Len(Below) = n + 1
    BY <2>6, <2>10
  <2>12. ASSUME NEW i \in 1..(n + 1) PROVE Below[i] = TxName(i)
    <3>1. CASE i = 1
      BY <2>9, <2>10, <3>1
    <3>2. CASE i # 1
      <4>1. i - 1 \in 1..n /\ i \in Nat /\ (i - 1) + 1 = i
        BY <2>2, <3>2
      <4>2. Below[i] = tail[i - 1]
        BY <2>6, <2>10, <4>1
      <4> QED BY <2>6, <2>9, <3>2, <4>1, <4>2
    <3> QED BY <3>1, <3>2
  <2> QED BY <2>8, <2>11, <2>12
<1> QED BY <1>1, <1>2

LEMMA AboveNames ==
  ASSUME TypeInv
  PROVE  /\ Above \in Seq(Name) /\ Len(Above) = (IF HasUnit THEN 1 ELSE 0)
         /\ HasUnit => Above[1] = UnitName
<1>1. CASE HasUnit
  <2>1. queryMu \in Clients
    BY <1>1, LockTypes DEF HasUnit
  <2>2. UnitName \in Name
    BY <2>1, NameTypes DEF UnitName
  <2>3. Above = <<UnitName>>
    BY <1>1 DEF HasUnit, UnitName, UnitSavepoint, CycleName, Above
  <2> QED BY <1>1, <2>2, <2>3
<1>2. CASE ~HasUnit
  BY <1>2 DEF HasUnit, UnitSavepoint, Above
<1> QED BY <1>1, <1>2

LEMMA StackNames ==
  ASSUME TypeInv
  PROVE  LET names == [i \in DOMAIN stack |-> stack[i].name]
         IN  /\ names \in Seq(Name) /\ Len(names) = Len(stack)
             /\ \A i \in 1..Len(stack) : names[i] = stack[i].name
<1> DEFINE n == Len(stack)
           names == [i \in DOMAIN stack |-> stack[i].name]
<1>1. n \in Nat /\ DOMAIN stack = 1..n /\ \A i \in 1..n : stack[i].name \in Name
  BY StackTypes
<1>2. names = [i \in 1..n |-> stack[i].name]
  BY <1>1
<1> HIDE DEF n, names
<1>3. names \in [1..n -> Name]
  BY <1>1, <1>2
<1>4. names \in Seq(Name)
  BY <1>1, <1>3, SeqDef
<1>5. Len(names) = n
  BY <1>1, <1>3, <1>4, LenProperties
<1> QED BY <1>2, <1>4, <1>5 DEF n, names

LEMMA NestedState ==
  ASSUME TypeInv, NestInv, ~fatal
  PROVE  [i \in DOMAIN stack |-> stack[i].name] = Below \o Above
<1> DEFINE names == [i \in DOMAIN stack |-> stack[i].name]
<1>1. /\ names \in Seq(Name) /\ Len(names) = Len(stack)
      /\ \A i \in 1..Len(stack) : names[i] = stack[i].name
  BY StackNames
<1>2. Below \in Seq(Name) /\ Len(Below) = TxDepth /\ \A i \in 1..TxDepth : Below[i] = TxName(i)
  BY BelowNames
<1>3. /\ Above \in Seq(Name) /\ Len(Above) = (IF HasUnit THEN 1 ELSE 0)
      /\ HasUnit => Above[1] = UnitName
  BY AboveNames
<1>4. TxDepth \in Nat /\ Len(stack) \in Nat
  BY StackTypes, DepthTypes
<1>5. /\ Len(stack) = IF HasUnit THEN TxDepth + 1 ELSE TxDepth
      /\ \A i \in 1..TxDepth : stack[i].name = TxName(i)
      /\ HasUnit => stack[Len(stack)].name = UnitName
  BY DEF NestInv
<1> HIDE DEF names
<1>6. Below \o Above \in Seq(Name) /\ Len(Below \o Above) = Len(stack)
  BY <1>2, <1>3, <1>4, <1>5, ConcatProperties
<1>7. ASSUME NEW i \in 1..Len(stack) PROVE names[i] = (Below \o Above)[i]
  <2>1. CASE i <= TxDepth
    <3>1. i \in 1..TxDepth
      BY <1>4, <2>1
    <3>2. (Below \o Above)[i] = Below[i]
      BY <1>2, <1>3, <1>4, <3>1, ConcatProperties
    <3>3. Below[i] = TxName(i) /\ stack[i].name = TxName(i)
      BY <1>2, <1>5, <3>1
    <3> QED BY <1>1, <3>2, <3>3
  <2>2. CASE ~(i <= TxDepth)
    <3>1. HasUnit /\ i = TxDepth + 1 /\ i = Len(stack)
      BY <1>4, <1>5, <2>2
    <3>2. (Below \o Above)[i] = Above[1]
      <4>1. Len(Above) = 1
        BY <1>3, <3>1
      <4>2. i \in (Len(Below) + 1)..(Len(Below) + Len(Above)) /\ i - Len(Below) = 1
        BY <1>2, <1>4, <3>1, <4>1
      <4> QED BY <1>2, <1>3, <4>2, ConcatProperties
    <3> QED BY <1>1, <1>3, <1>5, <3>1, <3>2
  <2> QED BY <2>1, <2>2
<1>8. names = Below \o Above
  BY <1>1, <1>6, <1>7, SeqEqual
<1> QED BY <1>8 DEF names

\* In every state the backend's savepoints are those the proxy believes in,
\* by name and in order: those of the one open transaction, and on top of
\* them the batch or the cycle of the client that holds the backend.
THEOREM SavepointsAlwaysNested ==
  ASSUME ~EscapeInBatch
  PROVE  Spec => []SavepointsNested
<1>1. ProxyInv => SavepointsNested
  BY ProxyParts, NestedState DEF SavepointsNested, Below, Above
<1> QED BY <1>1, ProxyInvariant, PTL

LEMMA StackTop ==
  ASSUME TypeInv
  PROVE  /\ SettledLength \in Nat /\ SettledLength <= Len(rows)
         /\ SettledLength # Len(rows) => 1 \in DOMAIN stack /\ SettledLength = stack[1].len
<1>1. /\ SettledLength = IF Len(stack) = 0 THEN Len(rows) ELSE stack[1].len
      /\ SettledLength \in Nat /\ SettledLength <= Len(rows)
  BY SettledAt DEF TypeInv, BackendInv, BackendType, StackOrdered, SettledLength
<1>2. Len(stack) # 0 => 1 \in DOMAIN stack
  <2>1. Len(stack) \in Nat /\ DOMAIN stack = 1..Len(stack)
    BY StackTypes
  <2> QED BY <2>1
<1> QED BY <1>1, <1>2

LEMMA AcknowledgedState ==
  ASSUME TypeInv, OneOpenTransaction, NestInv, OwnInv
  PROVE  AcknowledgedSettled
<1> SUFFICES ASSUME ~fatal, NEW i \in (SettledLength + 1)..Len(rows)
             PROVE  LET c == rows[i].by IN tx[c] \/ batch[c] \/ pc[c] = "cycle"
  BY DEF AcknowledgedSettled
<1>1. SettledLength \in Nat /\ SettledLength # Len(rows) /\ Len(rows) \in Nat
  BY StackTop, StackTypes
<1>2. 1 \in DOMAIN stack /\ SettledLength = stack[1].len
  BY <1>1, StackTop
<1>3. rows[i].by = stack[1].name.by
  BY <1>2 DEF OwnInv
<1>4. TxDepth \in Nat /\ (TxDepth = 0 <=> activeTransaction = None)
  BY DepthTypes
<1>5. CASE 1 <= TxDepth
  <2>1. stack[1].name.by = activeTransaction /\ activeTransaction # None
    BY <1>2, <1>4, <1>5, StackShape
  <2>2. activeTransaction \in Clients
    BY <2>1 DEF TypeInv, TransactionType
  <2>3. tx[activeTransaction]
    BY <2>2 DEF OneOpenTransaction
  <2> QED BY <1>3, <2>1, <2>3
<1>6. CASE 1 > TxDepth
  <2>1. stack[1].name.by = queryMu /\ HasUnit
    BY <1>2, <1>6, StackShape
  <2> QED BY <1>3, <2>1 DEF HasUnit
<1> QED BY <1>4, <1>5, <1>6

\* Once a client has its ReadyForQuery outside of a transaction, no savepoint
\* of anybody is older than its work: nobody's rollback takes it.
THEOREM AcknowledgedAlwaysSettled ==
  ASSUME ~EscapeInBatch
  PROVE  Spec => []AcknowledgedSettled
<1>1. ProxyInv => AcknowledgedSettled
  BY ProxyParts, AcknowledgedState
<1> QED BY <1>1, ProxyInvariant, PTL

(***************************************************************************)
(* What a step can take away.                                              *)
(***************************************************************************)
LEMMA LostStill ==
  ASSUME NEW c \in Clients, ClientNext(c), server = "lost"
  PROVE  UNCHANGED <<rows, stack>>
<1>1. CASE StatementNext(c)
  BY <1>1 DEF StatementNext, StartQuery, FinishQuery, RefuseStatement, RejectStatement, Notice,
     Begin, Commit, Rollback, Chain, MakeSavepoint, RollbackTo, Release, NoSuchSavepoint,
     Regular, RegularFails, ProbeFails, Savepoint, ReleaseSavepoint, RollbackRelease,
     RollbackToSavepoint, backendVars
<1>2. CASE EscapeNext(c)
  BY <1>2 DEF EscapeNext, EscapeStart, Approve, Decline, EscapeLease, EscapeCheckFails,
     EscapeConnectFails, EscapeDispatch, EscapeRecord, EscapeResult, EscapeReturn, EscapeFrame
<1>3. CASE ExtendedNext(c)
  BY <1>3 DEF ExtendedNext, StartCycle, Execute, ExecuteRead, ExecuteFails, LocalError,
     RotateOut, RotateIn, SyncCycle, Ready, CycleFrame, EndCycle, Savepoint, ReleaseSavepoint,
     RollbackRelease, backendVars
<1>4. CASE Hangup(c) \/ Cleanup(c) \/ CleanupFatal(c)
  BY <1>4 DEF Hangup, Cleanup, CleanupFatal, RollbackRelease, backendVars
<1> QED BY <1>1, <1>2, <1>3, <1>4 DEF ClientNext

\* Only the holder of the lock, or a handler at its end, touches the rows.
LEMMA WhoseStep ==
  ASSUME TypeInv, NEW c \in Clients, ClientNext(c)
  PROVE  rows' = rows \/ queryMu = c \/ (pc[c] = "idle" /\ pc'[c] = "gone")
<1>1. CASE StatementNext(c)
  BY <1>1 DEF StatementNext, StartQuery, FinishQuery, RefuseStatement, RejectStatement, Notice,
     Begin, Commit, Rollback, Chain, MakeSavepoint, RollbackTo, Release, NoSuchSavepoint,
     Regular, RegularFails, ProbeFails, Savepoint, backendVars, AtControl, AtStatement,
     AtRegular, InCycle, Holds
<1>2. CASE EscapeNext(c)
  BY <1>2 DEF EscapeNext, EscapeStart, Approve, Decline, EscapeLease, EscapeCheckFails,
     EscapeConnectFails, EscapeDispatch, EscapeRecord, EscapeResult, EscapeReturn, EscapeFrame
<1>3. CASE ExtendedNext(c)
  BY <1>3 DEF ExtendedNext, StartCycle, Execute, ExecuteRead, ExecuteFails, LocalError,
     RotateOut, RotateIn, SyncCycle, Ready, CycleFrame, Savepoint, backendVars, InCycle, Holds
<1>4. CASE Cleanup(c)
  <2>1. Goto(c, "gone") /\ (pc[c] = "idle" \/ queryMu = c)
    BY <1>4 DEF Cleanup, ClearClient, Holds
  <2>2. pc'[c] = "gone"
    BY <2>1, LockTypes DEF Goto
  <2> QED BY <2>1, <2>2
<1>5. CASE Hangup(c) \/ CleanupFatal(c)
  BY <1>5 DEF Hangup, CleanupFatal, backendVars
<1> QED BY <1>1, <1>2, <1>3, <1>4, <1>5 DEF ClientNext

LEMMA RemovedOwn ==
  ASSUME TypeInv, OwnInv, ~fatal, NEW c \in Clients, Shape(c),
         NEW i \in (Len(rows') + 1)..Len(rows)
  PROVE  rows[i].by = c
<1>1. Len(rows) \in Nat
  BY StackTypes
<1>2. CASE Still \/ Wrote(c) \/ Pushes(c)
  <2>1. Len(rows') = Len(rows) \/ Len(rows') = Len(rows) + 1
    BY <1>2 DEF Still, Wrote, Pushes, Pushed
  <2> QED BY <1>1, <2>1
<1>3. ASSUME NEW k \in DOMAIN stack, stack[k].name.by = c,
             Len(rows') = stack[k].len \/ Len(rows') = Len(rows)
      PROVE  rows[i].by = c
  <2>1. Len(rows') = stack[k].len
    BY <1>1, <1>3
  <2> QED BY <1>3, <2>1 DEF OwnInv
<1>4. CASE Cut(c)
  BY <1>3, <1>4 DEF Cut, Left
<1>5. CASE Restarted(c)
  BY <1>3, <1>5 DEF Restarted, Prefix
<1> QED BY <1>2, <1>4, <1>5 DEF Shape

LEMMA ForeignStep ==
  ASSUME ~EscapeInBatch, ProxyInv, [Next]_vars,
         NEW i \in (Len(rows') + 1)..Len(rows)
  PROVE  LET c == rows[i].by IN queryMu = c \/ (pc[c] = "idle" /\ pc'[c] = "gone")
<1>1. TypeInv /\ OneOpenTransaction /\ LockInv /\ EndInv /\ NestInv /\ OwnInv
  BY ProxyParts
<1>2. Len(rows) \in Nat
  BY <1>1, StackTypes
<1>3. rows' # rows
  BY <1>2
<1>4. PICK c \in Clients : ClientNext(c)
  BY <1>3, NextCases, SessionStill
<1>5. ~fatal
  BY <1>1, <1>3, <1>4, LostStill DEF EndInv
<1>6. Shape(c)
  BY <1>1, <1>4, <1>5, ClientNest
<1>7. rows[i].by = c
  BY <1>1, <1>5, <1>6, RemovedOwn
<1> QED BY <1>1, <1>3, <1>4, <1>7, WhoseStep

\* What a step removes from the backend was written by the client whose
\* handler takes the step, never by another one.
THEOREM ForeignWorkAlwaysKept ==
  ASSUME ~EscapeInBatch
  PROVE  Spec => ForeignWorkKept
<1>1. ProxyInv /\ [Next]_vars =>
        [\A i \in (Len(rows') + 1)..Len(rows) :
           LET c == rows[i].by IN queryMu = c \/ (pc[c] = "idle" /\ pc'[c] = "gone")]_vars
  BY ForeignStep
<1> QED BY <1>1, ProxyInvariant, PTL DEF Spec, ForeignWorkKept

(***************************************************************************)
(* The proxy implements Session: every step of a handler settles a unit of *)
(* its client or leaves the log alone, and every step of the session is    *)
(* one of Seal, Commit, Undo and Lose, or nothing.                         *)
(***************************************************************************)
LogNow == SubSeq(rows, 1, SettledLength)

SealedNow == IF phase \in {"running", "stopping"} THEN "no"
             ELSE IF complete THEN "complete" ELSE "incomplete"

FateNow == IF server \in {"T", "E"} THEN "open" ELSE server

LEMMA PrefixProperties ==
  ASSUME NEW s \in Seq(Row), NEW n \in Nat, n <= Len(s)
  PROVE  /\ SubSeq(s, 1, n) \in Seq(Row) /\ Len(SubSeq(s, 1, n)) = n
         /\ \A i \in 1..n : SubSeq(s, 1, n)[i] = s[i]
<1>1. \A i \in 1..n : s[i] \in Row
  OBVIOUS
<1> QED BY <1>1, SubSeqProperties

\* Two prefixes of two lists that agree up to the length of the shorter one.
LEMMA PrefixGrows ==
  ASSUME NEW r \in Seq(Row), NEW s \in Seq(Row), NEW m \in Nat, NEW n \in Nat,
         m <= Len(r), n <= Len(s), m <= n, \A i \in 1..m : s[i] = r[i]
  PROVE  /\ Len(SubSeq(r, 1, m)) = m /\ Len(SubSeq(s, 1, n)) = n
         /\ SubSeq(SubSeq(s, 1, n), 1, m) = SubSeq(r, 1, m)
         /\ \A i \in 1..n : SubSeq(s, 1, n)[i] = s[i]
         /\ m = n => SubSeq(s, 1, n) = SubSeq(r, 1, m)
<1>1. PICK a \in Seq(Row) : a = SubSeq(r, 1, m) /\ Len(a) = m /\ \A i \in 1..m : a[i] = r[i]
  BY PrefixProperties
<1>2. PICK b \in Seq(Row) : b = SubSeq(s, 1, n) /\ Len(b) = n /\ \A i \in 1..n : b[i] = s[i]
  BY PrefixProperties
<1>3. PICK d \in Seq(Row) : d = SubSeq(b, 1, m) /\ Len(d) = m /\ \A i \in 1..m : d[i] = b[i]
  BY <1>2, PrefixProperties
<1>4. \A i \in 1..m : i \in 1..n
  OBVIOUS
<1>5. \A i \in 1..Len(d) : d[i] = a[i]
  BY <1>1, <1>2, <1>3, <1>4
<1>6. d = a
  BY <1>1, <1>3, <1>5, SeqEqual
<1>7. ASSUME m = n PROVE b = a
  <2>1. \A i \in 1..Len(b) : b[i] = a[i]
    BY <1>1, <1>2, <1>7
  <2> QED BY <1>1, <1>2, <1>7, <2>1, SeqEqual
<1> QED BY <1>1, <1>2, <1>3, <1>6, <1>7

LEMMA ClientRefines ==
  ASSUME ~EscapeInBatch, TypeInv, TypeInv', OneOpenTransaction, LockInv, EndInv, NestInv, OwnInv,
         NEW c \in Clients, ClientNext(c)
  PROVE  /\ UNCHANGED <<SealedNow, FateNow>>
         /\ \/ LogNow' = LogNow
            \/ /\ SealedNow = "no" /\ FateNow = "open"
               /\ Len(LogNow) < Len(LogNow') /\ SubSeq(LogNow', 1, Len(LogNow)) = LogNow
               /\ \A i \in (Len(LogNow) + 1)..Len(LogNow') : LogNow'[i].by = c
<1>1. /\ UNCHANGED <<phase, complete, fatal>>
      /\ server' = server \/ (server \in {"T", "E"} /\ server' \in {"T", "E"})
  BY ClientSession
<1>2. UNCHANGED <<SealedNow, FateNow>>
  BY <1>1 DEF SealedNow, FateNow
<1>3. phase \notin {"sealed", "finished"}
  BY GoneIsGone DEF EndInv
<1>4. CASE fatal
  <2>1. UNCHANGED <<rows, stack>>
    BY <1>4, LostStill DEF EndInv
  <2> QED BY <1>2, <2>1 DEF LogNow, SettledLength
<1>5. CASE ~fatal
  <2>1. SealedNow = "no" /\ FateNow = "open"
    BY <1>3, <1>5 DEF SealedNow, FateNow, EndInv, TypeInv, ControlType
  <2>2. Shape(c)
    BY <1>5, ClientNest
  <2>3. /\ SettledLength \in Nat /\ SettledLength <= Len(rows)
        /\ SettledLength' \in Nat /\ SettledLength' <= Len(rows')
        /\ SettledLength <= SettledLength'
        /\ \A i \in 1..SettledLength : rows'[i] = rows[i]
        /\ \A i \in (SettledLength + 1)..SettledLength' : rows'[i].by = c
    BY <1>5, <2>2, SettledGrows
  <2> DEFINE m == SettledLength
             n == SettledLength'
  <2>4. rows \in Seq(Row) /\ rows' \in Seq(Row)
    BY DEF TypeInv, BackendInv, BackendType
  <2>5. /\ m \in Nat /\ m <= Len(rows) /\ n \in Nat /\ n <= Len(rows') /\ m <= n
        /\ \A i \in 1..m : rows'[i] = rows[i]
        /\ \A i \in (m + 1)..n : rows'[i].by = c
    BY <2>3
  <2>6. LogNow = SubSeq(rows, 1, m) /\ LogNow' = SubSeq(rows', 1, n)
    BY DEF LogNow
  <2> HIDE DEF m, n
  <2>7. /\ Len(LogNow) = m /\ Len(LogNow') = n
        /\ SubSeq(LogNow', 1, m) = LogNow
        /\ \A i \in 1..n : LogNow'[i] = rows'[i]
        /\ m = n => LogNow' = LogNow
    BY <2>4, <2>5, <2>6, PrefixGrows
  <2>8. CASE m = n
    BY <1>2, <2>7, <2>8
  <2>9. CASE m # n
    <3>1. m < n
      BY <2>5, <2>9
    <3>2. \A i \in (m + 1)..n : LogNow'[i].by = c
      BY <2>5, <2>7
    <3>3. SubSeq(LogNow', 1, Len(LogNow)) = LogNow
      BY <2>7
    <3>4. Len(LogNow) < Len(LogNow')
      BY <2>7, <3>1
    <3>5. \A i \in (Len(LogNow) + 1)..Len(LogNow') : LogNow'[i].by = c
      BY <2>7, <3>2
    <3> QED BY <1>2, <2>1, <3>3, <3>4, <3>5
  <2> QED BY <2>8, <2>9
<1> QED BY <1>4, <1>5

LEMMA SessionRefines ==
  ASSUME TypeInv, EndInv, SessionStep
  PROVE  /\ LogNow' = LogNow
         /\ \/ UNCHANGED <<SealedNow, FateNow>>
            \/ /\ SealedNow = "no" /\ SealedNow' \in {"complete", "incomplete"}
               /\ SealedNow' = "complete" => FateNow = "open"
               /\ FateNow' = FateNow
            \/ /\ SealedNow = "complete" /\ FateNow = "open" /\ FateNow' = "committed"
               /\ SealedNow' = SealedNow
            \/ /\ SealedNow # "no" /\ FateNow = "open" /\ FateNow' = "rolledback"
               /\ SealedNow' = SealedNow
            \/ FateNow = "open" /\ FateNow' = "lost" /\ SealedNow' = SealedNow
<1>1. LogNow' = LogNow
  BY SessionStill DEF LogNow, SettledLength
<1>2. CASE MarkFatal
  <2>1. FateNow = "open" /\ FateNow' = "lost" /\ SealedNow' = SealedNow
    BY <1>2 DEF MarkFatal, sealVars, EndInv, SealedNow, FateNow
  <2> QED BY <1>1, <2>1
<1>3. CASE Stop
  <2>1. UNCHANGED <<SealedNow, FateNow>>
    BY <1>3 DEF Stop, backendVars, SealedNow, FateNow
  <2> QED BY <1>1, <2>1
<1>4. ASSUME NEW ok \in BOOLEAN, Freeze(ok)
      PROVE  /\ SealedNow = "no" /\ SealedNow' \in {"complete", "incomplete"}
             /\ SealedNow' = "complete" => FateNow = "open"
             /\ FateNow' = FateNow
  <2>1. phase = "stopping" /\ phase' = "sealed" /\ server' = server /\ (complete' => server = "T")
    BY <1>4 DEF Freeze, backendVars
  <2> QED BY <2>1 DEF SealedNow, FateNow
<1>5. ASSUME NEW decision \in {"commit", "rollback"}, Finalize(decision) \/ FinalizeUnknown(decision)
      PROVE  \/ UNCHANGED <<SealedNow, FateNow>>
             \/ /\ SealedNow = "complete" /\ FateNow = "open" /\ FateNow' = "committed"
                /\ SealedNow' = SealedNow
             \/ /\ SealedNow # "no" /\ FateNow = "open" /\ FateNow' = "rolledback"
                /\ SealedNow' = SealedNow
  <2>1. phase = "sealed" /\ phase' = "finished" /\ complete' = complete
    BY <1>5 DEF Finalize, FinalizeUnknown, FinalizeFrame
  <2>2. SealedNow = (IF complete THEN "complete" ELSE "incomplete") /\ SealedNow' = SealedNow
    BY <2>1 DEF SealedNow
  <2>3. CASE fatal
    <3>1. server = "lost" /\ server' = "lost"
      BY <1>5, <2>3 DEF Finalize, FinalizeUnknown, EndInv
    <3> QED BY <2>2, <3>1 DEF FateNow
  <2>4. CASE ~fatal
    <3>1. server \in {"T", "E"}
      BY <2>1, <2>4 DEF EndInv
    <3>2. server' = "rolledback" \/ (server' = "committed" /\ complete)
      BY <1>5, <2>4 DEF Finalize, FinalizeUnknown
    <3> QED BY <2>2, <3>1, <3>2 DEF FateNow
  <2> QED BY <2>3, <2>4
<1>6. CASE UNCHANGED vars
  <2>1. UNCHANGED <<SealedNow, FateNow>>
    BY <1>6 DEF vars, backendVars, sealVars, SealedNow, FateNow
  <2> QED BY <1>1, <2>1
<1> QED BY <1>1, <1>2, <1>3, <1>4, <1>5, <1>6 DEF SessionStep

LEMMA InitRefines == Init => Promise!SessionInit
<1> SUFFICES ASSUME Init PROVE Promise!SessionInit
  OBVIOUS
<1>1. SettledLength = 0 /\ rows = <<>>
  BY DEF Init, SettledLength
<1>2. SubSeq(rows, 1, SettledLength) = <<>>
  BY <1>1
<1> QED BY <1>2 DEF Init, Promise!SessionInit

LEMMA StepRefines ==
  ASSUME ~EscapeInBatch, ProxyInv, [Next]_vars
  PROVE  [Promise!SessionNext]_(Promise!sessionVars)
<1>1. TypeInv /\ OneOpenTransaction /\ LockInv /\ EndInv /\ NestInv /\ OwnInv
  BY ProxyParts
<1>2. TypeInv'
  BY <1>1, TypeStep
<1>3. CASE SessionStep
  BY <1>1, <1>3, SessionRefines
     DEF LogNow, SealedNow, FateNow, Promise!SessionNext, Promise!Seal, Promise!Commit,
         Promise!Undo, Promise!Lose, Promise!sessionVars
<1>4. ASSUME NEW c \in Clients, ClientNext(c)
      PROVE  [Promise!SessionNext]_(Promise!sessionVars)
  BY <1>1, <1>2, <1>4, ClientRefines
     DEF LogNow, SealedNow, FateNow, Promise!SessionNext, Promise!Settle, Promise!sessionVars
<1> QED BY <1>3, <1>4, NextCases

\* For any number of clients, the proxy implements the log of Session: what
\* is settled only grows, one client's unit at a time, until the session is
\* sealed, and COMMIT follows only a summary that was sealed as complete.
THEOREM ProxyImplementsSession ==
  ASSUME ~EscapeInBatch
  PROVE  Spec => ImplementsSession
<1>1. ProxyInv /\ [Next]_vars => [Promise!SessionNext]_(Promise!sessionVars)
  BY StepRefines
<1> QED BY <1>1, InitRefines, ProxyInvariant, PTL DEF Spec, ImplementsSession, Promise!SessionSpec
=============================================================================
