------------------------- MODULE RunOutcomeProofs --------------------------
(***************************************************************************)
(* Theorems about RunSession, for every set of requests and invocations:   *)
(* the outcome on disk after the run is what happened.                     *)
(***************************************************************************)
EXTENDS RunEffectsProofs

(***************************************************************************)
(* What is compensated.  While compensations are sent, every entry that    *)
(* has one is left, settled or reported as an error.                       *)
(***************************************************************************)
Left(i) == \E k \in DOMAIN todo : todo[k] = i

Settled(undo) == undo \in {"none", "succeeded"}

GhUndoInv ==
  /\ at = "undoGh" /\ decision = "discard" =>
       \A i \in DOMAIN ghRecords : ghErr \/ Left(i) \/ Settled(ghRecords[i].undo)
  /\ at \in HttpsPhase \cup {"finPg", "record"} /\ decision = "discard" /\ ~ghErr =>
       \A i \in DOMAIN ghRecords : Settled(ghRecords[i].undo)

HttpsUndoInv ==
  /\ at \in {"undo", "undoSend"} =>
       \A i \in DOMAIN reviewed.requests : finErr \/ Left(i) \/ Settled(requests[i].undo)
  /\ at \in {"finPg", "record"} /\ decision = "discard" =>
       /\ \A q \in Stageable : origin[q] = "none"
       /\ ~finErr => \A i \in DOMAIN reviewed.requests : Settled(requests[i].undo)

(***************************************************************************)
(* The outcome.  It is written once, from the errors of the three          *)
(* Finalize, and then holds of the session in memory and on disk.          *)
(***************************************************************************)
FateInv ==
  at = "record" /\ ~pgErr =>
    /\ decision = "discard" => pgFate = "rolledback"
    /\ decision = "commit" /\ ~ghErr /\ ~finErr => pgFate = "committed"

Pending == record.outcome = "pending" /\ disk.outcome = "pending"

PendingInv ==
  /\ at \in Early \cup Open \cup Finalizing \cup {"record"} => Pending
  /\ at = "cleanup" /\ pgFate = "open" => Pending
  /\ at = "cleanup" /\ record.outcome = "pending" => pgFate \in {"open", "none"}

Undone ==
  /\ pgFate \in {"none", "rolledback"}
  /\ \A i \in DOMAIN staged : origin[staged[i].call] = "none"
  /\ \A i \in DOMAIN reviewed.requests : Settled(requests[i].undo)
  /\ \A i \in DOMAIN ghRecords : Settled(ghRecords[i].undo)

OutcomeHolds(outcome) ==
  /\ outcome = "committed" => pgFate = "committed"
  /\ outcome = "discarded" => Undone
  /\ outcome = "not_started" => pgFate = "none"

OutcomeInv ==
  at \in Ending /\ ~signalled => OutcomeHolds(record.outcome) /\ OutcomeHolds(disk.outcome)

\* "committed", in memory or on disk, survives signals and crashes.
CommitInv == "committed" \in {record.outcome, disk.outcome} => pgFate = "committed"

OutcomesInv == GhUndoInv /\ HttpsUndoInv /\ FateInv /\ PendingInv /\ OutcomeInv /\ CommitInv

USE CallAssumption, SignalAssumption
USE DEF controlVars, decisionVars, signalVars, auditVars, pgVars, httpsVars, ghVars, Goto
USE DEF Early, Open, HttpsPhase, Deciding, Finalizing, Ending

\* What was reviewed is listed.
LEMMA ReviewedRequests ==
  ASSUME RunInv
  PROVE  \A i \in DOMAIN reviewed.requests : i \in DOMAIN requests
<1>1. reviewed.requests \in Seq(Request) /\ requests \in Seq(Request)
  BY DEF RunInv, ReviewTypes, HttpsTypes
<1> QED BY <1>1 DEF RunInv, ListInv

LEMMA HeadOrTail ==
  ASSUME NEW S, NEW list \in Seq(S), NEW k \in DOMAIN list, list # <<>>
  PROVE  list[k] = Head(list) \/ \E j \in DOMAIN Tail(list) : Tail(list)[j] = list[k]
<1>1. CASE k = 1
  BY <1>1
<1>2. CASE k # 1
  <2>1. k - 1 \in DOMAIN Tail(list) /\ Tail(list)[k - 1] = list[k]
    BY <1>2
  <2> QED BY <2>1
<1> QED BY <1>1, <1>2

(***************************************************************************)
(* The handlers of the HTTPS proxy.                                        *)
(***************************************************************************)
LEMMA ArriveOutcomes ==
  ASSUME RunInv, EffectInv, OutcomesInv, NEW q \in HttpCalls, Arrive(q)
  PROVE  OutcomesInv'
<1> USE DEF RunInv, EffectInv, OutcomesInv
<1>1. GhUndoInv' /\ HttpsUndoInv' /\ FateInv' /\ PendingInv' /\ OutcomeInv' /\ CommitInv'
  BY DEF Arrive, HandlerFrame, Move, GhUndoInv, Left, Settled, HttpsUndoInv, PhaseInv,
     FateInv, PendingInv, Pending, OutcomeInv, OutcomeHolds, Undone, CommitInv
<1> QED BY <1>1

LEMMA BlockOutcomes ==
  ASSUME RunInv, EffectInv, OutcomesInv, NEW q \in HttpCalls, Block(q)
  PROVE  OutcomesInv'
<1> USE DEF RunInv, EffectInv, OutcomesInv
<1>1. GhUndoInv' /\ HttpsUndoInv' /\ FateInv' /\ PendingInv' /\ OutcomeInv' /\ CommitInv'
  BY DEF Block, HandlerFrame, Move, GhUndoInv, Left, Settled, HttpsUndoInv, PhaseInv,
     FateInv, PendingInv, Pending, OutcomeInv, OutcomeHolds, Undone, CommitInv
<1> QED BY <1>1

LEMMA StageOutcomes ==
  ASSUME RunInv, EffectInv, OutcomesInv, NEW q \in HttpCalls, Stage(q)
  PROVE  OutcomesInv'
<1> USE DEF RunInv, EffectInv, OutcomesInv
<1>a. Appended(staged', staged, [call |-> q, state |-> "pending"]) /\ origin[q] = "none"
  BY StageAppends DEF Stage, HandlerInv
<1>1. GhUndoInv' /\ HttpsUndoInv' /\ FateInv' /\ PendingInv' /\ CommitInv'
  BY DEF Stage, HandlerFrame, Move, GhUndoInv, Left, Settled, HttpsUndoInv, PhaseInv,
     FateInv, PendingInv, Pending, CommitInv
<1>2. OutcomeInv'
  BY <1>a DEF Stage, HandlerFrame, OutcomeInv, OutcomeHolds, Undone, Appended
<1> QED BY <1>1, <1>2

LEMMA AskOutcomes ==
  ASSUME RunInv, EffectInv, OutcomesInv, NEW q \in HttpCalls, Ask(q)
  PROVE  OutcomesInv'
<1> USE DEF RunInv, EffectInv, OutcomesInv
<1>1. GhUndoInv' /\ HttpsUndoInv' /\ FateInv' /\ PendingInv' /\ OutcomeInv' /\ CommitInv'
  BY DEF Ask, HandlerFrame, Move, GhUndoInv, Left, Settled, HttpsUndoInv, PhaseInv,
     FateInv, PendingInv, Pending, OutcomeInv, OutcomeHolds, Undone, CommitInv
<1> QED BY <1>1

LEMMA AskCancelledOutcomes ==
  ASSUME RunInv, EffectInv, OutcomesInv, NEW q \in HttpCalls, AskCancelled(q)
  PROVE  OutcomesInv'
<1> USE DEF RunInv, EffectInv, OutcomesInv
<1>1. GhUndoInv' /\ HttpsUndoInv' /\ FateInv' /\ PendingInv' /\ OutcomeInv' /\ CommitInv'
  BY DEF AskCancelled, HandlerFrame, Move, GhUndoInv, Left, Settled, HttpsUndoInv,
     PhaseInv, FateInv, PendingInv, Pending, OutcomeInv, OutcomeHolds, Undone, CommitInv
<1> QED BY <1>1

LEMMA ForwardOutcomes ==
  ASSUME RunInv, EffectInv, OutcomesInv, NEW q \in HttpCalls, Forward(q)
  PROVE  OutcomesInv'
<1> USE DEF RunInv, EffectInv, OutcomesInv
<1>1. GhUndoInv' /\ HttpsUndoInv' /\ FateInv' /\ PendingInv' /\ OutcomeInv' /\ CommitInv'
  BY DEF Forward, HandlerFrame, Move, MayForward, GhUndoInv, Left, Settled, HttpsUndoInv,
     PhaseInv, FateInv, PendingInv, Pending, OutcomeInv, OutcomeHolds, Undone, CommitInv
<1> QED BY <1>1

LEMMA ForwardCancelledOutcomes ==
  ASSUME RunInv, EffectInv, OutcomesInv, NEW q \in HttpCalls, ForwardCancelled(q)
  PROVE  OutcomesInv'
<1> USE DEF RunInv, EffectInv, OutcomesInv
<1>a. \A i \in DOMAIN reviewed.requests : requests'[i] = requests[i]
  BY ForwardCancelledAppends, ReviewedRequests DEF Appended
<1>1. GhUndoInv' /\ FateInv' /\ PendingInv' /\ CommitInv'
  BY DEF ForwardCancelled, HandlerFrame, Move, MayForward, GhUndoInv, Left, Settled,
     PhaseInv, FateInv, PendingInv, Pending, CommitInv
<1>2. HttpsUndoInv'
  BY <1>a DEF ForwardCancelled, HandlerFrame, HttpsUndoInv, Left
<1>3. OutcomeInv'
  BY <1>a DEF ForwardCancelled, HandlerFrame, OutcomeInv, OutcomeHolds, Undone
<1> QED BY <1>1, <1>2, <1>3

LEMMA AnswerHttpsOutcomes ==
  ASSUME RunInv, EffectInv, OutcomesInv, NEW q \in HttpCalls, NEW yes \in BOOLEAN,
         AnswerHttps(q, yes)
  PROVE  OutcomesInv'
<1> USE DEF RunInv, EffectInv, OutcomesInv
<1>1. GhUndoInv' /\ HttpsUndoInv' /\ FateInv' /\ PendingInv' /\ OutcomeInv' /\ CommitInv'
  BY DEF AnswerHttps, HandlerFrame, Move, GhUndoInv, Left, Settled, HttpsUndoInv,
     PhaseInv, FateInv, PendingInv, Pending, OutcomeInv, OutcomeHolds, Undone, CommitInv
<1> QED BY <1>1

LEMMA RecordHttpsOutcomes ==
  ASSUME RunInv, EffectInv, OutcomesInv, NEW q \in HttpCalls, NEW saved \in BOOLEAN,
         RecordHttps(q, saved)
  PROVE  OutcomesInv'
<1> USE DEF RunInv, EffectInv, OutcomesInv
<1>a. Written(saved) /\ record'.outcome = record.outcome
  <2>1. CASE hpc[q] = "agreed"
    <3>1. Update(WithApproval(q, TRUE), saved)
      BY <2>1 DEF RecordHttps
    <3> QED BY <3>1, ApprovalWritten
  <2>2. CASE hpc[q] # "agreed"
    <3>1. Update(WithApproval(q, FALSE), saved)
      BY <2>2 DEF RecordHttps
    <3> QED BY <3>1, ApprovalWritten
  <2> QED BY <2>1, <2>2
<1>1. GhUndoInv' /\ HttpsUndoInv' /\ FateInv'
  BY DEF RecordHttps, HandlerFrame, Move, Update, GhUndoInv, Left, Settled, HttpsUndoInv,
     PhaseInv, FateInv
<1>2. PendingInv'
  BY <1>a DEF RecordHttps, HandlerFrame, PendingInv, Pending, Written
<1>3. OutcomeInv'
  BY <1>a DEF RecordHttps, HandlerFrame, OutcomeInv, OutcomeHolds, Undone, Written
<1>4. CommitInv'
  BY <1>a DEF RecordHttps, HandlerFrame, Written, CommitInv
<1> QED BY <1>1, <1>2, <1>3, <1>4

LEMMA RespondOutcomes ==
  ASSUME RunInv, EffectInv, OutcomesInv, NEW q \in HttpCalls, NEW acted \in BOOLEAN, NEW
         ok \in BOOLEAN, NEW renders \in BOOLEAN, Respond(q, acted, ok, renders)
  PROVE  OutcomesInv'
<1> USE DEF RunInv, EffectInv, OutcomesInv
<1>a. \A i \in DOMAIN reviewed.requests : requests'[i] = requests[i]
  BY RespondAppends, ReviewedRequests DEF Appended
<1>b. \A c \in Stageable : origin'[c] = origin[c]
  BY DEF Respond, HandlerInv, HttpsTypes
<1>1. GhUndoInv' /\ FateInv' /\ PendingInv' /\ CommitInv'
  BY DEF Respond, HandlerFrame, Move, GhUndoInv, Left, Settled, PhaseInv, FateInv,
     PendingInv, Pending, CommitInv
<1>2. HttpsUndoInv'
  BY <1>a, <1>b DEF Respond, HandlerFrame, HttpsUndoInv, Left
<1>3. OutcomeInv'
  BY <1>a, <1>b, ListedCalls DEF Respond, HandlerFrame, OutcomeInv, OutcomeHolds, Undone
<1> QED BY <1>1, <1>2, <1>3

(***************************************************************************)
(* The invocations of gh.                                                  *)
(***************************************************************************)
LEMMA GhAskOutcomes ==
  ASSUME RunInv, EffectInv, OutcomesInv, NEW g \in GhCalls, GhAsk(g)
  PROVE  OutcomesInv'
<1> USE DEF RunInv, EffectInv, OutcomesInv
<1>1. GhUndoInv' /\ HttpsUndoInv' /\ FateInv' /\ PendingInv' /\ OutcomeInv' /\ CommitInv'
  BY DEF GhAsk, ShimFrame, MoveGh, GhUndoInv, Left, Settled, HttpsUndoInv, PhaseInv,
     FateInv, PendingInv, Pending, OutcomeInv, OutcomeHolds, Undone, CommitInv
<1> QED BY <1>1

LEMMA GhAskCancelledOutcomes ==
  ASSUME RunInv, EffectInv, OutcomesInv, NEW g \in GhCalls, GhAskCancelled(g)
  PROVE  OutcomesInv'
<1> USE DEF RunInv, EffectInv, OutcomesInv
<1>1. GhUndoInv' /\ HttpsUndoInv' /\ FateInv' /\ PendingInv' /\ OutcomeInv' /\ CommitInv'
  BY DEF GhAskCancelled, ShimFrame, MoveGh, AppendRecord, GhUndoInv, Left, Settled,
     HttpsUndoInv, PhaseInv, FateInv, PendingInv, Pending, OutcomeInv, OutcomeHolds, Undone,
     CommitInv
<1> QED BY <1>1

LEMMA AnswerGhOutcomes ==
  ASSUME RunInv, EffectInv, OutcomesInv, NEW g \in GhCalls, NEW yes \in BOOLEAN,
         AnswerGh(g, yes)
  PROVE  OutcomesInv'
<1> USE DEF RunInv, EffectInv, OutcomesInv
<1>1. GhUndoInv' /\ HttpsUndoInv' /\ FateInv' /\ PendingInv' /\ OutcomeInv' /\ CommitInv'
  BY DEF AnswerGh, ShimFrame, MoveGh, GhUndoInv, Left, Settled, HttpsUndoInv, PhaseInv,
     FateInv, PendingInv, Pending, OutcomeInv, OutcomeHolds, Undone, CommitInv
<1> QED BY <1>1

LEMMA RecordGhOutcomes ==
  ASSUME RunInv, EffectInv, OutcomesInv, NEW g \in GhCalls, NEW saved \in BOOLEAN,
         RecordGh(g, saved)
  PROVE  OutcomesInv'
<1> USE DEF RunInv, EffectInv, OutcomesInv
<1>a. Written(saved) /\ record'.outcome = record.outcome
  <2>1. CASE gpc[g] = "agreed"
    <3>1. Update(WithApproval(g, TRUE), saved)
      BY <2>1 DEF RecordGh
    <3> QED BY <3>1, ApprovalWritten
  <2>2. CASE gpc[g] # "agreed"
    <3>1. Update(WithApproval(g, FALSE), saved)
      BY <2>2 DEF RecordGh
    <3> QED BY <3>1, ApprovalWritten
  <2> QED BY <2>1, <2>2
<1>b. \A i \in DOMAIN ghRecords' :
        ghRecords'[i].undo = "none" \/ (i \in DOMAIN ghRecords /\ ghRecords'[i] = ghRecords[i])
  <2>1. PICK state \in GhStates :
          Appended(ghRecords', ghRecords, [call |-> g, state |-> state, undo |-> "none"])
    BY RecordAppends DEF RecordGh, GhStates
  <2> QED BY <2>1 DEF Appended
<1>1. GhUndoInv'
  BY <1>b DEF RecordGh, ShimFrame, GhUndoInv, Left, Settled
<1>2. HttpsUndoInv' /\ FateInv'
  BY DEF RecordGh, ShimFrame, MoveGh, AppendRecord, Update, HttpsUndoInv, Left, Settled,
     PhaseInv, FateInv
<1>3. PendingInv'
  BY <1>a DEF RecordGh, ShimFrame, PendingInv, Pending, Written
<1>4. OutcomeInv'
  BY <1>a, <1>b DEF RecordGh, ShimFrame, OutcomeInv, OutcomeHolds, Undone, Settled, Written
<1>5. CommitInv'
  BY <1>a DEF RecordGh, ShimFrame, Written, CommitInv
<1> QED BY <1>1, <1>2, <1>3, <1>4, <1>5

LEMMA GhFinishOutcomes ==
  ASSUME RunInv, EffectInv, OutcomesInv, NEW g \in GhCalls, NEW acted \in BOOLEAN, NEW
         result \in {"ran", "failed", "not-run"}, NEW url \in BOOLEAN, NEW reported \in
         BOOLEAN, GhFinish(g, acted, result, url, reported)
  PROVE  OutcomesInv'
<1> USE DEF RunInv, EffectInv, OutcomesInv
<1>a. at \in {"undoGh", "finPg", "record"} \cup HttpsPhase \cup Ending => UNCHANGED ghRecords
  <2>1. at \in Ending => pgSealed # "no"
    BY DEF GhFinish, StartInv, NothingStarted
  <2> QED BY <2>1 DEF GhFinish, GateInv
<1>1. GhUndoInv'
  BY <1>a DEF GhFinish, ShimFrame, GhUndoInv, Left
<1>2. HttpsUndoInv' /\ FateInv' /\ PendingInv' /\ CommitInv'
  BY DEF GhFinish, ShimFrame, MoveGh, HttpsUndoInv, Left, Settled, PhaseInv, FateInv,
     PendingInv, Pending, CommitInv
<1>3. OutcomeInv'
  BY <1>a DEF GhFinish, ShimFrame, OutcomeInv, OutcomeHolds, Undone
<1> QED BY <1>1, <1>2, <1>3

(***************************************************************************)
(* The HTTPS proxy, sealed and finalized by runCommand.                    *)
(***************************************************************************)
LEMMA HttpsSealOutcomes ==
  ASSUME RunInv, EffectInv, OutcomesInv, HttpsSeal
  PROVE  OutcomesInv'
<1> USE DEF RunInv, EffectInv, OutcomesInv
<1>1. GhUndoInv' /\ HttpsUndoInv' /\ FateInv' /\ PendingInv' /\ OutcomeInv' /\ CommitInv'
  BY DEF HttpsSeal, Goto, GhUndoInv, Left, Settled, HttpsUndoInv, PhaseInv, FateInv,
     PendingInv, Pending, OutcomeInv, OutcomeHolds, Undone, CommitInv
<1> QED BY <1>1

LEMMA HttpsSealedOutcomes ==
  ASSUME RunInv, EffectInv, OutcomesInv, NEW ok \in BOOLEAN, HttpsSealed(ok)
  PROVE  OutcomesInv'
<1> USE DEF RunInv, EffectInv, OutcomesInv
<1>1. GhUndoInv' /\ HttpsUndoInv' /\ FateInv' /\ PendingInv' /\ OutcomeInv' /\ CommitInv'
  BY DEF HttpsSealed, Goto, GhUndoInv, Left, Settled, HttpsUndoInv, PhaseInv, FateInv,
     PendingInv, Pending, OutcomeInv, OutcomeHolds, Undone, CommitInv
<1> QED BY <1>1

LEMMA FinalizeHttpsOutcomes ==
  ASSUME RunInv, EffectInv, OutcomesInv, NEW saved \in BOOLEAN, FinalizeHttps(saved)
  PROVE  OutcomesInv'
<1> USE DEF RunInv, EffectInv, OutcomesInv
<1>a. /\ at = "finHttps" /\ at' \in {"replay", "undo"}
      /\ at' = "undo" => todo' = undoCalls
      /\ UNCHANGED <<requests, reviewed>>
  BY DEF FinalizeHttps, FinalizeFrame
<1>b. record'.outcome = record.outcome /\ (disk' = disk \/ disk' = record')
  BY FinalizeHttpsEffect DEF Written
<1>1. GhUndoInv' /\ FateInv' /\ OutcomeInv'
  BY DEF FinalizeHttps, Goto, Persist, Update, FinalizeFrame, GhUndoInv, Left, Settled,
     PhaseInv, FateInv, OutcomeInv, OutcomeHolds, Undone
<1>2. HttpsUndoInv'
  <2>1. \A i \in DOMAIN reviewed.requests :
          requests[i].undo = "none" \/ \E k \in DOMAIN undoCalls : undoCalls[k] = i
    BY <1>a, ReviewedRequests DEF ListInv
  <2> QED BY <1>a, <2>1 DEF HttpsUndoInv, Left, Settled
<1>3. PendingInv'
  BY <1>a, <1>b DEF PendingInv, Pending
<1>4. CommitInv'
  BY <1>b DEF FinalizeHttps, FinalizeFrame, Written, CommitInv
<1> QED BY <1>1, <1>2, <1>3, <1>4

LEMMA ReplayOutcomes ==
  ASSUME RunInv, EffectInv, OutcomesInv, NEW saved \in BOOLEAN, Replay(saved)
  PROVE  OutcomesInv'
<1> USE DEF RunInv, EffectInv, OutcomesInv
<1>a. record'.outcome = record.outcome /\ (disk' = disk \/ disk' = record')
  BY ReplayEffect DEF Written
<1>1. GhUndoInv' /\ HttpsUndoInv' /\ FateInv' /\ OutcomeInv'
  BY DEF Replay, Goto, Persist, Update, FinalizeFrame, GhUndoInv, Left, Settled,
     HttpsUndoInv, PhaseInv, FateInv, OutcomeInv, OutcomeHolds, Undone
<1>2. PendingInv'
  BY <1>a DEF Replay, PendingInv, Pending
<1>3. CommitInv'
  BY <1>a DEF Replay, FinalizeFrame, Written, CommitInv
<1> QED BY <1>1, <1>2, <1>3

LEMMA UndoOutcomes ==
  ASSUME RunInv, EffectInv, OutcomesInv, NEW saved \in BOOLEAN, Undo(saved)
  PROVE  OutcomesInv'
<1> USE DEF RunInv, EffectInv, OutcomesInv
<1>a. record'.outcome = record.outcome /\ (disk' = disk \/ disk' = record')
  BY UndoEffect DEF Written
<1>1. GhUndoInv' /\ FateInv' /\ OutcomeInv'
  BY DEF Undo, Goto, Persist, Update, FinalizeFrame, GhUndoInv, Left, Settled, PhaseInv,
     FateInv, OutcomeInv, OutcomeHolds, Undone
<1>2. HttpsUndoInv'
  <2>1. at = "undo" /\ todo # <<>> /\ UNCHANGED reviewed /\ (finErr => finErr')
    BY DEF Undo, FinalizeFrame
  <2>2. CASE finErr'
    BY <2>1, <2>2 DEF Undo, HttpsUndoInv
  <2>3. CASE ~finErr'
    <3>1. /\ MarkedRequests(requests', Head(todo), "undoing")
          /\ todo' = todo /\ at' = "undoSend"
      BY <2>3, UndoEffect DEF Undo
    <3>2. Left(Head(todo))
      BY <2>1, TailOf DEF Left, ControlTypes
    <3>3. \A i \in DOMAIN reviewed.requests :
            i = Head(todo) \/ requests'[i].undo = requests[i].undo
      BY <3>1, ReviewedRequests DEF MarkedRequests
    <3> QED BY <2>1, <2>3, <3>1, <3>2, <3>3 DEF HttpsUndoInv, Left
  <2> QED BY <2>2, <2>3
<1>3. PendingInv'
  BY <1>a DEF Undo, PendingInv, Pending
<1>4. CommitInv'
  BY <1>a DEF Undo, FinalizeFrame, Written, CommitInv
<1> QED BY <1>1, <1>2, <1>3, <1>4

LEMMA EndHttpsOutcomes ==
  ASSUME RunInv, EffectInv, OutcomesInv, NEW saved \in BOOLEAN, EndHttps(saved)
  PROVE  OutcomesInv'
<1> USE DEF RunInv, EffectInv, OutcomesInv
<1>a. record'.outcome = record.outcome /\ (disk' = disk \/ disk' = record')
  BY PersistRecord DEF EndHttps, HttpsTypes, AuditTypes, Written
<1>b. /\ at \in {"replay", "undo"} /\ at' = "finPg" /\ todo = <<>> /\ (finErr => finErr')
      /\ UNCHANGED <<origin, requests, decision, reviewed>>
  BY DEF EndHttps, FinalizeFrame
<1>1. GhUndoInv' /\ FateInv' /\ OutcomeInv'
  BY DEF EndHttps, Goto, Persist, Update, FinalizeFrame, GhUndoInv, Left, Settled,
     PhaseInv, FateInv, OutcomeInv, OutcomeHolds, Undone
<1>2. HttpsUndoInv'
  <2>1. decision = "discard" => at = "undo"
    BY <1>b DEF ReplayInv
  <2>2. ~\E i : Left(i)
    BY <1>b DEF Left
  <2> QED BY <1>b, <2>1, <2>2 DEF HttpsUndoInv, UnsentInv
<1>3. PendingInv'
  BY <1>a, <1>b DEF PendingInv, Pending
<1>4. CommitInv'
  BY <1>a DEF EndHttps, FinalizeFrame, Written, CommitInv
<1> QED BY <1>1, <1>2, <1>3, <1>4

LEMMA ReplaySendOutcomes ==
  ASSUME RunInv, EffectInv, OutcomesInv, NEW acted \in BOOLEAN, NEW ok \in BOOLEAN, NEW
         saved \in BOOLEAN, ReplaySend(acted, ok, saved)
  PROVE  OutcomesInv'
<1> USE DEF RunInv, EffectInv, OutcomesInv
<1>a. record'.outcome = record.outcome /\ (disk' = disk \/ disk' = record')
  BY ReplaySendEffect DEF Written
<1>1. GhUndoInv' /\ HttpsUndoInv' /\ FateInv' /\ OutcomeInv'
  BY DEF ReplaySend, Goto, Persist, Update, FinalizeFrame, GhUndoInv, Left, Settled,
     HttpsUndoInv, PhaseInv, FateInv, OutcomeInv, OutcomeHolds, Undone
<1>2. PendingInv'
  BY <1>a DEF ReplaySend, PendingInv, Pending
<1>3. CommitInv'
  BY <1>a DEF ReplaySend, FinalizeFrame, Written, CommitInv
<1> QED BY <1>1, <1>2, <1>3

LEMMA UndoSendOutcomes ==
  ASSUME RunInv, EffectInv, OutcomesInv, NEW acted \in BOOLEAN, NEW ok \in BOOLEAN, NEW
         saved \in BOOLEAN, UndoSend(acted, ok, saved)
  PROVE  OutcomesInv'
<1> USE DEF RunInv, EffectInv, OutcomesInv
<1>a. record'.outcome = record.outcome /\ (disk' = disk \/ disk' = record')
  BY UndoSendEffect DEF Written
<1>1. GhUndoInv' /\ FateInv' /\ OutcomeInv'
  BY DEF UndoSend, Goto, Persist, Update, FinalizeFrame, GhUndoInv, Left, Settled,
     PhaseInv, FateInv, OutcomeInv, OutcomeHolds, Undone
<1>2. HttpsUndoInv'
  <2>1. /\ at = "undoSend" /\ at' = "undo" /\ todo # <<>> /\ todo' = Tail(todo)
        /\ UNCHANGED reviewed /\ (finErr \/ ~ok => finErr')
    BY DEF UndoSend, FinalizeFrame, ControlTypes
  <2>2. MarkedRequests(requests', Head(todo), IF ok THEN "succeeded" ELSE "failed")
    BY UndoSendEffect
  <2>3. \A i : Left(i) => i = Head(todo) \/ Left(i)'
    BY <2>1, HeadOrTail DEF Left, ControlTypes
  <2>4. ASSUME NEW i \in DOMAIN reviewed.requests, ~finErr'
        PROVE  Left(i)' \/ Settled(requests'[i].undo)
    BY <2>1, <2>2, <2>3, <2>4, ReviewedRequests DEF HttpsUndoInv, MarkedRequests, Settled
  <2> QED BY <2>1, <2>4 DEF HttpsUndoInv
<1>3. PendingInv'
  BY <1>a DEF UndoSend, PendingInv, Pending
<1>4. CommitInv'
  BY <1>a DEF UndoSend, FinalizeFrame, Written, CommitInv
<1> QED BY <1>1, <1>2, <1>3, <1>4

(***************************************************************************)
(* The shim, sealed and finalized by runCommand.                           *)
(***************************************************************************)
LEMMA GhSealOutcomes ==
  ASSUME RunInv, EffectInv, OutcomesInv, GhSeal
  PROVE  OutcomesInv'
<1> USE DEF RunInv, EffectInv, OutcomesInv
<1>1. GhUndoInv' /\ HttpsUndoInv' /\ FateInv' /\ PendingInv' /\ OutcomeInv' /\ CommitInv'
  BY DEF GhSeal, Goto, GhUndoInv, Left, Settled, HttpsUndoInv, PhaseInv, FateInv,
     PendingInv, Pending, OutcomeInv, OutcomeHolds, Undone, CommitInv
<1> QED BY <1>1

LEMMA GhSealedOutcomes ==
  ASSUME RunInv, EffectInv, OutcomesInv, NEW ok \in BOOLEAN, GhSealed(ok)
  PROVE  OutcomesInv'
<1> USE DEF RunInv, EffectInv, OutcomesInv
<1>1. GhUndoInv' /\ HttpsUndoInv' /\ FateInv' /\ PendingInv' /\ OutcomeInv' /\ CommitInv'
  BY DEF GhSealed, Goto, GhUndoInv, Left, Settled, HttpsUndoInv, PhaseInv, FateInv,
     PendingInv, Pending, OutcomeInv, OutcomeHolds, Undone, CommitInv
<1> QED BY <1>1

LEMMA FinalizeGhOutcomes ==
  ASSUME RunInv, EffectInv, OutcomesInv, FinalizeGh
  PROVE  OutcomesInv'
<1> USE DEF RunInv, EffectInv, OutcomesInv
<1>1. GhUndoInv'
  <2>1. /\ at' = "undoGh" /\ UNCHANGED <<ghRecords, decision>>
        /\ decision = "discard" => todo' \in InOrder(Compensable)
    BY DEF FinalizeGh, GhFinalizeFrame
  <2>2. decision = "discard" =>
          \A i \in DOMAIN ghRecords : Left(i)' \/ ghRecords[i].undo = "none"
    BY <2>1, InOrderLists DEF Compensable, Left, GhTypes
  <2> QED BY <2>1, <2>2 DEF GhUndoInv, Settled
<1>2. HttpsUndoInv' /\ FateInv' /\ PendingInv' /\ OutcomeInv' /\ CommitInv'
  BY DEF FinalizeGh, Goto, GhFinalizeFrame, HttpsUndoInv, Left, Settled, PhaseInv,
     FateInv, PendingInv, Pending, OutcomeInv, OutcomeHolds, Undone, CommitInv
<1> QED BY <1>1, <1>2

LEMMA UndoGhStopsOutcomes ==
  ASSUME RunInv, EffectInv, OutcomesInv, UndoGhStops
  PROVE  OutcomesInv'
<1> USE DEF RunInv, EffectInv, OutcomesInv
<1>1. GhUndoInv' /\ HttpsUndoInv' /\ FateInv' /\ PendingInv' /\ OutcomeInv' /\ CommitInv'
  BY DEF UndoGhStops, GhFinalizeFrame, GhUndoInv, Left, Settled, HttpsUndoInv, PhaseInv,
     FateInv, PendingInv, Pending, OutcomeInv, OutcomeHolds, Undone, CommitInv
<1> QED BY <1>1

LEMMA EndGhOutcomes ==
  ASSUME RunInv, EffectInv, OutcomesInv, EndGh
  PROVE  OutcomesInv'
<1> USE DEF RunInv, EffectInv, OutcomesInv
<1>1. GhUndoInv' /\ HttpsUndoInv' /\ FateInv' /\ PendingInv' /\ OutcomeInv' /\ CommitInv'
  BY DEF EndGh, Goto, GhFinalizeFrame, GhUndoInv, Left, Settled, HttpsUndoInv, PhaseInv,
     FateInv, PendingInv, Pending, OutcomeInv, OutcomeHolds, Undone, CommitInv
<1> QED BY <1>1

LEMMA UndoGhOutcomes ==
  ASSUME RunInv, EffectInv, OutcomesInv, NEW acted \in BOOLEAN, NEW ok \in BOOLEAN,
         UndoGh(acted, ok)
  PROVE  OutcomesInv'
<1> USE DEF RunInv, EffectInv, OutcomesInv
<1>1. GhUndoInv'
  <2>1. /\ at = "undoGh" /\ todo # <<>> /\ todo' = Tail(todo) /\ at' = at
        /\ UNCHANGED decision /\ (ghErr \/ ~ok => ghErr') /\ (ok => acted)
    BY DEF UndoGh, GhFinalizeFrame
  <2>2. /\ acted => ghRecords[Head(todo)].undo = "available"
        /\ MarkedInvocations(ghRecords', Head(todo),
             IF ghRecords[Head(todo)].undo # "available" THEN "unavailable"
             ELSE IF ok THEN "succeeded" ELSE "failed")
    BY UndoGhEffect
  <2>3. \A i : Left(i) => i = Head(todo) \/ Left(i)'
    BY <2>1, HeadOrTail DEF Left, ControlTypes
  <2>4. ASSUME NEW i \in DOMAIN ghRecords, decision = "discard", ~ghErr'
        PROVE  Left(i)' \/ Settled(ghRecords'[i].undo)
    BY <2>1, <2>2, <2>3, <2>4 DEF GhUndoInv, MarkedInvocations, Settled
  <2> QED BY <2>1, <2>2, <2>4 DEF GhUndoInv, MarkedInvocations, SameInvocations
<1>2. HttpsUndoInv' /\ FateInv' /\ PendingInv' /\ OutcomeInv' /\ CommitInv'
  BY DEF UndoGh, GhFinalizeFrame, HttpsUndoInv, Left, Settled, PhaseInv, FateInv,
     PendingInv, Pending, OutcomeInv, OutcomeHolds, Undone, CommitInv
<1> QED BY <1>1, <1>2

(***************************************************************************)
(* runCommand.                                                             *)
(***************************************************************************)
LEMMA SnapshotOutcomes ==
  ASSUME RunInv, EffectInv, OutcomesInv, NEW ok \in BOOLEAN, NEW saved \in BOOLEAN,
         Snapshot(ok, saved)
  PROVE  OutcomesInv'
<1> USE DEF RunInv, EffectInv, OutcomesInv
<1>a. /\ record'.outcome \in {record.outcome, "not_started"} /\ (disk' = disk \/ disk' = record')
  BY SnapshotWritten
<1>b. /\ at = "snapshot" /\ Pending /\ pgFate = "none" /\ pgFate' = "none"
      /\ at' \in {"setup", "cleanup"} /\ (at' = "setup" => record' = record)
  BY DEF Snapshot, Update, PendingInv, PhaseInv
<1>1. GhUndoInv' /\ HttpsUndoInv' /\ FateInv'
  BY DEF Snapshot, Goto, Update, ChildFrame, GhUndoInv, Left, Settled, HttpsUndoInv,
     PhaseInv, FateInv
<1>2. PendingInv'
  BY <1>a, <1>b DEF PendingInv, Pending
<1>3. OutcomeInv'
  BY <1>a, <1>b DEF Pending, OutcomeInv, OutcomeHolds
<1>4. CommitInv'
  BY <1>a, <1>b DEF Pending, CommitInv
<1> QED BY <1>1, <1>2, <1>3, <1>4

LEMMA SetupOutcomes ==
  ASSUME RunInv, EffectInv, OutcomesInv, NEW ok \in BOOLEAN, NEW opened \in BOOLEAN,
         Setup(ok, opened)
  PROVE  OutcomesInv'
<1> USE DEF RunInv, EffectInv, OutcomesInv
<1>1. GhUndoInv' /\ HttpsUndoInv' /\ FateInv' /\ PendingInv' /\ CommitInv'
  BY DEF Setup, Goto, ChildFrame, GhUndoInv, Left, Settled, HttpsUndoInv, PhaseInv,
     FateInv, PendingInv, Pending, CommitInv
<1>2. OutcomeInv'
  BY DEF Setup, PendingInv, Pending, OutcomeInv, OutcomeHolds
<1> QED BY <1>1, <1>2

LEMMA PromptOutcomes ==
  ASSUME RunInv, EffectInv, OutcomesInv, NEW call \in HttpCalls \cup GhCalls,
         Prompt(call)
  PROVE  OutcomesInv'
<1> USE DEF RunInv, EffectInv, OutcomesInv
<1>1. GhUndoInv' /\ HttpsUndoInv' /\ FateInv' /\ PendingInv' /\ OutcomeInv' /\ CommitInv'
  BY DEF Prompt, GhUndoInv, Left, Settled, HttpsUndoInv, PhaseInv, FateInv, PendingInv,
     Pending, OutcomeInv, OutcomeHolds, Undone, CommitInv
<1> QED BY <1>1

LEMMA SignalOutcomes ==
  ASSUME RunInv, EffectInv, OutcomesInv, Signal
  PROVE  OutcomesInv'
<1> USE DEF RunInv, EffectInv, OutcomesInv
<1>1. GhUndoInv' /\ HttpsUndoInv' /\ FateInv' /\ PendingInv' /\ OutcomeInv' /\ CommitInv'
  BY DEF Signal, CancelPrompt, ChildFrame, GhUndoInv, Left, Settled, HttpsUndoInv,
     PhaseInv, FateInv, PendingInv, Pending, OutcomeInv, OutcomeHolds, Undone, CommitInv
<1> QED BY <1>1

LEMMA ChildExitsOutcomes ==
  ASSUME RunInv, EffectInv, OutcomesInv, NEW err \in BOOLEAN, NEW killed \in BOOLEAN,
         ChildExits(err, killed)
  PROVE  OutcomesInv'
<1> USE DEF RunInv, EffectInv, OutcomesInv
<1>1. GhUndoInv' /\ HttpsUndoInv' /\ FateInv' /\ PendingInv' /\ OutcomeInv' /\ CommitInv'
  BY DEF ChildExits, Goto, CancelPrompt, ChildFrame, GhUndoInv, Left, Settled,
     HttpsUndoInv, PhaseInv, FateInv, PendingInv, Pending, OutcomeInv, OutcomeHolds, Undone,
     CommitInv
<1> QED BY <1>1

LEMMA ScanOutcomes ==
  ASSUME RunInv, EffectInv, OutcomesInv, NEW saved \in BOOLEAN, Scan(saved)
  PROVE  OutcomesInv'
<1> USE DEF RunInv, EffectInv, OutcomesInv
<1>1. GhUndoInv' /\ HttpsUndoInv' /\ FateInv' /\ PendingInv' /\ OutcomeInv' /\ CommitInv'
  BY DEF Scan, Goto, Update, ChildFrame, GhUndoInv, Left, Settled, HttpsUndoInv, PhaseInv,
     FateInv, PendingInv, Pending, OutcomeInv, OutcomeHolds, Undone, CommitInv
<1> QED BY <1>1

LEMMA PgSealOutcomes ==
  ASSUME RunInv, EffectInv, OutcomesInv, NEW result \in {"complete", "incomplete",
         "failed"}, NEW activity \in BOOLEAN, PgSeal(result, activity)
  PROVE  OutcomesInv'
<1> USE DEF RunInv, EffectInv, OutcomesInv
<1>1. GhUndoInv' /\ HttpsUndoInv' /\ FateInv' /\ PendingInv' /\ OutcomeInv' /\ CommitInv'
  BY DEF PgSeal, Goto, GhUndoInv, Left, Settled, HttpsUndoInv, PhaseInv, FateInv,
     PendingInv, Pending, OutcomeInv, OutcomeHolds, Undone, CommitInv
<1> QED BY <1>1

LEMMA DecideOutcomes ==
  ASSUME RunInv, EffectInv, OutcomesInv, NEW choice \in {"commit", "discard"}, NEW saved
         \in BOOLEAN, Decide(choice, saved)
  PROVE  OutcomesInv'
<1> USE DEF RunInv, EffectInv, OutcomesInv
<1>a. Written(saved) /\ record'.outcome = record.outcome
  BY DecideWritten
<1>1. GhUndoInv' /\ HttpsUndoInv' /\ FateInv' /\ OutcomeInv'
  BY DEF Decide, Goto, Update, GhUndoInv, Left, Settled, HttpsUndoInv, PhaseInv, FateInv,
     OutcomeInv, OutcomeHolds, Undone
<1>2. PendingInv'
  BY <1>a DEF Decide, PendingInv, Pending, Written
<1>3. CommitInv'
  BY <1>a DEF Decide, Written, PendingInv, Pending, CommitInv
<1> QED BY <1>1, <1>2, <1>3

LEMMA PgFinalizeOutcomes ==
  ASSUME RunInv, EffectInv, OutcomesInv, NEW ok \in BOOLEAN, PgFinalize(ok)
  PROVE  OutcomesInv'
<1> USE DEF RunInv, EffectInv, OutcomesInv
<1>1. GhUndoInv' /\ HttpsUndoInv' /\ FateInv' /\ PendingInv' /\ OutcomeInv' /\ CommitInv'
  BY DEF PgFinalize, Goto, GhUndoInv, Left, Settled, HttpsUndoInv, PhaseInv, FateInv,
     PendingInv, Pending, OutcomeInv, OutcomeHolds, Undone, CommitInv
<1> QED BY <1>1

LEMMA RecordFinalOutcomes ==
  ASSUME RunInv, EffectInv, OutcomesInv, NEW saved \in BOOLEAN, RecordFinal(saved)
  PROVE  OutcomesInv'
<1> USE DEF RunInv, EffectInv, OutcomesInv
<1>a. /\ Written(saved)
      /\ record'.outcome = IF ghErr \/ finErr \/ pgErr THEN "unknown" ELSE Outcome
  BY FinalWritten
<1>b. /\ at = "record" /\ at' = "cleanup" /\ Pending
      /\ UNCHANGED <<pgFate, decision, signalled, staged, requests, reviewed, ghRecords, origin>>
  BY DEF RecordFinal, ChildFrame, PendingInv
<1>1. GhUndoInv' /\ HttpsUndoInv' /\ FateInv'
  BY DEF RecordFinal, Goto, Update, ChildFrame, GhUndoInv, Left, Settled, HttpsUndoInv,
     PhaseInv, FateInv
<1>2. PendingInv'
  <2>1. record'.outcome # "pending" /\ pgFate # "open"
    BY <1>a, <1>b DEF Outcome, PhaseInv
  <2> QED BY <1>b, <2>1 DEF PendingInv
<1>3. OutcomeInv'
  <2>1. OutcomeHolds(record'.outcome)
    <3>1. CASE ghErr \/ finErr \/ pgErr
      BY <1>a, <3>1 DEF OutcomeHolds
    <3>2. CASE ~(ghErr \/ finErr \/ pgErr) /\ decision = "commit"
      BY <1>a, <1>b, <3>2 DEF OutcomeHolds, Outcome, FateInv
    <3>3. CASE ~(ghErr \/ finErr \/ pgErr) /\ decision = "discard"
      BY <1>a, <1>b, <3>3, ListedCalls
         DEF OutcomeHolds, Outcome, Undone, FateInv, GhUndoInv, HttpsUndoInv
    <3> QED BY <3>1, <3>2, <3>3 DEF ControlTypes
  <2>2. disk' = record' \/ disk'.outcome = "pending"
    BY <1>a, <1>b DEF Written, Pending
  <2> QED BY <1>b, <2>1, <2>2 DEF OutcomeInv, OutcomeHolds, Undone
<1>4. CommitInv'
  BY <1>a, <1>b DEF Written, Outcome, Pending, FateInv, CommitInv, ControlTypes
<1> QED BY <1>1, <1>2, <1>3, <1>4

LEMMA CleanupOutcomes ==
  ASSUME RunInv, EffectInv, OutcomesInv, NEW closed \in BOOLEAN, NEW saved \in BOOLEAN,
         Cleanup(closed, saved)
  PROVE  OutcomesInv'
<1> USE DEF RunInv, EffectInv, OutcomesInv
<1>a. Written(saved) /\ record'.outcome = LastOutcome(closed)
  BY CleanupWritten
<1>b. /\ at = "cleanup" /\ at' = "late"
      /\ pgFate' = IF ~Unfinalized THEN pgFate ELSE IF closed THEN "rolledback" ELSE "lost"
      /\ UNCHANGED <<signalled, staged, requests, reviewed, ghRecords, origin>>
  BY DEF Cleanup
<1>1. GhUndoInv' /\ HttpsUndoInv' /\ FateInv' /\ PendingInv'
  BY DEF Cleanup, Goto, Update, GhUndoInv, Left, Settled, HttpsUndoInv, PhaseInv, FateInv,
     PendingInv, Pending
<1>2. OutcomeInv'
  <2>1. CASE Unfinalized
    <3>1. Undone' <=> pgFate' = "rolledback"
      <4>1. NothingStarted
        BY <1>b, <2>1 DEF Unfinalized, StartInv
      <4> QED BY <1>b, <2>1, <4>1 DEF Undone, NothingStarted
    <3>2. Pending
      BY <1>b, <2>1 DEF Unfinalized, PendingInv
    <3>3. disk'.outcome \in {"pending", record'.outcome}
      BY <1>a, <3>2 DEF Written, Pending
    <3> QED BY <1>a, <1>b, <2>1, <3>1, <3>3 DEF LastOutcome, OutcomeInv, OutcomeHolds
  <2>2. CASE ~Unfinalized /\ ~signalled
    <3>1. pgFate = "open" => pgSealed # "no"
      BY <2>2 DEF Unfinalized
    <3>2. record.outcome = "pending" => pgFate = "none"
      BY <1>b, <3>1 DEF PendingInv, PhaseInv
    <3>3. UNCHANGED pgFate
      BY <1>b, <2>2
    <3>4. \A o : OutcomeHolds(o)' <=> OutcomeHolds(o)
      BY <1>b, <3>3 DEF OutcomeHolds, Undone
    <3>5. OutcomeHolds(record.outcome) /\ OutcomeHolds(disk.outcome)
      BY <1>b, <2>2 DEF OutcomeInv
    <3>6. OutcomeHolds(record'.outcome)
      BY <1>a, <2>2, <3>2, <3>5 DEF LastOutcome, OutcomeHolds
    <3> QED BY <1>a, <1>b, <3>3, <3>5, <3>6 DEF Written, OutcomeInv, OutcomeHolds, Undone
  <2>3. CASE ~Unfinalized /\ signalled
    BY <1>b, <2>3 DEF OutcomeInv
  <2> QED BY <2>1, <2>2, <2>3
<1>3. CommitInv'
  BY <1>a, <1>b DEF LastOutcome, Unfinalized, Written, CommitInv
<1> QED BY <1>1, <1>2, <1>3

LEMMA LateOutcomes ==
  ASSUME RunInv, EffectInv, OutcomesInv, NEW saved \in BOOLEAN, Late(saved)
  PROVE  OutcomesInv'
<1> USE DEF RunInv, EffectInv, OutcomesInv
<1>1. GhUndoInv' /\ HttpsUndoInv' /\ FateInv' /\ PendingInv' /\ OutcomeInv'
  BY DEF Late, Goto, Update, ChildFrame, GhUndoInv, Left, Settled, HttpsUndoInv, PhaseInv,
     FateInv, PendingInv, Pending, OutcomeInv, OutcomeHolds, Undone
<1>2. CommitInv'
  <2>1. record'.outcome \in {record.outcome, "discarded"} /\ (disk' = disk \/ disk' = record')
    BY DEF Late, Update, AuditTypes, AuditRecord
  <2> QED BY <2>1 DEF Late, CommitInv
<1> QED BY <1>1, <1>2

LEMMA CrashOutcomes ==
  ASSUME RunInv, EffectInv, OutcomesInv, Crash
  PROVE  OutcomesInv'
<1> USE DEF RunInv, EffectInv, OutcomesInv
<1>1. GhUndoInv' /\ HttpsUndoInv' /\ FateInv' /\ PendingInv' /\ OutcomeInv' /\ CommitInv'
  BY DEF Crash, Goto, GhUndoInv, Left, Settled, HttpsUndoInv, PhaseInv, FateInv,
     PendingInv, Pending, OutcomeInv, OutcomeHolds, Undone, CommitInv
<1> QED BY <1>1

(***************************************************************************)
(* The invariant holds initially and every step keeps it.                  *)
(***************************************************************************)
LEMMA HandlersOutcomes ==
  ASSUME RunInv, EffectInv, OutcomesInv, NEW q \in HttpCalls, HandlerNext(q)
  PROVE  OutcomesInv'
BY ArriveOutcomes, BlockOutcomes, StageOutcomes, AskOutcomes, AskCancelledOutcomes, ForwardOutcomes,
   ForwardCancelledOutcomes, AnswerHttpsOutcomes, RecordHttpsOutcomes, RespondOutcomes DEF HandlerNext

LEMMA InvocationsOutcomes ==
  ASSUME RunInv, EffectInv, OutcomesInv, NEW g \in GhCalls, InvocationNext(g)
  PROVE  OutcomesInv'
BY GhAskOutcomes, GhAskCancelledOutcomes, AnswerGhOutcomes, RecordGhOutcomes, GhFinishOutcomes
   DEF InvocationNext

LEMMA HttpsOutcomes ==
  ASSUME RunInv, EffectInv, OutcomesInv, HttpsRunNext
  PROVE  OutcomesInv'
BY HttpsSealOutcomes, HttpsSealedOutcomes, FinalizeHttpsOutcomes, ReplayOutcomes, UndoOutcomes, EndHttpsOutcomes,
   ReplaySendOutcomes, UndoSendOutcomes DEF HttpsRunNext

LEMMA GhOutcomes ==
  ASSUME RunInv, EffectInv, OutcomesInv, GhRunNext
  PROVE  OutcomesInv'
BY GhSealOutcomes, GhSealedOutcomes, FinalizeGhOutcomes, UndoGhStopsOutcomes, EndGhOutcomes, UndoGhOutcomes
   DEF GhRunNext

LEMMA RunStepOutcomes ==
  ASSUME RunInv, EffectInv, OutcomesInv, RunStep
  PROVE  OutcomesInv'
BY ScanOutcomes, RecordFinalOutcomes, LateOutcomes, PgSealOutcomes, PgFinalizeOutcomes, CleanupOutcomes, HttpsOutcomes,
   GhOutcomes DEF RunStep

LEMMA StutterOutcomes ==
  ASSUME RunInv, EffectInv, OutcomesInv, UNCHANGED runVars
  PROVE  OutcomesInv'
<1> USE DEF OutcomesInv, runVars
<1>1. GhUndoInv' /\ HttpsUndoInv'
  BY DEF GhUndoInv, HttpsUndoInv, Left
<1>2. FateInv' /\ PendingInv' /\ OutcomeInv'
  BY DEF FateInv, PendingInv, Pending, OutcomeInv, OutcomeHolds, Undone
<1>3. CommitInv'
  BY DEF CommitInv
<1> QED BY <1>1, <1>2, <1>3

LEMMA OutcomesInductive ==
  ASSUME RunInv, EffectInv, OutcomesInv, [Next]_runVars
  PROVE  OutcomesInv'
<1>1. CASE RunStep
  BY <1>1, RunStepOutcomes
<1>2. CASE \E ok, flag \in BOOLEAN : Snapshot(ok, flag) \/ Setup(ok, flag)
  BY <1>2, SnapshotOutcomes, SetupOutcomes
<1>3. CASE \E err, killed \in BOOLEAN : ChildExits(err, killed)
  BY <1>3, ChildExitsOutcomes
<1>4. CASE \E choice \in {"commit", "discard"}, saved \in BOOLEAN : Decide(choice, saved)
  BY <1>4, DecideOutcomes
<1>5. CASE Signal \/ Crash
  BY <1>5, SignalOutcomes, CrashOutcomes
<1>6. CASE \E call \in HttpCalls \cup GhCalls : Prompt(call)
  BY <1>6, PromptOutcomes
<1>7. CASE \E q \in HttpCalls : HandlerNext(q)
  BY <1>7, HandlersOutcomes
<1>8. CASE \E g \in GhCalls : InvocationNext(g)
  BY <1>8, InvocationsOutcomes
<1>9. CASE Terminated \/ UNCHANGED runVars
  BY <1>9, StutterOutcomes DEF Terminated
<1> QED BY <1>1, <1>2, <1>3, <1>4, <1>5, <1>6, <1>7, <1>8, <1>9 DEF Next

LEMMA OutcomesInitial ==
  ASSUME Init
  PROVE  OutcomesInv
<1>1. GhUndoInv /\ HttpsUndoInv /\ FateInv
  BY DEF Init, GhUndoInv, HttpsUndoInv, FateInv
<1>2. PendingInv /\ OutcomeInv /\ CommitInv
  BY DEF Init, NewRecord, PendingInv, Pending, OutcomeInv, CommitInv
<1> QED BY <1>1, <1>2 DEF OutcomesInv

LEMMA OutcomesInvariant == Spec => []OutcomesInv
<1>1. Init => OutcomesInv
  BY OutcomesInitial
<1>2. RunInv /\ EffectInv /\ OutcomesInv /\ [Next]_runVars => OutcomesInv'
  BY OutcomesInductive
<1> QED BY <1>1, <1>2, RunInvariant, EffectInvariant, PTL DEF Spec

(* runCommand and its deferred function: without a signal, the outcome on  *)
(* disk when unring has exited is what happened to the database, to the    *)
(* staged calls and to all that could be compensated, whatever could not   *)
(* be saved, sealed, sent or undone.  After a signal this is false: the    *)
(* deferred function writes "discarded" over the outcome.                  *)
THEOREM OutcomeWithoutSignal == Spec => [](~signalled => OutcomeTruthful)
<1>1. EffectInv /\ OutcomesInv => (~signalled => OutcomeTruthful)
  <2> SUFFICES ASSUME EffectInv, OutcomesInv, ~signalled, at = "exit"
               PROVE  OutcomeTruthful
    BY DEF OutcomeTruthful
  <2>1. OutcomeHolds(disk.outcome)
    BY DEF OutcomesInv, OutcomeInv
  <2>2. pgFate = "committed" => \A i \in DOMAIN staged : origin[staged[i].call] = "applied"
    BY DEF EffectInv, DeliveryInv, Delivered
  <2> QED BY <2>1, <2>2 DEF OutcomeHolds, Undone, Settled, OutcomeTruthful
<1> QED BY <1>1, EffectInvariant, OutcomesInvariant, PTL

(* store.go, the only word a later run has: whenever unring has exited or  *)
(* died, after any signal, a record that says "committed" is one of a      *)
(* session whose database is committed and whose calls were delivered.     *)
CommittedOnDisk ==
  disk.outcome = "committed" =>
    /\ pgFate = "committed"
    /\ \A i \in DOMAIN staged : staged[i].state = "sent" /\ origin[staged[i].call] = "applied"

THEOREM CommittedIsCommitted == Spec => []CommittedOnDisk
<1>1. EffectInv /\ OutcomesInv => CommittedOnDisk
  BY DEF EffectInv, DeliveryInv, Delivered, OutcomesInv, CommitInv, CommittedOnDisk
<1> QED BY <1>1, EffectInvariant, OutcomesInvariant, PTL

\* Only a signal is one.
LEMMA SignalledBySignal ==
  ASSUME [Next]_runVars, signalled', ~signalled
  PROVE  Signal
<1>1. ~RunStep
  <2>1. ~HttpsRunNext
    BY DEF HttpsRunNext, HttpsSeal, HttpsSealed, FinalizeHttps, Replay, ReplaySend, Undo,
           UndoSend, EndHttps, FinalizeFrame
  <2>2. ~GhRunNext
    BY DEF GhRunNext, GhSeal, GhSealed, FinalizeGh, UndoGh, UndoGhStops, EndGh, GhFinalizeFrame
  <2> QED BY <2>1, <2>2 DEF RunStep, Scan, RecordFinal, Late, PgSeal, PgFinalize, Cleanup
<1>2. ASSUME NEW q \in HttpCalls
      PROVE  ~HandlerNext(q)
  BY DEF HandlerNext, Arrive, Block, Stage, Ask, AskCancelled, Forward, ForwardCancelled,
         AnswerHttps, RecordHttps, Respond, HandlerFrame
<1>3. ASSUME NEW g \in GhCalls
      PROVE  ~InvocationNext(g)
  BY DEF InvocationNext, GhAsk, GhAskCancelled, AnswerGh, RecordGh, GhFinish, ShimFrame
<1>4. /\ \A ok, flag \in BOOLEAN : ~Snapshot(ok, flag) /\ ~Setup(ok, flag)
      /\ \A err, killed \in BOOLEAN : ~ChildExits(err, killed)
  BY DEF Snapshot, Setup, ChildExits
<1>5. /\ \A choice \in {"commit", "discard"}, saved \in BOOLEAN : ~Decide(choice, saved)
      /\ \A call \in HttpCalls \cup GhCalls : ~Prompt(call)
      /\ ~Crash /\ ~Terminated /\ ~UNCHANGED runVars
  BY DEF Decide, Prompt, Crash, Terminated, runVars
<1> QED BY <1>1, <1>2, <1>3, <1>4, <1>5 DEF Next

(* The same where unring receives no signal, as in the run outcome.        *)
THEOREM OutcomeOnDisk ==
  ASSUME MaySignal = FALSE
  PROVE  Spec => []OutcomeTruthful
<1>1. Init => ~signalled
  BY DEF Init
<1>2. ~signalled /\ [Next]_runVars => ~signalled'
  BY SignalledBySignal DEF Signal
<1> QED BY <1>1, <1>2, OutcomeWithoutSignal, PTL DEF Spec

=============================================================================
