-------------------------- MODULE RunEffectsProofs --------------------------
(***************************************************************************)
(* Theorems about RunSession, for every set of requests and invocations:   *)
(* what its services did, against the record on disk, the approvals and    *)
(* the fate of the database session.                                       *)
(***************************************************************************)
EXTENDS RunSessionProofs

(***************************************************************************)
(* The approvals.  Nothing that needs one is with its service before it is *)
(* on disk, and only what ran with one has a compensation.                 *)
(***************************************************************************)
ApprovalInv ==
  /\ disk.approvals \subseteq record.approvals
  /\ \A q \in Approvable : hpc[q] \in {"approved", "sending"} \/ origin[q] # "none" =>
        q \in disk.approvals
  /\ \A g \in GhCalls : gpc[g] = "running" \/ ghWorld[g] # "none" => g \in disk.approvals
  /\ \A i \in DOMAIN requests : requests[i].undo # "none" /\ requests[i].call \in Approvable =>
        requests[i].call \in disk.approvals
  /\ \A i \in DOMAIN ghRecords : ghRecords[i].undo = "available" =>
        ghRecords[i].call \in disk.approvals

\* What is listed to be compensated has a compensation.
UndoListInv ==
  /\ \A k \in DOMAIN undoCalls : requests[undoCalls[k]].undo # "none"
  /\ at \in {"undo", "undoSend"} => \A k \in DOMAIN todo : requests[todo[k]].undo # "none"

(***************************************************************************)
(* The sends.  The list in memory, the record and the file all know of a   *)
(* staged call that is on its way or has been at its service.              *)
(***************************************************************************)
KnowsSends(calls) ==
  \A i \in DOMAIN staged :
    (at = "replaySend" /\ i = Head(todo)) \/ origin[staged[i].call] # "none" =>
      i \in DOMAIN calls /\ calls[i].state \in {"sending", "sent", "unknown"}

SendInv == KnowsSends(staged) /\ KnowsSends(record.staged) /\ KnowsSends(disk.staged)

\* No staged call is sent but by the replay.
UnsentInv ==
  at \in Early \cup Open \cup {"decide", "finGh", "undoGh", "finHttps", "undo", "undoSend"} =>
    \A q \in Stageable : origin[q] = "none"

(***************************************************************************)
(* The compensations, in the same way.                                     *)
(***************************************************************************)
KnowsUndos(sent) ==
  \A i \in DOMAIN requests :
    (at = "undoSend" /\ i = Head(todo)) \/ origin[requests[i].call] = "undone" =>
      i \in DOMAIN sent /\ sent[i].undo \in {"undoing", "succeeded", "failed"}

UndoInv == KnowsUndos(requests) /\ KnowsUndos(record.requests) /\ KnowsUndos(disk.requests)

\* Compensating excludes committing.
UndoneInv ==
  /\ at \in {"undo", "undoSend"} => decision = "discard" \/ ghErr
  /\ at = "undoGh" /\ decision = "commit" => todo = <<>>
  /\ (\E q \in HttpCalls : origin[q] = "undone") =>
       /\ at \in {"undo", "undoSend", "finPg", "record", "crashed"} \cup Ending
       /\ pgFate # "committed"
       /\ at \in {"undo", "undoSend", "finPg"} => decision = "discard" \/ ghErr
  /\ (\E g \in GhCalls : ghWorld[g] = "undone") =>
       /\ at \in {"undoGh", "finPg", "record", "crashed"} \cup HttpsPhase \cup Ending
       /\ pgFate # "committed"
       /\ at \in {"undoGh", "finPg"} \cup HttpsPhase => decision = "discard"

(***************************************************************************)
(* The replay, in order: what is not left was delivered, or finErr says    *)
(* that it was not.                                                        *)
(***************************************************************************)
Delivered(i) == staged[i].state = "sent" /\ origin[staged[i].call] = "applied"

Replayed == Len(staged) - Len(todo)

ReplayInv ==
  at \in {"replay", "replaySend"} =>
    /\ decision = "commit" /\ ~ghErr
    /\ Len(todo) <= Len(staged)
    /\ \A k \in DOMAIN todo : todo[k] = Replayed + k
    /\ \A i \in DOMAIN staged :
         IF i > Replayed THEN origin[staged[i].call] = "none" ELSE finErr \/ Delivered(i)

DeliveryInv ==
  /\ at = "finPg" /\ decision = "commit" /\ ~ghErr /\ ~finErr =>
       \A i \in DOMAIN staged : Delivered(i)
  /\ pgFate = "committed" => \A i \in DOMAIN staged : Delivered(i)

EffectInv ==
  /\ ApprovalInv /\ UndoListInv /\ SendInv /\ UnsentInv
  /\ UndoInv /\ UndoneInv /\ ReplayInv /\ DeliveryInv

USE CallAssumption, SignalAssumption
USE DEF controlVars, decisionVars, signalVars, auditVars, pgVars, httpsVars, ghVars, Goto
USE DEF Early, Open, HttpsPhase, Deciding, Finalizing, Ending

(***************************************************************************)
(* What the steps need to know of the state they are taken in.             *)
(***************************************************************************)
LEMMA ListedCalls ==
  ASSUME RunInv
  PROVE  /\ \A i \in DOMAIN staged : staged[i].call \in Stageable
         /\ \A i \in DOMAIN requests : requests[i].call \in HttpCalls \ Stageable
         /\ \A i \in DOMAIN ghRecords : ghRecords[i].call \in GhCalls
<1>1. /\ \A i \in DOMAIN staged : staged[i] \in StagedCall
      /\ \A i \in DOMAIN requests : requests[i] \in Request
      /\ \A i \in DOMAIN ghRecords : ghRecords[i] \in Invocation
  BY DEF RunInv, HttpsTypes, GhTypes
<1> QED BY <1>1 DEF RunInv, ListInv, StagedCall, Request, Invocation

\* While calls are replayed, and once the database is committed, no handler is left.
LEMMA NoHandler ==
  ASSUME RunInv, ReplayInv, NEW q \in HttpCalls, hpc[q] \notin {"idle", "done"}
  PROVE  /\ at \notin {"replay", "replaySend"} /\ pgFate # "committed"
         /\ ~(at = "finPg" /\ decision = "commit")
BY DEF RunInv, PhaseInv, QuietInv, Drained, ReplayInv

\* A call in hand is the first of those left.
LEMMA InHand ==
  ASSUME RunInv
  PROVE  /\ at = "replaySend" => Head(todo) \in DOMAIN staged
         /\ at = "undoSend" => Head(todo) \in DOMAIN requests
BY DEF RunInv, ControlTypes, TodoInv

LEMMA TailOf ==
  ASSUME NEW S, NEW list \in Seq(S), list # <<>>
  PROVE  /\ Head(list) = list[1] /\ 1 \in DOMAIN list /\ Len(list) \in Nat \ {0}
         /\ Tail(list) \in Seq(S) /\ Len(Tail(list)) = Len(list) - 1
         /\ \A k \in DOMAIN Tail(list) : Tail(list)[k] = list[k + 1] /\ k + 1 \in DOMAIN list
OBVIOUS

\* The records of runCommand and of the approvals.
LEMMA ApprovalWritten ==
  ASSUME AuditTypes, NEW call \in HttpCalls \cup GhCalls, NEW yes \in BOOLEAN,
         NEW saved \in BOOLEAN, Update(WithApproval(call, yes), saved)
  PROVE  /\ Written(saved)
         /\ record'.staged = record.staged /\ record'.requests = record.requests
         /\ record'.outcome = record.outcome
         /\ record'.approvals = IF yes THEN record.approvals \cup {call} ELSE record.approvals
BY ApprovalRecord DEF Update, Written, AuditTypes

LEMMA DecideWritten ==
  ASSUME AuditTypes, ReviewTypes, NEW choice \in {"commit", "discard"},
         NEW saved \in BOOLEAN, Decide(choice, saved)
  PROVE  /\ Written(saved)
         /\ record'.staged = reviewed.staged /\ record'.requests = reviewed.requests
         /\ record'.approvals = record.approvals /\ record'.outcome = record.outcome
<1> DEFINE reported == WithOutbound(record, reviewed.staged, reviewed.requests, reviewed.gh)
<1>1. /\ reported \in AuditRecord /\ reported.staged = reviewed.staged
      /\ reported.requests = reviewed.requests /\ reported.approvals = record.approvals
      /\ reported.outcome = record.outcome
  BY OutboundRecord DEF AuditTypes, ReviewTypes
<1>2. Update([reported EXCEPT !.decision = choice], saved)
  BY DEF Decide
<1> HIDE DEF reported
<1> QED BY <1>1, <1>2 DEF Update, Written, AuditRecord

LEMMA FinalWritten ==
  ASSUME AuditTypes, HttpsTypes, GhTypes, NEW saved \in BOOLEAN, RecordFinal(saved)
  PROVE  /\ Written(saved)
         /\ record'.staged = staged /\ record'.requests = requests
         /\ record'.approvals = record.approvals
         /\ record'.outcome = IF ghErr \/ finErr \/ pgErr THEN "unknown" ELSE Outcome
<1> DEFINE reported == WithOutbound(record, staged, requests, ghRecords)
           outcome == IF ghErr \/ finErr \/ pgErr THEN "unknown" ELSE Outcome
<1>1. /\ reported \in AuditRecord /\ reported.staged = staged
      /\ reported.requests = requests /\ reported.approvals = record.approvals
  BY OutboundRecord DEF AuditTypes, HttpsTypes, GhTypes
<1>2. Update([reported EXCEPT !.outcome = outcome], saved)
  BY DEF RecordFinal
<1> HIDE DEF reported, outcome
<1>3. record'.outcome = outcome
  BY <1>1, <1>2 DEF Update, AuditRecord
<1>4. /\ Written(saved)
      /\ record'.staged = staged /\ record'.requests = requests
      /\ record'.approvals = record.approvals
  BY <1>1, <1>2 DEF Update, Written, AuditRecord
<1> QED BY <1>3, <1>4 DEF outcome

LastOutcome(closed) ==
  CASE Unfinalized /\ closed   -> "discarded"
    [] Unfinalized /\ ~closed  -> "unknown"
    [] ~Unfinalized /\ signalled -> "discarded"
    [] OTHER -> IF record.outcome = "pending" THEN "not_started" ELSE record.outcome

LEMMA CleanupWritten ==
  ASSUME AuditTypes, HttpsTypes, GhTypes, NEW closed \in BOOLEAN, NEW saved \in BOOLEAN,
         Cleanup(closed, saved)
  PROVE  /\ Written(saved)
         /\ record'.staged = staged /\ record'.requests = requests
         /\ record'.approvals = record.approvals
         /\ record'.outcome = LastOutcome(closed)
<1> DEFINE reported == WithOutbound(record, staged, requests, ghRecords)
           outcome == LastOutcome(closed)
           recorded == IF signalled THEN "discard" ELSE decision
<1>1. /\ reported \in AuditRecord /\ reported.staged = staged
      /\ reported.requests = requests /\ reported.approvals = record.approvals
  BY OutboundRecord DEF AuditTypes, HttpsTypes, GhTypes
<1>2. Update([reported EXCEPT !.outcome = outcome, !.decision = recorded], saved)
  BY DEF Cleanup, LastOutcome
<1> HIDE DEF reported, outcome, recorded
<1>3. record'.outcome = outcome
  BY <1>1, <1>2 DEF Update, AuditRecord
<1>4. /\ Written(saved)
      /\ record'.staged = staged /\ record'.requests = requests
      /\ record'.approvals = record.approvals
  BY <1>1, <1>2 DEF Update, Written, AuditRecord
<1> QED BY <1>3, <1>4 DEF outcome

LEMMA SnapshotWritten ==
  ASSUME AuditTypes, NEW ok \in BOOLEAN, NEW saved \in BOOLEAN, Snapshot(ok, saved)
  PROVE  /\ record'.staged = record.staged /\ record'.requests = record.requests
         /\ record'.approvals = record.approvals
         /\ disk' = disk \/ disk' = record'
         /\ record'.outcome \in {record.outcome, "not_started"}
BY DEF Snapshot, Update, AuditTypes, AuditRecord

LEMMA LateWritten ==
  ASSUME AuditTypes, NEW saved \in BOOLEAN, Late(saved)
  PROVE  /\ record'.staged = record.staged /\ record'.requests = record.requests
         /\ record'.approvals = record.approvals
         /\ disk' = disk \/ disk' = record'
BY DEF Late, Update, AuditTypes, AuditRecord

(***************************************************************************)
(* The handlers of the HTTPS proxy.                                        *)
(***************************************************************************)
LEMMA ArriveEffects ==
  ASSUME RunInv, EffectInv, NEW q \in HttpCalls, Arrive(q)
  PROVE  EffectInv'
<1> USE DEF RunInv, EffectInv
<1>1. ApprovalInv' /\ UndoListInv'
  BY DEF Arrive, HandlerFrame, Move, HttpsTypes, GhTypes, ApprovalInv, UndoListInv
<1>2. SendInv' /\ UnsentInv'
  BY DEF Arrive, HandlerFrame, Move, SendInv, KnowsSends, UnsentInv
<1>3. UndoInv' /\ UndoneInv'
  BY DEF Arrive, HandlerFrame, Move, UndoInv, KnowsUndos, PhaseInv, UndoneInv
<1>4. ReplayInv' /\ DeliveryInv'
  BY DEF Arrive, HandlerFrame, Move, ReplayInv, Replayed, Delivered, PhaseInv, DeliveryInv
<1> QED BY <1>1, <1>2, <1>3, <1>4

LEMMA BlockEffects ==
  ASSUME RunInv, EffectInv, NEW q \in HttpCalls, Block(q)
  PROVE  EffectInv'
<1> USE DEF RunInv, EffectInv
<1>1. ApprovalInv' /\ UndoListInv'
  BY DEF Block, HandlerFrame, Move, HttpsTypes, GhTypes, ApprovalInv, UndoListInv
<1>2. SendInv' /\ UnsentInv'
  BY DEF Block, HandlerFrame, Move, SendInv, KnowsSends, UnsentInv
<1>3. UndoInv' /\ UndoneInv'
  BY DEF Block, HandlerFrame, Move, UndoInv, KnowsUndos, PhaseInv, UndoneInv
<1>4. ReplayInv' /\ DeliveryInv'
  BY DEF Block, HandlerFrame, Move, ReplayInv, Replayed, Delivered, PhaseInv, DeliveryInv
<1> QED BY <1>1, <1>2, <1>3, <1>4

LEMMA StageEffects ==
  ASSUME RunInv, EffectInv, NEW q \in HttpCalls, Stage(q)
  PROVE  EffectInv'
<1> USE DEF RunInv, EffectInv
<1>a. Appended(staged', staged, [call |-> q, state |-> "pending"]) /\ hpc[q] = "received"
  BY StageAppends DEF Stage
<1>b. /\ at \notin {"replay", "replaySend"} /\ pgFate # "committed"
      /\ ~(at = "finPg" /\ decision = "commit")
  BY <1>a, NoHandler
<1>1. ApprovalInv' /\ UndoListInv'
  BY DEF Stage, HandlerFrame, Move, HttpsTypes, GhTypes, ApprovalInv, UndoListInv
<1>2. SendInv'
  BY <1>a, <1>b DEF Stage, HandlerFrame, SendInv, KnowsSends, HandlerInv, Appended
<1>3. UnsentInv'
  BY DEF Stage, HandlerFrame, Move, UnsentInv
<1>4. UndoInv' /\ UndoneInv'
  BY DEF Stage, HandlerFrame, Move, UndoInv, KnowsUndos, PhaseInv, UndoneInv
<1>5. ReplayInv'
  BY <1>b DEF Stage, HandlerFrame, ReplayInv
<1>6. DeliveryInv'
  BY <1>b DEF Stage, HandlerFrame, DeliveryInv
<1> QED BY <1>1, <1>2, <1>3, <1>4, <1>5, <1>6

LEMMA AskEffects ==
  ASSUME RunInv, EffectInv, NEW q \in HttpCalls, Ask(q)
  PROVE  EffectInv'
<1> USE DEF RunInv, EffectInv
<1>1. ApprovalInv' /\ UndoListInv'
  BY DEF Ask, HandlerFrame, Move, HttpsTypes, GhTypes, ApprovalInv, UndoListInv
<1>2. SendInv' /\ UnsentInv'
  BY DEF Ask, HandlerFrame, Move, SendInv, KnowsSends, UnsentInv
<1>3. UndoInv' /\ UndoneInv'
  BY DEF Ask, HandlerFrame, Move, UndoInv, KnowsUndos, PhaseInv, UndoneInv
<1>4. ReplayInv' /\ DeliveryInv'
  BY DEF Ask, HandlerFrame, Move, ReplayInv, Replayed, Delivered, PhaseInv, DeliveryInv
<1> QED BY <1>1, <1>2, <1>3, <1>4

LEMMA AskCancelledEffects ==
  ASSUME RunInv, EffectInv, NEW q \in HttpCalls, AskCancelled(q)
  PROVE  EffectInv'
<1> USE DEF RunInv, EffectInv
<1>1. ApprovalInv' /\ UndoListInv'
  BY DEF AskCancelled, HandlerFrame, Move, HttpsTypes, GhTypes, ApprovalInv, UndoListInv
<1>2. SendInv' /\ UnsentInv'
  BY DEF AskCancelled, HandlerFrame, Move, SendInv, KnowsSends, UnsentInv
<1>3. UndoInv' /\ UndoneInv'
  BY DEF AskCancelled, HandlerFrame, Move, UndoInv, KnowsUndos, PhaseInv, UndoneInv
<1>4. ReplayInv' /\ DeliveryInv'
  BY DEF AskCancelled, HandlerFrame, Move, ReplayInv, Replayed, Delivered, PhaseInv,
     DeliveryInv
<1> QED BY <1>1, <1>2, <1>3, <1>4

LEMMA ForwardEffects ==
  ASSUME RunInv, EffectInv, NEW q \in HttpCalls, Forward(q)
  PROVE  EffectInv'
<1> USE DEF RunInv, EffectInv
<1>1. ApprovalInv' /\ UndoListInv'
  BY DEF Forward, HandlerFrame, Move, MayForward, HttpsTypes, GhTypes, ApprovalInv,
     UndoListInv
<1>2. SendInv' /\ UnsentInv'
  BY DEF Forward, HandlerFrame, Move, MayForward, SendInv, KnowsSends, UnsentInv
<1>3. UndoInv' /\ UndoneInv'
  BY DEF Forward, HandlerFrame, Move, MayForward, UndoInv, KnowsUndos, PhaseInv, UndoneInv
<1>4. ReplayInv' /\ DeliveryInv'
  BY DEF Forward, HandlerFrame, Move, MayForward, ReplayInv, Replayed, Delivered,
     PhaseInv, DeliveryInv
<1> QED BY <1>1, <1>2, <1>3, <1>4

LEMMA ForwardCancelledEffects ==
  ASSUME RunInv, EffectInv, NEW q \in HttpCalls, ForwardCancelled(q)
  PROVE  EffectInv'
<1> USE DEF RunInv, EffectInv
<1>a. Appended(requests', requests, [call |-> q, undo |-> "none"])
  BY ForwardCancelledAppends
<1>b. at = "undoSend" => Head(todo) \in DOMAIN requests
  BY InHand
<1>1. ApprovalInv'
  BY <1>a DEF ForwardCancelled, HandlerFrame, Move, MayForward, HttpsTypes, ApprovalInv, Appended
<1>2. UndoListInv'
  <2>1. /\ \A k \in DOMAIN undoCalls : undoCalls[k] \in DOMAIN requests
        /\ at \in {"undo", "undoSend"} => \A k \in DOMAIN todo : todo[k] \in DOMAIN requests
    BY DEF HttpsTypes, TodoInv
  <2> QED BY <1>a, <2>1 DEF ForwardCancelled, HandlerFrame, UndoListInv, Appended
<1>3. SendInv' /\ UnsentInv'
  BY DEF ForwardCancelled, HandlerFrame, Move, MayForward, SendInv, KnowsSends, UnsentInv
<1>4. UndoInv'
  <2>1. origin[q] # "undone"
    BY DEF ForwardCancelled, MayForward, HandlerInv
  <2> QED BY <1>a, <1>b, <2>1 DEF ForwardCancelled, HandlerFrame, UndoInv, KnowsUndos, Appended
<1>5. UndoneInv'
  BY DEF ForwardCancelled, HandlerFrame, Move, MayForward, PhaseInv, UndoneInv
<1>6. ReplayInv' /\ DeliveryInv'
  BY DEF ForwardCancelled, HandlerFrame, Move, MayForward, ReplayInv, Replayed, Delivered,
     PhaseInv, DeliveryInv
<1> QED BY <1>1, <1>2, <1>3, <1>4, <1>5, <1>6

LEMMA AnswerHttpsEffects ==
  ASSUME RunInv, EffectInv, NEW q \in HttpCalls, NEW yes \in BOOLEAN, AnswerHttps(q,
         yes)
  PROVE  EffectInv'
<1> USE DEF RunInv, EffectInv
<1>1. ApprovalInv' /\ UndoListInv'
  BY DEF AnswerHttps, HandlerFrame, Move, HttpsTypes, GhTypes, ApprovalInv, UndoListInv
<1>2. SendInv' /\ UnsentInv'
  BY DEF AnswerHttps, HandlerFrame, Move, SendInv, KnowsSends, UnsentInv
<1>3. UndoInv' /\ UndoneInv'
  BY DEF AnswerHttps, HandlerFrame, Move, UndoInv, KnowsUndos, PhaseInv, UndoneInv
<1>4. ReplayInv' /\ DeliveryInv'
  BY DEF AnswerHttps, HandlerFrame, Move, ReplayInv, Replayed, Delivered, PhaseInv,
     DeliveryInv
<1> QED BY <1>1, <1>2, <1>3, <1>4

LEMMA RecordHttpsEffects ==
  ASSUME RunInv, EffectInv, NEW q \in HttpCalls, NEW saved \in BOOLEAN, RecordHttps(q,
         saved)
  PROVE  EffectInv'
<1> USE DEF RunInv, EffectInv
<1>a. /\ Written(saved)
      /\ record'.staged = record.staged /\ record'.requests = record.requests
      /\ record'.approvals = IF hpc[q] = "agreed" THEN record.approvals \cup {q}
                             ELSE record.approvals
  <2>1. CASE hpc[q] = "agreed"
    <3>1. Update(WithApproval(q, TRUE), saved)
      BY <2>1 DEF RecordHttps
    <3> QED BY <2>1, <3>1, ApprovalWritten
  <2>2. CASE hpc[q] # "agreed"
    <3>1. Update(WithApproval(q, FALSE), saved)
      BY <2>2 DEF RecordHttps
    <3> QED BY <2>2, <3>1, ApprovalWritten
  <2> QED BY <2>1, <2>2
<1>1. ApprovalInv'
  BY <1>a DEF RecordHttps, HandlerFrame, Move, HttpsTypes, ApprovalInv, Written
<1>2. UndoListInv'
  BY DEF RecordHttps, HandlerFrame, Move, Update, UndoListInv
<1>3. SendInv'
  BY <1>a DEF RecordHttps, HandlerFrame, SendInv, KnowsSends, Written
<1>4. UnsentInv'
  BY DEF RecordHttps, HandlerFrame, Move, Update, UnsentInv
<1>5. UndoInv'
  BY <1>a DEF RecordHttps, HandlerFrame, UndoInv, KnowsUndos, Written
<1>6. UndoneInv'
  BY DEF RecordHttps, HandlerFrame, Move, Update, PhaseInv, UndoneInv
<1>7. ReplayInv' /\ DeliveryInv'
  BY DEF RecordHttps, HandlerFrame, Move, Update, ReplayInv, Replayed, Delivered,
     PhaseInv, DeliveryInv
<1> QED BY <1>1, <1>2, <1>3, <1>4, <1>5, <1>6, <1>7

LEMMA RespondEffects ==
  ASSUME RunInv, EffectInv, NEW q \in HttpCalls, NEW acted \in BOOLEAN, NEW ok \in
         BOOLEAN, NEW renders \in BOOLEAN, Respond(q, acted, ok, renders)
  PROVE  EffectInv'
<1> USE DEF RunInv, EffectInv
<1>a. PICK undo \in {"none", "available", "unavailable"} :
        /\ Appended(requests', requests, [call |-> q, undo |-> undo])
        /\ IF undo = "none" THEN undoCalls' = undoCalls
           ELSE Appended(undoCalls', undoCalls, Len(requests) + 1)
  BY RespondAppends
<1>b. Appended(requests', requests, [call |-> q, undo |-> undo])
  BY <1>a
<1>c. /\ at \notin {"replay", "replaySend"} /\ pgFate # "committed"
      /\ ~(at = "finPg" /\ decision = "commit")
  BY NoHandler DEF Respond
<1>d. /\ hpc[q] = "sending" /\ q \notin Stageable /\ origin[q] = "none"
      /\ \A i \in DOMAIN requests : requests[i].call # q
  BY DEF Respond, HandlerInv
<1>e. \A c \in HttpCalls : origin'[c] = origin[c] \/ (c = q /\ origin'[c] = "applied")
  BY DEF Respond, HttpsTypes
<1>f. UNCHANGED <<at, todo, decision, ghErr, finErr, pgFate, record, disk, staged, gpc, ghWorld,
                  ghRecords>>
  BY DEF Respond, HandlerFrame
<1>1. ApprovalInv'
  <2>1. \A c \in HttpCalls : hpc'[c] = IF c = q THEN "done" ELSE hpc[c]
    BY DEF Respond, Move, HttpsTypes
  <2> QED BY <1>b, <1>d, <1>e, <1>f, <2>1 DEF ApprovalInv, Appended
<1>2. UndoListInv'
  <2>1. /\ \A k \in DOMAIN undoCalls : undoCalls[k] \in DOMAIN requests
        /\ at \in {"undo", "undoSend"} => \A k \in DOMAIN todo : todo[k] \in DOMAIN requests
    BY DEF HttpsTypes, TodoInv
  <2>2. \A k \in DOMAIN undoCalls' : requests'[undoCalls'[k]].undo # "none"
    <3>1. CASE undo = "none"
      BY <1>a, <1>b, <2>1, <3>1 DEF UndoListInv, Appended
    <3>2. CASE undo # "none"
      <4>1. Appended(undoCalls', undoCalls, Len(requests) + 1)
        BY <1>a, <3>2
      <4>2. requests'[Len(requests) + 1].undo # "none"
        BY <1>b, <3>2 DEF Appended
      <4>3. \A k \in DOMAIN undoCalls : requests'[undoCalls[k]].undo # "none"
        BY <1>b, <2>1 DEF UndoListInv, Appended
      <4> QED BY <4>1, <4>2, <4>3 DEF Appended
    <3> QED BY <3>1, <3>2
  <2> QED BY <1>b, <1>f, <2>1, <2>2 DEF UndoListInv, Appended
<1>3. SendInv'
  BY <1>d, <1>e, <1>f, ListedCalls DEF SendInv, KnowsSends
<1>4. UnsentInv'
  BY <1>d, <1>e, <1>f DEF UnsentInv
<1>5. UndoInv'
  <2>1. at = "undoSend" => Head(todo) \in DOMAIN requests
    BY InHand
  <2>2. \A i \in DOMAIN requests : origin'[requests[i].call] = origin[requests[i].call]
    BY <1>d, <1>e, ListedCalls
  <2>3. origin'[q] # "undone"
    BY <1>d, <1>e
  <2> QED BY <1>b, <1>f, <2>1, <2>2, <2>3 DEF UndoInv, KnowsUndos, Appended
<1>6. UndoneInv'
  BY <1>e, <1>f DEF UndoneInv
<1>7. ReplayInv'
  BY <1>c, <1>f DEF ReplayInv
<1>8. DeliveryInv'
  BY <1>c, <1>f DEF DeliveryInv
<1> QED BY <1>1, <1>2, <1>3, <1>4, <1>5, <1>6, <1>7, <1>8

(***************************************************************************)
(* The invocations of gh.                                                  *)
(***************************************************************************)
LEMMA GhAskEffects ==
  ASSUME RunInv, EffectInv, NEW g \in GhCalls, GhAsk(g)
  PROVE  EffectInv'
<1> USE DEF RunInv, EffectInv
<1>1. ApprovalInv' /\ UndoListInv'
  BY DEF GhAsk, ShimFrame, MoveGh, HttpsTypes, GhTypes, ApprovalInv, UndoListInv
<1>2. SendInv' /\ UnsentInv'
  BY DEF GhAsk, ShimFrame, MoveGh, SendInv, KnowsSends, UnsentInv
<1>3. UndoInv' /\ UndoneInv'
  BY DEF GhAsk, ShimFrame, MoveGh, UndoInv, KnowsUndos, PhaseInv, UndoneInv
<1>4. ReplayInv' /\ DeliveryInv'
  BY DEF GhAsk, ShimFrame, MoveGh, ReplayInv, Replayed, Delivered, PhaseInv, DeliveryInv
<1> QED BY <1>1, <1>2, <1>3, <1>4

LEMMA GhAskCancelledEffects ==
  ASSUME RunInv, EffectInv, NEW g \in GhCalls, GhAskCancelled(g)
  PROVE  EffectInv'
<1> USE DEF RunInv, EffectInv
<1>a. Appended(ghRecords', ghRecords, [call |-> g, state |-> "not-run", undo |-> "none"])
  BY RecordAppends DEF GhAskCancelled, GhStates
<1>1. ApprovalInv'
  BY <1>a DEF GhAskCancelled, ShimFrame, MoveGh, GhTypes, ApprovalInv, Appended
<1>2. UndoListInv'
  BY DEF GhAskCancelled, ShimFrame, MoveGh, AppendRecord, UndoListInv
<1>3. SendInv' /\ UnsentInv'
  BY DEF GhAskCancelled, ShimFrame, MoveGh, AppendRecord, SendInv, KnowsSends, UnsentInv
<1>4. UndoInv' /\ UndoneInv'
  BY DEF GhAskCancelled, ShimFrame, MoveGh, AppendRecord, UndoInv, KnowsUndos, PhaseInv,
     UndoneInv
<1>5. ReplayInv' /\ DeliveryInv'
  BY DEF GhAskCancelled, ShimFrame, MoveGh, AppendRecord, ReplayInv, Replayed, Delivered,
     PhaseInv, DeliveryInv
<1> QED BY <1>1, <1>2, <1>3, <1>4, <1>5

LEMMA AnswerGhEffects ==
  ASSUME RunInv, EffectInv, NEW g \in GhCalls, NEW yes \in BOOLEAN, AnswerGh(g, yes)
  PROVE  EffectInv'
<1> USE DEF RunInv, EffectInv
<1>1. ApprovalInv' /\ UndoListInv'
  BY DEF AnswerGh, ShimFrame, MoveGh, HttpsTypes, GhTypes, ApprovalInv, UndoListInv
<1>2. SendInv' /\ UnsentInv'
  BY DEF AnswerGh, ShimFrame, MoveGh, SendInv, KnowsSends, UnsentInv
<1>3. UndoInv' /\ UndoneInv'
  BY DEF AnswerGh, ShimFrame, MoveGh, UndoInv, KnowsUndos, PhaseInv, UndoneInv
<1>4. ReplayInv' /\ DeliveryInv'
  BY DEF AnswerGh, ShimFrame, MoveGh, ReplayInv, Replayed, Delivered, PhaseInv,
     DeliveryInv
<1> QED BY <1>1, <1>2, <1>3, <1>4

LEMMA RecordGhEffects ==
  ASSUME RunInv, EffectInv, NEW g \in GhCalls, NEW saved \in BOOLEAN, RecordGh(g, saved)
  PROVE  EffectInv'
<1> USE DEF RunInv, EffectInv
<1>a. /\ Written(saved)
      /\ record'.staged = record.staged /\ record'.requests = record.requests
      /\ record'.approvals = IF gpc[g] = "agreed" THEN record.approvals \cup {g}
                             ELSE record.approvals
  <2>1. CASE gpc[g] = "agreed"
    <3>1. Update(WithApproval(g, TRUE), saved)
      BY <2>1 DEF RecordGh
    <3> QED BY <2>1, <3>1, ApprovalWritten
  <2>2. CASE gpc[g] # "agreed"
    <3>1. Update(WithApproval(g, FALSE), saved)
      BY <2>2 DEF RecordGh
    <3> QED BY <2>2, <3>1, ApprovalWritten
  <2> QED BY <2>1, <2>2
<1>b. PICK state \in GhStates :
        Appended(ghRecords', ghRecords, [call |-> g, state |-> state, undo |-> "none"])
  BY RecordAppends DEF RecordGh, GhStates
<1>1. ApprovalInv'
  BY <1>a, <1>b DEF RecordGh, ShimFrame, MoveGh, AppendRecord, GhTypes, ApprovalInv, Written, Appended
<1>2. UndoListInv'
  BY DEF RecordGh, ShimFrame, MoveGh, AppendRecord, Update, UndoListInv
<1>3. SendInv'
  BY <1>a DEF RecordGh, ShimFrame, SendInv, KnowsSends, Written
<1>4. UnsentInv'
  BY DEF RecordGh, ShimFrame, MoveGh, AppendRecord, Update, UnsentInv
<1>5. UndoInv'
  BY <1>a DEF RecordGh, ShimFrame, UndoInv, KnowsUndos, Written
<1>6. UndoneInv'
  BY DEF RecordGh, ShimFrame, MoveGh, AppendRecord, Update, PhaseInv, UndoneInv
<1>7. ReplayInv' /\ DeliveryInv'
  BY DEF RecordGh, ShimFrame, MoveGh, AppendRecord, Update, ReplayInv, Replayed,
     Delivered, PhaseInv, DeliveryInv
<1> QED BY <1>1, <1>2, <1>3, <1>4, <1>5, <1>6, <1>7

LEMMA GhFinishEffects ==
  ASSUME RunInv, EffectInv, NEW g \in GhCalls, NEW acted \in BOOLEAN, NEW result \in
         {"ran", "failed", "not-run"}, NEW url \in BOOLEAN, NEW reported \in BOOLEAN,
         GhFinish(g, acted, result, url, reported)
  PROVE  EffectInv'
<1> USE DEF RunInv, EffectInv
<1>a. /\ DOMAIN ghRecords' = DOMAIN ghRecords
      /\ \A i \in DOMAIN ghRecords :
           /\ ghRecords'[i].call = ghRecords[i].call
           /\ ghRecords[i].call # g => ghRecords'[i] = ghRecords[i]
  <2>1. CASE UNCHANGED ghRecords
    BY <2>1
  <2>2. CASE RecordOutcome(g, result, url)
    BY <2>2, OutcomeRecords DEF GhTypes, SameInvocations
  <2> QED BY <2>1, <2>2 DEF GhFinish
<1>1. ApprovalInv'
  <2>1. /\ gpc[g] = "running" /\ UNCHANGED <<record, disk, hpc, origin, requests>>
        /\ \A h \in GhCalls : h # g => gpc'[h] = gpc[h] /\ ghWorld'[h] = ghWorld[h]
    BY DEF GhFinish, ShimFrame, MoveGh, GhTypes
  <2> QED BY <1>a, <2>1 DEF ApprovalInv
<1>2. UndoListInv'
  BY DEF GhFinish, ShimFrame, MoveGh, UndoListInv
<1>3. SendInv' /\ UnsentInv'
  BY DEF GhFinish, ShimFrame, MoveGh, SendInv, KnowsSends, UnsentInv
<1>4. UndoInv' /\ UndoneInv'
  BY DEF GhFinish, ShimFrame, MoveGh, UndoInv, KnowsUndos, PhaseInv, UndoneInv
<1>5. ReplayInv' /\ DeliveryInv'
  BY DEF GhFinish, ShimFrame, MoveGh, ReplayInv, Replayed, Delivered, PhaseInv,
     DeliveryInv
<1> QED BY <1>1, <1>2, <1>3, <1>4, <1>5

(***************************************************************************)
(* The HTTPS proxy, sealed and finalized by runCommand.                    *)
(***************************************************************************)
LEMMA HttpsSealEffects ==
  ASSUME RunInv, EffectInv, HttpsSeal
  PROVE  EffectInv'
<1> USE DEF RunInv, EffectInv
<1>1. ApprovalInv' /\ UndoListInv'
  BY DEF HttpsSeal, Goto, HttpsTypes, GhTypes, ApprovalInv, UndoListInv
<1>2. SendInv' /\ UnsentInv'
  BY DEF HttpsSeal, Goto, SendInv, KnowsSends, UnsentInv
<1>3. UndoInv' /\ UndoneInv'
  BY DEF HttpsSeal, Goto, UndoInv, KnowsUndos, PhaseInv, UndoneInv
<1>4. ReplayInv' /\ DeliveryInv'
  BY DEF HttpsSeal, Goto, ReplayInv, Replayed, Delivered, PhaseInv, DeliveryInv
<1> QED BY <1>1, <1>2, <1>3, <1>4

LEMMA HttpsSealedEffects ==
  ASSUME RunInv, EffectInv, NEW ok \in BOOLEAN, HttpsSealed(ok)
  PROVE  EffectInv'
<1> USE DEF RunInv, EffectInv
<1>1. ApprovalInv' /\ UndoListInv'
  BY DEF HttpsSealed, Goto, HttpsTypes, GhTypes, ApprovalInv, UndoListInv
<1>2. SendInv' /\ UnsentInv'
  BY DEF HttpsSealed, Goto, SendInv, KnowsSends, UnsentInv
<1>3. UndoInv' /\ UndoneInv'
  BY DEF HttpsSealed, Goto, UndoInv, KnowsUndos, PhaseInv, UndoneInv
<1>4. ReplayInv' /\ DeliveryInv'
  BY DEF HttpsSealed, Goto, ReplayInv, Replayed, Delivered, PhaseInv, DeliveryInv
<1> QED BY <1>1, <1>2, <1>3, <1>4

LEMMA FinalizeHttpsEffects ==
  ASSUME RunInv, EffectInv, NEW saved \in BOOLEAN, FinalizeHttps(saved)
  PROVE  EffectInv'
<1> USE DEF RunInv, EffectInv
<1>a. SameCalls(staged')
  BY FinalizeHttpsEffect
<1>b. IF decision = "commit" /\ ~ghErr
      THEN UNCHANGED <<record, disk>> /\ at' = "replay" /\ todo' = [i \in DOMAIN staged |-> i]
      ELSE /\ Written(saved) /\ record'.staged = staged' /\ record'.requests = requests
           /\ record'.approvals = record.approvals
           /\ at' = "undo" /\ todo' = undoCalls
  BY FinalizeHttpsEffect
<1>c. at = "finHttps" /\ UNCHANGED <<hpc, gpc, origin, ghWorld, requests, ghRecords, undoCalls,
                                     decision, ghErr, pgFate>>
  BY DEF FinalizeHttps, FinalizeFrame
<1>1. ApprovalInv'
  BY <1>b, <1>c DEF ApprovalInv, Written
<1>2. UndoListInv'
  BY <1>b, <1>c DEF UndoListInv
<1>3. SendInv'
  <2>1. \A i \in DOMAIN staged : origin[staged[i].call] = "none"
    BY <1>c, ListedCalls DEF UnsentInv
  <2> QED BY <1>a, <1>b, <1>c, <2>1 DEF SendInv, KnowsSends, SameCalls
<1>4. UnsentInv'
  BY <1>b, <1>c DEF UnsentInv
<1>5. UndoInv'
  <2>1. \A q \in HttpCalls : origin[q] # "undone"
    BY <1>c DEF UndoneInv
  <2> QED BY <1>b, <1>c, <2>1, ListedCalls DEF UndoInv, KnowsUndos
<1>6. UndoneInv'
  <2>1. decision = "discard" \/ decision = "commit"
    BY DEF ControlTypes
  <2> QED BY <1>b, <1>c, <2>1 DEF UndoneInv
<1>7. ReplayInv'
  <2>1. CASE decision = "commit" /\ ~ghErr
    <3>1. Len(todo') = Len(staged) /\ DOMAIN todo' = DOMAIN staged
          /\ \A k \in DOMAIN todo' : todo'[k] = k
      BY <1>b, <2>1 DEF HttpsTypes
    <3>2. \A i \in DOMAIN staged : origin[staged[i].call] = "none" /\ i > 0 /\ i \in Nat
      BY <1>c, ListedCalls DEF UnsentInv, HttpsTypes
    <3>3. Len(staged) \in Nat
      BY DEF HttpsTypes
    <3> QED BY <1>a, <1>c, <2>1, <3>1, <3>2, <3>3 DEF ReplayInv, Replayed, SameCalls
  <2>2. CASE ~(decision = "commit" /\ ~ghErr)
    BY <1>b, <2>2 DEF ReplayInv
  <2> QED BY <2>1, <2>2
<1>8. DeliveryInv'
  BY <1>b, <1>c DEF PhaseInv, DeliveryInv
<1> QED BY <1>1, <1>2, <1>3, <1>4, <1>5, <1>6, <1>7, <1>8

LEMMA ReplayEffects ==
  ASSUME RunInv, EffectInv, NEW saved \in BOOLEAN, Replay(saved)
  PROVE  EffectInv'
<1> USE DEF RunInv, EffectInv
<1>a. /\ Head(todo) \in DOMAIN staged
      /\ MarkedCalls(staged', Head(todo), IF saved THEN "sending" ELSE "not-sent")
      /\ MarkedCalls(record'.staged, Head(todo), "sending")
  BY ReplayEffect
<1>b. /\ Written(saved) /\ record'.requests = requests /\ record'.approvals = record.approvals
  BY ReplayEffect
<1>c. /\ at = "replay" /\ todo # <<>> /\ finErr' = (finErr \/ ~saved)
      /\ IF saved THEN at' = "replaySend" /\ todo' = todo
         ELSE at' = "replay" /\ todo' = Tail(todo)
      /\ UNCHANGED <<hpc, gpc, origin, ghWorld, requests, ghRecords, undoCalls, decision, ghErr,
                     pgFate>>
  BY DEF Replay, FinalizeFrame
<1>d. /\ Head(todo) = todo[1] /\ 1 \in DOMAIN todo /\ Len(todo) \in Nat \ {0}
      /\ Len(Tail(todo)) = Len(todo) - 1
      /\ \A k \in DOMAIN Tail(todo) : Tail(todo)[k] = todo[k + 1] /\ k + 1 \in DOMAIN todo
                                      /\ k \in Nat
  BY <1>c, TailOf DEF ControlTypes
<1>e. /\ Head(todo) = Replayed + 1 /\ Replayed \in Nat
      /\ origin[staged[Head(todo)].call] = "none"
  <2>1. Head(todo) = Replayed + 1 /\ Len(todo) <= Len(staged)
    BY <1>c, <1>d DEF ReplayInv
  <2>2. Len(staged) \in Nat /\ Len(todo) \in Nat
    BY <1>d DEF HttpsTypes
  <2>3. Replayed \in Nat
    BY <2>1, <2>2 DEF Replayed
  <2> QED BY <1>a, <1>c, <2>1, <2>3 DEF ReplayInv
<1>1. ApprovalInv'
  BY <1>b, <1>c DEF ApprovalInv, Written
<1>2. UndoListInv'
  BY <1>c DEF UndoListInv
<1>3. SendInv'
  <2>1. \A i \in DOMAIN staged : origin[staged[i].call] # "none" => i # Head(todo)
    BY <1>e
  <2>2. KnowsSends(staged)'
    BY <1>a, <1>c, <2>1 DEF SendInv, KnowsSends, MarkedCalls, SameCalls
  <2>3. KnowsSends(record.staged)'
    BY <1>a, <1>c, <2>1 DEF SendInv, KnowsSends, MarkedCalls, SameCalls
  <2>4. KnowsSends(disk.staged)'
    <3>1. CASE saved
      BY <1>b, <2>3, <3>1 DEF KnowsSends, Written
    <3>2. CASE ~saved
      BY <1>a, <1>b, <1>c, <3>2 DEF SendInv, KnowsSends, Written, MarkedCalls, SameCalls
    <3> QED BY <3>1, <3>2
  <2> QED BY <2>2, <2>3, <2>4 DEF SendInv
<1>4. UnsentInv'
  BY <1>c DEF UnsentInv
<1>5. UndoInv'
  <2>1. \A q \in HttpCalls : origin[q] # "undone"
    BY <1>c DEF UndoneInv, ReplayInv
  <2> QED BY <1>c, <2>1, ListedCalls DEF UndoInv, KnowsUndos
<1>6. UndoneInv'
  BY <1>c DEF UndoneInv, ReplayInv
<1>7. ReplayInv'
  <2>1. Len(staged') = Len(staged) /\ DOMAIN staged' = DOMAIN staged
        /\ \A i \in DOMAIN staged : staged'[i].call = staged[i].call
    BY <1>a DEF MarkedCalls, SameCalls
  <2>2. Len(staged) \in Nat /\ \A i \in DOMAIN staged : i \in Nat
    BY DEF HttpsTypes
  <2>3. CASE saved
    <3>1. \A i \in DOMAIN staged : i <= Replayed => staged'[i].state = staged[i].state
      BY <1>a, <1>e, <2>2 DEF MarkedCalls, Replayed
    <3>2. Replayed' = Replayed
      BY <1>c, <2>1, <2>3 DEF Replayed
    <3>3. \A i \in DOMAIN staged : ~(i > Replayed) => i <= Replayed
      BY <1>e, <2>2
    <3> QED BY <1>c, <2>1, <2>3, <3>1, <3>2, <3>3 DEF ReplayInv, Delivered
  <2>4. CASE ~saved
    <3>0. Len(todo') = Len(todo) - 1 /\ Len(staged') = Len(staged)
      BY <1>c, <1>d, <2>1, <2>4
    <3>1. Replayed' = Replayed + 1 /\ Replayed \in Nat
      BY <1>d, <1>e, <2>2, <3>0 DEF Replayed
    <3>2. \A k \in DOMAIN todo' : todo'[k] = Replayed' + k
      BY <1>c, <1>d, <2>4, <3>1 DEF ReplayInv
    <3>3. Len(todo') <= Len(staged')
      BY <1>c, <1>d, <2>1, <2>2, <2>4 DEF ReplayInv
    <3>4. \A i \in DOMAIN staged : i > Replayed' => origin'[staged'[i].call] = "none"
      BY <1>c, <2>1, <2>2, <3>1 DEF ReplayInv
    <3>5. finErr'
      BY <1>c, <2>4
    <3> QED BY <1>c, <2>1, <3>2, <3>3, <3>4, <3>5 DEF ReplayInv
  <2> QED BY <2>3, <2>4
<1>8. DeliveryInv'
  BY <1>c DEF PhaseInv, DeliveryInv
<1> QED BY <1>1, <1>2, <1>3, <1>4, <1>5, <1>6, <1>7, <1>8

LEMMA UndoEffects ==
  ASSUME RunInv, EffectInv, NEW saved \in BOOLEAN, Undo(saved)
  PROVE  EffectInv'
<1> USE DEF RunInv, EffectInv
<1>a. /\ Head(todo) \in DOMAIN requests /\ Head(todo) = todo[1] /\ 1 \in DOMAIN todo
      /\ \A k \in DOMAIN Tail(todo) : Tail(todo)[k] = todo[k + 1] /\ k + 1 \in DOMAIN todo
  BY UndoEffect, TailOf DEF Undo, ControlTypes
<1>b. /\ at = "undo" /\ at' \in {"undo", "undoSend"}
      /\ todo' = todo \/ (todo' = Tail(todo) /\ at' = "undo")
      /\ UNCHANGED <<hpc, gpc, origin, ghWorld, staged, ghRecords, undoCalls, decision, ghErr,
                     pgFate>>
  BY DEF Undo, FinalizeFrame
<1>c. \/ UNCHANGED <<requests, record, disk>> /\ at' = "undo"
      \/ /\ MarkedRequests(requests', Head(todo), IF saved THEN "undoing" ELSE "failed")
         /\ MarkedRequests(record'.requests, Head(todo), "undoing")
         /\ Written(saved) /\ record'.staged = staged /\ record'.approvals = record.approvals
         /\ saved => at' = "undoSend" /\ todo' = todo
         /\ ~saved => at' = "undo"
  BY UndoEffect DEF Undo
<1>1. ApprovalInv'
  <2>1. CASE UNCHANGED <<requests, record, disk>>
    BY <1>b, <2>1 DEF ApprovalInv
  <2>2. ASSUME Written(saved), record'.approvals = record.approvals,
               NEW state \in UndoStates, MarkedRequests(requests', Head(todo), state)
        PROVE  ApprovalInv'
    <3>1. /\ disk'.approvals \subseteq record'.approvals
          /\ disk.approvals \subseteq disk'.approvals
      BY <2>2 DEF ApprovalInv, Written
    <3>2. requests[Head(todo)].undo # "none"
      BY <1>a, <1>b DEF UndoListInv
    <3>3. /\ DOMAIN requests' = DOMAIN requests
          /\ \A i \in DOMAIN requests : /\ requests'[i].call = requests[i].call
                                        /\ i = Head(todo) \/ requests'[i].undo = requests[i].undo
      BY <2>2 DEF MarkedRequests, SameRequests
    <3> QED BY <1>b, <3>1, <3>2, <3>3 DEF ApprovalInv
  <2> QED BY <1>c, <2>1, <2>2 DEF UndoStates
<1>2. UndoListInv'
  <2>1. \A i \in DOMAIN requests : requests[i].undo # "none" => requests'[i].undo # "none"
    BY <1>c DEF MarkedRequests
  <2>2. /\ \A k \in DOMAIN undoCalls : undoCalls[k] \in DOMAIN requests
        /\ \A k \in DOMAIN todo : todo[k] \in DOMAIN requests
    BY <1>b DEF HttpsTypes, TodoInv
  <2>3. \A k \in DOMAIN todo' : \E j \in DOMAIN todo : todo'[k] = todo[j]
    BY <1>a, <1>b
  <2> QED BY <1>b, <2>1, <2>2, <2>3 DEF UndoListInv
<1>3. SendInv'
  <2>1. \A i \in DOMAIN staged : origin[staged[i].call] = "none"
    BY <1>b, ListedCalls DEF UnsentInv
  <2> QED BY <1>b, <2>1 DEF SendInv, KnowsSends
<1>4. UnsentInv'
  BY <1>b DEF UnsentInv
<1>5. UndoInv'
  <2>1. CASE UNCHANGED <<requests, record, disk>> /\ at' = "undo"
    BY <1>b, <2>1 DEF UndoInv, KnowsUndos
  <2>2. CASE /\ MarkedRequests(requests', Head(todo), IF saved THEN "undoing" ELSE "failed")
             /\ MarkedRequests(record'.requests, Head(todo), "undoing")
             /\ Written(saved)
             /\ saved => at' = "undoSend" /\ todo' = todo
             /\ ~saved => at' = "undo"
    <3>1. KnowsUndos(requests)'
      BY <1>b, <2>2 DEF UndoInv, KnowsUndos, MarkedRequests, SameRequests
    <3>2. KnowsUndos(record.requests)'
      BY <1>b, <2>2 DEF UndoInv, KnowsUndos, MarkedRequests, SameRequests
    <3>3. KnowsUndos(disk.requests)'
      <4>1. CASE saved
        BY <2>2, <3>2, <4>1 DEF KnowsUndos, Written
      <4>2. CASE ~saved
        BY <1>b, <2>2, <4>2 DEF UndoInv, KnowsUndos, Written, MarkedRequests, SameRequests
      <4> QED BY <4>1, <4>2
    <3> QED BY <3>1, <3>2, <3>3 DEF UndoInv
  <2> QED BY <1>c, <2>1, <2>2
<1>6. UndoneInv'
  BY <1>b DEF UndoneInv
<1>7. ReplayInv'
  BY <1>b DEF ReplayInv
<1>8. DeliveryInv'
  BY <1>b DEF PhaseInv, DeliveryInv
<1> QED BY <1>1, <1>2, <1>3, <1>4, <1>5, <1>6, <1>7, <1>8

LEMMA EndHttpsEffects ==
  ASSUME RunInv, EffectInv, NEW saved \in BOOLEAN, EndHttps(saved)
  PROVE  EffectInv'
<1> USE DEF RunInv, EffectInv
<1>a. /\ Written(saved) /\ record'.staged = staged /\ record'.requests = requests
      /\ record'.approvals = record.approvals
  BY PersistRecord DEF EndHttps, HttpsTypes, AuditTypes
<1>b. /\ at \in {"replay", "undo"} /\ at' = "finPg" /\ todo = <<>>
      /\ finErr' = (finErr \/ ~saved)
      /\ UNCHANGED <<hpc, gpc, origin, ghWorld, staged, requests, ghRecords, undoCalls, decision,
                     ghErr, pgFate>>
  BY DEF EndHttps, FinalizeFrame
<1>1. ApprovalInv'
  BY <1>a, <1>b DEF ApprovalInv, Written
<1>2. UndoListInv'
  BY DEF EndHttps, Goto, Persist, Update, FinalizeFrame, UndoListInv
<1>3. SendInv'
  BY <1>a, <1>b DEF SendInv, KnowsSends, Written
<1>4. UnsentInv'
  BY DEF EndHttps, Goto, Persist, Update, FinalizeFrame, UnsentInv
<1>5. UndoInv'
  BY <1>a, <1>b DEF UndoInv, KnowsUndos, Written
<1>6. UndoneInv'
  BY <1>b DEF UndoneInv, ReplayInv
<1>7. ReplayInv'
  BY DEF EndHttps, Goto, Persist, Update, FinalizeFrame, ReplayInv, Replayed, Delivered
<1>8. DeliveryInv'
  <2>1. CASE at = "replay"
    <3>1. Replayed = Len(staged) /\ \A i \in DOMAIN staged : ~(i > Replayed)
      BY <1>b DEF Replayed, HttpsTypes
    <3>2. \A i \in DOMAIN staged : finErr \/ Delivered(i)
      BY <2>1, <3>1 DEF ReplayInv
    <3> QED BY <1>b, <2>1, <3>2 DEF DeliveryInv, Delivered, PhaseInv
  <2>2. CASE at = "undo"
    <3>1. decision = "discard" \/ ghErr
      BY <2>2 DEF UndoneInv
    <3> QED BY <1>b, <2>2, <3>1 DEF DeliveryInv, PhaseInv
  <2> QED BY <1>b, <2>1, <2>2
<1> QED BY <1>1, <1>2, <1>3, <1>4, <1>5, <1>6, <1>7, <1>8

LEMMA ReplaySendEffects ==
  ASSUME RunInv, EffectInv, NEW acted \in BOOLEAN, NEW ok \in BOOLEAN, NEW saved \in
         BOOLEAN, ReplaySend(acted, ok, saved)
  PROVE  EffectInv'
<1> USE DEF RunInv, EffectInv
<1>a. /\ Head(todo) \in DOMAIN staged /\ staged[Head(todo)].call \in Stageable
      /\ MarkedCalls(staged', Head(todo), IF ok THEN "sent" ELSE "unknown")
      /\ \A q \in HttpCalls : origin'[q] = IF acted /\ q = staged[Head(todo)].call
                                           THEN "applied" ELSE origin[q]
  BY ReplaySendEffect
<1>b. /\ Written(saved) /\ record'.staged = staged' /\ record'.requests = requests
      /\ record'.approvals = record.approvals
  BY ReplaySendEffect
<1>c. /\ at = "replaySend" /\ todo # <<>> /\ finErr' = (finErr \/ ~ok \/ ~saved) /\ (ok => acted)
      /\ at' = "replay" /\ todo' = Tail(todo)
      /\ UNCHANGED <<hpc, gpc, ghWorld, requests, ghRecords, undoCalls, decision, ghErr, pgFate>>
  BY DEF ReplaySend, FinalizeFrame, ControlTypes
<1>d. /\ Head(todo) = todo[1] /\ 1 \in DOMAIN todo /\ Len(todo) \in Nat \ {0}
      /\ Len(Tail(todo)) = Len(todo) - 1
      /\ \A k \in DOMAIN Tail(todo) : Tail(todo)[k] = todo[k + 1] /\ k + 1 \in DOMAIN todo
                                      /\ k \in Nat
  BY <1>c, TailOf DEF ControlTypes
<1>e. Head(todo) = Replayed + 1 /\ Replayed \in Nat
  <2>1. Head(todo) = Replayed + 1 /\ Len(todo) <= Len(staged)
    BY <1>c, <1>d DEF ReplayInv
  <2>2. Len(staged) \in Nat /\ Len(todo) \in Nat
    BY <1>d DEF HttpsTypes
  <2>3. Replayed \in Nat
    BY <2>1, <2>2 DEF Replayed
  <2> QED BY <2>1, <2>3
<1>f. /\ \A i \in DOMAIN staged : staged[i].call \in HttpCalls
      /\ \A i \in DOMAIN requests :
           requests[i].call \in HttpCalls /\ origin'[requests[i].call] = origin[requests[i].call]
  BY <1>a, ListedCalls
<1>1. ApprovalInv'
  <2>1. \A q \in Approvable : origin'[q] = origin[q]
    BY <1>a
  <2> QED BY <1>b, <1>c, <2>1 DEF ApprovalInv, Written
<1>2. UndoListInv'
  BY <1>c DEF UndoListInv
<1>3. SendInv'
  <2>1. /\ DOMAIN staged' = DOMAIN staged
        /\ \A i \in DOMAIN staged :
             origin'[staged'[i].call] # "none" =>
               i = Head(todo) \/ origin[staged[i].call] # "none"
    <3>1. \A i \in DOMAIN staged : staged[i].call = staged[Head(todo)].call => i = Head(todo)
      BY <1>a DEF ListInv
    <3> QED BY <1>a, <1>f, <3>1 DEF MarkedCalls, SameCalls
  <2>2. \A i \in DOMAIN staged : staged'[i].state = IF i = Head(todo) THEN IF ok THEN "sent"
                                                    ELSE "unknown" ELSE staged[i].state
    BY <1>a DEF MarkedCalls
  <2>3. KnowsSends(staged)'
    BY <1>c, <2>1, <2>2 DEF SendInv, KnowsSends
  <2>4. KnowsSends(record.staged)'
    BY <1>b, <2>3 DEF KnowsSends
  <2>5. KnowsSends(disk.staged)'
    <3>1. CASE saved
      BY <1>b, <2>4, <3>1 DEF KnowsSends, Written
    <3>2. CASE ~saved
      BY <1>b, <1>c, <2>1, <3>2 DEF SendInv, KnowsSends, Written
    <3> QED BY <3>1, <3>2
  <2> QED BY <2>3, <2>4, <2>5 DEF SendInv
<1>4. UnsentInv'
  BY <1>c DEF UnsentInv
<1>5. UndoInv'
  <2>1. \A i \in DOMAIN requests : origin'[requests[i].call] # "undone"
    BY <1>c, <1>f DEF UndoneInv, ReplayInv
  <2> QED BY <1>c, <2>1 DEF UndoInv, KnowsUndos
<1>6. UndoneInv'
  <2>1. \A q \in HttpCalls : origin'[q] # "undone"
    BY <1>a, <1>c DEF UndoneInv, ReplayInv
  <2> QED BY <1>c, <2>1 DEF UndoneInv, ReplayInv
<1>7. ReplayInv'
  <2>1. Len(staged') = Len(staged) /\ DOMAIN staged' = DOMAIN staged
        /\ \A i \in DOMAIN staged : staged'[i].call = staged[i].call
    BY <1>a DEF MarkedCalls, SameCalls
  <2>2. Len(staged) \in Nat /\ \A i \in DOMAIN staged : i \in Nat
    BY DEF HttpsTypes
  <2>3. Replayed' = Replayed + 1 /\ Replayed \in Nat
    BY <1>c, <1>d, <1>e, <2>1, <2>2 DEF Replayed
  <2>4. \A k \in DOMAIN todo' : todo'[k] = Replayed' + k
    BY <1>c, <1>d, <2>3 DEF ReplayInv
  <2>5. Len(todo') <= Len(staged')
    BY <1>c, <1>d, <2>1, <2>2 DEF ReplayInv
  <2>6. \A i \in DOMAIN staged : i > Replayed' => origin'[staged'[i].call] = "none"
    <3>1. \A i \in DOMAIN staged : i > Replayed' => staged[i].call # staged[Head(todo)].call
      BY <1>a, <1>e, <2>2, <2>3 DEF ListInv
    <3> QED BY <1>a, <1>c, <1>f, <2>1, <2>2, <2>3, <3>1 DEF ReplayInv
  <2>7. ASSUME NEW i \in DOMAIN staged, i <= Replayed', ~finErr'
        PROVE  Delivered(i)'
    <3>1. CASE i = Head(todo)
      BY <1>a, <1>c, <1>f, <2>1, <2>7, <3>1 DEF MarkedCalls, Delivered
    <3>2. CASE i # Head(todo)
      <4>1. i <= Replayed /\ ~finErr
        <5>1. i <= Replayed
          BY <1>e, <2>2, <2>3, <2>7, <3>2
        <5>2. ~finErr
          BY <1>c, <2>7
        <5> QED BY <5>1, <5>2
      <4>2. Delivered(i)
        BY <1>c, <2>2, <2>3, <4>1 DEF ReplayInv
      <4> QED BY <1>a, <1>f, <2>1, <3>2, <4>2 DEF MarkedCalls, Delivered
    <3> QED BY <3>1, <3>2
  <2> QED BY <1>c, <2>1, <2>2, <2>3, <2>4, <2>5, <2>6, <2>7 DEF ReplayInv
<1>8. DeliveryInv'
  BY <1>c DEF PhaseInv, DeliveryInv
<1> QED BY <1>1, <1>2, <1>3, <1>4, <1>5, <1>6, <1>7, <1>8

LEMMA UndoSendEffects ==
  ASSUME RunInv, EffectInv, NEW acted \in BOOLEAN, NEW ok \in BOOLEAN, NEW saved \in
         BOOLEAN, UndoSend(acted, ok, saved)
  PROVE  EffectInv'
<1> USE DEF RunInv, EffectInv
<1>a. /\ Head(todo) \in DOMAIN requests /\ requests[Head(todo)].call \in HttpCalls \ Stageable
      /\ MarkedRequests(requests', Head(todo), IF ok THEN "succeeded" ELSE "failed")
      /\ \A q \in HttpCalls : origin'[q] = IF acted /\ q = requests[Head(todo)].call
                                           THEN "undone" ELSE origin[q]
  BY UndoSendEffect, ListedCalls
<1>b. /\ Written(saved) /\ record'.staged = staged /\ record'.requests = requests'
      /\ record'.approvals = record.approvals
  BY UndoSendEffect
<1>c. /\ at = "undoSend" /\ at' = "undo" /\ todo # <<>> /\ todo' = Tail(todo)
      /\ UNCHANGED <<hpc, gpc, ghWorld, staged, ghRecords, undoCalls, decision, ghErr, pgFate>>
  BY DEF UndoSend, FinalizeFrame, ControlTypes
<1>d. /\ Head(todo) = todo[1] /\ 1 \in DOMAIN todo
      /\ \A k \in DOMAIN Tail(todo) : Tail(todo)[k] = todo[k + 1] /\ k + 1 \in DOMAIN todo
  BY <1>c, TailOf DEF ControlTypes
<1>e. requests[Head(todo)].undo # "none"
  BY <1>c, <1>d DEF UndoListInv
<1>f. /\ DOMAIN requests' = DOMAIN requests
      /\ \A i \in DOMAIN requests :
           /\ requests[i].call \in HttpCalls /\ requests'[i].call = requests[i].call
           /\ requests'[i].undo = IF i # Head(todo) THEN requests[i].undo
                                  ELSE IF ok THEN "succeeded" ELSE "failed"
  BY <1>a, ListedCalls DEF MarkedRequests, SameRequests
<1>1. ApprovalInv'
  <2>1. /\ disk'.approvals \subseteq record'.approvals
        /\ disk.approvals \subseteq disk'.approvals
    BY <1>b DEF ApprovalInv, Written
  <2>2. requests[Head(todo)].call \in Approvable =>
          requests[Head(todo)].call \in disk.approvals
    BY <1>a, <1>e DEF ApprovalInv
  <2> QED BY <1>a, <1>c, <1>e, <1>f, <2>1, <2>2 DEF ApprovalInv
<1>2. UndoListInv'
  <2>1. \A i \in DOMAIN requests : requests[i].undo # "none" => requests'[i].undo # "none"
    BY <1>f
  <2>2. /\ \A k \in DOMAIN undoCalls : undoCalls[k] \in DOMAIN requests
        /\ \A k \in DOMAIN todo : todo[k] \in DOMAIN requests
    BY <1>c DEF HttpsTypes, TodoInv
  <2> QED BY <1>c, <1>d, <2>1, <2>2 DEF UndoListInv
<1>3. SendInv'
  <2>1. \A i \in DOMAIN staged : origin'[staged[i].call] = "none"
    BY <1>a, <1>c, ListedCalls DEF UnsentInv
  <2> QED BY <1>c, <2>1 DEF SendInv, KnowsSends
<1>4. UnsentInv'
  BY <1>a, <1>c DEF UnsentInv
<1>5. UndoInv'
  <2>1. \A i \in DOMAIN requests :
          origin'[requests[i].call] = "undone" =>
            i = Head(todo) \/ origin[requests[i].call] = "undone"
    BY <1>a, <1>f DEF ListInv
  <2>2. KnowsUndos(requests)'
    BY <1>c, <1>f, <2>1 DEF UndoInv, KnowsUndos
  <2>3. KnowsUndos(record.requests)'
    BY <1>b, <2>2 DEF KnowsUndos
  <2>4. KnowsUndos(disk.requests)'
    <3>1. CASE saved
      BY <1>b, <2>3, <3>1 DEF KnowsUndos, Written
    <3>2. CASE ~saved
      BY <1>b, <1>c, <1>f, <2>1, <3>2 DEF UndoInv, KnowsUndos, Written
    <3> QED BY <3>1, <3>2
  <2> QED BY <2>2, <2>3, <2>4 DEF UndoInv
<1>6. UndoneInv'
  <2>1. pgFate # "committed"
    BY <1>c DEF PhaseInv
  <2> QED BY <1>c, <2>1 DEF UndoneInv
<1>7. ReplayInv'
  BY <1>c DEF ReplayInv
<1>8. DeliveryInv'
  BY <1>c DEF PhaseInv, DeliveryInv
<1> QED BY <1>1, <1>2, <1>3, <1>4, <1>5, <1>6, <1>7, <1>8

(***************************************************************************)
(* The shim, sealed and finalized by runCommand.                           *)
(***************************************************************************)
LEMMA GhSealEffects ==
  ASSUME RunInv, EffectInv, GhSeal
  PROVE  EffectInv'
<1> USE DEF RunInv, EffectInv
<1>1. ApprovalInv' /\ UndoListInv'
  BY DEF GhSeal, Goto, HttpsTypes, GhTypes, ApprovalInv, UndoListInv
<1>2. SendInv' /\ UnsentInv'
  BY DEF GhSeal, Goto, SendInv, KnowsSends, UnsentInv
<1>3. UndoInv' /\ UndoneInv'
  BY DEF GhSeal, Goto, UndoInv, KnowsUndos, PhaseInv, UndoneInv
<1>4. ReplayInv' /\ DeliveryInv'
  BY DEF GhSeal, Goto, ReplayInv, Replayed, Delivered, PhaseInv, DeliveryInv
<1> QED BY <1>1, <1>2, <1>3, <1>4

LEMMA GhSealedEffects ==
  ASSUME RunInv, EffectInv, NEW ok \in BOOLEAN, GhSealed(ok)
  PROVE  EffectInv'
<1> USE DEF RunInv, EffectInv
<1>1. ApprovalInv' /\ UndoListInv'
  BY DEF GhSealed, Goto, HttpsTypes, GhTypes, ApprovalInv, UndoListInv
<1>2. SendInv' /\ UnsentInv'
  BY DEF GhSealed, Goto, SendInv, KnowsSends, UnsentInv
<1>3. UndoInv' /\ UndoneInv'
  BY DEF GhSealed, Goto, UndoInv, KnowsUndos, PhaseInv, UndoneInv
<1>4. ReplayInv' /\ DeliveryInv'
  BY DEF GhSealed, Goto, ReplayInv, Replayed, Delivered, PhaseInv, DeliveryInv
<1> QED BY <1>1, <1>2, <1>3, <1>4

LEMMA FinalizeGhEffects ==
  ASSUME RunInv, EffectInv, FinalizeGh
  PROVE  EffectInv'
<1> USE DEF RunInv, EffectInv
<1>1. ApprovalInv' /\ UndoListInv'
  BY DEF FinalizeGh, Goto, GhFinalizeFrame, HttpsTypes, GhTypes, ApprovalInv, UndoListInv
<1>2. SendInv' /\ UnsentInv'
  BY DEF FinalizeGh, Goto, GhFinalizeFrame, SendInv, KnowsSends, UnsentInv
<1>3. UndoInv' /\ UndoneInv'
  BY DEF FinalizeGh, Goto, GhFinalizeFrame, UndoInv, KnowsUndos, PhaseInv, UndoneInv
<1>4. ReplayInv' /\ DeliveryInv'
  BY DEF FinalizeGh, Goto, GhFinalizeFrame, ReplayInv, Replayed, Delivered, PhaseInv,
     DeliveryInv
<1> QED BY <1>1, <1>2, <1>3, <1>4

LEMMA UndoGhStopsEffects ==
  ASSUME RunInv, EffectInv, UndoGhStops
  PROVE  EffectInv'
<1> USE DEF RunInv, EffectInv
<1>1. ApprovalInv' /\ UndoListInv'
  BY DEF UndoGhStops, GhFinalizeFrame, HttpsTypes, GhTypes, ApprovalInv, UndoListInv
<1>2. SendInv' /\ UnsentInv'
  BY DEF UndoGhStops, GhFinalizeFrame, SendInv, KnowsSends, UnsentInv
<1>3. UndoInv' /\ UndoneInv'
  BY DEF UndoGhStops, GhFinalizeFrame, UndoInv, KnowsUndos, PhaseInv, UndoneInv
<1>4. ReplayInv' /\ DeliveryInv'
  BY DEF UndoGhStops, GhFinalizeFrame, ReplayInv, Replayed, Delivered, PhaseInv,
     DeliveryInv
<1> QED BY <1>1, <1>2, <1>3, <1>4

LEMMA EndGhEffects ==
  ASSUME RunInv, EffectInv, EndGh
  PROVE  EffectInv'
<1> USE DEF RunInv, EffectInv
<1>1. ApprovalInv' /\ UndoListInv'
  BY DEF EndGh, Goto, GhFinalizeFrame, HttpsTypes, GhTypes, ApprovalInv, UndoListInv
<1>2. SendInv' /\ UnsentInv'
  BY DEF EndGh, Goto, GhFinalizeFrame, SendInv, KnowsSends, UnsentInv
<1>3. UndoInv' /\ UndoneInv'
  BY DEF EndGh, Goto, GhFinalizeFrame, UndoInv, KnowsUndos, PhaseInv, UndoneInv
<1>4. ReplayInv' /\ DeliveryInv'
  BY DEF EndGh, Goto, GhFinalizeFrame, ReplayInv, Replayed, Delivered, PhaseInv,
     DeliveryInv
<1> QED BY <1>1, <1>2, <1>3, <1>4

LEMMA UndoGhEffects ==
  ASSUME RunInv, EffectInv, NEW acted \in BOOLEAN, NEW ok \in BOOLEAN, UndoGh(acted, ok)
  PROVE  EffectInv'
<1> USE DEF RunInv, EffectInv
<1>a. /\ Head(todo) \in DOMAIN ghRecords /\ ghRecords[Head(todo)].call \in GhCalls
      /\ acted => ghRecords[Head(todo)].undo = "available"
      /\ \A g \in GhCalls : ghWorld'[g] = IF acted /\ g = ghRecords[Head(todo)].call
                                          THEN "undone" ELSE ghWorld[g]
      /\ MarkedInvocations(ghRecords', Head(todo),
           IF ghRecords[Head(todo)].undo # "available" THEN "unavailable"
           ELSE IF ok THEN "succeeded" ELSE "failed")
  BY UndoGhEffect
<1>b. at = "undoGh" /\ todo # <<>> /\ todo' = Tail(todo)
      /\ UNCHANGED <<at, record, disk, hpc, gpc, origin, requests, decision, pgFate>>
  BY DEF UndoGh, GhFinalizeFrame
<1>1. ApprovalInv'
  <2>1. /\ DOMAIN ghRecords' = DOMAIN ghRecords
        /\ \A i \in DOMAIN ghRecords :
             /\ ghRecords'[i].call = ghRecords[i].call
             /\ ghRecords'[i].undo = "available" => ghRecords[i].undo = "available"
    BY <1>a DEF MarkedInvocations, SameInvocations
  <2> QED BY <1>a, <1>b, <2>1 DEF ApprovalInv
<1>2. UndoListInv'
  BY DEF UndoGh, GhFinalizeFrame, UndoListInv
<1>3. SendInv' /\ UnsentInv'
  BY DEF UndoGh, GhFinalizeFrame, SendInv, KnowsSends, UnsentInv
<1>4. UndoInv'
  BY DEF UndoGh, GhFinalizeFrame, UndoInv, KnowsUndos
<1>5. UndoneInv'
  <2>1. decision = "discard" /\ pgFate # "committed"
    BY <1>b DEF UndoneInv, PhaseInv, ControlTypes
  <2> QED BY <1>b, <2>1 DEF UndoneInv
<1>6. ReplayInv' /\ DeliveryInv'
  BY DEF UndoGh, GhFinalizeFrame, ReplayInv, Replayed, Delivered, PhaseInv, DeliveryInv
<1> QED BY <1>1, <1>2, <1>3, <1>4, <1>5, <1>6

(***************************************************************************)
(* runCommand.                                                             *)
(***************************************************************************)
LEMMA SnapshotEffects ==
  ASSUME RunInv, EffectInv, NEW ok \in BOOLEAN, NEW saved \in BOOLEAN, Snapshot(ok,
         saved)
  PROVE  EffectInv'
<1> USE DEF RunInv, EffectInv
<1>a. /\ record'.staged = record.staged /\ record'.requests = record.requests
      /\ record'.approvals = record.approvals /\ (disk' = disk \/ disk' = record')
  BY SnapshotWritten
<1>1. ApprovalInv'
  BY <1>a DEF Snapshot, ChildFrame, ApprovalInv
<1>2. UndoListInv'
  BY DEF Snapshot, Goto, Update, ChildFrame, UndoListInv
<1>3. SendInv'
  BY <1>a DEF Snapshot, ChildFrame, SendInv, KnowsSends
<1>4. UnsentInv'
  BY DEF Snapshot, Goto, Update, ChildFrame, UnsentInv
<1>5. UndoInv'
  BY <1>a DEF Snapshot, ChildFrame, UndoInv, KnowsUndos
<1>6. UndoneInv'
  BY DEF Snapshot, Goto, Update, ChildFrame, PhaseInv, UndoneInv
<1>7. ReplayInv' /\ DeliveryInv'
  BY DEF Snapshot, Goto, Update, ChildFrame, ReplayInv, Replayed, Delivered, PhaseInv,
     DeliveryInv
<1> QED BY <1>1, <1>2, <1>3, <1>4, <1>5, <1>6, <1>7

LEMMA SetupEffects ==
  ASSUME RunInv, EffectInv, NEW ok \in BOOLEAN, NEW opened \in BOOLEAN, Setup(ok,
         opened)
  PROVE  EffectInv'
<1> USE DEF RunInv, EffectInv
<1>1. ApprovalInv' /\ UndoListInv'
  BY DEF Setup, Goto, ChildFrame, HttpsTypes, GhTypes, ApprovalInv, UndoListInv
<1>2. SendInv' /\ UnsentInv'
  BY DEF Setup, Goto, ChildFrame, SendInv, KnowsSends, UnsentInv
<1>3. UndoInv' /\ UndoneInv'
  BY DEF Setup, Goto, ChildFrame, UndoInv, KnowsUndos, PhaseInv, UndoneInv
<1>4. ReplayInv' /\ DeliveryInv'
  BY DEF Setup, Goto, ChildFrame, ReplayInv, Replayed, Delivered, PhaseInv, DeliveryInv
<1> QED BY <1>1, <1>2, <1>3, <1>4

LEMMA PromptEffects ==
  ASSUME RunInv, EffectInv, NEW call \in HttpCalls \cup GhCalls, Prompt(call)
  PROVE  EffectInv'
<1> USE DEF RunInv, EffectInv
<1>1. ApprovalInv' /\ UndoListInv'
  BY DEF Prompt, HttpsTypes, GhTypes, ApprovalInv, UndoListInv
<1>2. SendInv' /\ UnsentInv'
  BY DEF Prompt, SendInv, KnowsSends, UnsentInv
<1>3. UndoInv' /\ UndoneInv'
  BY DEF Prompt, UndoInv, KnowsUndos, PhaseInv, UndoneInv
<1>4. ReplayInv' /\ DeliveryInv'
  BY DEF Prompt, ReplayInv, Replayed, Delivered, PhaseInv, DeliveryInv
<1> QED BY <1>1, <1>2, <1>3, <1>4

LEMMA SignalEffects ==
  ASSUME RunInv, EffectInv, Signal
  PROVE  EffectInv'
<1> USE DEF RunInv, EffectInv
<1>1. ApprovalInv' /\ UndoListInv'
  BY DEF Signal, CancelPrompt, ChildFrame, HttpsTypes, GhTypes, ApprovalInv, UndoListInv
<1>2. SendInv' /\ UnsentInv'
  BY DEF Signal, CancelPrompt, ChildFrame, SendInv, KnowsSends, UnsentInv
<1>3. UndoInv' /\ UndoneInv'
  BY DEF Signal, CancelPrompt, ChildFrame, UndoInv, KnowsUndos, PhaseInv, UndoneInv
<1>4. ReplayInv' /\ DeliveryInv'
  BY DEF Signal, CancelPrompt, ChildFrame, ReplayInv, Replayed, Delivered, PhaseInv,
     DeliveryInv
<1> QED BY <1>1, <1>2, <1>3, <1>4

LEMMA ChildExitsEffects ==
  ASSUME RunInv, EffectInv, NEW err \in BOOLEAN, NEW killed \in BOOLEAN, ChildExits(err,
         killed)
  PROVE  EffectInv'
<1> USE DEF RunInv, EffectInv
<1>1. ApprovalInv' /\ UndoListInv'
  BY DEF ChildExits, Goto, CancelPrompt, ChildFrame, HttpsTypes, GhTypes, ApprovalInv,
     UndoListInv
<1>2. SendInv' /\ UnsentInv'
  BY DEF ChildExits, Goto, CancelPrompt, ChildFrame, SendInv, KnowsSends, UnsentInv
<1>3. UndoInv' /\ UndoneInv'
  BY DEF ChildExits, Goto, CancelPrompt, ChildFrame, UndoInv, KnowsUndos, PhaseInv,
     UndoneInv
<1>4. ReplayInv' /\ DeliveryInv'
  BY DEF ChildExits, Goto, CancelPrompt, ChildFrame, ReplayInv, Replayed, Delivered,
     PhaseInv, DeliveryInv
<1> QED BY <1>1, <1>2, <1>3, <1>4

LEMMA ScanEffects ==
  ASSUME RunInv, EffectInv, NEW saved \in BOOLEAN, Scan(saved)
  PROVE  EffectInv'
<1> USE DEF RunInv, EffectInv
<1>1. ApprovalInv' /\ UndoListInv'
  BY DEF Scan, Goto, Update, ChildFrame, HttpsTypes, GhTypes, ApprovalInv, UndoListInv
<1>2. SendInv' /\ UnsentInv'
  BY DEF Scan, Goto, Update, ChildFrame, SendInv, KnowsSends, UnsentInv
<1>3. UndoInv' /\ UndoneInv'
  BY DEF Scan, Goto, Update, ChildFrame, UndoInv, KnowsUndos, PhaseInv, UndoneInv
<1>4. ReplayInv' /\ DeliveryInv'
  BY DEF Scan, Goto, Update, ChildFrame, ReplayInv, Replayed, Delivered, PhaseInv,
     DeliveryInv
<1> QED BY <1>1, <1>2, <1>3, <1>4

LEMMA PgSealEffects ==
  ASSUME RunInv, EffectInv, NEW result \in {"complete", "incomplete", "failed"}, NEW
         activity \in BOOLEAN, PgSeal(result, activity)
  PROVE  EffectInv'
<1> USE DEF RunInv, EffectInv
<1>1. ApprovalInv' /\ UndoListInv'
  BY DEF PgSeal, Goto, HttpsTypes, GhTypes, ApprovalInv, UndoListInv
<1>2. SendInv' /\ UnsentInv'
  BY DEF PgSeal, Goto, SendInv, KnowsSends, UnsentInv
<1>3. UndoInv' /\ UndoneInv'
  BY DEF PgSeal, Goto, UndoInv, KnowsUndos, PhaseInv, UndoneInv
<1>4. ReplayInv' /\ DeliveryInv'
  BY DEF PgSeal, Goto, ReplayInv, Replayed, Delivered, PhaseInv, DeliveryInv
<1> QED BY <1>1, <1>2, <1>3, <1>4

LEMMA DecideEffects ==
  ASSUME RunInv, EffectInv, NEW choice \in {"commit", "discard"}, NEW saved \in BOOLEAN,
         Decide(choice, saved)
  PROVE  EffectInv'
<1> USE DEF RunInv, EffectInv
<1>a. /\ Written(saved) /\ record'.staged = reviewed.staged
      /\ record'.requests = reviewed.requests /\ record'.approvals = record.approvals
  BY DecideWritten
<1>1. ApprovalInv'
  BY <1>a DEF Decide, ApprovalInv, Written
<1>2. UndoListInv'
  BY DEF Decide, Goto, Update, UndoListInv
<1>3. SendInv'
  <2>1. \A i \in DOMAIN staged : origin[staged[i].call] = "none"
    BY ListedCalls DEF Decide, UnsentInv
  <2> QED BY <2>1 DEF Decide, SendInv, KnowsSends
<1>4. UnsentInv'
  BY DEF Decide, Goto, Update, UnsentInv
<1>5. UndoInv'
  <2>1. \A i \in DOMAIN requests : origin[requests[i].call] # "undone"
    BY ListedCalls DEF Decide, UndoneInv
  <2> QED BY <2>1 DEF Decide, UndoInv, KnowsUndos
<1>6. UndoneInv'
  BY DEF Decide, Goto, Update, PhaseInv, UndoneInv
<1>7. ReplayInv' /\ DeliveryInv'
  BY DEF Decide, Goto, Update, ReplayInv, Replayed, Delivered, PhaseInv, DeliveryInv
<1> QED BY <1>1, <1>2, <1>3, <1>4, <1>5, <1>6, <1>7

LEMMA PgFinalizeEffects ==
  ASSUME RunInv, EffectInv, NEW ok \in BOOLEAN, PgFinalize(ok)
  PROVE  EffectInv'
<1> USE DEF RunInv, EffectInv
<1>1. ApprovalInv' /\ UndoListInv'
  BY DEF PgFinalize, Goto, HttpsTypes, GhTypes, ApprovalInv, UndoListInv
<1>2. SendInv' /\ UnsentInv'
  BY DEF PgFinalize, Goto, SendInv, KnowsSends, UnsentInv
<1>3. UndoInv' /\ UndoneInv'
  BY DEF PgFinalize, Goto, UndoInv, KnowsUndos, PhaseInv, UndoneInv
<1>4. ReplayInv' /\ DeliveryInv'
  BY DEF PgFinalize, Goto, ReplayInv, Replayed, Delivered, PhaseInv, DeliveryInv
<1> QED BY <1>1, <1>2, <1>3, <1>4

LEMMA RecordFinalEffects ==
  ASSUME RunInv, EffectInv, NEW saved \in BOOLEAN, RecordFinal(saved)
  PROVE  EffectInv'
<1> USE DEF RunInv, EffectInv
<1>a. /\ Written(saved) /\ record'.staged = staged /\ record'.requests = requests
      /\ record'.approvals = record.approvals
  BY FinalWritten
<1>1. ApprovalInv'
  BY <1>a DEF RecordFinal, ChildFrame, ApprovalInv, Written
<1>2. UndoListInv'
  BY DEF RecordFinal, Goto, Update, ChildFrame, UndoListInv
<1>3. SendInv'
  BY <1>a DEF RecordFinal, ChildFrame, SendInv, KnowsSends, Written
<1>4. UnsentInv'
  BY DEF RecordFinal, Goto, Update, ChildFrame, UnsentInv
<1>5. UndoInv'
  BY <1>a DEF RecordFinal, ChildFrame, UndoInv, KnowsUndos, Written
<1>6. UndoneInv'
  BY DEF RecordFinal, Goto, Update, ChildFrame, PhaseInv, UndoneInv
<1>7. ReplayInv' /\ DeliveryInv'
  BY DEF RecordFinal, Goto, Update, ChildFrame, ReplayInv, Replayed, Delivered, PhaseInv,
     DeliveryInv
<1> QED BY <1>1, <1>2, <1>3, <1>4, <1>5, <1>6, <1>7

LEMMA CleanupEffects ==
  ASSUME RunInv, EffectInv, NEW closed \in BOOLEAN, NEW saved \in BOOLEAN,
         Cleanup(closed, saved)
  PROVE  EffectInv'
<1> USE DEF RunInv, EffectInv
<1>a. /\ Written(saved) /\ record'.staged = staged /\ record'.requests = requests
      /\ record'.approvals = record.approvals
  BY CleanupWritten
<1>1. ApprovalInv'
  BY <1>a DEF Cleanup, ApprovalInv, Written
<1>2. UndoListInv'
  BY DEF Cleanup, Goto, Update, UndoListInv
<1>3. SendInv'
  BY <1>a DEF Cleanup, SendInv, KnowsSends, Written
<1>4. UnsentInv'
  BY DEF Cleanup, Goto, Update, UnsentInv
<1>5. UndoInv'
  BY <1>a DEF Cleanup, UndoInv, KnowsUndos, Written
<1>6. UndoneInv'
  BY DEF Cleanup, Goto, Update, PhaseInv, UndoneInv
<1>7. ReplayInv' /\ DeliveryInv'
  BY DEF Cleanup, Goto, Update, ReplayInv, Replayed, Delivered, PhaseInv, DeliveryInv
<1> QED BY <1>1, <1>2, <1>3, <1>4, <1>5, <1>6, <1>7

LEMMA LateEffects ==
  ASSUME RunInv, EffectInv, NEW saved \in BOOLEAN, Late(saved)
  PROVE  EffectInv'
<1> USE DEF RunInv, EffectInv
<1>a. /\ record'.staged = record.staged /\ record'.requests = record.requests
      /\ record'.approvals = record.approvals /\ (disk' = disk \/ disk' = record')
  BY LateWritten
<1>1. ApprovalInv'
  BY <1>a DEF Late, ChildFrame, ApprovalInv
<1>2. UndoListInv'
  BY DEF Late, Goto, Update, ChildFrame, UndoListInv
<1>3. SendInv'
  BY <1>a DEF Late, ChildFrame, SendInv, KnowsSends
<1>4. UnsentInv'
  BY DEF Late, Goto, Update, ChildFrame, UnsentInv
<1>5. UndoInv'
  BY <1>a DEF Late, ChildFrame, UndoInv, KnowsUndos
<1>6. UndoneInv'
  BY DEF Late, Goto, Update, ChildFrame, PhaseInv, UndoneInv
<1>7. ReplayInv' /\ DeliveryInv'
  BY DEF Late, Goto, Update, ChildFrame, ReplayInv, Replayed, Delivered, PhaseInv,
     DeliveryInv
<1> QED BY <1>1, <1>2, <1>3, <1>4, <1>5, <1>6, <1>7

LEMMA CrashEffects ==
  ASSUME RunInv, EffectInv, Crash
  PROVE  EffectInv'
<1> USE DEF RunInv, EffectInv
<1>1. ApprovalInv' /\ UndoListInv'
  BY DEF Crash, Goto, HttpsTypes, GhTypes, ApprovalInv, UndoListInv
<1>2. SendInv' /\ UnsentInv'
  BY DEF Crash, Goto, SendInv, KnowsSends, UnsentInv
<1>3. UndoInv' /\ UndoneInv'
  BY DEF Crash, Goto, UndoInv, KnowsUndos, PhaseInv, UndoneInv
<1>4. ReplayInv' /\ DeliveryInv'
  BY DEF Crash, Goto, ReplayInv, Replayed, Delivered, PhaseInv, DeliveryInv
<1> QED BY <1>1, <1>2, <1>3, <1>4

(***************************************************************************)
(* The invariant holds initially and every step keeps it.                  *)
(***************************************************************************)
LEMMA HandlersEffects ==
  ASSUME RunInv, EffectInv, NEW q \in HttpCalls, HandlerNext(q)
  PROVE  EffectInv'
BY ArriveEffects, BlockEffects, StageEffects, AskEffects, AskCancelledEffects, ForwardEffects,
   ForwardCancelledEffects, AnswerHttpsEffects, RecordHttpsEffects, RespondEffects DEF HandlerNext

LEMMA InvocationsEffects ==
  ASSUME RunInv, EffectInv, NEW g \in GhCalls, InvocationNext(g)
  PROVE  EffectInv'
BY GhAskEffects, GhAskCancelledEffects, AnswerGhEffects, RecordGhEffects, GhFinishEffects
   DEF InvocationNext

LEMMA HttpsEffects ==
  ASSUME RunInv, EffectInv, HttpsRunNext
  PROVE  EffectInv'
BY HttpsSealEffects, HttpsSealedEffects, FinalizeHttpsEffects, ReplayEffects, UndoEffects, EndHttpsEffects,
   ReplaySendEffects, UndoSendEffects DEF HttpsRunNext

LEMMA GhEffects ==
  ASSUME RunInv, EffectInv, GhRunNext
  PROVE  EffectInv'
BY GhSealEffects, GhSealedEffects, FinalizeGhEffects, UndoGhStopsEffects, EndGhEffects, UndoGhEffects
   DEF GhRunNext

LEMMA RunStepEffects ==
  ASSUME RunInv, EffectInv, RunStep
  PROVE  EffectInv'
BY ScanEffects, RecordFinalEffects, LateEffects, PgSealEffects, PgFinalizeEffects, CleanupEffects, HttpsEffects,
   GhEffects DEF RunStep

LEMMA StutterEffects ==
  ASSUME RunInv, EffectInv, UNCHANGED runVars
  PROVE  EffectInv'
<1> USE DEF EffectInv, runVars
<1>1. ApprovalInv' /\ UndoListInv'
  BY DEF ApprovalInv, UndoListInv
<1>2. SendInv' /\ UnsentInv'
  BY DEF SendInv, KnowsSends, UnsentInv
<1>3. UndoInv' /\ UndoneInv'
  BY DEF UndoInv, KnowsUndos, UndoneInv
<1>4. ReplayInv' /\ DeliveryInv'
  BY DEF ReplayInv, Replayed, DeliveryInv, Delivered
<1> QED BY <1>1, <1>2, <1>3, <1>4

LEMMA EffectInductive ==
  ASSUME RunInv, EffectInv, [Next]_runVars
  PROVE  EffectInv'
<1>1. CASE RunStep
  BY <1>1, RunStepEffects
<1>2. CASE \E ok, flag \in BOOLEAN : Snapshot(ok, flag) \/ Setup(ok, flag)
  BY <1>2, SnapshotEffects, SetupEffects
<1>3. CASE \E err, killed \in BOOLEAN : ChildExits(err, killed)
  BY <1>3, ChildExitsEffects
<1>4. CASE \E choice \in {"commit", "discard"}, saved \in BOOLEAN : Decide(choice, saved)
  BY <1>4, DecideEffects
<1>5. CASE Signal \/ Crash
  BY <1>5, SignalEffects, CrashEffects
<1>6. CASE \E call \in HttpCalls \cup GhCalls : Prompt(call)
  BY <1>6, PromptEffects
<1>7. CASE \E q \in HttpCalls : HandlerNext(q)
  BY <1>7, HandlersEffects
<1>8. CASE \E g \in GhCalls : InvocationNext(g)
  BY <1>8, InvocationsEffects
<1>9. CASE Terminated \/ UNCHANGED runVars
  BY <1>9, StutterEffects DEF Terminated
<1> QED BY <1>1, <1>2, <1>3, <1>4, <1>5, <1>6, <1>7, <1>8, <1>9 DEF Next

LEMMA EffectInitial ==
  ASSUME Init
  PROVE  EffectInv
<1>1. /\ DOMAIN staged = {} /\ DOMAIN requests = {} /\ DOMAIN ghRecords = {}
      /\ DOMAIN undoCalls = {}
  BY DEF Init
<1>2. ApprovalInv /\ UndoListInv
  BY <1>1, CallAssumption DEF Init, NewRecord, ApprovalInv, UndoListInv
<1>3. SendInv /\ UnsentInv /\ UndoInv
  BY <1>1, CallAssumption DEF Init, SendInv, KnowsSends, UnsentInv, UndoInv, KnowsUndos
<1>4. UndoneInv /\ ReplayInv /\ DeliveryInv
  BY <1>1 DEF Init, UndoneInv, ReplayInv, DeliveryInv
<1> QED BY <1>2, <1>3, <1>4 DEF EffectInv

LEMMA EffectInvariant == Spec => []EffectInv
<1>1. Init => EffectInv
  BY EffectInitial
<1>2. RunInv /\ EffectInv /\ [Next]_runVars => EffectInv'
  BY EffectInductive
<1> QED BY <1>1, <1>2, RunInvariant, PTL DEF Spec

(* internal/cli approvals and the save of audit.Session: nothing that      *)
(* needs an approval, a request or an invocation of gh, is with its        *)
(* service before the approval is in the file, whatever fails to be saved, *)
(* whenever a signal arrives or the process dies.                          *)
THEOREM ApprovedFirst == Spec => []ApprovedOnDisk
<1>1. EffectInv => ApprovedOnDisk
  BY DEF EffectInv, ApprovalInv, ApprovedOnDisk
<1> QED BY <1>1, EffectInvariant, PTL

(* proxy.go replay: at every moment, and so after every crash, the file    *)
(* knows of each staged call that has reached its service or may have.     *)
THEOREM SendsRecorded == Spec => []SendsOnDisk
<1>1. EffectInv => SendsOnDisk
  BY DEF EffectInv, SendInv, KnowsSends, SendsOnDisk
<1> QED BY <1>1, EffectInvariant, PTL

(* proxy.go runUndos: and of each compensation of a request.               *)
THEOREM UndosRecorded == Spec => []UndosOnDisk
<1>1. EffectInv => UndosOnDisk
  BY DEF EffectInv, UndoInv, KnowsUndos, UndosOnDisk
<1> QED BY <1>1, EffectInvariant, PTL

(* cli.go, the order of the three Finalize: the database is committed only *)
(* after every staged call was delivered and its 2xx answer was read.      *)
THEOREM CommitFollowsDelivery == Spec => []CommitAfterDelivery
<1>1. EffectInv => CommitAfterDelivery
  BY DEF EffectInv, DeliveryInv, Delivered, CommitAfterDelivery
<1> QED BY <1>1, EffectInvariant, PTL

(* ... and a session of which anything was compensated, a request or an    *)
(* invocation of gh, never commits its database.                           *)
THEOREM NoHalfSession == Spec => []NeverHalf
<1>1. EffectInv => NeverHalf
  BY DEF EffectInv, UndoneInv, NeverHalf
<1> QED BY <1>1, EffectInvariant, PTL

=============================================================================
