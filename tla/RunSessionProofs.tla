-------------------------- MODULE RunSessionProofs --------------------------
(***************************************************************************)
(* Theorems about RunSession, for every set of requests and invocations:   *)
(* its types, its phases, and what its handlers may still do.              *)
(***************************************************************************)
EXTENDS RunSession, FiniteSetTheorems, SequenceTheorems, TLAPS

Early == {"snapshot", "setup"}
Open == {"child", "scan", "sealGh", "sealingGh", "sealHttps", "sealingHttps", "sealPg"}
HttpsPhase == {"finHttps", "replay", "replaySend", "undo", "undoSend"}
Deciding == {"decide", "finGh", "undoGh"} \cup HttpsPhase
Finalizing == Deciding \cup {"finPg"}
Ending == {"cleanup", "late", "exit"}

StagedStates == {"pending", "sending", "sent", "unknown", "not-sent", "discarded"}
UndoStates == {"none", "available", "unavailable", "undoing", "succeeded", "failed"}
GhStates == {"approved", "not-run", "ran", "failed"}
GhUndoStates == {"none", "available", "unavailable", "succeeded", "failed"}

(***************************************************************************)
(* The types, by component.  A step that sends a call has one to send.     *)
(***************************************************************************)
ControlTypes ==
  /\ at \in Labels /\ todo \in Seq(Nat \ {0})
  /\ childErr \in BOOLEAN /\ interrupted \in BOOLEAN /\ lost \in BOOLEAN
  /\ decision \in {"commit", "discard"}
  /\ signalled \in BOOLEAN /\ received \in BOOLEAN
  /\ active \in HttpCalls \cup GhCalls \cup {None}
  /\ pgFate \in {"none", "open", "committed", "rolledback", "lost"}
  /\ pgSealed \in {"no", "complete", "incomplete", "failed"} /\ pgErr \in BOOLEAN
  /\ at \in {"replaySend", "undoSend"} => todo # <<>>

ReviewTypes ==
  reviewed \in [gh: Seq(Invocation), staged: Seq(StagedCall), requests: Seq(Request)]

AuditTypes == record \in AuditRecord /\ disk \in AuditRecord

HttpsTypes ==
  /\ hpc \in [HttpCalls -> Handling]
  /\ sealing \in BOOLEAN /\ staged \in Seq(StagedCall) /\ requests \in Seq(Request)
  /\ undoCalls \in Seq(DOMAIN requests) /\ approvals \subseteq HttpCalls
  /\ finErr \in BOOLEAN /\ origin \in [HttpCalls -> {"none", "applied", "undone"}]

GhTypes ==
  /\ gpc \in [GhCalls -> {"idle", "asking", "agreed", "refused", "running", "done"}]
  /\ ghSealing \in BOOLEAN /\ ghRecords \in Seq(Invocation) /\ ghErr \in BOOLEAN
  /\ ghWorld \in [GhCalls -> {"none", "applied", "undone"}]

(***************************************************************************)
(* The phases of runCommand: what is known of the database session, and    *)
(* which interceptors are sealed.                                          *)
(***************************************************************************)
PhaseInv ==
  /\ at \in Early => pgFate = "none"
  /\ at \in Early \cup Open => pgSealed = "no" /\ decision = "discard"
  /\ at \in Open => pgFate = "open"
  /\ at \in Finalizing \cup {"record"} => pgSealed # "no" /\ (pgSealed = "failed" => lost)
  /\ at \in Finalizing => pgFate = IF pgSealed = "failed" THEN "lost" ELSE "open"
  /\ at = "record" => pgFate # "open"
  /\ at = "decide" => decision = "discard"
  /\ at \in Finalizing \cup {"record"} /\ decision = "commit" => ~lost
  /\ at \in Ending /\ pgSealed # "no" => pgFate # "open"
  /\ pgFate = "committed" => pgSealed # "no" /\ at \in {"record", "crashed"} \cup Ending

GateInv ==
  /\ at \in Early \cup (Open \ {"sealingHttps", "sealPg"}) => ~sealing
  /\ at \in Early \cup {"child", "scan", "sealGh"} => ~ghSealing
  /\ at \in {"sealingHttps", "sealPg", "record"} \cup Finalizing \cup {"late", "exit"} => sealing
  /\ at \in {"sealingGh", "sealHttps", "sealingHttps", "sealPg", "record"} \cup Finalizing
            \cup {"late", "exit"} => ghSealing
  /\ at = "cleanup" /\ pgSealed # "no" => sealing /\ ghSealing

\* Before the child is started, and when it never was, nothing has happened.
NothingStarted ==
  /\ \A q \in HttpCalls : hpc[q] = "idle" /\ origin[q] = "none"
  /\ \A g \in GhCalls : gpc[g] = "idle" /\ ghWorld[g] = "none"
  /\ staged = <<>> /\ requests = <<>> /\ undoCalls = <<>> /\ ghRecords = <<>>
  /\ reviewed.requests = <<>>

StartInv == at \in Early \/ (at \in Ending /\ pgSealed = "no") => NothingStarted

\* What is on the screen waits for its answer.
PromptInv ==
  active # None =>
    /\ at = "child"
    /\ active \in HttpCalls => hpc[active] = "asking"
    /\ active \in GhCalls => gpc[active] = "asking"

\* What a loop has left is listed.
TodoInv ==
  /\ at \in {"replay", "replaySend"} => todo \in Seq(DOMAIN staged)
  /\ at \in {"undo", "undoSend"} => todo \in Seq(DOMAIN requests)
  /\ at = "undoGh" => todo \in Seq(DOMAIN ghRecords)

(***************************************************************************)
(* The handlers.  A request is listed once, when its handler ends; only    *)
(* then its service may have acted.                                        *)
(***************************************************************************)
HandlerInv ==
  \A q \in HttpCalls :
    /\ hpc[q] \in {"asking", "agreed", "refused", "approved"} => q \in Approvable
    /\ hpc[q] = "sending" => q \notin Stageable
    /\ hpc[q] # "done" =>
         /\ origin[q] = "none"
         /\ \A i \in DOMAIN staged : staged[i].call # q
         /\ \A i \in DOMAIN requests : requests[i].call # q

ListInv ==
  /\ \A i, j \in DOMAIN staged : staged[i].call = staged[j].call => i = j
  /\ \A i, j \in DOMAIN requests : requests[i].call = requests[j].call => i = j
  /\ \A i \in DOMAIN requests : requests[i].call \notin Stageable
  /\ at \in Early \cup Open \cup {"decide", "finGh", "undoGh", "finHttps"} =>
       \A i \in DOMAIN requests :
         requests[i].undo # "none" => \E k \in DOMAIN undoCalls : undoCalls[k] = i
  /\ Len(reviewed.requests) <= Len(requests)

\* Once HTTPS is sealed, and not lost, no handler is left.
QuietInv ==
  (at \in Finalizing \cup {"sealPg", "record"} /\ ~lost) \/ pgFate = "committed" =>
    /\ Drained
    /\ at \notin Ending \cup {"crashed"} => Len(staged) = Len(reviewed.staged)

RunInv ==
  /\ ControlTypes /\ ReviewTypes /\ AuditTypes /\ HttpsTypes /\ GhTypes
  /\ PhaseInv /\ GateInv /\ StartInv /\ PromptInv /\ TodoInv /\ HandlerInv
  /\ ListInv /\ QuietInv

(***************************************************************************)
(* What the steps do to the lists: they append an entry, or they change    *)
(* the states of entries and nothing else.                                 *)
(***************************************************************************)
Appended(new, list, e) ==
  /\ Len(new) = Len(list) + 1 /\ Len(list) \in Nat
  /\ DOMAIN list = 1..Len(list) /\ DOMAIN new = 1..(Len(list) + 1)
  /\ \A j \in DOMAIN list : new[j] = list[j]
  /\ new[Len(list) + 1] = e

SameCalls(new) ==
  /\ new \in Seq(StagedCall) /\ Len(new) = Len(staged) /\ DOMAIN new = DOMAIN staged
  /\ \A j \in DOMAIN staged : new[j].call = staged[j].call

MarkedCalls(new, i, state) ==
  SameCalls(new)
    /\ \A j \in DOMAIN staged : new[j].state = IF j = i THEN state ELSE staged[j].state

SameRequests(new) ==
  /\ new \in Seq(Request) /\ Len(new) = Len(requests) /\ DOMAIN new = DOMAIN requests
  /\ \A j \in DOMAIN requests : new[j].call = requests[j].call

MarkedRequests(new, i, state) ==
  SameRequests(new)
    /\ \A j \in DOMAIN requests : new[j].undo = IF j = i THEN state ELSE requests[j].undo

SameInvocations(new) ==
  /\ new \in Seq(Invocation) /\ DOMAIN new = DOMAIN ghRecords
  /\ \A j \in DOMAIN ghRecords : new[j].call = ghRecords[j].call

MarkedInvocations(new, i, state) ==
  SameInvocations(new)
    /\ \A j \in DOMAIN ghRecords : new[j].undo = IF j = i THEN state ELSE ghRecords[j].undo

\* What is saved is on disk, and what is not is in memory all the same.
Written(saved) == disk' = IF saved THEN record' ELSE disk

USE CallAssumption, SignalAssumption
USE DEF controlVars, decisionVars, signalVars, auditVars, pgVars, httpsVars, ghVars, Goto

USE DEF Early, Open, HttpsPhase, Deciding, Finalizing, Ending

(***************************************************************************)
(* The lists of a run: what marking, appending and recording leave.        *)
(***************************************************************************)
LEMMA AppendEntry ==
  ASSUME NEW S, NEW list \in Seq(S), NEW e \in S
  PROVE  Append(list, e) \in Seq(S) /\ Appended(Append(list, e), list, e)
BY DEF Appended

LEMMA WiderSeq ==
  ASSUME NEW S, NEW T, S \subseteq T, NEW list \in Seq(S)
  PROVE  list \in Seq(T)
<1>1. list = [k \in 1..Len(list) |-> list[k]] /\ Len(list) \in Nat
      /\ \A k \in 1..Len(list) : list[k] \in T
  OBVIOUS
<1> QED BY <1>1

LEMMA MarkCalls ==
  ASSUME staged \in Seq(StagedCall), NEW i, NEW state \in StagedStates
  PROVE  MarkedCalls(Mark(i, state), i, state)
<1> DEFINE marked == Mark(i, state)
<1>1. DOMAIN marked = 1..Len(staged) /\ DOMAIN staged = 1..Len(staged) /\ Len(staged) \in Nat
  BY DEF Mark
<1>2. \A j \in DOMAIN staged :
        /\ marked[j] = IF j = i THEN [staged[i] EXCEPT !.state = state] ELSE staged[j]
        /\ staged[j] \in StagedCall
  BY DEF Mark
<1>3. \A j \in DOMAIN staged :
        /\ marked[j] \in StagedCall
        /\ marked[j].call = staged[j].call
        /\ marked[j].state = IF j = i THEN state ELSE staged[j].state
  BY <1>2 DEF StagedCall, StagedStates
<1>4. marked = [j \in 1..Len(staged) |-> marked[j]]
  BY <1>1 DEF Mark
<1>5. marked \in Seq(StagedCall) /\ Len(marked) = Len(staged)
  BY <1>1, <1>3, <1>4
<1> QED BY <1>1, <1>3, <1>5 DEF MarkedCalls, SameCalls

LEMMA MarkRequests ==
  ASSUME requests \in Seq(Request), NEW i, NEW state \in UndoStates
  PROVE  MarkedRequests(MarkUndo(i, state), i, state)
<1> DEFINE marked == MarkUndo(i, state)
<1>1. DOMAIN marked = 1..Len(requests) /\ DOMAIN requests = 1..Len(requests)
      /\ Len(requests) \in Nat
  BY DEF MarkUndo
<1>2. \A j \in DOMAIN requests :
        /\ marked[j] = IF j = i THEN [requests[i] EXCEPT !.undo = state] ELSE requests[j]
        /\ requests[j] \in Request
  BY DEF MarkUndo
<1>3. \A j \in DOMAIN requests :
        /\ marked[j] \in Request
        /\ marked[j].call = requests[j].call
        /\ marked[j].undo = IF j = i THEN state ELSE requests[j].undo
  BY <1>2 DEF Request, UndoStates
<1>4. marked = [j \in 1..Len(requests) |-> marked[j]]
  BY <1>1 DEF MarkUndo
<1>5. marked \in Seq(Request) /\ Len(marked) = Len(requests)
  BY <1>1, <1>3, <1>4
<1> QED BY <1>1, <1>3, <1>5 DEF MarkedRequests, SameRequests

LEMMA MarkInvocations ==
  ASSUME ghRecords \in Seq(Invocation), NEW i, NEW state \in GhUndoStates
  PROVE  MarkedInvocations(MarkRecord(i, state), i, state)
<1> DEFINE marked == MarkRecord(i, state)
<1>1. DOMAIN marked = 1..Len(ghRecords) /\ DOMAIN ghRecords = 1..Len(ghRecords)
      /\ Len(ghRecords) \in Nat
  BY DEF MarkRecord
<1>2. \A j \in DOMAIN ghRecords :
        /\ marked[j] = IF j = i THEN [ghRecords[i] EXCEPT !.undo = state] ELSE ghRecords[j]
        /\ ghRecords[j] \in Invocation
  BY DEF MarkRecord
<1>3. \A j \in DOMAIN ghRecords :
        /\ marked[j] \in Invocation
        /\ marked[j].call = ghRecords[j].call
        /\ marked[j].undo = IF j = i THEN state ELSE ghRecords[j].undo
  BY <1>2 DEF Invocation, GhUndoStates
<1>4. marked = [j \in 1..Len(ghRecords) |-> marked[j]]
  BY <1>1 DEF MarkRecord
<1>5. marked \in Seq(Invocation)
  BY <1>1, <1>3, <1>4
<1> QED BY <1>1, <1>3, <1>5 DEF MarkedInvocations, SameInvocations

\* recordOutcome changes the entry of its invocation and no other.
LEMMA OutcomeRecords ==
  ASSUME ghRecords \in Seq(Invocation), NEW g, NEW result \in {"ran", "failed", "not-run"},
         NEW url \in BOOLEAN, RecordOutcome(g, result, url)
  PROVE  /\ SameInvocations(ghRecords')
         /\ \A i \in DOMAIN ghRecords :
              ghRecords[i].call # g => ghRecords'[i] = ghRecords[i]
<1>1. DOMAIN ghRecords = 1..Len(ghRecords) /\ Len(ghRecords) \in Nat
      /\ \A i \in DOMAIN ghRecords : ghRecords[i] \in Invocation
  OBVIOUS
<1>2. \A i \in DOMAIN ghRecords :
        /\ ghRecords'[i] \in Invocation /\ ghRecords'[i].call = ghRecords[i].call
        /\ ghRecords[i].call # g => ghRecords'[i] = ghRecords[i]
  BY <1>1 DEF RecordOutcome, Invocation
<1>3. ghRecords' = [i \in 1..Len(ghRecords) |-> ghRecords'[i]]
  BY <1>1 DEF RecordOutcome
<1>4. ghRecords' \in Seq(Invocation)
  BY <1>1, <1>2, <1>3
<1> QED BY <1>1, <1>2, <1>3, <1>4 DEF SameInvocations

LEMMA InOrderLists ==
  ASSUME ghRecords \in Seq(Invocation), NEW list \in InOrder(Compensable)
  PROVE  /\ list \in Seq(DOMAIN ghRecords)
         /\ {list[k] : k \in DOMAIN list} = Compensable
<1> DEFINE n == Cardinality(Compensable)
<1>1. Compensable \subseteq DOMAIN ghRecords /\ DOMAIN ghRecords = 1..Len(ghRecords)
      /\ Len(ghRecords) \in Nat
  BY DEF Compensable
<1>2. n \in Nat
  <2>1. IsFiniteSet(1..Len(ghRecords))
    BY <1>1, FS_Interval
  <2>2. IsFiniteSet(Compensable)
    BY <1>1, <2>1, FS_Subset
  <2> QED BY <2>2, FS_CardinalityType
<1>3. list \in [1..n -> Compensable] /\ Compensable = {list[k] : k \in DOMAIN list}
  BY DEF InOrder
<1> HIDE DEF n
<1>4. list = [k \in 1..n |-> list[k]] /\ \A k \in 1..n : list[k] \in DOMAIN ghRecords
  BY <1>1, <1>3
<1>5. list \in Seq(DOMAIN ghRecords)
  BY <1>2, <1>4
<1> QED BY <1>3, <1>5

(***************************************************************************)
(* The audit record: what is written is in memory, and on disk or not.     *)
(***************************************************************************)
LEMMA UpdateTyped ==
  ASSUME record \in AuditRecord, disk \in AuditRecord, NEW changed \in AuditRecord,
         NEW saved \in BOOLEAN, Update(changed, saved)
  PROVE  AuditTypes'
BY DEF Update, AuditTypes

LEMMA HttpsRecord ==
  ASSUME NEW old \in AuditRecord, NEW calls \in Seq(StagedCall), NEW sent \in Seq(Request)
  PROVE  /\ WithHttps(old, calls, sent) \in AuditRecord
         /\ WithHttps(old, calls, sent).staged = calls
         /\ WithHttps(old, calls, sent).requests = sent
         /\ WithHttps(old, calls, sent).approvals = old.approvals
         /\ WithHttps(old, calls, sent).outcome = old.outcome
BY DEF WithHttps, AuditRecord

LEMMA OutboundRecord ==
  ASSUME NEW old \in AuditRecord, NEW calls \in Seq(StagedCall), NEW sent \in Seq(Request),
         NEW invocations \in Seq(Invocation)
  PROVE  /\ WithOutbound(old, calls, sent, invocations) \in AuditRecord
         /\ WithOutbound(old, calls, sent, invocations).staged = calls
         /\ WithOutbound(old, calls, sent, invocations).requests = sent
         /\ WithOutbound(old, calls, sent, invocations).approvals = old.approvals
         /\ WithOutbound(old, calls, sent, invocations).outcome = old.outcome
<1> DEFINE http == WithHttps(old, calls, sent)
<1>1. /\ http \in AuditRecord /\ http.staged = calls /\ http.requests = sent
      /\ http.approvals = old.approvals /\ http.outcome = old.outcome
  BY HttpsRecord
<1>2. WithOutbound(old, calls, sent, invocations) = [http EXCEPT !.gh = invocations]
  BY DEF WithOutbound
<1> HIDE DEF http
<1> QED BY <1>1, <1>2 DEF AuditRecord

LEMMA ApprovalRecord ==
  ASSUME record \in AuditRecord, NEW call \in HttpCalls \cup GhCalls, NEW yes \in BOOLEAN
  PROVE  /\ WithApproval(call, yes) \in AuditRecord
         /\ WithApproval(call, yes).staged = record.staged
         /\ WithApproval(call, yes).requests = record.requests
         /\ WithApproval(call, yes).outcome = record.outcome
         /\ WithApproval(call, yes).approvals =
              IF yes THEN record.approvals \cup {call} ELSE record.approvals
BY DEF WithApproval, AuditRecord

(***************************************************************************)
(* The steps that append.                                                  *)
(***************************************************************************)
LEMMA StageAppends ==
  ASSUME HttpsTypes, NEW q \in HttpCalls, Stage(q)
  PROVE  /\ staged' \in Seq(StagedCall)
         /\ Appended(staged', staged, [call |-> q, state |-> "pending"])
<1>1. [call |-> q, state |-> "pending"] \in StagedCall
  BY DEF Stage, StagedCall
<1> QED BY <1>1, AppendEntry DEF Stage, HttpsTypes

LEMMA ForwardCancelledAppends ==
  ASSUME HttpsTypes, NEW q \in HttpCalls, ForwardCancelled(q)
  PROVE  /\ requests' \in Seq(Request) /\ undoCalls \in Seq(DOMAIN requests')
         /\ Appended(requests', requests, [call |-> q, undo |-> "none"])
<1>1. [call |-> q, undo |-> "none"] \in Request
  BY DEF Request
<1>2. requests' \in Seq(Request)
      /\ Appended(requests', requests, [call |-> q, undo |-> "none"])
  BY <1>1, AppendEntry DEF ForwardCancelled, HttpsTypes
<1>3. DOMAIN requests \subseteq DOMAIN requests'
  BY <1>2 DEF Appended
<1> QED BY <1>2, <1>3, WiderSeq DEF HttpsTypes

LEMMA RespondAppends ==
  ASSUME HttpsTypes, NEW q \in HttpCalls, NEW acted \in BOOLEAN, NEW ok \in BOOLEAN,
         NEW renders \in BOOLEAN, Respond(q, acted, ok, renders)
  PROVE  \E undo \in {"none", "available", "unavailable"} :
           /\ undo # "none" => ok
           /\ requests' \in Seq(Request) /\ undoCalls' \in Seq(DOMAIN requests')
           /\ Appended(requests', requests, [call |-> q, undo |-> undo])
           /\ IF undo = "none" THEN undoCalls' = undoCalls
              ELSE Appended(undoCalls', undoCalls, Len(requests) + 1)
<1> DEFINE undo == IF ~ok \/ q \notin Undoable THEN "none"
                   ELSE IF renders THEN "available" ELSE "unavailable"
<1>1. /\ requests' = Append(requests, [call |-> q, undo |-> undo])
      /\ undoCalls' = IF undo = "none" THEN undoCalls ELSE Append(undoCalls, Len(requests) + 1)
  BY DEF Respond
<1>2. undo \in {"none", "available", "unavailable"} /\ (undo # "none" => ok)
  OBVIOUS
<1> HIDE DEF undo
<1>3. requests' \in Seq(Request) /\ Appended(requests', requests, [call |-> q, undo |-> undo])
  <2>1. [call |-> q, undo |-> undo] \in Request
    BY <1>2 DEF Request
  <2> QED BY <1>1, <2>1, AppendEntry DEF HttpsTypes
<1>4. undoCalls \in Seq(DOMAIN requests') /\ Len(requests) + 1 \in DOMAIN requests'
  BY <1>3, WiderSeq DEF HttpsTypes, Appended
<1>5. undo = "none" => undoCalls' = undoCalls /\ undoCalls' \in Seq(DOMAIN requests')
  BY <1>1, <1>4
<1>6. undo # "none" => undoCalls' \in Seq(DOMAIN requests')
                       /\ Appended(undoCalls', undoCalls, Len(requests) + 1)
  BY <1>1, <1>4, AppendEntry
<1> QED BY <1>2, <1>3, <1>5, <1>6

LEMMA RecordAppends ==
  ASSUME GhTypes, NEW g \in GhCalls, NEW state \in GhStates, AppendRecord(g, state)
  PROVE  /\ ghRecords' \in Seq(Invocation)
         /\ Appended(ghRecords', ghRecords, [call |-> g, state |-> state, undo |-> "none"])
<1>1. [call |-> g, state |-> state, undo |-> "none"] \in Invocation
  BY DEF Invocation, GhStates
<1> QED BY <1>1, AppendEntry DEF AppendRecord, GhTypes

(***************************************************************************)
(* The steps of Finalize.                                                  *)
(***************************************************************************)
LEMMA PersistRecord ==
  ASSUME record \in AuditRecord, NEW calls \in Seq(StagedCall), NEW sent \in Seq(Request),
         NEW saved \in BOOLEAN, Persist(calls, sent, saved)
  PROVE  /\ Written(saved) /\ record' \in AuditRecord
         /\ record'.staged = calls /\ record'.requests = sent
         /\ record'.approvals = record.approvals /\ record'.outcome = record.outcome
BY HttpsRecord DEF Persist, Update, Written

LEMMA FinalizeHttpsEffect ==
  ASSUME HttpsTypes, AuditTypes, NEW saved \in BOOLEAN, FinalizeHttps(saved)
  PROVE  /\ SameCalls(staged')
         /\ IF decision = "commit" /\ ~ghErr
            THEN UNCHANGED <<record, disk>> /\ at' = "replay"
                 /\ todo' = [i \in DOMAIN staged |-> i]
            ELSE /\ Written(saved) /\ record' \in AuditRecord
                 /\ record'.staged = staged' /\ record'.requests = requests
                 /\ record'.approvals = record.approvals /\ record'.outcome = record.outcome
                 /\ at' = "undo" /\ todo' = undoCalls
<1>1. CASE decision = "commit" /\ ~ghErr
  BY <1>1 DEF FinalizeHttps, HttpsTypes, SameCalls
<1>2. CASE ~(decision = "commit" /\ ~ghErr)
  <2>1. SameCalls(staged')
    <3>1. DOMAIN staged = 1..Len(staged) /\ Len(staged) \in Nat
          /\ \A i \in DOMAIN staged : staged[i] \in StagedCall
      BY DEF HttpsTypes
    <3>2. staged' = [i \in DOMAIN staged |-> [staged[i] EXCEPT !.state = "discarded"]]
      BY <1>2 DEF FinalizeHttps
    <3>3. staged' = [i \in 1..Len(staged) |-> staged'[i]] /\ DOMAIN staged' = DOMAIN staged
      BY <3>1, <3>2
    <3>4. \A i \in DOMAIN staged : staged'[i] \in StagedCall /\ staged'[i].call = staged[i].call
      BY <3>1, <3>2 DEF StagedCall
    <3> QED BY <3>1, <3>3, <3>4 DEF SameCalls
  <2>2. Persist(staged', requests, saved) /\ at' = "undo" /\ todo' = undoCalls
    BY <1>2 DEF FinalizeHttps
  <2> QED BY <1>2, <2>1, <2>2, PersistRecord DEF SameCalls, HttpsTypes, AuditTypes
<1> QED BY <1>1, <1>2

LEMMA ReplayEffect ==
  ASSUME HttpsTypes, AuditTypes, TodoInv, NEW saved \in BOOLEAN, Replay(saved)
  PROVE  /\ Head(todo) \in DOMAIN staged
         /\ MarkedCalls(staged', Head(todo), IF saved THEN "sending" ELSE "not-sent")
         /\ Written(saved) /\ record' \in AuditRecord
         /\ MarkedCalls(record'.staged, Head(todo), "sending")
         /\ record'.requests = requests
         /\ record'.approvals = record.approvals /\ record'.outcome = record.outcome
<1>1. Head(todo) \in DOMAIN staged
  BY DEF Replay, TodoInv
<1>2. /\ Persist(Mark(Head(todo), "sending"), requests, saved)
      /\ staged' = Mark(Head(todo), IF saved THEN "sending" ELSE "not-sent")
  BY DEF Replay
<1>3. /\ MarkedCalls(Mark(Head(todo), "sending"), Head(todo), "sending")
      /\ MarkedCalls(staged', Head(todo), IF saved THEN "sending" ELSE "not-sent")
  BY <1>2, MarkCalls DEF HttpsTypes, StagedStates
<1>4. Mark(Head(todo), "sending") \in Seq(StagedCall)
  BY <1>3 DEF MarkedCalls, SameCalls
<1> QED BY <1>1, <1>2, <1>3, <1>4, PersistRecord DEF HttpsTypes, AuditTypes

LEMMA ReplaySendEffect ==
  ASSUME ControlTypes, HttpsTypes, AuditTypes, TodoInv, NEW acted \in BOOLEAN,
         NEW ok \in BOOLEAN, NEW saved \in BOOLEAN, ReplaySend(acted, ok, saved)
  PROVE  /\ Head(todo) \in DOMAIN staged /\ staged[Head(todo)].call \in Stageable
         /\ MarkedCalls(staged', Head(todo), IF ok THEN "sent" ELSE "unknown")
         /\ Written(saved) /\ record' \in AuditRecord
         /\ record'.staged = staged' /\ record'.requests = requests
         /\ record'.approvals = record.approvals /\ record'.outcome = record.outcome
         /\ \A q \in HttpCalls : origin'[q] = IF acted /\ q = staged[Head(todo)].call
                                              THEN "applied" ELSE origin[q]
<1>1. Head(todo) \in DOMAIN staged
  BY DEF ReplaySend, ControlTypes, TodoInv
<1>2. staged[Head(todo)].call \in Stageable
  <2>1. staged[Head(todo)] \in StagedCall
    BY <1>1 DEF HttpsTypes
  <2> QED BY <2>1 DEF StagedCall
<1>3. MarkedCalls(staged', Head(todo), IF ok THEN "sent" ELSE "unknown")
  BY MarkCalls DEF ReplaySend, HttpsTypes, StagedStates
<1>4. Persist(staged', requests, saved) /\ staged' \in Seq(StagedCall)
  BY <1>3 DEF ReplaySend, MarkedCalls, SameCalls
<1>5. \A q \in HttpCalls : origin'[q] = IF acted /\ q = staged[Head(todo)].call
                                        THEN "applied" ELSE origin[q]
  BY DEF ReplaySend, HttpsTypes
<1> QED BY <1>1, <1>2, <1>3, <1>4, <1>5, PersistRecord DEF HttpsTypes, AuditTypes

LEMMA UndoEffect ==
  ASSUME HttpsTypes, AuditTypes, TodoInv, NEW saved \in BOOLEAN, Undo(saved)
  PROVE  /\ Head(todo) \in DOMAIN requests
         /\ IF requests[Head(todo)].undo = "unavailable"
            THEN UNCHANGED <<requests, record, disk>>
            ELSE /\ MarkedRequests(requests', Head(todo), IF saved THEN "undoing" ELSE "failed")
                 /\ Written(saved) /\ record' \in AuditRecord
                 /\ MarkedRequests(record'.requests, Head(todo), "undoing")
                 /\ record'.staged = staged
                 /\ record'.approvals = record.approvals /\ record'.outcome = record.outcome
<1>1. Head(todo) \in DOMAIN requests
  BY DEF Undo, TodoInv
<1>2. CASE requests[Head(todo)].undo = "unavailable"
  BY <1>1, <1>2 DEF Undo
<1>3. CASE requests[Head(todo)].undo # "unavailable"
  <2>1. /\ Persist(staged, MarkUndo(Head(todo), "undoing"), saved)
        /\ requests' = MarkUndo(Head(todo), IF saved THEN "undoing" ELSE "failed")
    BY <1>3 DEF Undo
  <2>2. /\ MarkedRequests(MarkUndo(Head(todo), "undoing"), Head(todo), "undoing")
        /\ MarkedRequests(requests', Head(todo), IF saved THEN "undoing" ELSE "failed")
    BY <2>1, MarkRequests DEF HttpsTypes, UndoStates
  <2>3. MarkUndo(Head(todo), "undoing") \in Seq(Request)
    BY <2>2 DEF MarkedRequests, SameRequests
  <2> QED BY <1>1, <1>3, <2>1, <2>2, <2>3, PersistRecord DEF HttpsTypes, AuditTypes
<1> QED BY <1>2, <1>3

LEMMA UndoSendEffect ==
  ASSUME ControlTypes, HttpsTypes, AuditTypes, TodoInv, NEW acted \in BOOLEAN,
         NEW ok \in BOOLEAN, NEW saved \in BOOLEAN, UndoSend(acted, ok, saved)
  PROVE  /\ Head(todo) \in DOMAIN requests /\ requests[Head(todo)].call \in HttpCalls
         /\ MarkedRequests(requests', Head(todo), IF ok THEN "succeeded" ELSE "failed")
         /\ Written(saved) /\ record' \in AuditRecord
         /\ record'.staged = staged /\ record'.requests = requests'
         /\ record'.approvals = record.approvals /\ record'.outcome = record.outcome
         /\ \A q \in HttpCalls : origin'[q] = IF acted /\ q = requests[Head(todo)].call
                                              THEN "undone" ELSE origin[q]
<1>1. Head(todo) \in DOMAIN requests
  BY DEF UndoSend, ControlTypes, TodoInv
<1>2. requests[Head(todo)].call \in HttpCalls
  <2>1. requests[Head(todo)] \in Request
    BY <1>1 DEF HttpsTypes
  <2> QED BY <2>1 DEF Request
<1>3. MarkedRequests(requests', Head(todo), IF ok THEN "succeeded" ELSE "failed")
  BY MarkRequests DEF UndoSend, HttpsTypes, UndoStates
<1>4. Persist(staged, requests', saved) /\ requests' \in Seq(Request)
  BY <1>3 DEF UndoSend, MarkedRequests, SameRequests
<1>5. \A q \in HttpCalls : origin'[q] = IF acted /\ q = requests[Head(todo)].call
                                        THEN "undone" ELSE origin[q]
  BY DEF UndoSend, HttpsTypes
<1> QED BY <1>1, <1>2, <1>3, <1>4, <1>5, PersistRecord DEF HttpsTypes, AuditTypes

LEMMA UndoGhEffect ==
  ASSUME GhTypes, TodoInv, NEW acted \in BOOLEAN, NEW ok \in BOOLEAN, UndoGh(acted, ok)
  PROVE  /\ Head(todo) \in DOMAIN ghRecords /\ ghRecords[Head(todo)].call \in GhCalls
         /\ acted => ghRecords[Head(todo)].undo = "available"
         /\ MarkedInvocations(ghRecords', Head(todo),
              IF ghRecords[Head(todo)].undo # "available" THEN "unavailable"
              ELSE IF ok THEN "succeeded" ELSE "failed")
         /\ \A g \in GhCalls : ghWorld'[g] = IF acted /\ g = ghRecords[Head(todo)].call
                                             THEN "undone" ELSE ghWorld[g]
<1>1. Head(todo) \in DOMAIN ghRecords
  BY DEF UndoGh, TodoInv
<1>2. ghRecords[Head(todo)].call \in GhCalls
  <2>1. ghRecords[Head(todo)] \in Invocation
    BY <1>1 DEF GhTypes
  <2> QED BY <2>1 DEF Invocation
<1>3. /\ acted => ghRecords[Head(todo)].undo = "available"
      /\ ghRecords' = MarkRecord(Head(todo),
           IF ghRecords[Head(todo)].undo # "available" THEN "unavailable"
           ELSE IF ok THEN "succeeded" ELSE "failed")
      /\ ghWorld' = IF acted THEN [ghWorld EXCEPT ![ghRecords[Head(todo)].call] = "undone"]
                    ELSE ghWorld
  BY DEF UndoGh
<1>4. \A g \in GhCalls : ghWorld'[g] = IF acted /\ g = ghRecords[Head(todo)].call
                                       THEN "undone" ELSE ghWorld[g]
  BY <1>3 DEF GhTypes
<1> QED BY <1>1, <1>2, <1>3, <1>4, MarkInvocations DEF GhTypes, GhUndoStates

(***************************************************************************)
(* The handlers of the HTTPS proxy.                                        *)
(***************************************************************************)
LEMMA ArriveStep ==
  ASSUME RunInv, NEW q \in HttpCalls, Arrive(q)
  PROVE  RunInv'
<1> USE DEF RunInv
<1>1. ControlTypes' /\ ReviewTypes' /\ AuditTypes' /\ HttpsTypes' /\ GhTypes'
  BY DEF Arrive, HandlerFrame, Move, ControlTypes, Labels, ReviewTypes, AuditTypes,
     HttpsTypes, Handling, GhTypes
<1>2. PhaseInv' /\ GateInv'
  BY DEF Arrive, HandlerFrame, Move, ControlTypes, PhaseInv, GateInv
<1>3. StartInv'
  BY DEF Arrive, HandlerFrame, Move, GateInv, StartInv, Serving
<1>4. PromptInv' /\ TodoInv'
  BY DEF Arrive, HandlerFrame, Move, ControlTypes, HttpsTypes, GhTypes, PromptInv, TodoInv
<1>5. HandlerInv' /\ ListInv'
  BY DEF Arrive, HandlerFrame, Move, HttpsTypes, HandlerInv, ListInv
<1>6. QuietInv'
  BY DEF Arrive, HandlerFrame, Move, PhaseInv, GateInv, QuietInv, Serving
<1> QED BY <1>1, <1>2, <1>3, <1>4, <1>5, <1>6

LEMMA BlockStep ==
  ASSUME RunInv, NEW q \in HttpCalls, Block(q)
  PROVE  RunInv'
<1> USE DEF RunInv
<1>1. ControlTypes' /\ ReviewTypes' /\ AuditTypes' /\ HttpsTypes' /\ GhTypes'
  BY DEF Block, HandlerFrame, Move, ControlTypes, Labels, ReviewTypes, AuditTypes,
     HttpsTypes, Handling, GhTypes
<1>2. PhaseInv' /\ GateInv' /\ StartInv'
  BY DEF Block, HandlerFrame, Move, ControlTypes, PhaseInv, GateInv, StartInv,
     NothingStarted, Serving
<1>3. PromptInv' /\ TodoInv'
  BY DEF Block, HandlerFrame, Move, ControlTypes, HttpsTypes, GhTypes, PromptInv, TodoInv
<1>4. HandlerInv' /\ ListInv'
  BY DEF Block, HandlerFrame, Move, HttpsTypes, HandlerInv, ListInv
<1>5. QuietInv'
  BY DEF Block, HandlerFrame, Move, PhaseInv, GateInv, QuietInv, Drained
<1> QED BY <1>1, <1>2, <1>3, <1>4, <1>5

LEMMA StageStep ==
  ASSUME RunInv, NEW q \in HttpCalls, Stage(q)
  PROVE  RunInv'
<1> USE DEF RunInv
<1>a. /\ staged' \in Seq(StagedCall)
      /\ Appended(staged', staged, [call |-> q, state |-> "pending"])
  BY StageAppends
<1>1. ControlTypes' /\ ReviewTypes' /\ AuditTypes' /\ GhTypes'
  BY DEF Stage, HandlerFrame, Move, ControlTypes, Labels, ReviewTypes, AuditTypes, GhTypes
<1>2. HttpsTypes'
  BY <1>a DEF Stage, HandlerFrame, Move, HttpsTypes, Handling
<1>3. PhaseInv' /\ GateInv' /\ StartInv'
  BY DEF Stage, HandlerFrame, Move, ControlTypes, PhaseInv, GateInv, StartInv,
     NothingStarted, Serving
<1>4. PromptInv'
  BY DEF Stage, HandlerFrame, Move, ControlTypes, HttpsTypes, GhTypes, PromptInv
<1>5. TodoInv'
  BY <1>a, WiderSeq DEF Stage, HandlerFrame, TodoInv, Appended
<1>6. HandlerInv'
  BY <1>a DEF Stage, HandlerFrame, Move, HttpsTypes, HandlerInv, Appended
<1>7. ListInv'
  BY <1>a DEF Stage, HandlerFrame, Move, HandlerInv, ListInv, Appended
<1>8. QuietInv'
  BY DEF Stage, HandlerFrame, Move, PhaseInv, GateInv, QuietInv, Drained
<1> QED BY <1>1, <1>2, <1>3, <1>4, <1>5, <1>6, <1>7, <1>8

LEMMA AskStep ==
  ASSUME RunInv, NEW q \in HttpCalls, Ask(q)
  PROVE  RunInv'
<1> USE DEF RunInv
<1>1. ControlTypes' /\ ReviewTypes' /\ AuditTypes' /\ HttpsTypes' /\ GhTypes'
  BY DEF Ask, HandlerFrame, Move, ControlTypes, Labels, ReviewTypes, AuditTypes,
     HttpsTypes, Handling, GhTypes
<1>2. PhaseInv' /\ GateInv' /\ StartInv'
  BY DEF Ask, HandlerFrame, Move, ControlTypes, PhaseInv, GateInv, StartInv,
     NothingStarted, Serving
<1>3. PromptInv' /\ TodoInv'
  BY DEF Ask, HandlerFrame, Move, ControlTypes, HttpsTypes, GhTypes, PromptInv, TodoInv
<1>4. HandlerInv' /\ ListInv'
  BY DEF Ask, HandlerFrame, Move, HttpsTypes, HandlerInv, ListInv
<1>5. QuietInv'
  BY DEF Ask, HandlerFrame, Move, PhaseInv, GateInv, QuietInv, Drained
<1> QED BY <1>1, <1>2, <1>3, <1>4, <1>5

LEMMA AskCancelledStep ==
  ASSUME RunInv, NEW q \in HttpCalls, AskCancelled(q)
  PROVE  RunInv'
<1> USE DEF RunInv
<1>1. ControlTypes' /\ ReviewTypes' /\ AuditTypes' /\ HttpsTypes' /\ GhTypes'
  BY DEF AskCancelled, HandlerFrame, Move, ControlTypes, Labels, ReviewTypes, AuditTypes,
     HttpsTypes, Handling, GhTypes
<1>2. PhaseInv' /\ GateInv' /\ StartInv'
  BY DEF AskCancelled, HandlerFrame, Move, ControlTypes, PhaseInv, GateInv, StartInv,
     NothingStarted, Serving
<1>3. PromptInv'
  BY DEF AskCancelled, HandlerFrame, Move, ControlTypes, HttpsTypes, GateInv, PromptInv
<1>4. TodoInv'
  BY DEF AskCancelled, HandlerFrame, Move, TodoInv
<1>5. HandlerInv' /\ ListInv'
  BY DEF AskCancelled, HandlerFrame, Move, HttpsTypes, HandlerInv, ListInv
<1>6. QuietInv'
  BY DEF AskCancelled, HandlerFrame, Move, PhaseInv, GateInv, QuietInv, Drained
<1> QED BY <1>1, <1>2, <1>3, <1>4, <1>5, <1>6

LEMMA ForwardStep ==
  ASSUME RunInv, NEW q \in HttpCalls, Forward(q)
  PROVE  RunInv'
<1> USE DEF RunInv
<1>1. ControlTypes' /\ ReviewTypes' /\ AuditTypes' /\ HttpsTypes' /\ GhTypes'
  BY DEF Forward, HandlerFrame, Move, MayForward, ControlTypes, Labels, ReviewTypes,
     AuditTypes, HttpsTypes, Handling, GhTypes
<1>2. PhaseInv' /\ GateInv' /\ StartInv'
  BY DEF Forward, HandlerFrame, Move, MayForward, ControlTypes, PhaseInv, GateInv,
     StartInv, NothingStarted, Serving
<1>3. PromptInv' /\ TodoInv'
  BY DEF Forward, HandlerFrame, Move, MayForward, ControlTypes, HttpsTypes, GhTypes,
     PromptInv, TodoInv
<1>4. HandlerInv' /\ ListInv'
  BY DEF Forward, HandlerFrame, Move, MayForward, HttpsTypes, HandlerInv, ListInv
<1>5. QuietInv'
  BY DEF Forward, HandlerFrame, Move, MayForward, PhaseInv, GateInv, QuietInv, Drained
<1> QED BY <1>1, <1>2, <1>3, <1>4, <1>5

LEMMA ForwardCancelledStep ==
  ASSUME RunInv, NEW q \in HttpCalls, ForwardCancelled(q)
  PROVE  RunInv'
<1> USE DEF RunInv
<1>a. /\ requests' \in Seq(Request) /\ undoCalls' \in Seq(DOMAIN requests')
      /\ Appended(requests', requests, [call |-> q, undo |-> "none"])
  BY ForwardCancelledAppends DEF ForwardCancelled
<1>b. q \notin Stageable /\ hpc[q] # "done"
  BY DEF ForwardCancelled, MayForward, HandlerInv
<1>1. ControlTypes' /\ ReviewTypes' /\ AuditTypes' /\ GhTypes'
  BY DEF ForwardCancelled, HandlerFrame, Move, MayForward, ControlTypes, Labels,
     ReviewTypes, AuditTypes, GhTypes
<1>2. HttpsTypes'
  BY <1>a DEF ForwardCancelled, HandlerFrame, Move, HttpsTypes, Handling
<1>3. PhaseInv' /\ GateInv' /\ StartInv'
  BY DEF ForwardCancelled, HandlerFrame, Move, MayForward, ControlTypes, PhaseInv,
     GateInv, StartInv, NothingStarted, Serving
<1>4. PromptInv'
  BY DEF ForwardCancelled, HandlerFrame, Move, MayForward, ControlTypes, HttpsTypes,
     GhTypes, PromptInv
<1>5. TodoInv'
  BY <1>a, WiderSeq DEF ForwardCancelled, HandlerFrame, TodoInv, Appended
<1>6. HandlerInv'
  BY <1>a DEF ForwardCancelled, HandlerFrame, Move, MayForward, HttpsTypes, HandlerInv, Appended
<1>7. ListInv'
  <2>1. UNCHANGED <<at, staged, reviewed>>
    BY DEF ForwardCancelled, HandlerFrame
  <2>2. \A i \in DOMAIN requests : requests[i].call # q
    BY <1>b DEF HandlerInv
  <2>3. \A i, j \in DOMAIN requests' : requests'[i].call = requests'[j].call => i = j
    BY <1>a, <2>2 DEF ListInv, Appended
  <2>4. \A i \in DOMAIN requests' : requests'[i].call \notin Stageable
    BY <1>a, <1>b DEF ListInv, Appended
  <2>5. ASSUME at \in Early \cup Open \cup {"decide", "finGh", "undoGh", "finHttps"},
               NEW i \in DOMAIN requests', requests'[i].undo # "none"
        PROVE  \E k \in DOMAIN undoCalls' : undoCalls'[k] = i
    BY <1>a, <2>5 DEF ForwardCancelled, ListInv, Appended
  <2>6. Len(reviewed.requests) \in Nat
    BY DEF ReviewTypes
  <2> QED BY <1>a, <2>1, <2>3, <2>4, <2>5, <2>6 DEF ListInv, Appended
<1>8. QuietInv'
  BY DEF ForwardCancelled, HandlerFrame, Move, MayForward, PhaseInv, GateInv, QuietInv,
     Drained
<1> QED BY <1>1, <1>2, <1>3, <1>4, <1>5, <1>6, <1>7, <1>8

LEMMA AnswerHttpsStep ==
  ASSUME RunInv, NEW q \in HttpCalls, NEW yes \in BOOLEAN, AnswerHttps(q, yes)
  PROVE  RunInv'
<1> USE DEF RunInv
<1>1. ControlTypes' /\ ReviewTypes' /\ AuditTypes' /\ HttpsTypes' /\ GhTypes'
  BY DEF AnswerHttps, HandlerFrame, Move, ControlTypes, Labels, ReviewTypes, AuditTypes,
     HttpsTypes, Handling, GhTypes
<1>2. PhaseInv' /\ GateInv' /\ StartInv'
  BY DEF AnswerHttps, HandlerFrame, Move, ControlTypes, PhaseInv, GateInv, StartInv,
     NothingStarted, Serving
<1>3. PromptInv' /\ TodoInv'
  BY DEF AnswerHttps, HandlerFrame, Move, ControlTypes, HttpsTypes, GhTypes, PromptInv,
     TodoInv
<1>4. HandlerInv'
  BY DEF AnswerHttps, HandlerFrame, Move, HttpsTypes, PromptInv, HandlerInv
<1>5. ListInv'
  BY DEF AnswerHttps, HandlerFrame, Move, HttpsTypes, ListInv
<1>6. QuietInv'
  BY DEF AnswerHttps, HandlerFrame, Move, PhaseInv, GateInv, QuietInv, Drained
<1> QED BY <1>1, <1>2, <1>3, <1>4, <1>5, <1>6

LEMMA RecordHttpsStep ==
  ASSUME RunInv, NEW q \in HttpCalls, NEW saved \in BOOLEAN, RecordHttps(q, saved)
  PROVE  RunInv'
<1> USE DEF RunInv
<1>1. ControlTypes' /\ ReviewTypes' /\ HttpsTypes' /\ GhTypes'
  BY DEF RecordHttps, HandlerFrame, Move, Update, ControlTypes, Labels, ReviewTypes,
     HttpsTypes, Handling, GhTypes
<1>2. AuditTypes'
  BY ZenonT(40), ApprovalRecord, UpdateTyped DEF RecordHttps, AuditTypes
<1>3. PhaseInv' /\ GateInv' /\ StartInv'
  BY DEF RecordHttps, HandlerFrame, Move, Update, ControlTypes, PhaseInv, GateInv,
     StartInv, NothingStarted, Serving
<1>4. PromptInv' /\ TodoInv'
  BY DEF RecordHttps, HandlerFrame, Move, Update, ControlTypes, HttpsTypes, GhTypes,
     PromptInv, TodoInv
<1>5. HandlerInv' /\ ListInv'
  BY DEF RecordHttps, HandlerFrame, Move, Update, HttpsTypes, HandlerInv, ListInv
<1>6. QuietInv'
  BY DEF RecordHttps, HandlerFrame, Move, Update, PhaseInv, GateInv, QuietInv, Drained
<1> QED BY <1>1, <1>2, <1>3, <1>4, <1>5, <1>6

LEMMA RespondStep ==
  ASSUME RunInv, NEW q \in HttpCalls, NEW acted \in BOOLEAN, NEW ok \in BOOLEAN, NEW
         renders \in BOOLEAN, Respond(q, acted, ok, renders)
  PROVE  RunInv'
<1> USE DEF RunInv
<1>a. PICK undo \in {"none", "available", "unavailable"} :
        /\ requests' \in Seq(Request) /\ undoCalls' \in Seq(DOMAIN requests')
        /\ Appended(requests', requests, [call |-> q, undo |-> undo])
        /\ IF undo = "none" THEN undoCalls' = undoCalls
           ELSE Appended(undoCalls', undoCalls, Len(requests) + 1)
  BY RespondAppends
<1>b. q \notin Stageable /\ hpc[q] = "sending"
  BY DEF Respond, HandlerInv
<1>c. Appended(requests', requests, [call |-> q, undo |-> undo])
  BY <1>a
<1>1. ControlTypes' /\ ReviewTypes' /\ AuditTypes' /\ GhTypes'
  BY DEF Respond, HandlerFrame, Move, ControlTypes, Labels, ReviewTypes, AuditTypes,
     GhTypes
<1>2. HttpsTypes'
  BY <1>a DEF Respond, HandlerFrame, Move, HttpsTypes, Handling
<1>3. PhaseInv' /\ GateInv' /\ StartInv'
  BY DEF Respond, HandlerFrame, Move, ControlTypes, PhaseInv, GateInv, StartInv,
     NothingStarted, Serving
<1>4. PromptInv'
  BY DEF Respond, HandlerFrame, Move, ControlTypes, HttpsTypes, GhTypes, PromptInv
<1>5. TodoInv'
  BY <1>a, WiderSeq DEF Respond, HandlerFrame, TodoInv, Appended
<1>6. HandlerInv'
  BY <1>a DEF Respond, HandlerFrame, Move, HttpsTypes, HandlerInv, Appended
<1>7. ListInv'
  <2>1. UNCHANGED <<at, staged, reviewed>>
    BY DEF Respond, HandlerFrame
  <2>2. \A i \in DOMAIN requests : requests[i].call # q
    BY <1>b DEF HandlerInv
  <2>3. \A i, j \in DOMAIN requests' : requests'[i].call = requests'[j].call => i = j
    BY <1>c, <2>2 DEF ListInv, Appended
  <2>4. \A i \in DOMAIN requests' : requests'[i].call \notin Stageable
    BY <1>c, <1>b DEF ListInv, Appended
  <2>5. ASSUME at \in Early \cup Open \cup {"decide", "finGh", "undoGh", "finHttps"},
               NEW i \in DOMAIN requests', requests'[i].undo # "none"
        PROVE  \E k \in DOMAIN undoCalls' : undoCalls'[k] = i
    <3>1. CASE i = Len(requests) + 1
      BY <1>a, <2>5, <3>1 DEF Appended
    <3>2. CASE i \in DOMAIN requests
      <4>1. PICK k \in DOMAIN undoCalls : undoCalls[k] = i
        BY <1>c, <2>5, <3>2 DEF ListInv, Appended
      <4>2. k \in DOMAIN undoCalls' /\ undoCalls'[k] = undoCalls[k]
        BY <1>a DEF Appended
      <4> QED BY <4>1, <4>2
    <3> QED BY <1>c, <3>1, <3>2 DEF Appended
  <2>6. Len(reviewed.requests) \in Nat
    BY DEF ReviewTypes
  <2> QED BY <1>c, <2>1, <2>3, <2>4, <2>5, <2>6 DEF ListInv, Appended
<1>8. QuietInv'
  BY DEF Respond, HandlerFrame, Move, PhaseInv, GateInv, QuietInv, Drained
<1> QED BY <1>1, <1>2, <1>3, <1>4, <1>5, <1>6, <1>7, <1>8

(***************************************************************************)
(* The invocations of gh.                                                  *)
(***************************************************************************)
LEMMA GhAskStep ==
  ASSUME RunInv, NEW g \in GhCalls, GhAsk(g)
  PROVE  RunInv'
<1> USE DEF RunInv
<1>1. ControlTypes' /\ ReviewTypes' /\ AuditTypes' /\ HttpsTypes' /\ GhTypes'
  BY DEF GhAsk, ShimFrame, MoveGh, ControlTypes, Labels, ReviewTypes, AuditTypes,
     HttpsTypes, Handling, GhTypes
<1>2. PhaseInv' /\ GateInv'
  BY DEF GhAsk, ShimFrame, MoveGh, ControlTypes, PhaseInv, GateInv
<1>3. StartInv'
  BY DEF GhAsk, ShimFrame, MoveGh, GateInv, StartInv, Serving
<1>4. PromptInv' /\ TodoInv'
  BY DEF GhAsk, ShimFrame, MoveGh, ControlTypes, HttpsTypes, GhTypes, PromptInv, TodoInv
<1>5. HandlerInv' /\ ListInv'
  BY DEF GhAsk, ShimFrame, MoveGh, HttpsTypes, HandlerInv, ListInv
<1>6. QuietInv'
  BY DEF GhAsk, ShimFrame, MoveGh, PhaseInv, GateInv, QuietInv, Drained
<1> QED BY <1>1, <1>2, <1>3, <1>4, <1>5, <1>6

LEMMA GhAskCancelledStep ==
  ASSUME RunInv, NEW g \in GhCalls, GhAskCancelled(g)
  PROVE  RunInv'
<1> USE DEF RunInv
<1>a. /\ ghRecords' \in Seq(Invocation)
      /\ Appended(ghRecords', ghRecords, [call |-> g, state |-> "not-run", undo |-> "none"])
  BY RecordAppends DEF GhAskCancelled, GhStates
<1>1. ControlTypes' /\ ReviewTypes' /\ AuditTypes' /\ HttpsTypes'
  BY DEF GhAskCancelled, ShimFrame, MoveGh, AppendRecord, ControlTypes, Labels,
     ReviewTypes, AuditTypes, HttpsTypes, Handling
<1>2. GhTypes'
  BY <1>a DEF GhAskCancelled, ShimFrame, MoveGh, GhTypes
<1>3. PhaseInv' /\ GateInv' /\ StartInv'
  BY DEF GhAskCancelled, ShimFrame, MoveGh, AppendRecord, ControlTypes, PhaseInv, GateInv,
     StartInv, NothingStarted, Serving
<1>4. PromptInv'
  BY DEF GhAskCancelled, ShimFrame, MoveGh, AppendRecord, ControlTypes, GhTypes, GateInv, PromptInv
<1>5. TodoInv'
  BY <1>a, WiderSeq DEF GhAskCancelled, ShimFrame, TodoInv, Appended
<1>6. HandlerInv' /\ ListInv'
  BY DEF GhAskCancelled, ShimFrame, MoveGh, AppendRecord, HttpsTypes, HandlerInv, ListInv
<1>7. QuietInv'
  BY DEF GhAskCancelled, ShimFrame, MoveGh, AppendRecord, PhaseInv, GateInv, QuietInv,
     Drained
<1> QED BY <1>1, <1>2, <1>3, <1>4, <1>5, <1>6, <1>7

LEMMA AnswerGhStep ==
  ASSUME RunInv, NEW g \in GhCalls, NEW yes \in BOOLEAN, AnswerGh(g, yes)
  PROVE  RunInv'
<1> USE DEF RunInv
<1>1. ControlTypes' /\ ReviewTypes' /\ AuditTypes' /\ HttpsTypes' /\ GhTypes'
  BY DEF AnswerGh, ShimFrame, MoveGh, ControlTypes, Labels, ReviewTypes, AuditTypes,
     HttpsTypes, Handling, GhTypes
<1>2. PhaseInv' /\ GateInv' /\ StartInv'
  BY DEF AnswerGh, ShimFrame, MoveGh, ControlTypes, PhaseInv, GateInv, StartInv,
     NothingStarted, Serving
<1>3. PromptInv' /\ TodoInv'
  BY DEF AnswerGh, ShimFrame, MoveGh, ControlTypes, HttpsTypes, GhTypes, PromptInv,
     TodoInv
<1>4. HandlerInv' /\ ListInv'
  BY DEF AnswerGh, ShimFrame, MoveGh, HttpsTypes, HandlerInv, ListInv
<1>5. QuietInv'
  BY DEF AnswerGh, ShimFrame, MoveGh, PhaseInv, GateInv, QuietInv, Drained
<1> QED BY <1>1, <1>2, <1>3, <1>4, <1>5

LEMMA RecordGhStep ==
  ASSUME RunInv, NEW g \in GhCalls, NEW saved \in BOOLEAN, RecordGh(g, saved)
  PROVE  RunInv'
<1> USE DEF RunInv
<1>a. PICK state \in GhStates :
        /\ ghRecords' \in Seq(Invocation)
        /\ Appended(ghRecords', ghRecords, [call |-> g, state |-> state, undo |-> "none"])
  BY RecordAppends DEF RecordGh, GhStates
<1>1. ControlTypes' /\ ReviewTypes' /\ HttpsTypes'
  BY DEF RecordGh, ShimFrame, MoveGh, AppendRecord, Update, ControlTypes, Labels,
     ReviewTypes, HttpsTypes, Handling
<1>2. AuditTypes'
  BY ZenonT(40), ApprovalRecord, UpdateTyped DEF RecordGh, AuditTypes
<1>3. GhTypes'
  BY <1>a DEF RecordGh, ShimFrame, MoveGh, GhTypes
<1>4. PhaseInv' /\ GateInv' /\ StartInv'
  BY DEF RecordGh, ShimFrame, MoveGh, AppendRecord, Update, ControlTypes, PhaseInv,
     GateInv, StartInv, NothingStarted, Serving
<1>5. PromptInv'
  BY DEF RecordGh, ShimFrame, MoveGh, AppendRecord, Update, ControlTypes, HttpsTypes,
     GhTypes, PromptInv
<1>6. TodoInv'
  BY <1>a, WiderSeq DEF RecordGh, ShimFrame, TodoInv, Appended
<1>7. HandlerInv' /\ ListInv'
  BY DEF RecordGh, ShimFrame, MoveGh, AppendRecord, Update, HttpsTypes, HandlerInv,
     ListInv
<1>8. QuietInv'
  BY DEF RecordGh, ShimFrame, MoveGh, AppendRecord, Update, PhaseInv, GateInv, QuietInv,
     Drained
<1> QED BY <1>1, <1>2, <1>3, <1>4, <1>5, <1>6, <1>7, <1>8

LEMMA GhFinishStep ==
  ASSUME RunInv, NEW g \in GhCalls, NEW acted \in BOOLEAN, NEW result \in {"ran",
         "failed", "not-run"}, NEW url \in BOOLEAN, NEW reported \in BOOLEAN, GhFinish(g,
         acted, result, url, reported)
  PROVE  RunInv'
<1> USE DEF RunInv
<1>1. ControlTypes' /\ ReviewTypes' /\ AuditTypes' /\ HttpsTypes'
  BY DEF GhFinish, ShimFrame, MoveGh, ControlTypes, Labels, ReviewTypes, AuditTypes,
     HttpsTypes, Handling
<1>2. GhTypes'
  <2>1. ghRecords' \in Seq(Invocation)
    BY OutcomeRecords DEF GhFinish, GhTypes, SameInvocations
  <2> QED BY <2>1 DEF GhFinish, ShimFrame, MoveGh, GhTypes
<1>3. PhaseInv' /\ GateInv' /\ StartInv'
  BY DEF GhFinish, ShimFrame, MoveGh, ControlTypes, PhaseInv, GateInv, StartInv,
     NothingStarted, Serving
<1>4. PromptInv'
  BY DEF GhFinish, ShimFrame, MoveGh, ControlTypes, HttpsTypes, GhTypes, PromptInv
<1>5. TodoInv'
  <2>1. DOMAIN ghRecords' = DOMAIN ghRecords
    BY OutcomeRecords DEF GhFinish, GhTypes, SameInvocations
  <2> QED BY <2>1 DEF GhFinish, ShimFrame, TodoInv
<1>6. HandlerInv' /\ ListInv'
  BY DEF GhFinish, ShimFrame, MoveGh, HttpsTypes, HandlerInv, ListInv
<1>7. QuietInv'
  BY DEF GhFinish, ShimFrame, MoveGh, PhaseInv, GateInv, QuietInv, Drained
<1> QED BY <1>1, <1>2, <1>3, <1>4, <1>5, <1>6, <1>7

(***************************************************************************)
(* The HTTPS proxy, sealed and finalized by runCommand.                    *)
(***************************************************************************)
LEMMA HttpsSealStep ==
  ASSUME RunInv, HttpsSeal
  PROVE  RunInv'
<1> USE DEF RunInv
<1>1. ControlTypes' /\ ReviewTypes' /\ AuditTypes' /\ HttpsTypes' /\ GhTypes'
  BY DEF HttpsSeal, Goto, ControlTypes, Labels, ReviewTypes, AuditTypes, HttpsTypes,
     Handling, GhTypes
<1>2. PhaseInv' /\ GateInv' /\ StartInv'
  BY DEF HttpsSeal, Goto, ControlTypes, PhaseInv, GateInv, StartInv, NothingStarted,
     Serving
<1>3. PromptInv' /\ TodoInv'
  BY DEF HttpsSeal, Goto, ControlTypes, HttpsTypes, GhTypes, PromptInv, TodoInv
<1>4. HandlerInv' /\ ListInv'
  BY DEF HttpsSeal, Goto, HttpsTypes, HandlerInv, ListInv
<1>5. QuietInv'
  BY DEF HttpsSeal, Goto, PhaseInv, GateInv, QuietInv, Drained
<1> QED BY <1>1, <1>2, <1>3, <1>4, <1>5

LEMMA HttpsSealedStep ==
  ASSUME RunInv, NEW ok \in BOOLEAN, HttpsSealed(ok)
  PROVE  RunInv'
<1> USE DEF RunInv
<1>1. ControlTypes' /\ AuditTypes' /\ HttpsTypes' /\ GhTypes'
  BY DEF HttpsSealed, Goto, ControlTypes, Labels, AuditTypes, HttpsTypes, Handling,
     GhTypes
<1>2. ReviewTypes'
  BY DEF HttpsSealed, ReviewTypes, HttpsTypes
<1>3. PhaseInv' /\ GateInv' /\ StartInv'
  BY DEF HttpsSealed, Goto, ControlTypes, PhaseInv, GateInv, StartInv, NothingStarted,
     Serving
<1>4. PromptInv' /\ TodoInv'
  BY DEF HttpsSealed, Goto, ControlTypes, HttpsTypes, GhTypes, PromptInv, TodoInv
<1>5. HandlerInv'
  BY DEF HttpsSealed, Goto, HttpsTypes, HandlerInv
<1>6. ListInv'
  BY DEF HttpsSealed, ReviewTypes, HttpsTypes, ListInv
<1>7. QuietInv'
  BY DEF HttpsSealed, ReviewTypes, PhaseInv, QuietInv, Drained
<1> QED BY <1>1, <1>2, <1>3, <1>4, <1>5, <1>6, <1>7

LEMMA FinalizeHttpsStep ==
  ASSUME RunInv, NEW saved \in BOOLEAN, FinalizeHttps(saved)
  PROVE  RunInv'
<1> USE DEF RunInv
<1>a. /\ SameCalls(staged')
      /\ IF decision = "commit" /\ ~ghErr
         THEN UNCHANGED <<record, disk>> /\ at' = "replay" /\ todo' = [i \in DOMAIN staged |-> i]
         ELSE /\ Written(saved) /\ record' \in AuditRecord
              /\ at' = "undo" /\ todo' = undoCalls
  BY FinalizeHttpsEffect
<1>b. UNCHANGED <<requests, hpc, origin, undoCalls, reviewed, sealing, approvals>>
      /\ at = "finHttps" /\ at' \in {"replay", "undo"}
  BY DEF FinalizeHttps, FinalizeFrame
<1>1. ControlTypes'
  <2>1. todo' \in Seq(Nat \ {0})
    <3>1. CASE todo' = [i \in DOMAIN staged |-> i]
      BY <3>1 DEF HttpsTypes
    <3>2. CASE todo' = undoCalls
      <4>1. DOMAIN requests \subseteq Nat \ {0}
        BY DEF HttpsTypes
      <4> QED BY <3>2, <4>1, WiderSeq DEF HttpsTypes
    <3> QED BY <1>a, <3>1, <3>2
  <2> QED BY <2>1 DEF FinalizeHttps, FinalizeFrame, ControlTypes, Labels
<1>2. ReviewTypes' /\ GhTypes'
  BY DEF FinalizeHttps, Goto, Persist, Update, FinalizeFrame, ReviewTypes, GhTypes
<1>3. AuditTypes'
  BY <1>a DEF AuditTypes, Written
<1>4. HttpsTypes'
  <2>1. finErr' \in BOOLEAN
    BY DEF FinalizeHttps, HttpsTypes
  <2> QED BY <1>a, <1>b, <2>1 DEF HttpsTypes, SameCalls
<1>5. PhaseInv' /\ GateInv' /\ StartInv'
  BY DEF FinalizeHttps, Goto, Persist, Update, FinalizeFrame, ControlTypes, PhaseInv,
     GateInv, StartInv, NothingStarted, Serving
<1>6. PromptInv'
  BY DEF FinalizeHttps, Goto, Persist, Update, FinalizeFrame, ControlTypes, HttpsTypes,
     GhTypes, PromptInv
<1>7. TodoInv'
  <2>1. [i \in DOMAIN staged |-> i] \in Seq(DOMAIN staged)
    BY DEF HttpsTypes
  <2> QED BY <1>a, <1>b, <2>1 DEF TodoInv, HttpsTypes, SameCalls
<1>8. HandlerInv'
  BY <1>a, <1>b DEF HandlerInv, SameCalls
<1>9. ListInv'
  BY <1>a, <1>b DEF ListInv, SameCalls
<1>10. QuietInv'
  BY <1>a, <1>b DEF FinalizeHttps, FinalizeFrame, PhaseInv, QuietInv, Drained, SameCalls
<1> QED BY <1>1, <1>2, <1>3, <1>4, <1>5, <1>6, <1>7, <1>8, <1>9, <1>10

LEMMA ReplayStep ==
  ASSUME RunInv, NEW saved \in BOOLEAN, Replay(saved)
  PROVE  RunInv'
<1> USE DEF RunInv
<1>a. Head(todo) \in DOMAIN staged /\ SameCalls(staged')
  BY ReplayEffect DEF MarkedCalls
<1>b. UNCHANGED <<requests, origin, hpc, undoCalls, reviewed, sealing, approvals>>
      /\ at = "replay" /\ at' \in {"replay", "replaySend"}
  BY DEF Replay, FinalizeFrame
<1>c. /\ todo' \in Seq(Nat \ {0}) /\ todo' \in Seq(DOMAIN staged)
      /\ at' = "replaySend" => todo' # <<>>
  <2>1. /\ todo \in Seq(Nat \ {0}) /\ todo \in Seq(DOMAIN staged) /\ todo # <<>>
    BY <1>b DEF Replay, ControlTypes, TodoInv
  <2>2. todo' = todo \/ (at' = "replay" /\ todo' = Tail(todo))
    BY <1>b DEF Replay
  <2> QED BY SMTT(30), <2>1, <2>2
<1>1. ControlTypes'
  BY <1>b, <1>c DEF Replay, FinalizeFrame, ControlTypes, Labels
<1>2. ReviewTypes' /\ GhTypes'
  BY DEF Replay, Goto, Persist, Update, FinalizeFrame, ReviewTypes, GhTypes
<1>3. AuditTypes'
  BY ReplayEffect DEF AuditTypes, Written
<1>4. HttpsTypes'
  <2>1. finErr' \in BOOLEAN
    BY DEF Replay, HttpsTypes
  <2> QED BY <1>a, <1>b, <2>1 DEF HttpsTypes, SameCalls
<1>5. PhaseInv' /\ GateInv' /\ StartInv'
  BY DEF Replay, Goto, Persist, Update, FinalizeFrame, ControlTypes, PhaseInv, GateInv,
     StartInv, NothingStarted, Serving
<1>6. PromptInv'
  BY DEF Replay, Goto, Persist, Update, FinalizeFrame, ControlTypes, HttpsTypes, GhTypes,
     PromptInv
<1>7. TodoInv'
  BY <1>a, <1>b, <1>c DEF TodoInv, SameCalls
<1>8. HandlerInv'
  BY <1>a, <1>b DEF HandlerInv, SameCalls
<1>9. ListInv'
  BY <1>a, <1>b DEF ListInv, SameCalls
<1>10. QuietInv'
  BY <1>a, <1>b DEF Replay, FinalizeFrame, PhaseInv, QuietInv, Drained, SameCalls
<1> QED BY <1>1, <1>2, <1>3, <1>4, <1>5, <1>6, <1>7, <1>8, <1>9, <1>10

LEMMA UndoStep ==
  ASSUME RunInv, NEW saved \in BOOLEAN, Undo(saved)
  PROVE  RunInv'
<1> USE DEF RunInv
<1>a. Head(todo) \in DOMAIN requests /\ SameRequests(requests')
  BY UndoEffect DEF MarkedRequests, SameRequests, HttpsTypes
<1>b. UNCHANGED <<staged, origin, hpc, undoCalls, reviewed, sealing, approvals>>
      /\ at = "undo" /\ at' \in {"undo", "undoSend"}
  BY DEF Undo, FinalizeFrame
<1>c. /\ todo' \in Seq(Nat \ {0}) /\ todo' \in Seq(DOMAIN requests)
      /\ at' = "undoSend" => todo' # <<>>
  <2>1. /\ todo \in Seq(Nat \ {0}) /\ todo \in Seq(DOMAIN requests) /\ todo # <<>>
    BY <1>b DEF Undo, ControlTypes, TodoInv
  <2>2. todo' = todo \/ (at' = "undo" /\ todo' = Tail(todo))
    BY <1>b DEF Undo
  <2> QED BY SMTT(30), <2>1, <2>2
<1>1. ControlTypes'
  BY <1>b, <1>c DEF Undo, FinalizeFrame, ControlTypes, Labels
<1>2. ReviewTypes' /\ GhTypes'
  BY DEF Undo, Goto, Persist, Update, FinalizeFrame, ReviewTypes, GhTypes
<1>3. AuditTypes'
  BY UndoEffect DEF AuditTypes, Written
<1>4. HttpsTypes'
  <2>1. finErr' \in BOOLEAN
    BY DEF Undo, HttpsTypes
  <2> QED BY <1>a, <1>b, <2>1 DEF HttpsTypes, SameRequests
<1>5. PhaseInv' /\ GateInv' /\ StartInv'
  BY DEF Undo, Goto, Persist, Update, FinalizeFrame, ControlTypes, PhaseInv, GateInv,
     StartInv, NothingStarted, Serving
<1>6. PromptInv'
  BY DEF Undo, Goto, Persist, Update, FinalizeFrame, ControlTypes, HttpsTypes, GhTypes,
     PromptInv
<1>7. TodoInv'
  BY <1>a, <1>b, <1>c DEF TodoInv, SameRequests
<1>8. HandlerInv'
  BY <1>a, <1>b DEF HandlerInv, SameRequests
<1>9. ListInv'
  BY <1>a, <1>b DEF ListInv, SameRequests
<1>10. QuietInv'
  BY DEF Undo, Goto, Persist, Update, FinalizeFrame, PhaseInv, GateInv, QuietInv, Drained
<1> QED BY <1>1, <1>2, <1>3, <1>4, <1>5, <1>6, <1>7, <1>8, <1>9, <1>10

LEMMA EndHttpsStep ==
  ASSUME RunInv, NEW saved \in BOOLEAN, EndHttps(saved)
  PROVE  RunInv'
<1> USE DEF RunInv
<1>1. ControlTypes' /\ ReviewTypes' /\ HttpsTypes' /\ GhTypes'
  BY DEF EndHttps, Goto, Persist, Update, FinalizeFrame, ControlTypes, Labels,
     ReviewTypes, HttpsTypes, Handling, GhTypes
<1>2. AuditTypes'
  BY HttpsRecord, UpdateTyped DEF EndHttps, Persist, AuditTypes, HttpsTypes
<1>3. PhaseInv' /\ GateInv' /\ StartInv'
  BY DEF EndHttps, Goto, Persist, Update, FinalizeFrame, ControlTypes, PhaseInv, GateInv,
     StartInv, NothingStarted, Serving
<1>4. PromptInv' /\ TodoInv'
  BY DEF EndHttps, Goto, Persist, Update, FinalizeFrame, ControlTypes, HttpsTypes,
     GhTypes, PromptInv, TodoInv
<1>5. HandlerInv' /\ ListInv'
  BY DEF EndHttps, Goto, Persist, Update, FinalizeFrame, HttpsTypes, HandlerInv, ListInv
<1>6. QuietInv'
  BY DEF EndHttps, Goto, Persist, Update, FinalizeFrame, PhaseInv, GateInv, QuietInv,
     Drained
<1> QED BY <1>1, <1>2, <1>3, <1>4, <1>5, <1>6

LEMMA ReplaySendStep ==
  ASSUME RunInv, NEW acted \in BOOLEAN, NEW ok \in BOOLEAN, NEW saved \in BOOLEAN,
         ReplaySend(acted, ok, saved)
  PROVE  RunInv'
<1> USE DEF RunInv
<1>a. Head(todo) \in DOMAIN staged /\ SameCalls(staged')
  BY ReplaySendEffect DEF MarkedCalls
<1>b. UNCHANGED <<requests, hpc, undoCalls, reviewed, sealing, approvals>>
      /\ at = "replaySend" /\ at' \in {"replay"}
  BY DEF ReplaySend, FinalizeFrame
<1>c. /\ todo' \in Seq(Nat \ {0}) /\ todo' \in Seq(DOMAIN staged)
      /\ at' = "replaySend" => todo' # <<>>
  <2>1. /\ todo \in Seq(Nat \ {0}) /\ todo \in Seq(DOMAIN staged) /\ todo # <<>>
    BY <1>b DEF ReplaySend, ControlTypes, TodoInv
  <2>2. todo' = todo \/ (at' = "replay" /\ todo' = Tail(todo))
    BY <1>b DEF ReplaySend
  <2> QED BY SMTT(30), <2>1, <2>2
<1>1. ControlTypes'
  BY <1>b, <1>c DEF ReplaySend, FinalizeFrame, ControlTypes, Labels
<1>2. ReviewTypes' /\ GhTypes'
  BY DEF ReplaySend, Goto, Persist, Update, FinalizeFrame, ReviewTypes, GhTypes
<1>3. AuditTypes'
  BY ReplaySendEffect DEF AuditTypes, Written
<1>4. HttpsTypes'
  <2>1. finErr' \in BOOLEAN /\ origin' \in [HttpCalls -> {"none", "applied", "undone"}]
    BY DEF ReplaySend, HttpsTypes
  <2> QED BY <1>a, <1>b, <2>1 DEF HttpsTypes, SameCalls
<1>5. PhaseInv' /\ GateInv' /\ StartInv'
  BY DEF ReplaySend, Goto, Persist, Update, FinalizeFrame, ControlTypes, PhaseInv,
     GateInv, StartInv, NothingStarted, Serving
<1>6. PromptInv'
  BY DEF ReplaySend, Goto, Persist, Update, FinalizeFrame, ControlTypes, HttpsTypes,
     GhTypes, PromptInv
<1>7. TodoInv'
  BY <1>a, <1>b, <1>c DEF TodoInv, SameCalls
<1>8. HandlerInv'
  <2>1. \A q \in HttpCalls : hpc[q] # "done" => q # staged[Head(todo)].call
    BY <1>a DEF HandlerInv
  <2> QED BY <1>a, <1>b, <2>1, ReplaySendEffect DEF HandlerInv, SameCalls
<1>9. ListInv'
  BY <1>a, <1>b DEF ListInv, SameCalls
<1>10. QuietInv'
  BY <1>a, <1>b DEF ReplaySend, FinalizeFrame, PhaseInv, QuietInv, Drained, SameCalls
<1> QED BY <1>1, <1>2, <1>3, <1>4, <1>5, <1>6, <1>7, <1>8, <1>9, <1>10

LEMMA UndoSendStep ==
  ASSUME RunInv, NEW acted \in BOOLEAN, NEW ok \in BOOLEAN, NEW saved \in BOOLEAN,
         UndoSend(acted, ok, saved)
  PROVE  RunInv'
<1> USE DEF RunInv
<1>a. Head(todo) \in DOMAIN requests /\ SameRequests(requests')
  BY UndoSendEffect DEF MarkedRequests
<1>b. UNCHANGED <<staged, hpc, undoCalls, reviewed, sealing, approvals>>
      /\ at = "undoSend" /\ at' \in {"undo"}
  BY DEF UndoSend, FinalizeFrame
<1>c. /\ todo' \in Seq(Nat \ {0}) /\ todo' \in Seq(DOMAIN requests)
      /\ at' = "undoSend" => todo' # <<>>
  <2>1. /\ todo \in Seq(Nat \ {0}) /\ todo \in Seq(DOMAIN requests) /\ todo # <<>>
    BY <1>b DEF UndoSend, ControlTypes, TodoInv
  <2>2. todo' = todo \/ (at' = "undo" /\ todo' = Tail(todo))
    BY <1>b DEF UndoSend
  <2> QED BY SMTT(30), <2>1, <2>2
<1>1. ControlTypes'
  BY <1>b, <1>c DEF UndoSend, FinalizeFrame, ControlTypes, Labels
<1>2. ReviewTypes' /\ GhTypes'
  BY DEF UndoSend, Goto, Persist, Update, FinalizeFrame, ReviewTypes, GhTypes
<1>3. AuditTypes'
  BY UndoSendEffect DEF AuditTypes, Written
<1>4. HttpsTypes'
  <2>1. finErr' \in BOOLEAN /\ origin' \in [HttpCalls -> {"none", "applied", "undone"}]
    BY DEF UndoSend, HttpsTypes
  <2> QED BY <1>a, <1>b, <2>1 DEF HttpsTypes, SameRequests
<1>5. PhaseInv' /\ GateInv' /\ StartInv'
  BY DEF UndoSend, Goto, Persist, Update, FinalizeFrame, ControlTypes, PhaseInv, GateInv,
     StartInv, NothingStarted, Serving
<1>6. PromptInv'
  BY DEF UndoSend, Goto, Persist, Update, FinalizeFrame, ControlTypes, HttpsTypes,
     GhTypes, PromptInv
<1>7. TodoInv'
  BY <1>a, <1>b, <1>c DEF TodoInv, SameRequests
<1>8. HandlerInv'
  <2>1. \A q \in HttpCalls : hpc[q] # "done" => q # requests[Head(todo)].call
    BY <1>a DEF HandlerInv
  <2> QED BY <1>a, <1>b, <2>1, UndoSendEffect DEF HandlerInv, SameRequests
<1>9. ListInv'
  BY <1>a, <1>b DEF ListInv, SameRequests
<1>10. QuietInv'
  BY DEF UndoSend, Goto, Persist, Update, FinalizeFrame, PhaseInv, GateInv, QuietInv,
     Drained
<1> QED BY <1>1, <1>2, <1>3, <1>4, <1>5, <1>6, <1>7, <1>8, <1>9, <1>10

(***************************************************************************)
(* The shim, sealed and finalized by runCommand.                           *)
(***************************************************************************)
LEMMA GhSealStep ==
  ASSUME RunInv, GhSeal
  PROVE  RunInv'
<1> USE DEF RunInv
<1>1. ControlTypes' /\ ReviewTypes' /\ AuditTypes' /\ HttpsTypes' /\ GhTypes'
  BY DEF GhSeal, Goto, ControlTypes, Labels, ReviewTypes, AuditTypes, HttpsTypes,
     Handling, GhTypes
<1>2. PhaseInv' /\ GateInv' /\ StartInv'
  BY DEF GhSeal, Goto, ControlTypes, PhaseInv, GateInv, StartInv, NothingStarted, Serving
<1>3. PromptInv' /\ TodoInv'
  BY DEF GhSeal, Goto, ControlTypes, HttpsTypes, GhTypes, PromptInv, TodoInv
<1>4. HandlerInv' /\ ListInv'
  BY DEF GhSeal, Goto, HttpsTypes, HandlerInv, ListInv
<1>5. QuietInv'
  BY DEF GhSeal, Goto, PhaseInv, GateInv, QuietInv, Drained
<1> QED BY <1>1, <1>2, <1>3, <1>4, <1>5

LEMMA GhSealedStep ==
  ASSUME RunInv, NEW ok \in BOOLEAN, GhSealed(ok)
  PROVE  RunInv'
<1> USE DEF RunInv
<1>1. ControlTypes' /\ AuditTypes' /\ HttpsTypes' /\ GhTypes'
  BY DEF GhSealed, Goto, ControlTypes, Labels, AuditTypes, HttpsTypes, Handling, GhTypes
<1>2. ReviewTypes'
  BY DEF GhSealed, ReviewTypes, GhTypes
<1>3. PhaseInv' /\ GateInv' /\ StartInv'
  BY DEF GhSealed, Goto, ControlTypes, PhaseInv, GateInv, StartInv, NothingStarted,
     Serving
<1>4. PromptInv' /\ TodoInv'
  BY DEF GhSealed, Goto, ControlTypes, HttpsTypes, GhTypes, PromptInv, TodoInv
<1>5. HandlerInv' /\ ListInv'
  BY DEF GhSealed, Goto, HttpsTypes, HandlerInv, ListInv
<1>6. QuietInv'
  BY DEF GhSealed, Goto, PhaseInv, GateInv, QuietInv, Drained
<1> QED BY <1>1, <1>2, <1>3, <1>4, <1>5, <1>6

LEMMA FinalizeGhStep ==
  ASSUME RunInv, FinalizeGh
  PROVE  RunInv'
<1> USE DEF RunInv
<1>a. todo' \in Seq(DOMAIN ghRecords)
  <2>1. todo' = <<>> \/ todo' \in InOrder(Compensable)
    BY DEF FinalizeGh
  <2>2. <<>> \in Seq(DOMAIN ghRecords)
    OBVIOUS
  <2>3. \A list \in InOrder(Compensable) : list \in Seq(DOMAIN ghRecords)
    BY InOrderLists DEF GhTypes
  <2> QED BY <2>1, <2>2, <2>3
<1>b. todo' \in Seq(Nat \ {0})
  <2>1. DOMAIN ghRecords \subseteq Nat \ {0}
    BY DEF GhTypes
  <2> QED BY <1>a, <2>1, WiderSeq
<1>1. ControlTypes'
  BY <1>b DEF FinalizeGh, GhFinalizeFrame, ControlTypes, Labels
<1>2. ReviewTypes' /\ AuditTypes' /\ HttpsTypes' /\ GhTypes'
  BY DEF FinalizeGh, Goto, GhFinalizeFrame, ReviewTypes, AuditTypes, HttpsTypes, Handling,
     GhTypes
<1>3. PhaseInv' /\ GateInv' /\ StartInv'
  BY DEF FinalizeGh, Goto, GhFinalizeFrame, ControlTypes, PhaseInv, GateInv, StartInv,
     NothingStarted, Serving
<1>4. PromptInv'
  BY DEF FinalizeGh, Goto, GhFinalizeFrame, ControlTypes, HttpsTypes, GhTypes, PromptInv
<1>5. TodoInv'
  BY <1>a DEF FinalizeGh, GhFinalizeFrame, TodoInv
<1>6. HandlerInv' /\ ListInv'
  BY DEF FinalizeGh, Goto, GhFinalizeFrame, HttpsTypes, HandlerInv, ListInv
<1>7. QuietInv'
  BY DEF FinalizeGh, Goto, GhFinalizeFrame, PhaseInv, GateInv, QuietInv, Drained
<1> QED BY <1>1, <1>2, <1>3, <1>4, <1>5, <1>6, <1>7

LEMMA UndoGhStopsStep ==
  ASSUME RunInv, UndoGhStops
  PROVE  RunInv'
<1> USE DEF RunInv
<1>1. ControlTypes' /\ ReviewTypes' /\ AuditTypes' /\ HttpsTypes' /\ GhTypes'
  BY DEF UndoGhStops, GhFinalizeFrame, ControlTypes, Labels, ReviewTypes, AuditTypes,
     HttpsTypes, Handling, GhTypes
<1>2. PhaseInv' /\ GateInv' /\ StartInv'
  BY DEF UndoGhStops, GhFinalizeFrame, ControlTypes, PhaseInv, GateInv, StartInv,
     NothingStarted, Serving
<1>3. PromptInv' /\ TodoInv'
  BY DEF UndoGhStops, GhFinalizeFrame, ControlTypes, HttpsTypes, GhTypes, PromptInv,
     TodoInv
<1>4. HandlerInv' /\ ListInv'
  BY DEF UndoGhStops, GhFinalizeFrame, HttpsTypes, HandlerInv, ListInv
<1>5. QuietInv'
  BY DEF UndoGhStops, GhFinalizeFrame, PhaseInv, GateInv, QuietInv, Drained
<1> QED BY <1>1, <1>2, <1>3, <1>4, <1>5

LEMMA EndGhStep ==
  ASSUME RunInv, EndGh
  PROVE  RunInv'
<1> USE DEF RunInv
<1>1. ControlTypes' /\ ReviewTypes' /\ AuditTypes' /\ HttpsTypes' /\ GhTypes'
  BY DEF EndGh, Goto, GhFinalizeFrame, ControlTypes, Labels, ReviewTypes, AuditTypes,
     HttpsTypes, Handling, GhTypes
<1>2. PhaseInv' /\ GateInv' /\ StartInv'
  BY DEF EndGh, Goto, GhFinalizeFrame, ControlTypes, PhaseInv, GateInv, StartInv,
     NothingStarted, Serving
<1>3. PromptInv' /\ TodoInv'
  BY DEF EndGh, Goto, GhFinalizeFrame, ControlTypes, HttpsTypes, GhTypes, PromptInv,
     TodoInv
<1>4. HandlerInv' /\ ListInv'
  BY DEF EndGh, Goto, GhFinalizeFrame, HttpsTypes, HandlerInv, ListInv
<1>5. QuietInv'
  BY DEF EndGh, Goto, GhFinalizeFrame, PhaseInv, GateInv, QuietInv, Drained
<1> QED BY <1>1, <1>2, <1>3, <1>4, <1>5

LEMMA UndoGhStep ==
  ASSUME RunInv, NEW acted \in BOOLEAN, NEW ok \in BOOLEAN, UndoGh(acted, ok)
  PROVE  RunInv'
<1> USE DEF RunInv
<1>a. SameInvocations(ghRecords')
  BY UndoGhEffect DEF MarkedInvocations
<1>1. ControlTypes' /\ ReviewTypes' /\ AuditTypes' /\ HttpsTypes'
  BY DEF UndoGh, GhFinalizeFrame, ControlTypes, Labels, ReviewTypes, AuditTypes,
     HttpsTypes, Handling
<1>2. GhTypes'
  <2>1. ghWorld' \in [GhCalls -> {"none", "applied", "undone"}] /\ ghErr' \in BOOLEAN
    BY DEF UndoGh, GhTypes
  <2> QED BY <1>a, <2>1 DEF UndoGh, GhFinalizeFrame, GhTypes, SameInvocations
<1>3. PhaseInv' /\ GateInv' /\ StartInv'
  BY DEF UndoGh, GhFinalizeFrame, ControlTypes, PhaseInv, GateInv, StartInv,
     NothingStarted, Serving
<1>4. PromptInv'
  BY DEF UndoGh, GhFinalizeFrame, ControlTypes, HttpsTypes, GhTypes, PromptInv
<1>5. TodoInv'
  BY <1>a DEF UndoGh, GhFinalizeFrame, TodoInv, SameInvocations
<1>6. HandlerInv' /\ ListInv'
  BY DEF UndoGh, GhFinalizeFrame, HttpsTypes, HandlerInv, ListInv
<1>7. QuietInv'
  BY DEF UndoGh, GhFinalizeFrame, PhaseInv, GateInv, QuietInv, Drained
<1> QED BY <1>1, <1>2, <1>3, <1>4, <1>5, <1>6, <1>7

(***************************************************************************)
(* runCommand.                                                             *)
(***************************************************************************)
LEMMA SnapshotStep ==
  ASSUME RunInv, NEW ok \in BOOLEAN, NEW saved \in BOOLEAN, Snapshot(ok, saved)
  PROVE  RunInv'
<1> USE DEF RunInv
<1>1. ControlTypes' /\ ReviewTypes' /\ HttpsTypes' /\ GhTypes'
  BY DEF Snapshot, Goto, Update, ChildFrame, ControlTypes, Labels, ReviewTypes,
     HttpsTypes, Handling, GhTypes
<1>2. AuditTypes'
  <2>1. [record EXCEPT !.outcome = "not_started"] \in AuditRecord
    BY DEF AuditTypes, AuditRecord
  <2> QED BY <2>1 DEF Snapshot, Update, AuditTypes
<1>3. PhaseInv' /\ GateInv' /\ StartInv'
  BY DEF Snapshot, Goto, Update, ChildFrame, ControlTypes, PhaseInv, GateInv, StartInv,
     NothingStarted, Serving
<1>4. PromptInv' /\ TodoInv'
  BY DEF Snapshot, Goto, Update, ChildFrame, ControlTypes, HttpsTypes, GhTypes, PromptInv,
     TodoInv
<1>5. HandlerInv' /\ ListInv'
  BY DEF Snapshot, Goto, Update, ChildFrame, HttpsTypes, HandlerInv, ListInv
<1>6. QuietInv'
  BY DEF Snapshot, Goto, Update, ChildFrame, PhaseInv, GateInv, QuietInv, Drained
<1> QED BY <1>1, <1>2, <1>3, <1>4, <1>5, <1>6

LEMMA SetupStep ==
  ASSUME RunInv, NEW ok \in BOOLEAN, NEW opened \in BOOLEAN, Setup(ok, opened)
  PROVE  RunInv'
<1> USE DEF RunInv
<1>1. ControlTypes' /\ ReviewTypes' /\ AuditTypes' /\ HttpsTypes' /\ GhTypes'
  BY DEF Setup, Goto, ChildFrame, ControlTypes, Labels, ReviewTypes, AuditTypes,
     HttpsTypes, Handling, GhTypes
<1>2. PhaseInv' /\ GateInv' /\ StartInv'
  BY DEF Setup, Goto, ChildFrame, ControlTypes, PhaseInv, GateInv, StartInv,
     NothingStarted, Serving
<1>3. PromptInv' /\ TodoInv'
  BY DEF Setup, Goto, ChildFrame, ControlTypes, HttpsTypes, GhTypes, PromptInv, TodoInv
<1>4. HandlerInv' /\ ListInv'
  BY DEF Setup, Goto, ChildFrame, HttpsTypes, HandlerInv, ListInv
<1>5. QuietInv'
  BY DEF Setup, Goto, ChildFrame, PhaseInv, GateInv, QuietInv, Drained
<1> QED BY <1>1, <1>2, <1>3, <1>4, <1>5

LEMMA PromptStep ==
  ASSUME RunInv, NEW call \in HttpCalls \cup GhCalls, Prompt(call)
  PROVE  RunInv'
<1> USE DEF RunInv
<1>1. ControlTypes' /\ ReviewTypes' /\ AuditTypes' /\ HttpsTypes' /\ GhTypes'
  BY DEF Prompt, ControlTypes, Labels, ReviewTypes, AuditTypes, HttpsTypes, Handling,
     GhTypes
<1>2. PhaseInv' /\ GateInv' /\ StartInv'
  BY DEF Prompt, ControlTypes, PhaseInv, GateInv, StartInv, NothingStarted, Serving
<1>3. PromptInv' /\ TodoInv'
  BY DEF Prompt, ControlTypes, HttpsTypes, GhTypes, PromptInv, TodoInv
<1>4. HandlerInv' /\ ListInv'
  BY DEF Prompt, HttpsTypes, HandlerInv, ListInv
<1>5. QuietInv'
  BY DEF Prompt, PhaseInv, GateInv, QuietInv, Drained
<1> QED BY <1>1, <1>2, <1>3, <1>4, <1>5

LEMMA SignalStep ==
  ASSUME RunInv, Signal
  PROVE  RunInv'
<1> USE DEF RunInv
<1>a. \A q \in HttpCalls :
        /\ hpc'[q] = IF q = active THEN "refused" ELSE hpc[q]
        /\ q = active => hpc[q] = "asking" /\ at = "child"
  BY DEF Signal, CancelPrompt, PromptInv
<1>b. UNCHANGED <<staged, requests, undoCalls, origin, reviewed>>
  BY DEF Signal, CancelPrompt, ChildFrame
<1>1. ControlTypes' /\ ReviewTypes' /\ AuditTypes' /\ HttpsTypes' /\ GhTypes'
  BY DEF Signal, CancelPrompt, ChildFrame, ControlTypes, Labels, ReviewTypes, AuditTypes,
     HttpsTypes, Handling, GhTypes
<1>2. PhaseInv' /\ GateInv'
  BY DEF Signal, CancelPrompt, ChildFrame, ControlTypes, PhaseInv, GateInv
<1>3. StartInv'
  <2>1. at \in Early \/ at \in Ending => active = None
    BY DEF PromptInv
  <2>2. active = None => \A g \in GhCalls : gpc'[g] = gpc[g]
    BY DEF Signal, CancelPrompt
  <2> QED BY <1>a, <1>b, <2>1, <2>2
     DEF Signal, CancelPrompt, StartInv, NothingStarted
<1>4. PromptInv' /\ TodoInv'
  BY DEF Signal, CancelPrompt, ChildFrame, ControlTypes, HttpsTypes, GhTypes, PromptInv,
     TodoInv
<1>5. HandlerInv'
  BY <1>a, <1>b DEF HandlerInv
<1>6. ListInv'
  BY DEF Signal, CancelPrompt, ChildFrame, HttpsTypes, ListInv
<1>7. QuietInv'
  <2>1. Drained => Drained'
    BY <1>a DEF Drained
  <2> QED BY <1>b, <2>1 DEF Signal, CancelPrompt, ChildFrame, QuietInv
<1> QED BY <1>1, <1>2, <1>3, <1>4, <1>5, <1>6, <1>7

LEMMA ChildExitsStep ==
  ASSUME RunInv, NEW err \in BOOLEAN, NEW killed \in BOOLEAN, ChildExits(err, killed)
  PROVE  RunInv'
<1> USE DEF RunInv
<1>a. \A q \in HttpCalls :
        /\ hpc'[q] = IF q = active THEN "refused" ELSE hpc[q]
        /\ q = active => hpc[q] = "asking" /\ at = "child"
  BY DEF ChildExits, CancelPrompt, PromptInv
<1>b. UNCHANGED <<staged, requests, undoCalls, origin, reviewed>>
  BY DEF ChildExits, CancelPrompt, ChildFrame
<1>1. ControlTypes' /\ ReviewTypes' /\ AuditTypes' /\ HttpsTypes' /\ GhTypes'
  BY DEF ChildExits, Goto, CancelPrompt, ChildFrame, ControlTypes, Labels, ReviewTypes,
     AuditTypes, HttpsTypes, Handling, GhTypes
<1>2. PhaseInv' /\ GateInv' /\ StartInv'
  BY DEF ChildExits, Goto, CancelPrompt, ChildFrame, ControlTypes, PhaseInv, GateInv,
     StartInv, NothingStarted, Serving
<1>3. PromptInv' /\ TodoInv'
  BY DEF ChildExits, Goto, CancelPrompt, ChildFrame, ControlTypes, HttpsTypes, GhTypes,
     PromptInv, TodoInv
<1>4. HandlerInv'
  BY <1>a, <1>b DEF HandlerInv
<1>5. ListInv'
  BY DEF ChildExits, Goto, CancelPrompt, ChildFrame, HttpsTypes, ListInv
<1>6. QuietInv'
  BY DEF ChildExits, Goto, CancelPrompt, ChildFrame, PhaseInv, GateInv, QuietInv, Drained
<1> QED BY <1>1, <1>2, <1>3, <1>4, <1>5, <1>6

LEMMA ScanStep ==
  ASSUME RunInv, NEW saved \in BOOLEAN, Scan(saved)
  PROVE  RunInv'
<1> USE DEF RunInv
<1>1. ControlTypes' /\ ReviewTypes' /\ AuditTypes' /\ HttpsTypes' /\ GhTypes'
  BY DEF Scan, Goto, Update, ChildFrame, ControlTypes, Labels, ReviewTypes, AuditTypes,
     HttpsTypes, Handling, GhTypes
<1>2. PhaseInv' /\ GateInv' /\ StartInv'
  BY DEF Scan, Goto, Update, ChildFrame, ControlTypes, PhaseInv, GateInv, StartInv,
     NothingStarted, Serving
<1>3. PromptInv' /\ TodoInv'
  BY DEF Scan, Goto, Update, ChildFrame, ControlTypes, HttpsTypes, GhTypes, PromptInv,
     TodoInv
<1>4. HandlerInv' /\ ListInv'
  BY DEF Scan, Goto, Update, ChildFrame, HttpsTypes, HandlerInv, ListInv
<1>5. QuietInv'
  BY DEF Scan, Goto, Update, ChildFrame, PhaseInv, GateInv, QuietInv, Drained
<1> QED BY <1>1, <1>2, <1>3, <1>4, <1>5

LEMMA PgSealStep ==
  ASSUME RunInv, NEW result \in {"complete", "incomplete", "failed"}, NEW activity \in
         BOOLEAN, PgSeal(result, activity)
  PROVE  RunInv'
<1> USE DEF RunInv
<1>1. ControlTypes' /\ ReviewTypes' /\ AuditTypes' /\ HttpsTypes' /\ GhTypes'
  BY DEF PgSeal, Goto, ControlTypes, Labels, ReviewTypes, AuditTypes, HttpsTypes,
     Handling, GhTypes
<1>2. PhaseInv' /\ GateInv' /\ StartInv'
  BY DEF PgSeal, Goto, ControlTypes, PhaseInv, GateInv, StartInv, NothingStarted, Serving
<1>3. PromptInv' /\ TodoInv'
  BY DEF PgSeal, Goto, ControlTypes, HttpsTypes, GhTypes, PromptInv, TodoInv
<1>4. HandlerInv' /\ ListInv'
  BY DEF PgSeal, Goto, HttpsTypes, HandlerInv, ListInv
<1>5. QuietInv'
  BY DEF PgSeal, Goto, PhaseInv, GateInv, QuietInv, Drained
<1> QED BY <1>1, <1>2, <1>3, <1>4, <1>5

LEMMA DecideStep ==
  ASSUME RunInv, NEW choice \in {"commit", "discard"}, NEW saved \in BOOLEAN,
         Decide(choice, saved)
  PROVE  RunInv'
<1> USE DEF RunInv
<1>1. ControlTypes' /\ ReviewTypes' /\ HttpsTypes' /\ GhTypes'
  BY DEF Decide, Goto, Update, ControlTypes, Labels, ReviewTypes, HttpsTypes, Handling,
     GhTypes
<1>2. AuditTypes'
  <2> DEFINE reported == WithOutbound(record, reviewed.staged, reviewed.requests, reviewed.gh)
  <2>1. reported \in AuditRecord
    BY OutboundRecord DEF AuditTypes, ReviewTypes
  <2>2. Update([reported EXCEPT !.decision = choice], saved)
    BY DEF Decide
  <2> HIDE DEF reported
  <2>3. [reported EXCEPT !.decision = choice] \in AuditRecord
    BY <2>1 DEF AuditRecord
  <2> QED BY <2>2, <2>3, UpdateTyped DEF AuditTypes
<1>3. PhaseInv' /\ GateInv' /\ StartInv'
  BY DEF Decide, Goto, Update, ControlTypes, PhaseInv, GateInv, StartInv, NothingStarted,
     Serving
<1>4. PromptInv' /\ TodoInv'
  BY DEF Decide, Goto, Update, ControlTypes, HttpsTypes, GhTypes, PromptInv, TodoInv
<1>5. HandlerInv' /\ ListInv'
  BY DEF Decide, Goto, Update, HttpsTypes, HandlerInv, ListInv
<1>6. QuietInv'
  BY DEF Decide, Goto, Update, PhaseInv, GateInv, QuietInv, Drained
<1> QED BY <1>1, <1>2, <1>3, <1>4, <1>5, <1>6

LEMMA PgFinalizeStep ==
  ASSUME RunInv, NEW ok \in BOOLEAN, PgFinalize(ok)
  PROVE  RunInv'
<1> USE DEF RunInv
<1>1. ControlTypes' /\ ReviewTypes' /\ AuditTypes' /\ HttpsTypes' /\ GhTypes'
  BY DEF PgFinalize, Goto, ControlTypes, Labels, ReviewTypes, AuditTypes, HttpsTypes,
     Handling, GhTypes
<1>2. PhaseInv' /\ GateInv' /\ StartInv'
  BY DEF PgFinalize, Goto, ControlTypes, PhaseInv, GateInv, StartInv, NothingStarted,
     Serving
<1>3. PromptInv' /\ TodoInv'
  BY DEF PgFinalize, Goto, ControlTypes, HttpsTypes, GhTypes, PromptInv, TodoInv
<1>4. HandlerInv' /\ ListInv'
  BY DEF PgFinalize, Goto, HttpsTypes, HandlerInv, ListInv
<1>5. QuietInv'
  BY DEF PgFinalize, Goto, PhaseInv, GateInv, QuietInv, Drained
<1> QED BY <1>1, <1>2, <1>3, <1>4, <1>5

LEMMA RecordFinalStep ==
  ASSUME RunInv, NEW saved \in BOOLEAN, RecordFinal(saved)
  PROVE  RunInv'
<1> USE DEF RunInv
<1>1. ControlTypes' /\ ReviewTypes' /\ HttpsTypes' /\ GhTypes'
  BY DEF RecordFinal, Goto, Update, ChildFrame, ControlTypes, Labels, ReviewTypes,
     HttpsTypes, Handling, GhTypes
<1>2. AuditTypes'
  <2> DEFINE reported == WithOutbound(record, staged, requests, ghRecords)
            outcome == IF ghErr \/ finErr \/ pgErr THEN "unknown" ELSE Outcome
  <2>1. reported \in AuditRecord
    BY OutboundRecord DEF AuditTypes, HttpsTypes, GhTypes
  <2>2. outcome \in {"pending", "not_started", "committed", "discarded", "unknown"}
    BY DEF Outcome, AuditTypes, AuditRecord
  <2>3. Update([reported EXCEPT !.outcome = outcome], saved)
    BY DEF RecordFinal
  <2> HIDE DEF reported, outcome
  <2>4. [reported EXCEPT !.outcome = outcome] \in AuditRecord
    BY <2>1, <2>2 DEF AuditRecord, ControlTypes
  <2> QED BY <2>3, <2>4, UpdateTyped DEF AuditTypes
<1>3. PhaseInv'
  BY DEF RecordFinal, ChildFrame, PhaseInv
<1>4. GateInv'
  BY DEF RecordFinal, ChildFrame, GateInv
<1>5. StartInv'
  BY DEF RecordFinal, Goto, Update, ChildFrame, PhaseInv, StartInv, NothingStarted,
     Serving
<1>6. PromptInv' /\ TodoInv'
  BY DEF RecordFinal, Goto, Update, ChildFrame, ControlTypes, HttpsTypes, GhTypes,
     PromptInv, TodoInv
<1>7. HandlerInv' /\ ListInv'
  BY DEF RecordFinal, Goto, Update, ChildFrame, HttpsTypes, HandlerInv, ListInv
<1>8. QuietInv'
  BY DEF RecordFinal, Goto, Update, ChildFrame, PhaseInv, GateInv, QuietInv, Drained
<1> QED BY <1>1, <1>2, <1>3, <1>4, <1>5, <1>6, <1>7, <1>8

LEMMA CleanupStep ==
  ASSUME RunInv, NEW closed \in BOOLEAN, NEW saved \in BOOLEAN, Cleanup(closed, saved)
  PROVE  RunInv'
<1> USE DEF RunInv
<1>1. ControlTypes' /\ ReviewTypes' /\ HttpsTypes' /\ GhTypes'
  BY DEF Cleanup, Goto, Update, ControlTypes, Labels, ReviewTypes, HttpsTypes, Handling,
     GhTypes
<1>2. AuditTypes'
  <2> DEFINE reported == WithOutbound(record, staged, requests, ghRecords)
            outcome == CASE Unfinalized /\ closed   -> "discarded"
                         [] Unfinalized /\ ~closed  -> "unknown"
                         [] ~Unfinalized /\ signalled -> "discarded"
                         [] OTHER -> IF record.outcome = "pending" THEN "not_started"
                                     ELSE record.outcome
  <2>1. reported \in AuditRecord
    BY OutboundRecord DEF AuditTypes, HttpsTypes, GhTypes
  <2>2. outcome \in {"pending", "not_started", "committed", "discarded", "unknown"}
    BY DEF Outcome, AuditTypes, AuditRecord
  <2>3. Update([reported EXCEPT !.outcome = outcome,
                         !.decision = IF signalled THEN "discard" ELSE decision], saved)
    BY DEF Cleanup
  <2> HIDE DEF reported, outcome
  <2>4. [reported EXCEPT !.outcome = outcome,
                         !.decision = IF signalled THEN "discard" ELSE decision] \in AuditRecord
    BY <2>1, <2>2 DEF AuditRecord, ControlTypes
  <2> QED BY <2>3, <2>4, UpdateTyped DEF AuditTypes
<1>3. PhaseInv' /\ GateInv' /\ StartInv'
  BY DEF Cleanup, Goto, Update, ControlTypes, PhaseInv, GateInv, StartInv, NothingStarted,
     Serving
<1>4. PromptInv' /\ TodoInv'
  BY DEF Cleanup, Goto, Update, ControlTypes, HttpsTypes, GhTypes, PromptInv, TodoInv
<1>5. HandlerInv' /\ ListInv'
  BY DEF Cleanup, Goto, Update, HttpsTypes, HandlerInv, ListInv
<1>6. QuietInv'
  BY DEF Cleanup, Goto, Update, PhaseInv, GateInv, QuietInv, Drained
<1> QED BY <1>1, <1>2, <1>3, <1>4, <1>5, <1>6

LEMMA LateStep ==
  ASSUME RunInv, NEW saved \in BOOLEAN, Late(saved)
  PROVE  RunInv'
<1> USE DEF RunInv
<1>1. ControlTypes' /\ ReviewTypes' /\ HttpsTypes' /\ GhTypes'
  BY DEF Late, Goto, Update, ChildFrame, ControlTypes, Labels, ReviewTypes, HttpsTypes,
     Handling, GhTypes
<1>2. AuditTypes'
  <2>1. [record EXCEPT !.outcome = "discarded", !.decision = "discard"] \in AuditRecord
    BY DEF AuditTypes, AuditRecord
  <2> QED BY <2>1 DEF Late, Update, AuditTypes
<1>3. PhaseInv' /\ GateInv' /\ StartInv'
  BY DEF Late, Goto, Update, ChildFrame, ControlTypes, PhaseInv, GateInv, StartInv,
     NothingStarted, Serving
<1>4. PromptInv' /\ TodoInv'
  BY DEF Late, Goto, Update, ChildFrame, ControlTypes, HttpsTypes, GhTypes, PromptInv,
     TodoInv
<1>5. HandlerInv' /\ ListInv'
  BY DEF Late, Goto, Update, ChildFrame, HttpsTypes, HandlerInv, ListInv
<1>6. QuietInv'
  BY DEF Late, Goto, Update, ChildFrame, PhaseInv, GateInv, QuietInv, Drained
<1> QED BY <1>1, <1>2, <1>3, <1>4, <1>5, <1>6

LEMMA CrashStep ==
  ASSUME RunInv, Crash
  PROVE  RunInv'
<1> USE DEF RunInv
<1>1. ControlTypes'
  <2>1. /\ todo' \in Seq(Nat \ {0})
        /\ pgFate' \in {"none", "open", "committed", "rolledback", "lost"}
    BY DEF Crash, ControlTypes
  <2> QED BY <2>1 DEF Crash, ControlTypes, Labels
<1>2. ReviewTypes'
  BY DEF Crash, Goto, ReviewTypes
<1>3. AuditTypes'
  BY DEF Crash, Goto, AuditTypes
<1>4. HttpsTypes'
  BY DEF Crash, Goto, HttpsTypes, Handling
<1>5. GhTypes'
  BY DEF Crash, Goto, GhTypes
<1>6. PhaseInv' /\ GateInv' /\ StartInv'
  BY DEF Crash, Goto, ControlTypes, PhaseInv, GateInv, StartInv, NothingStarted, Serving
<1>7. PromptInv' /\ TodoInv'
  BY DEF Crash, Goto, ControlTypes, HttpsTypes, GhTypes, PromptInv, TodoInv
<1>8. HandlerInv' /\ ListInv'
  BY DEF Crash, Goto, HttpsTypes, HandlerInv, ListInv
<1>9. QuietInv'
  BY DEF Crash, Goto, PhaseInv, GateInv, QuietInv, Drained
<1> QED BY <1>1, <1>2, <1>3, <1>4, <1>5, <1>6, <1>7, <1>8, <1>9

(***************************************************************************)
(* The invariant holds initially and every step keeps it.                  *)
(***************************************************************************)
LEMMA HandlersStep ==
  ASSUME RunInv, NEW q \in HttpCalls, HandlerNext(q)
  PROVE  RunInv'
BY ArriveStep, BlockStep, StageStep, AskStep, AskCancelledStep, ForwardStep,
   ForwardCancelledStep, AnswerHttpsStep, RecordHttpsStep, RespondStep DEF HandlerNext

LEMMA InvocationsStep ==
  ASSUME RunInv, NEW g \in GhCalls, InvocationNext(g)
  PROVE  RunInv'
BY GhAskStep, GhAskCancelledStep, AnswerGhStep, RecordGhStep, GhFinishStep
   DEF InvocationNext

LEMMA HttpsStep ==
  ASSUME RunInv, HttpsRunNext
  PROVE  RunInv'
BY HttpsSealStep, HttpsSealedStep, FinalizeHttpsStep, ReplayStep, UndoStep, EndHttpsStep,
   ReplaySendStep, UndoSendStep DEF HttpsRunNext

LEMMA GhStep ==
  ASSUME RunInv, GhRunNext
  PROVE  RunInv'
BY GhSealStep, GhSealedStep, FinalizeGhStep, UndoGhStopsStep, EndGhStep, UndoGhStep
   DEF GhRunNext

LEMMA RunStepStep ==
  ASSUME RunInv, RunStep
  PROVE  RunInv'
BY ScanStep, RecordFinalStep, LateStep, PgSealStep, PgFinalizeStep, CleanupStep, HttpsStep,
   GhStep DEF RunStep

LEMMA StutterStep ==
  ASSUME RunInv, UNCHANGED runVars
  PROVE  RunInv'
<1> USE DEF RunInv, runVars
<1>1. ControlTypes' /\ ReviewTypes' /\ AuditTypes' /\ HttpsTypes' /\ GhTypes'
  BY DEF ControlTypes, ReviewTypes, AuditTypes, HttpsTypes, GhTypes
<1>2. PhaseInv' /\ GateInv' /\ StartInv' /\ PromptInv' /\ TodoInv'
  BY DEF PhaseInv, GateInv, StartInv, NothingStarted, PromptInv, TodoInv
<1>3. HandlerInv' /\ ListInv' /\ QuietInv'
  BY DEF HandlerInv, ListInv, QuietInv, Drained
<1> QED BY <1>1, <1>2, <1>3

LEMMA RunInductive ==
  ASSUME RunInv, [Next]_runVars
  PROVE  RunInv'
<1>1. CASE RunStep
  BY <1>1, RunStepStep
<1>2. CASE \E ok, flag \in BOOLEAN : Snapshot(ok, flag) \/ Setup(ok, flag)
  BY <1>2, SnapshotStep, SetupStep
<1>3. CASE \E err, killed \in BOOLEAN : ChildExits(err, killed)
  BY <1>3, ChildExitsStep
<1>4. CASE \E choice \in {"commit", "discard"}, saved \in BOOLEAN : Decide(choice, saved)
  BY <1>4, DecideStep
<1>5. CASE Signal \/ Crash
  BY <1>5, SignalStep, CrashStep
<1>6. CASE \E call \in HttpCalls \cup GhCalls : Prompt(call)
  BY <1>6, PromptStep
<1>7. CASE \E q \in HttpCalls : HandlerNext(q)
  BY <1>7, HandlersStep
<1>8. CASE \E g \in GhCalls : InvocationNext(g)
  BY <1>8, InvocationsStep
<1>9. CASE Terminated \/ UNCHANGED runVars
  BY <1>9, StutterStep DEF Terminated
<1> QED BY <1>1, <1>2, <1>3, <1>4, <1>5, <1>6, <1>7, <1>8, <1>9 DEF Next

LEMMA RunInitial ==
  ASSUME Init
  PROVE  RunInv
<1>1. NewRecord \in AuditRecord
  BY DEF NewRecord, AuditRecord
<1>2. ControlTypes /\ AuditTypes
  <2>1. todo \in Seq(Nat \ {0}) /\ at \in Labels /\ active = None
    BY DEF Init, Labels
  <2> QED BY <1>1, <2>1 DEF Init, ControlTypes, AuditTypes
<1>3. ReviewTypes
  BY DEF Init, ReviewTypes
<1>4. HttpsTypes
  <2>1. /\ hpc \in [HttpCalls -> Handling]
        /\ origin \in [HttpCalls -> {"none", "applied", "undone"}]
    BY DEF Init, Handling
  <2>2. /\ staged \in Seq(StagedCall) /\ requests \in Seq(Request)
        /\ undoCalls \in Seq(DOMAIN requests)
    BY DEF Init
  <2> QED BY <2>1, <2>2 DEF Init, HttpsTypes
<1>5. GhTypes
  <2>1. /\ gpc \in [GhCalls -> {"idle", "asking", "agreed", "refused", "running", "done"}]
        /\ ghWorld \in [GhCalls -> {"none", "applied", "undone"}]
    BY DEF Init
  <2>2. ghRecords \in Seq(Invocation)
    BY DEF Init
  <2> QED BY <2>1, <2>2 DEF Init, GhTypes
<1>6. PhaseInv /\ GateInv
  BY DEF Init, PhaseInv, GateInv
<1>7. StartInv /\ PromptInv /\ TodoInv
  BY DEF Init, StartInv, NothingStarted, PromptInv, TodoInv
<1>8. HandlerInv /\ ListInv /\ QuietInv
  BY DEF Init, HandlerInv, ListInv, QuietInv
<1> QED BY <1>2, <1>3, <1>4, <1>5, <1>6, <1>7, <1>8 DEF RunInv

LEMMA RunInvariant == Spec => []RunInv
<1>1. Init => RunInv
  BY RunInitial
<1>2. RunInv /\ [Next]_runVars => RunInv'
  BY RunInductive
<1> QED BY <1>1, <1>2, PTL DEF Spec

(* The state of a run is well typed; in particular every compensation      *)
(* proxy.go lists is of a request it recorded.                             *)
THEOREM RunTypes == Spec => []RunTypeOK
<1>1. RunInv => RunTypeOK
  BY DEF RunInv, ControlTypes, ReviewTypes, AuditTypes, HttpsTypes, GhTypes, RunTypeOK
<1> QED BY <1>1, RunInvariant, PTL

(* cli.go: what a person decides about is all there is.  From the decision *)
(* on no request is on its way to its service and none was staged behind   *)
(* the review, whatever signals arrive and whatever Seal had to cancel.    *)
THEOREM ReviewIsWhole == Spec => []NothingBehindReview
<1>1. RunInv => NothingBehindReview
  BY DEF RunInv, QuietInv, Drained, NothingBehindReview
<1> QED BY <1>1, RunInvariant, PTL
=============================================================================
