----------------------------- MODULE Retention -----------------------------
(***************************************************************************)
(* The one plan of the age and byte limits, and how its removals are       *)
(* applied: by the automatic retention of a run, which applies what it     *)
(* planned without a second look, and by prune --confirm, which checks the *)
(* saved set against a new plan under the exclusive retention lock.        *)
(***************************************************************************)
EXTENDS StateDir

\* store.List: the records on disk and what they say about their storage.
Listed == [ids |-> {s \in Sessions : record[s].exists},
           retained |-> {s \in Sessions : record[s].exists /\ record[s].retained}]

Items(list) == list.ids \cup {s \in Sessions : store[s].dir}

\* The newest of all sessions, and the newest with an audit record.
Protected(list) ==
  {s \in Items(list) : \/ \A t \in Items(list) : t <= s
                       \/ s \in list.ids /\ \A t \in list.ids : t <= s}

\* A store without a readable manifest is charged what its record says.
Charged(list) ==
  {s \in Measured : store[s].dir /\ (store[s].manifest # "none" \/ s \in list.retained)}

Expired(s) == s <= cutoff

\* Oldest first, as long as what is not yet selected exceeds the byte cap.
CapRequired(list, bytes, chosen, s) ==
  s \in Charged(list) /\ Cardinality(Charged(list) \ {t \in chosen : t < s}) > bytes

IsSelection(list, bytes, chosen) ==
  \A s \in Items(list) \ Protected(list) :
    s \in chosen <=> Expired(s) \/ CapRequired(list, bytes, chosen, s)

Selections(list, bytes) ==
  {chosen \in SUBSET (Items(list) \ Protected(list)) : IsSelection(list, bytes, chosen)}

PlanOf(list, bytes, chosen) ==
  {[id |-> s, expired |-> Expired(s), capRequired |-> CapRequired(list, bytes, chosen, s),
    hasSnapshot |-> store[s].dir] : s \in chosen}

List(p) ==
  /\ pc[p] = "list"
  /\ mem' = [mem EXCEPT ![p].ids = Listed.ids, ![p].retained = Listed.retained]
  /\ Goto(p, "plan")
  /\ UNCHANGED <<diskVars, lockVars, target, worldVars, faults>>

\* Mutant: the limits spare neither the newest session nor the active one.
PlanAll(p) ==
  /\ pc[p] = "plan"
  /\ CanShare(Retention)
  /\ LET list == [ids |-> mem[p].ids, retained |-> mem[p].retained] IN
       \E chosen \in SUBSET Items(list) :
         /\ \A s \in Items(list) :
              s \in chosen <=> Expired(s) \/ CapRequired(list, mem[p].limit, chosen, s)
         /\ mem' = [mem EXCEPT ![p].todo = PlanOf(list, mem[p].limit, chosen),
                               ![p].ids = {}, ![p].retained = {}]
  /\ Goto(p, IF p \in Runners THEN "apply" ELSE "shown")
  /\ UNCHANGED <<diskVars, lockVars, target, worldVars, faults>>

\* PlanRetention: the retention lock and every stored session's are shared in
\* turn.  The active session of a run is taken out of its plan.
Plan(p) ==
  /\ pc[p] = "plan"
  /\ CanShare(Retention)
  /\ \A s \in Sessions : store[s].dir => CanShare(s)
  /\ LET list == [ids |-> mem[p].ids, retained |-> mem[p].retained] IN
       \E chosen \in Selections(list, mem[p].limit) :
         mem' = [mem EXCEPT ![p].todo = {r \in PlanOf(list, mem[p].limit, chosen) :
                                           r.id # target[p]},
                            ![p].ids = {}, ![p].retained = {}]
  /\ Goto(p, IF p \in Runners THEN "apply" ELSE "shown")
  /\ UNCHANGED <<diskVars, lockVars, target, worldVars, faults>>

\* validatePrunePreview, under the exclusive retention lock.
Valid(removals) ==
  /\ \A r \in removals : \E s \in Listed.ids \cup {0} :
       s # r.id /\ \A t \in Listed.ids : t <= s
  /\ \E chosen \in Selections(Listed, cap) : removals \subseteq PlanOf(Listed, cap, chosen)

ApplyLock(p) ==
  /\ pc[p] = "apply"
  /\ CanExclude(Retention)
  /\ IF p \in Pruners => ~preview[mem[p].token].old /\ Valid(mem[p].todo)
     THEN Exclude(Retention, p) /\ Goto(p, "next") /\ UNCHANGED mem
     ELSE /\ mem' = [mem EXCEPT ![p].todo = {}]
          /\ Goto(p, "refused") /\ UNCHANGED lockVars
  /\ UNCHANGED <<diskVars, target, worldVars, faults>>

First(p, r) == r \in mem[p].todo /\ \A q \in mem[p].todo : r.id <= q.id

LockSession(p) ==
  /\ pc[p] = "next"
  /\ \E r \in mem[p].todo :
       /\ First(p, r)
       /\ CanExclude(r.id)
       /\ Exclude(r.id, p)
       /\ Goto(p, IF r.hasSnapshot THEN "rmManifest" ELSE "finalize")
  /\ UNCHANGED <<diskVars, target, mem, worldVars, faults>>

(***************************************************************************)
(* removeSnapshotTree removes the entries in the order of their names:     *)
(* manifest.json, then roots, then the directory itself, which must be     *)
(* empty by then.  What is gone already is no error.                       *)
(***************************************************************************)
\* Mutant: roots is removed first.
RemoveRootsFirst(p) ==
  /\ pc[p] = "rmManifest"
  /\ \E r \in mem[p].todo :
       First(p, r) /\ store' = [store EXCEPT ![r.id].clone = FALSE]
  /\ Goto(p, "rmClone")
  /\ UNCHANGED <<recordVars, cap, preview, lockVars, target, mem, worldVars, faults>>

RemoveManifest(p) ==
  /\ pc[p] = "rmManifest"
  /\ \E r \in mem[p].todo :
       /\ First(p, r)
       /\ store' = [store EXCEPT ![r.id].manifest = "none"]
       /\ overtaken' = overtaken \cup {s \in {r.id} : Recording(s)}
  /\ Goto(p, "rmClone")
  /\ UNCHANGED <<recordVars, cap, preview, lockVars, target, mem, cutoff, stamped, faults>>

RemoveClone(p) ==
  /\ pc[p] = "rmClone"
  /\ \E r \in mem[p].todo :
       First(p, r) /\ store' = [store EXCEPT ![r.id].clone = FALSE]
  /\ Goto(p, "rmDir")
  /\ UNCHANGED <<recordVars, cap, preview, lockVars, target, mem, worldVars, faults>>

RemoveDir(p) ==
  /\ pc[p] = "rmDir"
  /\ \E r \in mem[p].todo :
       /\ First(p, r)
       /\ IF store[r.id].manifest = "none"
          THEN store' = [store EXCEPT ![r.id].dir = FALSE] /\ Goto(p, "finalize")
          ELSE UNCHANGED store /\ Goto(p, "failed")
  /\ UNCHANGED <<recordVars, cap, preview, lockVars, target, mem, worldVars, faults>>

\* The caller's finalize: age deletes the record, the cap alone only marks it.
Finalized(r) ==
  IF r.expired THEN DeleteLocked(r.id)
  ELSE IF record[r.id].exists THEN SaveLocked(r.id, [record[r.id] EXCEPT !.retained = FALSE])
  ELSE UNCHANGED recordVars

Finalize(p) ==
  /\ pc[p] = "finalize"
  /\ \E r \in mem[p].todo :
       /\ First(p, r)
       /\ Finalized(r)
       /\ Release({r.id}, p)
       /\ mem' = [mem EXCEPT ![p].todo = @ \ {r}]
  /\ Goto(p, "next")
  /\ UNCHANGED <<store, cap, preview, target, worldVars, faults>>

\* Mutant: the record is finalized although the removal failed.
FailRemovalFinalizes(p) ==
  /\ pc[p] \in {"rmManifest", "rmClone", "rmDir"}
  /\ Fault
  /\ Goto(p, "finalize")
  /\ UNCHANGED <<diskVars, lockVars, target, mem, worldVars>>

\* An error, or the context of the run cancelled by a signal, ends the pass.
FailRemoval(p) ==
  /\ \/ pc[p] \in {"list", "plan", "apply"}
     \/ /\ pc[p] \in {"next", "rmManifest", "rmClone", "rmDir", "finalize"}
        /\ mem[p].todo # {}
  /\ Fault
  /\ Goto(p, "failed")
  /\ UNCHANGED <<diskVars, lockVars, target, mem, worldVars>>

\* The deferred unlocks.
EndApply(p) ==
  /\ \/ pc[p] = "next" /\ mem[p].todo = {} /\ Goto(p, "applied")
     \/ pc[p] = "failed" /\ Goto(p, "refused")
  /\ Release(Locks, p)
  /\ mem' = [mem EXCEPT ![p].todo = {}, ![p].ids = {}, ![p].retained = {}]
  /\ UNCHANGED <<diskVars, target, worldVars, faults>>

Retain(p) ==
  \/ List(p) \/ Plan(p) \/ ApplyLock(p) \/ LockSession(p) \/ RemoveManifest(p)
  \/ RemoveClone(p) \/ RemoveDir(p) \/ Finalize(p) \/ EndApply(p)
=============================================================================
