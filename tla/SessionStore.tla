--------------------------- MODULE SessionStore ----------------------------
(***************************************************************************)
(* The commands that share the state directory, each a process: unring     *)
(* run (what it records, captures and prunes), unring restore and unring   *)
(* prune with and without --confirm.  A step is what happens between two   *)
(* points at which another process can get in.                             *)
(***************************************************************************)
EXTENDS Retention

(***************************************************************************)
(* unring run.                                                             *)
(***************************************************************************)
\* Mutant: the rank is one too high.
BeginOff(p) ==
  /\ pc[p] = "start"
  /\ Cardinality(stamped) < MaxSessions
  /\ LET id == Cardinality(stamped) + 2 IN
       /\ target' = [target EXCEPT ![p] = id]
       /\ stamped' = stamped \cup {id}
  /\ \E c \in Caps :
       /\ cap' = c
       /\ mem' = [mem EXCEPT ![p].limit = c, ![p].loaded.exists = TRUE]
  /\ Goto(p, "save")
  /\ UNCHANGED <<recordVars, store, preview, lockVars, cutoff, overtaken, faults>>

\* SaveRetentionCap, and NewRecord, which takes the time: from here on the
\* session has its rank, and the cap of this run is the one it saved.
Begin(p) ==
  /\ pc[p] = "start"
  /\ Cardinality(stamped) < MaxSessions
  /\ LET id == Cardinality(stamped) + 1 IN
       /\ target' = [target EXCEPT ![p] = id]
       /\ stamped' = stamped \cup {id}
  /\ \E c \in Caps :
       /\ cap' = c
       /\ mem' = [mem EXCEPT ![p].limit = c, ![p].loaded.exists = TRUE]
  /\ Goto(p, "save")
  /\ UNCHANGED <<recordVars, store, preview, lockVars, cutoff, overtaken, faults>>

\* Update: what is in memory is written.
Update(p, next) ==
  /\ Save(target[p], mem[p].loaded)
  /\ Goto(p, next)
  /\ UNCHANGED <<store, cap, preview, lockVars, target, mem, worldVars, faults>>

SavePending(p) == pc[p] = "save" /\ Update(p, "capture")

\* start builds the store beside its place and renames it.
Capture(p) ==
  /\ pc[p] = "capture"
  /\ store' = [store EXCEPT ![target[p]] = [dir |-> TRUE, manifest |-> "open", clone |-> TRUE]]
  /\ Goto(p, "measure")
  /\ UNCHANGED <<recordVars, cap, preview, lockVars, target, mem, worldVars, faults>>

\* The store is measured where it is, and its manifest written again with the size.
Measure(p) ==
  /\ pc[p] = "measure"
  /\ store[target[p]].dir
  /\ store' = [store EXCEPT ![target[p]].manifest = "open"]
  /\ mem' = [mem EXCEPT ![p].loaded.retained = TRUE]
  /\ Goto(p, "note")
  /\ UNCHANGED <<recordVars, cap, preview, lockVars, target, worldVars, faults>>

\* What removeSnapshotTree leaves: nothing, or what it failed to remove.
Leftovers(st) ==
  {st, [st EXCEPT !.manifest = "none"], [st EXCEPT !.manifest = "none", !.clone = FALSE], NoStore}

\* Otherwise start removes what it published, under no lock and whether that
\* succeeds or not, and the run ends without a store of its own.  It also fails
\* when another run's retention was faster.
FailMeasure(p) ==
  /\ pc[p] = "measure"
  /\ IF store[target[p]].manifest = "none" THEN UNCHANGED faults ELSE Fault
  /\ \E left \in Leftovers(store[target[p]]) : store' = [store EXCEPT ![target[p]] = left]
  /\ Goto(p, "final")
  /\ UNCHANGED <<recordVars, cap, preview, lockVars, target, mem, worldVars>>

NoteCapture(p) == pc[p] = "note" /\ Update(p, "list")

NoteRetention(p) ==
  /\ p \in Runners
  /\ pc[p] \in {"applied", "refused"}
  /\ Update(p, IF mem[p].over THEN "final" ELSE "child")

\* sealContext, once: the manifest is written into the directory, under no
\* lock; when the directory is gone the write fails, and only the summary says
\* so.
WriteSealed(p) ==
  /\ ~mem[p].over
  /\ store' = IF store[target[p]].dir
              THEN [store EXCEPT ![target[p]].manifest = "sealed"] ELSE store
  /\ mem' = [mem EXCEPT ![p].over = TRUE]

\* The child has ended.
Seal(p) ==
  /\ pc[p] = "child"
  /\ WriteSealed(p)
  /\ Goto(p, "list")
  /\ UNCHANGED <<recordVars, cap, preview, lockVars, target, worldVars, faults>>

\* The deferred function of runCommand.
RecordEnd(p) ==
  /\ pc[p] = "final"
  /\ Save(target[p], [mem[p].loaded EXCEPT !.ended = TRUE])
  /\ Exit(p, "done")
  /\ UNCHANGED <<store, cap, preview, lockVars, target, worldVars, faults>>

\* An error or a signal: without a record there is nothing to end, and after
\* one every return goes through the deferred function.  The signal that
\* stopped the retention before the child ends the run too.
FailRun(p) ==
  /\ IF pc[p] = "refused" /\ ~mem[p].over THEN UNCHANGED faults ELSE Fault
  /\ \/ pc[p] \in {"save", "final"} /\ Exit(p, "done")
     \/ pc[p] \in {"capture", "note", "child", "applied", "refused"}
        /\ Goto(p, "final") /\ UNCHANGED mem
  /\ UNCHANGED <<diskVars, lockVars, target, worldVars>>

\* After a signal the deferred function seals what was captured, so that it
\* can be restored although the child never ran.
SealInterrupted(p) ==
  /\ pc[p] = "final" /\ mem[p].loaded.retained
  /\ WriteSealed(p)
  /\ UNCHANGED <<recordVars, cap, preview, lockVars, pc, target, worldVars, faults>>

Run(p) ==
  \/ Begin(p) \/ SavePending(p) \/ Capture(p) \/ Measure(p) \/ FailMeasure(p)
  \/ NoteCapture(p) \/ Retain(p) \/ FailRemoval(p) \/ NoteRetention(p)
  \/ Seal(p) \/ SealInterrupted(p) \/ RecordEnd(p) \/ FailRun(p)

(***************************************************************************)
(* unring restore: the record is found without a lock, and loaded again    *)
(* under the session's shared one.                                         *)
(***************************************************************************)
Find(p) ==
  /\ pc[p] = "start"
  /\ \E s \in Sessions : record[s].exists /\ target' = [target EXCEPT ![p] = s]
  /\ Goto(p, "lock")
  /\ UNCHANGED <<diskVars, lockVars, mem, worldVars, faults>>

\* Mutant: the restore does not lock its session.
ReadUnlocked(p) ==
  /\ pc[p] = "lock"
  /\ CanShare(target[p])
  /\ Goto(p, "exact")
  /\ UNCHANGED <<diskVars, lockVars, target, mem, worldVars, faults>>

ReadLock(p) ==
  /\ pc[p] = "lock"
  /\ CanShare(target[p])
  /\ Share(target[p], p)
  /\ Goto(p, "exact")
  /\ UNCHANGED <<diskVars, target, mem, worldVars, faults>>

\* Mutant: a record that is gone is taken to be an empty one.
LoadAnything(p) ==
  /\ pc[p] = "exact"
  /\ mem' = [mem EXCEPT ![p].loaded = [record[target[p]] EXCEPT !.exists = TRUE]]
  /\ Goto(p, "restore")
  /\ UNCHANGED <<diskVars, lockVars, target, worldVars, faults>>

\* LoadExact and loadStoredFileSummary: without a sealed manifest the clone
\* counts as not retained, and so it is recorded.  A record that is gone is an
\* error.
LoadExact(p) ==
  /\ pc[p] = "exact"
  /\ LET s == target[p] IN
       IF record[s].exists
       THEN /\ mem' = [mem EXCEPT
                         ![p].loaded = [record[s] EXCEPT !.retained = @ /\ Sealed(s)],
                         ![p].usable = record[s].retained /\ Sealed(s)]
            /\ Goto(p, "restore") /\ UNCHANGED lockVars
       ELSE Exit(p, "done") /\ Release(Locks, p)
  /\ UNCHANGED <<diskVars, target, worldVars, faults>>

\* The files are restored; then SaveWhileSessionLocked writes what was loaded
\* before, and the lock is given back.
RecordRestore(p) ==
  /\ pc[p] = "restore"
  /\ SaveLocked(target[p], mem[p].loaded)
  /\ Release(Locks, p)
  /\ Exit(p, "done")
  /\ UNCHANGED <<store, cap, preview, target, worldVars, faults>>

\* Nothing selected is a listing, which records nothing.
ListChanges(p) ==
  /\ pc[p] = "restore"
  /\ Release(Locks, p)
  /\ Exit(p, "done")
  /\ UNCHANGED <<diskVars, target, worldVars, faults>>

Restore(p) ==
  Find(p) \/ ReadLock(p) \/ LoadExact(p) \/ RecordRestore(p) \/ ListChanges(p)

(***************************************************************************)
(* unring prune and unring prune --confirm.                                *)
(***************************************************************************)
CleanupPreviews == [q \in Pruners |->
  IF preview[q].old THEN [preview[q] EXCEPT !.issued = FALSE] ELSE preview[q]]

\* Bound: one preview for every user.
Preview(p) ==
  /\ pc[p] = "start"
  /\ preview[p] = NoPreview
  /\ preview' = CleanupPreviews
  /\ mem' = [mem EXCEPT ![p].limit = cap]
  /\ Goto(p, "list")
  /\ UNCHANGED <<recordVars, store, cap, lockVars, target, worldVars, faults>>

\* With nothing to remove there is no token.
SavePreview(p) ==
  /\ pc[p] = "shown"
  /\ \/ /\ mem[p].todo # {}
        /\ preview' = [preview EXCEPT ![p] =
             [issued |-> TRUE, old |-> FALSE, removals |-> mem[p].todo]]
        /\ UNCHANGED faults
     \/ mem[p].todo = {} /\ UNCHANGED <<preview, faults>>
     \/ Fault /\ UNCHANGED preview
  /\ Exit(p, "start")
  /\ UNCHANGED <<recordVars, store, cap, lockVars, target, worldVars>>

\* Mutant: what is removed is planned anew.
ConfirmNewPlan(p) ==
  /\ pc[p] = "start"
  /\ \E q \in Pruners, chosen \in Selections(Listed, cap) :
       /\ preview[q].issued /\ ~preview[q].old
       /\ mem' = [mem EXCEPT ![p].token = q, ![p].todo = PlanOf(Listed, cap, chosen)]
  /\ Goto(p, "apply")
  /\ UNCHANGED <<diskVars, lockVars, target, worldVars, faults>>

Confirm(p) ==
  /\ pc[p] = "start"
  /\ \E q \in Pruners :
       /\ preview[q].issued
       /\ IF preview[q].old THEN UNCHANGED <<pc, mem>>
          ELSE /\ mem' = [mem EXCEPT ![p].token = q, ![p].todo = preview[q].removals]
               /\ Goto(p, "apply")
  /\ preview' = CleanupPreviews
  /\ UNCHANGED <<recordVars, store, cap, lockVars, target, worldVars, faults>>

\* Only a set that was applied as a whole uses its token up.
EndPrune(p) ==
  /\ \/ pc[p] = "applied" /\ preview' = [preview EXCEPT ![mem[p].token].issued = FALSE]
     \/ pc[p] = "refused" /\ UNCHANGED preview
  /\ Exit(p, "start")
  /\ UNCHANGED <<recordVars, store, cap, lockVars, target, worldVars, faults>>

Prune(p) ==
  \/ Preview(p) \/ Retain(p) \/ FailRemoval(p) \/ SavePreview(p) \/ Confirm(p) \/ EndPrune(p)

(***************************************************************************)
(* The environment: time passes, and processes are killed.                 *)
(***************************************************************************)
SessionAges ==
  /\ cutoff < MaxCutoff
  /\ cutoff' = cutoff + 1
  /\ UNCHANGED <<diskVars, lockVars, pc, target, mem, stamped, overtaken, faults>>

PreviewAges ==
  /\ \E q \in Pruners :
       preview[q].issued /\ ~preview[q].old /\ preview' = [preview EXCEPT ![q].old = TRUE]
  /\ UNCHANGED <<recordVars, store, cap, lockVars, pc, target, mem, worldVars, faults>>

Kill(p) ==
  /\ ~Idle(p)
  /\ Fault
  /\ Release(Locks, p)
  /\ Exit(p, IF p \in Pruners THEN "start" ELSE "dead")
  /\ UNCHANGED <<diskVars, target, worldVars>>

Terminated == (\A p \in Procs : Idle(p)) /\ UNCHANGED vars

Step(p) ==
  \/ p \in Runners /\ Run(p)
  \/ p \in Restorers /\ Restore(p)
  \/ p \in Pruners /\ Prune(p)

Next ==
  \/ \E p \in Procs : Step(p) \/ Kill(p)
  \/ SessionAges \/ PreviewAges \/ Terminated

Spec == StateDirInit /\ [][Next]_vars

(***************************************************************************)
(* Properties.                                                             *)
(***************************************************************************)

(* The type of every variable. *)
StoreTypeOK ==
  /\ record \in [Sessions -> Records]
  /\ saved \subseteq Sessions
  /\ store \in [Sessions -> Stores]
  /\ cap \in Caps
  /\ preview \in [Pruners -> Previews]
  /\ excl \in [Locks -> SUBSET Procs]
  /\ shared \in [Locks -> SUBSET Procs]
  /\ pc \in [Procs -> StoreLabels]
  /\ target \in [Procs -> Sessions \cup {0}]
  /\ mem \in [Procs -> Memories]
  /\ cutoff \in Nat /\ stamped \subseteq Sessions /\ overtaken \subseteq Sessions
  /\ faults \in Nat

(* "The newest session is always kept" (README.md:239): no plan made before *)
(* a session existed, no saved preview and no later run removes the newest  *)
(* of the sessions that were ever recorded, nor the clone it is said to     *)
(* have, though plans are made, saved and applied at different times.       *)
NewestKept ==
  \A s \in saved :
    (\A t \in saved : t <= s) =>
      record[s].exists /\ (record[s].retained => store[s].dir /\ store[s].clone)

(* An interrupted removal leaves no store that still looks whole: a sealed  *)
(* manifest means that the clone is there.  Only of a session that another  *)
(* run began to remove while its own run had not ended is it not so: that   *)
(* run writes the manifest back (localrollback.go:2007) into a directory    *)
(* that goes on losing its clone.                                           *)
SealedMeansWhole == \A s \in Sessions : Sealed(s) /\ s \notin overtaken => store[s].clone

(* A record that says its clone is gone hides no clone that could still be  *)
(* restored from.                                                           *)
UnretainedMeansGone ==
  \A s \in Sessions : record[s].ended /\ ~record[s].retained => ~Sealed(s)

(* What a restore found under its lock stays as it is until it has recorded *)
(* the outcome (lock.go:17).                                                *)
ReadsStable ==
  [][\A p \in Restorers :
       pc[p] = "restore" /\ pc'[p] # "dead" =>
         /\ record'[target[p]].exists
         /\ mem[p].usable => store'[target[p]] = store[target[p]]]_vars

(* A record that age removed does not come back: neither a restore nor a    *)
(* second removal writes it again (audit.go:171).  (A run that still        *)
(* records the session is excepted: Save does not look.)                    *)
PrunedStaysPruned ==
  [][\A s \in saved : ~record[s].exists /\ ~Recording(s) => ~record'[s].exists]_vars

(* prune --confirm removes nothing but what the preview named, and only as  *)
(* it was shown: a session shown as losing its clone keeps its record.      *)
ConfirmsShown ==
  [][\A p \in Pruners, s \in Sessions :
       p \in excl[s] =>
         /\ record[s].exists /\ ~record'[s].exists =>
              \E r \in preview[mem[p].token].removals : r.id = s /\ r.expired
         /\ store'[s] # store[s] => \E r \in preview[mem[p].token].removals : r.id = s]_vars

(* "marking that record as no longer retained for clone restore"            *)
(* (README.md:253).  The record of a running session is written from its    *)
(* memory, and so it is not.                                                *)
EvictedMarked ==
  \A s \in Sessions :
    record[s].ended /\ ~store[s].dir /\ excl[s] = {} => ~record[s].retained
=============================================================================
