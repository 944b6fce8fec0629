----------------------------- MODULE StateDir ------------------------------
(***************************************************************************)
(* unring's state directory, which every unring process of a user shares:  *)
(* logs/<id>.json, snapshots/<id>/, snapshot-locks/<id>.lock,              *)
(* snapshot-retention-cap and prune-previews/<token>.json.                 *)
(*                                                                         *)
(* A session is its rank by StartedAt.  Every store is measured as one     *)
(* unit, so the byte cap is a number of stores.  A file that is written    *)
(* beside its name and renamed changes in one step.                        *)
(***************************************************************************)
EXTENDS Integers, FiniteSets

CONSTANTS
  Runners,      \* processes of unring run
  Restorers,    \* processes of unring restore
  Pruners,      \* users of unring prune: one process after the other
  OldSessions,  \* sessions 1..OldSessions were recorded before
  MaxSessions,  \* bound: sessions ever recorded
  Measured,     \* sessions whose snapshot the file system could measure
  Caps,         \* the byte caps that are chosen
  MaxCutoff,    \* bound: sessions that ever get older than the age limit
  MaxFaults     \* bound: failed steps and killed processes

Procs == Runners \cup Restorers \cup Pruners
Sessions == 1..MaxSessions

ASSUME ProcAssumption ==
  /\ Runners \cap Restorers = {} /\ Runners \cap Pruners = {}
  /\ Restorers \cap Pruners = {}
ASSUME StoreBounds ==
  /\ OldSessions \in Nat /\ MaxSessions \in Nat /\ OldSessions \in 0..MaxSessions
  /\ Measured \subseteq Sessions /\ Caps \subseteq Nat /\ Caps # {}
  /\ MaxCutoff \in Nat /\ MaxFaults \in Nat

VARIABLES
  \* On disk.
  record,   \* the audit record of every session (audit.Record)
  saved,    \* sessions whose record was ever written: a history variable
  store,    \* its snapshot directory
  cap,      \* snapshot-retention-cap
  preview,  \* the preview that a user of prune saved, by user
  excl,     \* flock: who holds a lock exclusively
  shared,   \* flock: who shares it
  \* Of every process.
  pc,       \* where it is
  target,   \* the session it is about, or 0
  mem,      \* what else it has in memory
  \* Of the environment.
  cutoff,   \* sessions 1..cutoff are past the configured age
  stamped,  \* sessions whose StartedAt was taken
  overtaken,\* sessions that a removal began to remove while their run recorded
            \* them: a history variable
  faults

recordVars == <<record, saved>>
diskVars == <<recordVars, store, cap, preview>>
lockVars == <<excl, shared>>
worldVars == <<cutoff, stamped, overtaken>>
vars == <<diskVars, lockVars, pc, target, mem, worldVars, faults>>

\* The lock of PlanRetention and ApplyRetentionRemovals; its name is no id.
Retention == 0
Locks == {Retention} \cup Sessions

NoRecord == [exists |-> FALSE, retained |-> FALSE, ended |-> FALSE]
Records == [exists : BOOLEAN, retained : BOOLEAN, ended : BOOLEAN]
NoStore == [dir |-> FALSE, manifest |-> "none", clone |-> FALSE]
Stores == [dir : BOOLEAN, manifest : {"none", "open", "sealed"}, clone : BOOLEAN]
Removals == [id : Sessions, expired : BOOLEAN, capRequired : BOOLEAN, hasSnapshot : BOOLEAN]
Previews == [issued : BOOLEAN, old : BOOLEAN, removals : SUBSET Removals]
NoPreview == [issued |-> FALSE, old |-> FALSE, removals |-> {}]

StoreLabels ==
  {"start", "done", "dead", "list", "plan", "apply", "next", "rmManifest", "rmClone", "rmDir",
   "finalize", "failed", "applied", "refused",
   "save", "capture", "measure", "note", "child", "final", "lock", "exact", "restore", "shown"}

\* readManifest finds an EndedAt (LoadSealedSummary).
Sealed(s) == store[s].manifest = "sealed"

\* A process has not begun, has ended or was killed.
Idle(p) == pc[p] \in {"start", "done", "dead"}

\* The run of session s can still write what it has in memory.
Recording(s) == \E p \in Runners : target[p] = s /\ ~Idle(p)

(***************************************************************************)
(* statelock.AcquireContext polls flock, which knows no owners: a second   *)
(* descriptor of the same process waits like any other.  The kernel gives  *)
(* the locks of a killed process back.                                     *)
(***************************************************************************)
CanShare(l) == excl[l] = {}
CanExclude(l) == excl[l] = {} /\ shared[l] = {}

Exclude(l, p) == excl' = [excl EXCEPT ![l] = {p}] /\ UNCHANGED shared
Share(l, p) == shared' = [shared EXCEPT ![l] = @ \cup {p}] /\ UNCHANGED excl
Release(ls, p) ==
  /\ excl' = [l \in Locks |-> IF l \in ls THEN excl[l] \ {p} ELSE excl[l]]
  /\ shared' = [l \in Locks |-> IF l \in ls THEN shared[l] \ {p} ELSE shared[l]]

NoMemory ==
  [ids |-> {}, retained |-> {}, \* the records store.List returned, and those with Retained
   todo |-> {},                 \* the removals still to apply
   token |-> 0,                 \* the preview a prune --confirm names
   limit |-> 0,                 \* the byte cap the process works with
   loaded |-> NoRecord,         \* the audit record in memory
   usable |-> FALSE,            \* a restore found a sealed store
   over |-> FALSE]              \* a run has sealed its store (fileSealed)

Memories ==
  [ids : SUBSET Sessions, retained : SUBSET Sessions, todo : SUBSET Removals,
   token : Pruners \cup {0}, limit : Caps \cup {0}, loaded : Records,
   usable : BOOLEAN, over : BOOLEAN]

Goto(p, label) == pc' = [pc EXCEPT ![p] = label]
Exit(p, label) == Goto(p, label) /\ mem' = [mem EXCEPT ![p] = NoMemory]

\* One step of the environment's budget of failures.
Fault == faults < MaxFaults /\ faults' = faults + 1

(***************************************************************************)
(* audit.Store.Save: under the session's exclusive lock, which is taken    *)
(* and given back within the step.  It does not look whether the record it *)
(* replaces is still there.                                                *)
(***************************************************************************)
Save(s, r) ==
  /\ CanExclude(s)
  /\ record' = [record EXCEPT ![s] = r]
  /\ saved' = saved \cup {s}

\* SaveWhileSessionLocked and DeleteWhileSessionLocked.
SaveLocked(s, r) == record' = [record EXCEPT ![s] = r] /\ saved' = saved \cup {s}
DeleteLocked(s) == record' = [record EXCEPT ![s] = NoRecord] /\ UNCHANGED saved

StateDirInit ==
  /\ record = [s \in Sessions |-> IF s <= OldSessions
                 THEN [exists |-> TRUE, retained |-> TRUE, ended |-> TRUE]
                 ELSE NoRecord]
  /\ store = [s \in Sessions |-> IF s <= OldSessions
                THEN [dir |-> TRUE, manifest |-> "sealed", clone |-> TRUE] ELSE NoStore]
  /\ cap \in Caps
  /\ preview = [p \in Pruners |-> NoPreview]
  /\ excl = [l \in Locks |-> {}]
  /\ shared = [l \in Locks |-> {}]
  /\ pc = [p \in Procs |-> "start"]
  /\ target = [p \in Procs |-> 0]
  /\ mem = [p \in Procs |-> NoMemory]
  /\ cutoff = 0
  /\ stamped = 1..OldSessions
  /\ overtaken = {}
  /\ saved = 1..OldSessions
  /\ faults = 0
=============================================================================
