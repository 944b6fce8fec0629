------------------------- MODULE SessionStoreProofs -------------------------
(***************************************************************************)
(* Theorems about SessionStore, for every set of processes, every choice   *)
(* of byte caps and every bound.                                           *)
(***************************************************************************)
EXTENDS SessionStore, FiniteSetTheorems, TLAPS

Removing == {"rmManifest", "rmClone", "rmDir", "finalize"}
Applying == {"apply", "next"} \cup Removing
Planning == {"list", "plan", "shown"}
Newest(s) == s \in saved /\ \A t \in saved : t <= s
Superseded(s) == \E t \in saved : s < t

(***************************************************************************)
(* The locks.  Only a pass that applies removals holds one exclusively,    *)
(* and it holds the one of the session it removes; a restore shares its    *)
(* session's.                                                              *)
(***************************************************************************)
ExclusiveInv ==
  \A l \in Locks, p \in Procs : p \in excl[l] =>
    excl[l] = {p} /\ shared[l] = {} /\ pc[p] \in {"next", "failed"} \cup Removing

RemovalLockInv ==
  \A p \in Procs : pc[p] \in Removing =>
    \A r \in mem[p].todo : First(p, r) => p \in excl[r.id]

RestoreLockInv ==
  \A p \in Restorers :
    /\ pc[p] # "start" => target[p] \in Sessions
    /\ pc[p] \in {"exact", "restore"} => p \in shared[target[p]]

(***************************************************************************)
(* The ranks.  A session has one run, only a session with a rank has       *)
(* anything on disk, and none is overtaken while it is the newest.         *)
(***************************************************************************)
RankInv ==
  /\ \E k \in 0..MaxSessions : stamped = 1..k
  /\ saved \subseteq stamped
  /\ \A s \in overtaken : Superseded(s)

RunnerInv ==
  /\ \A p \in Runners : IF pc[p] = "start" THEN target[p] = 0 ELSE target[p] \in stamped
  /\ \A p, q \in Runners : target[p] = target[q] /\ target[p] # 0 => p = q

SavedInv ==
  /\ \A s \in Sessions :
       store[s].dir \/ record[s].exists \/ record[s].ended \/ record[s].retained => s \in saved
  /\ \A s \in Sessions : ~store[s].dir => store[s].manifest = "none"
  /\ \A p \in Procs : mem[p].ids \subseteq saved

\* A run that has ended its record has nothing more to do.
EndedInv ==
  \A s \in Sessions, p \in Runners : record[s].ended /\ target[p] = s => Idle(p)

\* What a run has in memory, and what is on disk, of the session it records.
\* Until start has returned, neither says that the clone is retained.
Unretained == {"save", "capture", "measure"}

RunMemory(p) ==
  /\ pc[p] = "start" => ~mem[p].over /\ mem[p].loaded = NoRecord
  /\ ~Idle(p) =>
       /\ mem[p].loaded.exists /\ ~mem[p].loaded.ended
       /\ pc[p] \in Unretained => ~mem[p].loaded.retained
       /\ pc[p] \notin Unretained \cup {"final"} => mem[p].loaded.retained

RunDisk(p) ==
  ~Idle(p) =>
    /\ ~mem[p].over => ~Sealed(target[p])
    /\ ~mem[p].loaded.retained => ~Sealed(target[p])
    /\ pc[p] \in {"save", "capture"} => ~store[target[p]].dir
    /\ pc[p] \in Unretained => ~record[target[p]].retained
    /\ (mem[p].loaded.retained \/ pc[p] = "measure") /\ target[p] \notin overtaken =>
         store[target[p]].dir /\ store[target[p]].clone
    /\ pc[p] # "save" => target[p] \in saved

RunMemoryInv == \A p \in Runners : RunMemory(p)
RunDiskInv == \A p \in Runners : RunDisk(p)

\* What a restore found under its lock.
RestoreInv ==
  \A p \in Restorers : pc[p] = "restore" =>
    /\ record[target[p]].exists /\ mem[p].loaded.exists
    /\ mem[p].usable => Sealed(target[p])
    /\ mem[p].loaded.retained => Sealed(target[p])
    /\ mem[p].loaded.retained /\ Newest(target[p]) =>
         store[target[p]].dir /\ store[target[p]].clone
    /\ mem[p].loaded.ended =>
         /\ \A q \in Runners : target[q] = target[p] => Idle(q)
         /\ ~mem[p].loaded.retained => ~Sealed(target[p])

(***************************************************************************)
(* The removals, planned or saved.  Since saved only grows, a session that *)
(* was not the newest when a plan was made is not the newest when it is    *)
(* applied, however much later.                                            *)
(***************************************************************************)
RemovalsOK(removals) ==
  /\ \A r \in removals : Superseded(r.id) /\ (~r.hasSnapshot => r.expired)
  /\ \A r, q \in removals : r.id = q.id => r = q

\* What is known of a removal once its snapshot was seen: it was captured.
CapturedOK(removals) ==
  \A r \in removals : r.hasSnapshot =>
    \A q \in Runners : target[q] = r.id => pc[q] \notin {"save", "capture"}

TodoInv == \A p \in Procs : RemovalsOK(mem[p].todo) /\ CapturedOK(mem[p].todo)
PreviewInv ==
  \A p \in Pruners : RemovalsOK(preview[p].removals) /\ CapturedOK(preview[p].removals)

\* The order of the removal: manifest, clone, directory, record.  A manifest that
\* is removed comes back only when its run was recording, which is then known.
OrderInv ==
  \A p \in Procs : \A r \in mem[p].todo :
    First(p, r) =>
      /\ pc[p] \in {"rmClone", "rmDir"} /\ r.id \notin overtaken =>
           ~Sealed(r.id) /\ ~Recording(r.id)
      /\ pc[p] = "finalize" /\ r.hasSnapshot => ~store[r.id].dir

\* What prune --confirm removes stays in the preview it was given.
ConfirmInv ==
  /\ \A p \in Pruners : pc[p] \in Planning => preview[p].removals = {}
  /\ \A p \in Pruners : pc[p] \in Applying =>
       mem[p].token \in Pruners /\ mem[p].todo \subseteq preview[mem[p].token].removals
  /\ \A p \in Pruners, s \in Sessions : p \in excl[s] =>
       mem[p].token \in Pruners /\ \E r \in preview[mem[p].token].removals : r.id = s

StoreInv ==
  /\ StoreTypeOK
  /\ ExclusiveInv /\ RemovalLockInv /\ RestoreLockInv
  /\ RankInv /\ RunnerInv /\ SavedInv /\ EndedInv
  /\ RunMemoryInv /\ RunDiskInv /\ RestoreInv
  /\ TodoInv /\ PreviewInv /\ OrderInv /\ ConfirmInv
  /\ NewestKept /\ SealedMeansWhole /\ UnretainedMeansGone

USE ProcAssumption, StoreBounds
USE DEF Procs, Sessions, Locks, Retention, Records, Stores, Removals, Previews, Memories,
  StoreLabels, recordVars, diskVars, lockVars, worldVars, Goto

\* What a plan selects is not the newest, and its snapshots were captured.
LEMMA PlanRemovals ==
  ASSUME StoreInv, NEW list, list.ids \subseteq saved, NEW bytes,
         NEW chosen \in Selections(list, bytes)
  PROVE  /\ PlanOf(list, bytes, chosen) \in SUBSET Removals
         /\ RemovalsOK(PlanOf(list, bytes, chosen))
         /\ CapturedOK(PlanOf(list, bytes, chosen))
<1> DEFINE plan == PlanOf(list, bytes, chosen)
<1>1. chosen \subseteq Items(list) \ Protected(list) /\ IsSelection(list, bytes, chosen)
  BY DEF Selections
<1>2. Items(list) \subseteq saved /\ saved \subseteq Sessions
  BY DEF StoreInv, StoreTypeOK, SavedInv, Items
<1>3. \A s \in chosen : Superseded(s)
  <2> TAKE s \in chosen
  <2>1. PICK t \in Items(list) : ~(t <= s)
    BY <1>1 DEF Protected
  <2>2. s \in Sessions /\ t \in Sessions /\ t \in saved
    BY <1>1, <1>2, <2>1
  <2> QED BY <2>1, <2>2 DEF Superseded
<1>4. \A s \in chosen : Expired(s) \/ store[s].dir
  BY <1>1 DEF IsSelection, CapRequired, Charged
<1>5. \A r \in plan : /\ r.id \in chosen /\ r.hasSnapshot = store[r.id].dir
                      /\ r.expired = Expired(r.id) /\ r \in Removals
  <2> TAKE r \in plan
  <2>1. PICK s \in chosen :
          r = [id |-> s, expired |-> Expired(s),
               capRequired |-> CapRequired(list, bytes, chosen, s),
               hasSnapshot |-> store[s].dir]
    BY DEF PlanOf
  <2>2. s \in Sessions /\ store[s].dir \in BOOLEAN
    BY <1>1, <1>2 DEF StoreInv, StoreTypeOK
  <2>3. Expired(s) \in BOOLEAN /\ CapRequired(list, bytes, chosen, s) \in BOOLEAN
    BY DEF Expired, CapRequired
  <2> QED BY <2>1, <2>2, <2>3
<1>6. \A r, q \in plan : r.id = q.id => r = q
  BY DEF PlanOf
<1>7. RemovalsOK(plan)
  BY <1>3, <1>4, <1>5, <1>6 DEF RemovalsOK
<1>8. \A q \in Runners : pc[q] \in {"save", "capture"} => ~store[target[q]].dir
  BY DEF StoreInv, RunMemoryInv, RunMemory, RunDiskInv, RunDisk, Unretained, Idle
<1>9. CapturedOK(plan)
  BY <1>5, <1>8 DEF CapturedOK
<1> QED BY <1>5, <1>7, <1>9

\* A run knows the session it records.
LEMMA RunTarget ==
  ASSUME StoreInv, NEW p \in Runners, ~Idle(p)
  PROVE  target[p] \in Sessions /\ target[p] \in stamped
BY DEF StoreInv, StoreTypeOK, RunnerInv, Idle

\* A run that does not begin records no session that was not recorded.
LEMMA RecordingKept ==
  ASSUME NEW s, \A q \in Runners : target'[q] = target[q] /\ (Idle(q) => Idle(q)')
  PROVE  Recording(s)' => Recording(s)
BY DEF Recording

\* What a process does to its memory leaves that of the others alone.
LEMMA MemoryStep ==
  ASSUME StoreTypeOK, NEW p \in Procs, NEW m \in Memories, mem' = [mem EXCEPT ![p] = m]
  PROVE  /\ mem' \in [Procs -> Memories]
         /\ mem'[p] = m /\ \A q \in Procs : q # p => mem'[q] = mem[q]
BY DEF StoreTypeOK

LEMMA StoreStep ==
  ASSUME StoreTypeOK, NEW s \in Sessions, NEW t \in Stores, store' = [store EXCEPT ![s] = t]
  PROVE  /\ store' \in [Sessions -> Stores]
         /\ store'[s] = t /\ \A u \in Sessions : u # s => store'[u] = store[u]
BY DEF StoreTypeOK

\* A removal that was sound stays sound while no run starts to capture.
LEMMA RemovalsKept ==
  ASSUME NEW removals, RemovalsOK(removals), CapturedOK(removals), saved \subseteq saved',
         \A q \in Runners : pc'[q] \in {"save", "capture"} =>
           pc[q] \in {"save", "capture"} /\ target'[q] = target[q]
  PROVE  RemovalsOK(removals)' /\ CapturedOK(removals)'
BY DEF RemovalsOK, CapturedOK, Superseded

\* The cleanup of old previews only takes their tokens back.
LEMMA CleanupKeeps ==
  ASSUME StoreTypeOK, preview' = CleanupPreviews
  PROVE  /\ preview' \in [Pruners -> Previews]
         /\ \A q \in Pruners : preview'[q].removals = preview[q].removals
<1> SUFFICES ASSUME NEW q \in Pruners
             PROVE  CleanupPreviews[q] \in Previews
                    /\ CleanupPreviews[q].removals = preview[q].removals
  BY DEF CleanupPreviews
<1>1. preview[q] \in Previews
  BY DEF StoreTypeOK
<1>2. [preview[q] EXCEPT !.issued = FALSE] \in Previews
      /\ [preview[q] EXCEPT !.issued = FALSE].removals = preview[q].removals
  BY <1>1
<1> QED BY <1>1, <1>2 DEF CleanupPreviews

(***************************************************************************)
(* The retention pass, of a run or of prune --confirm.                     *)
(***************************************************************************)
LEMMA ListStep ==
  ASSUME StoreInv, NEW p \in Runners \cup Pruners, List(p)
  PROVE  StoreInv'
<1> USE DEF StoreInv
<1> DEFINE m == [mem[p] EXCEPT !.ids = Listed.ids, !.retained = Listed.retained]
<1>a. /\ Listed.ids \in SUBSET saved
      /\ Listed.ids \in SUBSET Sessions /\ Listed.retained \in SUBSET Sessions
  BY DEF Listed, SavedInv
<1>b. mem' = [mem EXCEPT ![p] = m]
  BY DEF List
<1>c. mem[p] \in Memories
  BY DEF StoreTypeOK
<1>d. m \in Memories /\ m.todo = mem[p].todo /\ m.token = mem[p].token
  BY <1>a, <1>c
<1> HIDE DEF m
<1>e. /\ mem' \in [Procs -> Memories]
      /\ mem'[p] = m /\ \A q \in Procs : q # p => mem'[q] = mem[q]
  BY <1>b, <1>d, MemoryStep
<1>f. /\ pc[p] = "list" /\ pc' = [pc EXCEPT ![p] = "plan"]
      /\ UNCHANGED <<record, saved, store, preview, excl, shared, target, stamped, overtaken>>
  BY DEF List
<1>1. StoreTypeOK'
  BY <1>e DEF List, StoreTypeOK
<1>2. ExclusiveInv' /\ RemovalLockInv' /\ RestoreLockInv'
  BY DEF List, StoreTypeOK, ExclusiveInv, Removing, Listed, RemovalLockInv, First,
     RestoreLockInv
<1>3. RankInv' /\ RunnerInv'
  BY DEF List, StoreTypeOK, RankInv, Superseded, Listed, RunnerInv
<1>4. SavedInv'
  BY DEF List, StoreTypeOK, SavedInv, Listed
<1>5. EndedInv'
  BY DEF List, StoreTypeOK, EndedInv, Idle, Listed
<1>6. RunMemoryInv'
  BY DEF List, StoreTypeOK, RunMemoryInv, RunMemory, Unretained, Idle, Listed
<1>7. RunDiskInv'
  BY DEF List, StoreTypeOK, RunDiskInv, RunDisk, Unretained, Idle, Sealed, Newest,
     Listed
<1>8. RestoreInv'
  BY DEF List, StoreTypeOK, RestoreInv, Idle, Sealed, Newest, Listed
<1>9. TodoInv' /\ PreviewInv'
  BY DEF List, StoreTypeOK, TodoInv, RemovalsOK, CapturedOK, Superseded, Listed,
     PreviewInv
<1>10. OrderInv'
  <2>1. \A q \in Procs : mem'[q].todo = mem[q].todo
    BY <1>d, <1>e
  <2>2. \A q \in Procs : \A v : v \in mem[q].todo => (First(q, v)' <=> First(q, v))
    BY <2>1 DEF First
  <2>3. \A s : Recording(s)' => Recording(s)
    BY <1>f, RecordingKept DEF StoreTypeOK, Idle
  <2>4. \A q \in Procs : pc'[q] \in {"rmClone", "rmDir", "finalize"} => pc'[q] = pc[q]
    BY <1>f DEF StoreTypeOK
  <2>5. \A s : Sealed(s)' <=> Sealed(s)
    BY <1>f DEF Sealed
  <2> QED BY <1>f, <2>1, <2>2, <2>3, <2>4, <2>5 DEF OrderInv
<1>11. ConfirmInv'
  BY SMTT(30), <1>d, <1>e, <1>f DEF StoreTypeOK, ConfirmInv, Planning, Applying, Removing
<1>12. NewestKept' /\ SealedMeansWhole' /\ UnretainedMeansGone'
  BY DEF List, StoreTypeOK, NewestKept, Listed, SealedMeansWhole, Sealed,
     UnretainedMeansGone
<1> QED BY <1>1, <1>2, <1>3, <1>4, <1>5, <1>6, <1>7, <1>8, <1>9, <1>10, <1>11, <1>12

LEMMA PlanStep ==
  ASSUME StoreInv, NEW p \in Runners \cup Pruners, Plan(p)
  PROVE  StoreInv'
<1> USE DEF StoreInv
<1> DEFINE list == [ids |-> mem[p].ids, retained |-> mem[p].retained]
<1>p. PICK chosen \in Selections(list, mem[p].limit) :
      mem' = [mem EXCEPT ![p].todo = {r \in PlanOf(list, mem[p].limit, chosen) :
                                        r.id # target[p]},
                         ![p].ids = {}, ![p].retained = {}]
  BY DEF Plan
<1> DEFINE removals == {r \in PlanOf(list, mem[p].limit, chosen) : r.id # target[p]}
           m == [mem[p] EXCEPT !.todo = removals, !.ids = {}, !.retained = {}]
<1>a. removals \in SUBSET Removals /\ RemovalsOK(removals) /\ CapturedOK(removals)
  <2>1. list.ids \subseteq saved
    BY DEF SavedInv
  <2>2. /\ PlanOf(list, mem[p].limit, chosen) \in SUBSET Removals
        /\ RemovalsOK(PlanOf(list, mem[p].limit, chosen))
        /\ CapturedOK(PlanOf(list, mem[p].limit, chosen))
    BY <2>1, PlanRemovals
  <2> QED BY <2>2 DEF RemovalsOK, CapturedOK
<1>b. mem' = [mem EXCEPT ![p] = m]
  BY <1>p
<1>c. mem[p] \in Memories
  BY DEF StoreTypeOK
<1> HIDE DEF removals
<1>d. /\ m \in Memories /\ m.todo = removals /\ m.token = mem[p].token /\ m.ids = {}
      /\ m.loaded = mem[p].loaded /\ m.over = mem[p].over
  BY <1>a, <1>c
<1> HIDE DEF m
<1>e. /\ mem' \in [Procs -> Memories]
      /\ mem'[p] = m /\ \A q \in Procs : q # p => mem'[q] = mem[q]
  BY <1>b, <1>d, MemoryStep
<1>f. /\ pc[p] = "plan"
      /\ pc' = [pc EXCEPT ![p] = IF p \in Runners THEN "apply" ELSE "shown"]
      /\ UNCHANGED <<record, saved, store, preview, excl, shared, target, stamped, overtaken>>
  BY DEF Plan
<1>g. \A q \in Runners : pc'[q] \in {"save", "capture"} =>
        pc[q] \in {"save", "capture"} /\ target'[q] = target[q]
  BY <1>f DEF StoreTypeOK
<1>h. /\ pc'[p] = IF p \in Runners THEN "apply" ELSE "shown"
      /\ \A q \in Procs : q # p => pc'[q] = pc[q] /\ mem'[q] = mem[q]
  BY <1>e, <1>f DEF StoreTypeOK
<1>1. StoreTypeOK'
  BY <1>e DEF Plan, StoreTypeOK
<1>2. ExclusiveInv' /\ RemovalLockInv' /\ RestoreLockInv'
  BY ZenonT(40) DEF Plan, StoreTypeOK, ExclusiveInv, Removing, RemovalLockInv, First,
     RestoreLockInv
<1>3. RankInv' /\ RunnerInv'
  BY DEF Plan, StoreTypeOK, RankInv, Superseded, RunnerInv
<1>4. SavedInv'
  BY <1>d, <1>e, <1>f, <1>h DEF SavedInv
<1>5. EndedInv'
  BY DEF Plan, StoreTypeOK, EndedInv, Idle
<1>6. RunMemoryInv'
  BY <1>d, <1>e, <1>f, <1>h DEF RunMemoryInv, RunMemory, Unretained, Idle
<1>7. RunDiskInv'
  BY <1>d, <1>e, <1>f, <1>h DEF RunDiskInv, RunDisk, Unretained, Idle, Sealed, Newest
<1>8. RestoreInv'
  BY <1>d, <1>e, <1>f, <1>h DEF RestoreInv, Idle, Sealed, Newest
<1>9. TodoInv'
  BY <1>a, <1>d, <1>e, <1>f, <1>g, RemovalsKept DEF TodoInv
<1>10. PreviewInv'
  BY DEF Plan, StoreTypeOK, PreviewInv, RemovalsOK, CapturedOK, Superseded
<1>11. OrderInv'
  <2>1. \A s : Recording(s)' => Recording(s)
    BY <1>f, <1>h, RecordingKept DEF Idle
  <2>2. \A q \in Procs : q # p => \A v : First(q, v)' <=> First(q, v)
    BY <1>h DEF First
  <2> QED BY <1>f, <1>h, <2>1, <2>2 DEF OrderInv, Sealed
<1>12. ConfirmInv'
  BY <1>d, <1>e, <1>f, <1>h DEF ConfirmInv, Planning, Applying, Removing
<1>13. NewestKept' /\ SealedMeansWhole' /\ UnretainedMeansGone'
  BY DEF Plan, StoreTypeOK, NewestKept, SealedMeansWhole, Sealed, UnretainedMeansGone
<1> QED BY <1>1, <1>2, <1>3, <1>4, <1>5, <1>6, <1>7, <1>8, <1>9, <1>10, <1>11, <1>12, <1>13

LEMMA ApplyLockStep ==
  ASSUME StoreInv, NEW p \in Runners \cup Pruners, ApplyLock(p)
  PROVE  StoreInv'
<1> USE DEF StoreInv
<1>a. mem[p] \in Memories
  BY DEF StoreTypeOK
<1>b. PICK m \in Memories :
        /\ mem' = [mem EXCEPT ![p] = m]
        /\ m.todo \in {mem[p].todo, {}} /\ m.ids = mem[p].ids /\ m.token = mem[p].token
        /\ m.loaded = mem[p].loaded /\ m.over = mem[p].over
  <2>1. CASE mem' = mem
    BY <1>a, <2>1 DEF StoreTypeOK
  <2>2. CASE mem' = [mem EXCEPT ![p].todo = {}]
    <3> DEFINE m == [mem[p] EXCEPT !.todo = {}]
    <3>1. mem' = [mem EXCEPT ![p] = m]
      BY <2>2
    <3>2. /\ m \in Memories /\ m.todo = {} /\ m.ids = mem[p].ids /\ m.token = mem[p].token
          /\ m.loaded = mem[p].loaded /\ m.over = mem[p].over
      BY <1>a
    <3> QED BY <3>1, <3>2
  <2> QED BY <2>1, <2>2 DEF ApplyLock
<1>c. /\ mem' \in [Procs -> Memories]
      /\ mem'[p] = m /\ \A q \in Procs : q # p => mem'[q] = mem[q]
  BY <1>b, MemoryStep
<1>d. /\ pc[p] = "apply" /\ pc'[p] \in {"next", "refused"}
      /\ \A q \in Procs : q # p => pc'[q] = pc[q]
      /\ pc' \in [Procs -> StoreLabels]
      /\ UNCHANGED <<record, saved, store, preview, shared, target, stamped, overtaken>>
  <2>1. PICK label \in {"next", "refused"} : pc' = [pc EXCEPT ![p] = label]
    BY DEF ApplyLock
  <2>2. pc \in [Procs -> StoreLabels]
    BY DEF StoreTypeOK
  <2>3. /\ pc[p] = "apply"
        /\ UNCHANGED <<record, saved, store, preview, shared, target, stamped, overtaken>>
    BY DEF ApplyLock, Exclude
  <2> QED BY <2>1, <2>2, <2>3
<1>e. \/ UNCHANGED excl
      \/ /\ excl[Retention] = {} /\ shared[Retention] = {} /\ pc'[p] = "next"
         /\ excl' = [excl EXCEPT ![Retention] = {p}]
  BY DEF ApplyLock, Exclude, CanExclude, StoreTypeOK
<1>f. /\ excl' \in [Locks -> SUBSET Procs]
      /\ \A l \in Locks : \/ excl'[l] = excl[l]
                          \/ /\ l = Retention /\ excl'[l] = {p} /\ shared[l] = {}
                             /\ pc'[p] = "next"
  <2>1. excl \in [Locks -> SUBSET Procs] /\ {p} \in SUBSET Procs
    BY DEF StoreTypeOK
  <2>2. CASE UNCHANGED excl
    BY <2>1, <2>2
  <2>3. CASE /\ excl[Retention] = {} /\ shared[Retention] = {} /\ pc'[p] = "next"
             /\ excl' = [excl EXCEPT ![Retention] = {p}]
    BY <2>1, <2>3
  <2> QED BY <1>e, <2>2, <2>3
<1>g. \A q \in Runners : pc'[q] \in {"save", "capture"} =>
        pc[q] \in {"save", "capture"} /\ target'[q] = target[q]
  BY <1>d
<1>1. StoreTypeOK'
  BY <1>c, <1>d, <1>f DEF StoreTypeOK, ApplyLock
<1>2. ExclusiveInv' /\ RemovalLockInv' /\ RestoreLockInv'
  BY <1>b, <1>c, <1>d, <1>f DEF ExclusiveInv, Removing, RemovalLockInv, First,
     RestoreLockInv
<1>3. RankInv'
  BY <1>b, <1>c, <1>d, <1>f DEF RankInv, Superseded
<1>4. RunnerInv'
  BY <1>b, <1>c, <1>d, <1>f DEF RunnerInv
<1>5. SavedInv'
  BY <1>b, <1>c, <1>d, <1>f DEF SavedInv
<1>6. EndedInv'
  BY <1>b, <1>c, <1>d, <1>f DEF EndedInv, Idle
<1>7. RunMemoryInv'
  BY <1>b, <1>c, <1>d, <1>f DEF RunMemoryInv, RunMemory, Unretained, Idle
<1>8. RunDiskInv'
  BY <1>b, <1>c, <1>d, <1>f DEF RunDiskInv, RunDisk, Unretained, Idle, Sealed, Newest
<1>9. RestoreInv'
  BY <1>b, <1>c, <1>d, <1>f DEF RestoreInv, Idle, Sealed, Newest
<1>10. TodoInv'
  <2>1. RemovalsOK({}) /\ CapturedOK({})
    BY DEF RemovalsOK, CapturedOK
  <2>2. \A q \in Procs : RemovalsOK(mem'[q].todo) /\ CapturedOK(mem'[q].todo)
    BY <1>b, <1>c, <2>1 DEF TodoInv
  <2> QED BY <1>d, <1>g, <2>2, RemovalsKept DEF TodoInv
<1>11. PreviewInv'
  BY <1>d, <1>g, RemovalsKept DEF PreviewInv
<1>12. OrderInv'
  BY <1>b, <1>c, <1>d, <1>f DEF OrderInv, First, Sealed, Recording, Idle
<1>13. ConfirmInv'
  BY <1>b, <1>c, <1>d, <1>f DEF ConfirmInv, Planning, Applying, Removing
<1>14. NewestKept' /\ SealedMeansWhole' /\ UnretainedMeansGone'
  BY <1>b, <1>c, <1>d, <1>f DEF NewestKept, SealedMeansWhole, Sealed,
     UnretainedMeansGone
<1> QED BY <1>1, <1>2, <1>3, <1>4, <1>5, <1>6, <1>7, <1>8, <1>9, <1>10, <1>11, <1>12, <1>13,
   <1>14

LEMMA LockSessionStep ==
  ASSUME StoreInv, NEW p \in Runners \cup Pruners, LockSession(p)
  PROVE  StoreInv'
<1> USE DEF StoreInv
<1>1. StoreTypeOK'
  BY DEF LockSession, StoreTypeOK, Exclude, CanExclude
<1>2. ExclusiveInv' /\ RemovalLockInv' /\ RestoreLockInv'
  BY DEF LockSession, StoreTypeOK, ExclusiveInv, Removing, Exclude, CanExclude,
     RemovalLockInv, First, RestoreLockInv
<1>3. RankInv' /\ RunnerInv'
  BY DEF LockSession, StoreTypeOK, RankInv, Superseded, Exclude, CanExclude, RunnerInv
<1>4. SavedInv'
  BY DEF LockSession, StoreTypeOK, SavedInv, Exclude, CanExclude
<1>5. EndedInv'
  BY DEF LockSession, StoreTypeOK, EndedInv, Idle, Exclude, CanExclude
<1>6. RunMemoryInv'
  BY DEF LockSession, StoreTypeOK, RunMemoryInv, RunMemory, Unretained, Idle, Exclude,
     CanExclude
<1>7. RunDiskInv'
  BY DEF LockSession, StoreTypeOK, RunDiskInv, RunDisk, Unretained, Idle, Sealed,
     Newest, Exclude, CanExclude
<1>8. RestoreInv'
  BY DEF LockSession, StoreTypeOK, RestoreInv, Idle, Sealed, Newest, Exclude, CanExclude
<1>9. TodoInv' /\ PreviewInv'
  BY DEF LockSession, StoreTypeOK, TodoInv, RemovalsOK, CapturedOK, Superseded, Exclude,
     CanExclude, PreviewInv
<1>10. OrderInv'
  <2>1. PICK r \in mem[p].todo :
          First(p, r) /\ pc' = [pc EXCEPT ![p] = IF r.hasSnapshot THEN "rmManifest"
                                                ELSE "finalize"]
    BY DEF LockSession
  <2>2. \A q \in mem[p].todo : First(p, q) => q = r
    BY <2>1 DEF First, StoreTypeOK, TodoInv, RemovalsOK
  <2>3. UNCHANGED <<mem, store, target>> /\ \A q, v : First(q, v)' <=> First(q, v)
    BY DEF LockSession, First
  <2>4. /\ pc'[p] \in {"rmManifest", "finalize"}
        /\ pc'[p] = "finalize" => ~r.hasSnapshot
        /\ \A q \in Procs : q # p => pc'[q] = pc[q]
    BY <2>1 DEF StoreTypeOK
  <2>5. \A s : Recording(s)' => Recording(s)
    BY <2>3, <2>4, RecordingKept DEF Idle, LockSession
  <2> QED BY <2>2, <2>3, <2>4, <2>5 DEF OrderInv, Sealed, LockSession
<1>11. ConfirmInv'
  BY DEF LockSession, StoreTypeOK, ConfirmInv, Planning, Applying, Removing, Exclude,
     CanExclude
<1>12. NewestKept' /\ SealedMeansWhole' /\ UnretainedMeansGone'
  BY DEF LockSession, StoreTypeOK, NewestKept, Exclude, CanExclude, SealedMeansWhole,
     Sealed, UnretainedMeansGone
<1> QED BY <1>1, <1>2, <1>3, <1>4, <1>5, <1>6, <1>7, <1>8, <1>9, <1>10, <1>11, <1>12

LEMMA RemoveManifestStep ==
  ASSUME StoreInv, NEW p \in Runners \cup Pruners, RemoveManifest(p)
  PROVE  StoreInv'
<1> USE DEF StoreInv
<1>r. PICK r \in mem[p].todo :
        /\ First(p, r) /\ store' = [store EXCEPT ![r.id].manifest = "none"]
        /\ overtaken' = overtaken \cup {s \in {r.id} : Recording(s)}
  BY DEF RemoveManifest
<1> DEFINE t == [store[r.id] EXCEPT !.manifest = "none"]
<1>a. r.id \in Sessions /\ store[r.id] \in Stores
  BY DEF StoreTypeOK
<1>b. /\ t \in Stores
      /\ t.dir = store[r.id].dir /\ t.clone = store[r.id].clone /\ t.manifest = "none"
  BY <1>a
<1>c. store' = [store EXCEPT ![r.id] = t]
  BY <1>r
<1> HIDE DEF t
<1>d. /\ store' \in [Sessions -> Stores]
      /\ store'[r.id] = t /\ \A s \in Sessions : s # r.id => store'[s] = store[s]
  BY <1>a, <1>b, <1>c, StoreStep
<1>e. p \in excl[r.id] /\ excl[r.id] = {p} /\ shared[r.id] = {}
  BY <1>r, <1>a DEF RemoveManifest, RemovalLockInv, ExclusiveInv, Removing
<1>f. /\ ~Newest(r.id)
      /\ \A q \in Restorers : pc[q] = "restore" => target[q] \in Sessions \ {r.id}
      /\ \A q \in Procs : pc[q] \in Removing =>
           \A v \in mem[q].todo : First(q, v) /\ v.id = r.id => q = p
  BY <1>a, <1>e DEF TodoInv, RemovalsOK, Superseded, Newest, StoreTypeOK, RestoreLockInv,
     RemovalLockInv
<1>g. \A v \in mem[p].todo : First(p, v) => v.id = r.id
  BY <1>r DEF First, StoreTypeOK
<1>h. /\ pc[p] = "rmManifest" /\ pc' = [pc EXCEPT ![p] = "rmClone"]
      /\ UNCHANGED <<record, saved, preview, excl, shared, target, mem, stamped>>
  BY DEF RemoveManifest
<1>i. /\ pc' \in [Procs -> StoreLabels] /\ pc'[p] = "rmClone"
      /\ \A q \in Procs : q # p => pc'[q] = pc[q]
  BY <1>h DEF StoreTypeOK
<1>j. \A q, v : First(q, v)' <=> First(q, v)
  BY <1>h DEF First
<1>k. \A q \in Procs : (Idle(q)' <=> Idle(q)) /\ target'[q] = target[q]
  BY <1>h, <1>i DEF Idle
<1>l. /\ Superseded(r.id) /\ \A s \in Sessions : Superseded(s)' <=> Superseded(s)
      /\ overtaken' \subseteq overtaken \cup {r.id}
      /\ overtaken \subseteq overtaken' /\ (Recording(r.id) => r.id \in overtaken')
  BY <1>r, <1>h DEF TodoInv, RemovalsOK, Superseded
<1>1. StoreTypeOK'
  BY <1>a, <1>l, <1>d, <1>i DEF RemoveManifest, StoreTypeOK
<1>2. ExclusiveInv' /\ RemovalLockInv' /\ RestoreLockInv'
  BY DEF RemoveManifest, StoreTypeOK, ExclusiveInv, Removing, RemovalLockInv, First,
     RestoreLockInv
<1>3. RankInv' /\ RunnerInv'
  <2>1. RankInv'
    BY <1>a, <1>h, <1>l DEF RankInv, StoreTypeOK
  <2>2. RunnerInv'
    BY <1>h, <1>i DEF RunnerInv
  <2> QED BY <2>1, <2>2
<1>4. SavedInv'
  BY <1>b, <1>d, <1>f, <1>h, <1>i DEF SavedInv
<1>5. EndedInv'
  BY DEF RemoveManifest, StoreTypeOK, EndedInv, Idle
<1>6. RunMemoryInv'
  BY DEF RemoveManifest, StoreTypeOK, RunMemoryInv, RunMemory, Unretained, Idle
<1>7. RunDiskInv'
  <2>0. \A q \in Runners : Idle(q) => RunDisk(q)'
    BY <1>k DEF RunDisk, Idle
  <2> SUFFICES ASSUME NEW q \in Runners, ~Idle(q)
               PROVE  RunDisk(q)'
    BY <2>0 DEF RunDiskInv
  <2>1. target[q] \in Sessions /\ RunDisk(q)
    BY RunTarget DEF RunDiskInv
  <2>2. /\ store'[target[q]].dir = store[target[q]].dir
        /\ store'[target[q]].clone = store[target[q]].clone
        /\ ~Sealed(target[q]) => store'[target[q]].manifest # "sealed"
    BY <1>b, <1>d, <2>1 DEF Sealed
  <2>3. pc'[q] \in Unretained \cup {"save"} => pc'[q] = pc[q]
    BY <1>i DEF Unretained
  <2>4. pc[q] = "measure" \/ pc'[q] # "measure"
    BY <1>i
  <2>5. pc[q] # "save"  \/ pc'[q] = "save"
    BY <1>h, <1>i
  <2> QED BY <1>h, <1>l, <2>1, <2>2, <2>3, <2>4, <2>5 DEF RunDisk, Sealed, Unretained
<1>8. RestoreInv'
  BY <1>b, <1>d, <1>f, <1>h, <1>i DEF RestoreInv, Idle, Sealed, Newest
<1>9. TodoInv' /\ PreviewInv'
  BY DEF RemoveManifest, StoreTypeOK, TodoInv, RemovalsOK, CapturedOK, Superseded,
     PreviewInv
<1>10. OrderInv'
  <2>1. /\ ~Sealed(r.id)'
        /\ \A s \in Sessions : /\ ~Sealed(s) => ~Sealed(s)'
                               /\ store'[s].dir = store[s].dir
    BY <1>a, <1>b, <1>d DEF Sealed
  <2>2. \A q \in Procs : \A v \in mem[q].todo : v.id \in Sessions
    BY DEF StoreTypeOK
  <2>3. \A s \in Sessions : Recording(s)' => Recording(s)
    BY <1>k, RecordingKept DEF Idle
  <2> SUFFICES ASSUME NEW q \in Procs, NEW v \in mem[q].todo, First(q, v)
               PROVE  /\ pc'[q] \in {"rmClone", "rmDir"} /\ v.id \notin overtaken' =>
                           ~Sealed(v.id)' /\ ~Recording(v.id)'
                      /\ pc'[q] = "finalize" /\ v.hasSnapshot => ~store'[v.id].dir
    BY <1>h, <1>j DEF OrderInv
  <2>4. CASE q = p
    <3>1. v.id = r.id
      BY <1>g, <2>4
    <3>2. v.id \notin overtaken' => ~Sealed(v.id)' /\ ~Recording(v.id)'
      BY <1>a, <1>l, <2>1, <2>3, <3>1
    <3> QED BY <1>i, <2>4, <3>2
  <2>5. CASE q # p
    BY <1>i, <1>l, <2>1, <2>2, <2>3, <2>5 DEF OrderInv
  <2> QED BY <2>4, <2>5
<1>11. ConfirmInv'
  BY DEF RemoveManifest, StoreTypeOK, ConfirmInv, Planning, Applying, Removing
<1>12. NewestKept' /\ SealedMeansWhole' /\ UnretainedMeansGone'
  <2>1. NewestKept' /\ UnretainedMeansGone'
    BY ZenonT(40), <1>b, <1>d, <1>f, <1>h, <1>i DEF NewestKept, Newest, StoreTypeOK,
       Sealed, UnretainedMeansGone
  <2>2. SealedMeansWhole'
    BY <1>b, <1>d, <1>l DEF SealedMeansWhole, Sealed
  <2> QED BY <2>1, <2>2
<1> QED BY <1>1, <1>2, <1>3, <1>4, <1>5, <1>6, <1>7, <1>8, <1>9, <1>10, <1>11, <1>12

LEMMA RemoveCloneStep ==
  ASSUME StoreInv, NEW p \in Runners \cup Pruners, RemoveClone(p)
  PROVE  StoreInv'
<1> USE DEF StoreInv
<1>r. PICK r \in mem[p].todo : First(p, r) /\ store' = [store EXCEPT ![r.id].clone = FALSE]
  BY DEF RemoveClone
<1> DEFINE t == [store[r.id] EXCEPT !.clone = FALSE]
<1>a. r.id \in Sessions /\ store[r.id] \in Stores
  BY DEF StoreTypeOK
<1>b. /\ t \in Stores
      /\ t.dir = store[r.id].dir /\ t.manifest = store[r.id].manifest
  BY <1>a
<1>c. store' = [store EXCEPT ![r.id] = t]
  BY <1>r
<1> HIDE DEF t
<1>d. /\ store' \in [Sessions -> Stores]
      /\ store'[r.id] = t /\ \A s \in Sessions : s # r.id => store'[s] = store[s]
  BY <1>a, <1>b, <1>c, StoreStep
<1>e. p \in excl[r.id] /\ excl[r.id] = {p} /\ shared[r.id] = {}
  BY <1>r, <1>a DEF RemoveClone, RemovalLockInv, ExclusiveInv, Removing
<1>f. /\ ~Newest(r.id)
      /\ \A q \in Restorers : pc[q] = "restore" => target[q] \in Sessions \ {r.id}
      /\ \A q \in Procs : pc[q] \in Removing =>
           \A v \in mem[q].todo : First(q, v) /\ v.id = r.id => q = p
  BY <1>a, <1>e DEF TodoInv, RemovalsOK, Superseded, Newest, StoreTypeOK, RestoreLockInv,
     RemovalLockInv
<1>g. \A v \in mem[p].todo : First(p, v) => v.id = r.id
  BY <1>r DEF First, StoreTypeOK
<1>h. /\ pc[p] = "rmClone" /\ pc' = [pc EXCEPT ![p] = "rmDir"]
      /\ UNCHANGED <<record, saved, preview, excl, shared, target, mem, stamped, overtaken>>
  BY DEF RemoveClone
<1>i. /\ pc' \in [Procs -> StoreLabels] /\ pc'[p] = "rmDir"
      /\ \A q \in Procs : q # p => pc'[q] = pc[q]
  BY <1>h DEF StoreTypeOK
<1>j. \A q, v : First(q, v)' <=> First(q, v)
  BY <1>h DEF First
<1>1. StoreTypeOK'
  BY <1>d, <1>i DEF RemoveClone, StoreTypeOK
<1>2. ExclusiveInv' /\ RemovalLockInv' /\ RestoreLockInv'
  BY DEF RemoveClone, StoreTypeOK, ExclusiveInv, Removing, RemovalLockInv, First,
     RestoreLockInv
<1>3. RankInv' /\ RunnerInv'
  BY DEF RemoveClone, StoreTypeOK, RankInv, Superseded, RunnerInv
<1>4. SavedInv'
  BY <1>b, <1>d, <1>f, <1>h, <1>i DEF SavedInv
<1>5. EndedInv'
  BY DEF RemoveClone, StoreTypeOK, EndedInv, Idle
<1>6. RunMemoryInv'
  BY DEF RemoveClone, StoreTypeOK, RunMemoryInv, RunMemory, Unretained, Idle
<1>7. RunDiskInv'
  <2>1. r.id \notin overtaken => ~Recording(r.id)
    BY <1>r, <1>h DEF OrderInv
  <2>2. \A q \in Runners : ~Idle(q) => target[q] \in Sessions
    BY RunTarget
  <2> QED BY <1>b, <1>d, <1>h, <1>i, <2>1, <2>2 DEF RunDiskInv, RunDisk, Unretained, Idle,
     Sealed, Recording
<1>8. RestoreInv'
  BY <1>b, <1>d, <1>f, <1>h, <1>i DEF RestoreInv, Idle, Sealed, Newest
<1>9. TodoInv' /\ PreviewInv'
  BY DEF RemoveClone, StoreTypeOK, TodoInv, RemovalsOK, CapturedOK, Superseded,
     PreviewInv
<1>10. OrderInv'
  <2>1. \A s \in Sessions : (Sealed(s)' <=> Sealed(s)) /\ store'[s].dir = store[s].dir
    BY <1>a, <1>b, <1>d DEF Sealed
  <2>2. \A q \in Procs : \A v \in mem[q].todo : v.id \in Sessions
    BY DEF StoreTypeOK
  <2> QED BY <1>h, <1>i, <1>j, <2>1, <2>2 DEF OrderInv, Recording, Idle
<1>11. ConfirmInv'
  BY DEF RemoveClone, StoreTypeOK, ConfirmInv, Planning, Applying, Removing
<1>12. NewestKept'
  <2>1. \A s \in saved : (\A t1 \in saved : t1 <= s) => s \in Sessions \ {r.id}
    BY <1>f DEF Newest, StoreTypeOK
  <2> QED BY <1>d, <1>h, <2>1 DEF NewestKept
<1>13. SealedMeansWhole'
  BY <1>a, <1>r, <1>b, <1>d, <1>f, <1>h, <1>i DEF SealedMeansWhole, Sealed, Recording,
     Idle, OrderInv
<1>14. UnretainedMeansGone'
  BY <1>b, <1>d, <1>f, <1>h, <1>i DEF UnretainedMeansGone, Sealed
<1> QED BY <1>1, <1>2, <1>3, <1>4, <1>5, <1>6, <1>7, <1>8, <1>9, <1>10, <1>11, <1>12, <1>13,
   <1>14

LEMMA RemoveDirStep ==
  ASSUME StoreInv, NEW p \in Runners \cup Pruners, RemoveDir(p)
  PROVE  StoreInv'
<1> USE DEF StoreInv
<1>r. PICK r \in mem[p].todo :
        /\ First(p, r)
        /\ IF store[r.id].manifest = "none"
           THEN store' = [store EXCEPT ![r.id].dir = FALSE] /\ Goto(p, "finalize")
           ELSE UNCHANGED store /\ Goto(p, "failed")
  BY DEF RemoveDir
<1>a. r.id \in Sessions /\ store[r.id] \in Stores
  BY DEF StoreTypeOK
<1>b. PICK t \in Stores :
        /\ store' = [store EXCEPT ![r.id] = t]
        /\ t.manifest = store[r.id].manifest /\ t.clone = store[r.id].clone
        /\ \/ t.dir = store[r.id].dir /\ pc' = [pc EXCEPT ![p] = "failed"]
           \/ /\ ~t.dir /\ t.manifest = "none" /\ pc' = [pc EXCEPT ![p] = "finalize"]
  <2>1. CASE store[r.id].manifest = "none"
    <3> DEFINE t == [store[r.id] EXCEPT !.dir = FALSE]
    <3>1. store' = [store EXCEPT ![r.id] = t] /\ pc' = [pc EXCEPT ![p] = "finalize"]
      BY <1>r, <2>1
    <3>2. t \in Stores /\ t.manifest = "none" /\ t.clone = store[r.id].clone /\ ~t.dir
      BY <1>a, <2>1
    <3> QED BY <2>1, <3>1, <3>2
  <2>2. CASE store[r.id].manifest # "none"
    BY <1>r, <1>a, <2>2 DEF StoreTypeOK
  <2> QED BY <2>1, <2>2
<1>d. /\ store' \in [Sessions -> Stores]
      /\ store'[r.id] = t /\ \A s \in Sessions : s # r.id => store'[s] = store[s]
  BY <1>a, <1>b, StoreStep
<1>e. p \in excl[r.id] /\ excl[r.id] = {p} /\ shared[r.id] = {}
  BY <1>r, <1>a DEF RemoveDir, RemovalLockInv, ExclusiveInv, Removing
<1>f. /\ ~Newest(r.id)
      /\ \A q \in Restorers : pc[q] = "restore" => target[q] \in Sessions \ {r.id}
  BY <1>a, <1>e DEF TodoInv, RemovalsOK, Superseded, Newest, StoreTypeOK, RestoreLockInv
<1>g. \A v \in mem[p].todo : First(p, v) => v.id = r.id
  BY <1>r DEF First, StoreTypeOK
<1>h. /\ pc[p] = "rmDir"
      /\ UNCHANGED <<record, saved, preview, excl, shared, target, mem, stamped, overtaken>>
  BY DEF RemoveDir
<1>i. /\ pc' \in [Procs -> StoreLabels]
      /\ \/ pc'[p] = "failed" /\ t.dir = store[r.id].dir
         \/ pc'[p] = "finalize" /\ ~t.dir /\ t.manifest = "none"
      /\ \A q \in Procs : q # p => pc'[q] = pc[q]
  BY <1>b DEF StoreTypeOK
<1>j. \A q \in Runners : pc'[q] \in {"save", "capture"} =>
        pc[q] \in {"save", "capture"} /\ target'[q] = target[q]
  BY <1>h, <1>i
<1>k. \A q \in Runners : ~Idle(q) => target[q] \in Sessions
  BY RunTarget
<1>1. StoreTypeOK'
  BY <1>d, <1>h, <1>i DEF RemoveDir, StoreTypeOK
<1>2. ExclusiveInv' /\ RemovalLockInv' /\ RestoreLockInv'
  BY <1>b, <1>d, <1>f, <1>h, <1>i DEF ExclusiveInv, Removing, RemovalLockInv, First,
     RestoreLockInv
<1>3. RankInv' /\ RunnerInv'
  BY <1>b, <1>d, <1>f, <1>h, <1>i DEF RankInv, Superseded, RunnerInv
<1>4. SavedInv'
  BY <1>b, <1>d, <1>f, <1>h, <1>i DEF SavedInv
<1>5. EndedInv'
  BY <1>b, <1>d, <1>f, <1>h, <1>i DEF EndedInv, Idle
<1>6. RunMemoryInv'
  BY <1>b, <1>d, <1>f, <1>h, <1>i DEF RunMemoryInv, RunMemory, Unretained, Idle
<1>7. RunDiskInv'
  <2>1. r.id \notin overtaken => ~Recording(r.id)
    BY <1>r, <1>h DEF OrderInv
  <2> QED BY <1>b, <1>d, <1>h, <1>i, <1>k, <2>1 DEF RunDiskInv, RunDisk, Unretained, Idle,
     Sealed, Recording
<1>8. RestoreInv'
  BY <1>b, <1>d, <1>f, <1>h, <1>i DEF RestoreInv, Idle, Sealed, Newest
<1>9. TodoInv' /\ PreviewInv'
  BY <1>h, <1>j, RemovalsKept DEF TodoInv, PreviewInv
<1>10. OrderInv'
  <2>1. \A s : Recording(s)' => Recording(s)
    BY <1>h, <1>i, RecordingKept DEF Idle
  <2>2. \A q, v : First(q, v)' <=> First(q, v)
    BY <1>h DEF First
  <2>3. /\ \A s \in Sessions : Sealed(s)' <=> Sealed(s)
        /\ \A s \in Sessions : ~store[s].dir => ~store'[s].dir
        /\ pc'[p] = "finalize" => ~store'[r.id].dir
    BY <1>a, <1>b, <1>d, <1>i DEF Sealed
  <2>4. \A q \in Procs : \A v \in mem[q].todo : v.id \in Sessions
    BY DEF StoreTypeOK
  <2> QED BY <1>g, <1>h, <1>i, <2>1, <2>2, <2>3, <2>4 DEF OrderInv
<1>11. ConfirmInv'
  BY SMTT(30), <1>b, <1>d, <1>f, <1>h, <1>i DEF ConfirmInv, Planning, Applying, Removing
<1>12. NewestKept'
  BY <1>b, <1>d, <1>f, <1>h DEF NewestKept, Newest
<1>13. SealedMeansWhole' /\ UnretainedMeansGone'
  BY <1>b, <1>d, <1>f, <1>h, <1>i DEF SealedMeansWhole, Sealed, UnretainedMeansGone
<1> QED BY <1>1, <1>2, <1>3, <1>4, <1>5, <1>6, <1>7, <1>8, <1>9, <1>10, <1>11, <1>12, <1>13

LEMMA FinalizeStep ==
  ASSUME StoreInv, NEW p \in Runners \cup Pruners, Finalize(p)
  PROVE  StoreInv'
<1> USE DEF StoreInv
<1>r. PICK r \in mem[p].todo :
        /\ First(p, r) /\ Finalized(r) /\ Release({r.id}, p)
        /\ mem' = [mem EXCEPT ![p].todo = @ \ {r}]
  BY DEF Finalize
<1>a. r \in Removals /\ r.id \in Sessions /\ mem[p] \in Memories /\ record[r.id] \in Records
  BY DEF StoreTypeOK
<1> DEFINE m == [mem[p] EXCEPT !.todo = @ \ {r}]
<1>b. mem' = [mem EXCEPT ![p] = m]
  BY <1>r
<1>d. /\ m \in Memories /\ m.todo = mem[p].todo \ {r} /\ m.ids = mem[p].ids
      /\ m.token = mem[p].token /\ m.loaded = mem[p].loaded /\ m.over = mem[p].over
  BY <1>a
<1> HIDE DEF m
<1>e. /\ mem' \in [Procs -> Memories]
      /\ mem'[p] = m /\ \A q \in Procs : q # p => mem'[q] = mem[q]
  BY <1>b, <1>d, MemoryStep
<1>f. /\ pc[p] = "finalize" /\ pc' = [pc EXCEPT ![p] = "next"]
      /\ UNCHANGED <<store, preview, target, stamped, overtaken>>
  BY DEF Finalize
<1>g. /\ pc' \in [Procs -> StoreLabels] /\ pc'[p] = "next"
      /\ \A q \in Procs : q # p => pc'[q] = pc[q]
  BY <1>f DEF StoreTypeOK
<1>h. p \in excl[r.id] /\ excl[r.id] = {p} /\ shared[r.id] = {}
  BY <1>r, <1>a, <1>f DEF RemovalLockInv, ExclusiveInv, Removing
<1>i. /\ excl' \in [Locks -> SUBSET Procs] /\ UNCHANGED shared
      /\ excl'[r.id] = {} /\ \A l \in Locks : l # r.id => excl'[l] = excl[l]
  BY <1>r, <1>a, <1>h DEF Release, StoreTypeOK
<1>j. PICK c \in Records :
        /\ record' = [record EXCEPT ![r.id] = c] /\ UNCHANGED saved
        /\ \/ r.expired /\ c = NoRecord
           \/ ~r.expired /\ c.exists /\ ~c.retained /\ c.ended = record[r.id].ended
                         /\ record[r.id].exists
           \/ c = record[r.id]
  <2>1. CASE r.expired
    BY <1>r, <2>1 DEF Finalized, DeleteLocked, NoRecord
  <2>2. CASE ~r.expired /\ record[r.id].exists
    <3> DEFINE c == [record[r.id] EXCEPT !.retained = FALSE]
    <3>1. record' = [record EXCEPT ![r.id] = c] /\ saved' = saved \cup {r.id}
      BY <1>r, <2>2 DEF Finalized, SaveLocked
    <3>2. c \in Records /\ c.exists /\ ~c.retained /\ c.ended = record[r.id].ended
      BY <1>a, <2>2
    <3>3. r.id \in saved
      BY <1>a, <2>2 DEF SavedInv
    <3> QED BY <2>2, <3>1, <3>2, <3>3
  <2>3. CASE ~r.expired /\ ~record[r.id].exists
    BY <1>r, <1>a, <2>3 DEF Finalized, StoreTypeOK
  <2> QED BY <2>1, <2>2, <2>3
<1>k. /\ record' \in [Sessions -> Records] /\ record'[r.id] = c
      /\ \A s \in Sessions : s # r.id => record'[s] = record[s]
  BY <1>a, <1>j DEF StoreTypeOK
<1>l. /\ \A s \in saved : (\A t \in saved : t <= s) => s \in Sessions \ {r.id}
      /\ \A q \in Restorers : pc[q] = "restore" => target[q] \in Sessions \ {r.id}
  BY <1>a, <1>h DEF TodoInv, RemovalsOK, Superseded, StoreTypeOK, RestoreLockInv
<1>m. \A q \in Runners : pc'[q] \in {"save", "capture"} =>
        pc[q] \in {"save", "capture"} /\ target'[q] = target[q]
  BY <1>f, <1>g
<1>1. StoreTypeOK'
  BY <1>e, <1>g, <1>i, <1>j, <1>k DEF Finalize, StoreTypeOK
<1>2. ExclusiveInv'
  BY <1>a, <1>h, <1>g, <1>i DEF ExclusiveInv, Removing
<1>3. RemovalLockInv'
  <2>1. \A q \in Procs : q # p => \A v : First(q, v)' <=> First(q, v)
    BY <1>e DEF First
  <2>2. \A q \in Procs : q # p => \A v \in mem[q].todo : q \in excl[v.id] =>
          v.id \in Locks /\ q \in excl'[v.id]
    <3>1. \A q \in Procs : \A v \in mem[q].todo : v.id \in Locks
      BY DEF StoreTypeOK
    <3> QED BY <1>h, <1>i, <3>1
  <2> QED BY <1>e, <1>g, <2>1, <2>2 DEF RemovalLockInv, Removing
<1>4. RestoreLockInv'
  BY <1>f, <1>g, <1>i DEF RestoreLockInv
<1>5. RankInv'
  BY <1>f, <1>j DEF RankInv, Superseded
<1>6. RunnerInv'
  BY <1>d, <1>e, <1>f, <1>g, <1>i, <1>j DEF RunnerInv
<1>7. SavedInv'
  BY SMTT(30), <1>d, <1>e, <1>f, <1>j, <1>k DEF SavedInv, NoRecord
<1>8. EndedInv'
  BY <1>f, <1>g, <1>j, <1>k DEF EndedInv, Idle, NoRecord
<1>9. RunMemoryInv'
  BY <1>d, <1>e, <1>f, <1>g, <1>i, <1>j DEF RunMemoryInv, RunMemory, Unretained, Idle
<1>10. RunDiskInv'
  <2>1. \A s \in Sessions : ~record[s].retained => ~record'[s].retained
    BY <1>j, <1>k DEF NoRecord
  <2>2. \A q \in Runners : ~Idle(q) => target[q] \in Sessions
    BY RunTarget
  <2> QED BY <1>d, <1>e, <1>f, <1>g, <1>j, <2>1, <2>2
    DEF RunDiskInv, RunDisk, Unretained, Idle, Sealed
<1>11. RestoreInv'
  BY <1>e, <1>f, <1>g, <1>j, <1>k, <1>l DEF RestoreInv, Idle, Sealed, Newest
<1>12. TodoInv'
  <2>1. \A q \in Procs : RemovalsOK(mem'[q].todo) /\ CapturedOK(mem'[q].todo)
    BY <1>d, <1>e DEF TodoInv, RemovalsOK, CapturedOK
  <2> QED BY <1>j, <1>m, <2>1, RemovalsKept DEF TodoInv
<1>13. PreviewInv'
  BY <1>f, <1>j, <1>m, RemovalsKept DEF PreviewInv
<1>14. OrderInv'
  <2>1. \A q \in Procs : q # p => \A v : First(q, v)' <=> First(q, v)
    BY <1>e DEF First
  <2> QED BY <1>e, <1>f, <1>g, <2>1 DEF OrderInv, Sealed, Recording, Idle
<1>15. ConfirmInv'
  BY <1>a, <1>d, <1>e, <1>f, <1>g, <1>i DEF ConfirmInv, Planning, Applying, Removing
<1>16. NewestKept'
  BY <1>f, <1>j, <1>k, <1>l DEF NewestKept
<1>17. SealedMeansWhole'
  BY <1>d, <1>e, <1>f, <1>g, <1>i, <1>j DEF SealedMeansWhole, Sealed
<1>18. UnretainedMeansGone'
  <2>1. c.ended /\ ~c.retained => ~Sealed(r.id)
    <3>1. CASE r.expired /\ c = NoRecord
      BY <3>1 DEF NoRecord
    <3>2. CASE ~r.expired
      BY <1>r, <1>a, <1>f, <3>2 DEF TodoInv, RemovalsOK, OrderInv, SavedInv, Sealed
    <3>3. CASE c = record[r.id]
      BY <1>a, <3>3 DEF UnretainedMeansGone
    <3> QED BY <1>j, <3>1, <3>2, <3>3
  <2> QED BY <1>f, <1>k, <2>1 DEF UnretainedMeansGone, Sealed
<1> QED BY <1>1, <1>2, <1>3, <1>4, <1>5, <1>6, <1>7, <1>8, <1>9, <1>10, <1>11, <1>12, <1>13,
   <1>14, <1>15, <1>16, <1>17, <1>18

LEMMA EndApplyStep ==
  ASSUME StoreInv, NEW p \in Runners \cup Pruners, EndApply(p)
  PROVE  StoreInv'
<1> USE DEF StoreInv
<1>a. mem[p] \in Memories
  BY DEF StoreTypeOK
<1> DEFINE m == [mem[p] EXCEPT !.todo = {}, !.ids = {}, !.retained = {}]
<1>b. mem' = [mem EXCEPT ![p] = m]
  BY DEF EndApply
<1>d. /\ m \in Memories /\ m.todo = {} /\ m.ids = {} /\ m.token = mem[p].token
      /\ m.loaded = mem[p].loaded /\ m.over = mem[p].over
  BY <1>a
<1> HIDE DEF m
<1>e. /\ mem' \in [Procs -> Memories]
      /\ mem'[p] = m /\ \A q \in Procs : q # p => mem'[q] = mem[q]
  BY <1>b, <1>d, MemoryStep
<1>f. /\ pc[p] \in {"next", "failed"}
      /\ UNCHANGED <<record, saved, store, preview, target, stamped, overtaken>>
  BY DEF EndApply
<1>g. /\ pc' \in [Procs -> StoreLabels] /\ pc'[p] \in {"applied", "refused"}
      /\ \A q \in Procs : q # p => pc'[q] = pc[q]
  BY DEF EndApply, StoreTypeOK
<1>i. /\ excl' \in [Locks -> SUBSET Procs] /\ shared' \in [Locks -> SUBSET Procs]
      /\ \A l \in Locks : excl'[l] = excl[l] \ {p} /\ shared'[l] = shared[l] \ {p}
  BY DEF EndApply, Release, StoreTypeOK
<1>j. \A q \in Procs : q # p => \A v : First(q, v)' <=> First(q, v)
  BY <1>e DEF First
<1>m. \A q \in Runners : pc'[q] \in {"save", "capture"} =>
        pc[q] \in {"save", "capture"} /\ target'[q] = target[q]
  BY <1>f, <1>g
<1>1. StoreTypeOK'
  BY <1>e, <1>g, <1>i DEF EndApply, StoreTypeOK
<1>2. ExclusiveInv' /\ RestoreLockInv'
  BY <1>d, <1>e, <1>f, <1>g, <1>i DEF ExclusiveInv, Removing, RestoreLockInv
<1>3. RemovalLockInv'
  <2>1. \A q \in Procs : \A v \in mem[q].todo : v.id \in Locks
    BY DEF StoreTypeOK
  <2> QED BY <1>e, <1>g, <1>i, <1>j, <2>1 DEF RemovalLockInv, Removing
<1>4. RankInv' /\ RunnerInv'
  BY ZenonT(40), <1>d, <1>e, <1>f, <1>g, <1>i DEF RankInv, Superseded, RunnerInv
<1>5. SavedInv'
  BY <1>d, <1>e, <1>f, <1>g, <1>i DEF SavedInv
<1>6. EndedInv'
  BY <1>d, <1>e, <1>f, <1>g, <1>i DEF EndedInv, Idle
<1>7. RunMemoryInv'
  BY <1>d, <1>e, <1>f, <1>g, <1>i DEF RunMemoryInv, RunMemory, Unretained, Idle
<1>8. RunDiskInv'
  BY <1>d, <1>e, <1>f, <1>g, <1>i DEF RunDiskInv, RunDisk, Unretained, Idle, Sealed,
     Newest
<1>9. RestoreInv'
  BY <1>d, <1>e, <1>f, <1>g, <1>i DEF RestoreInv, Idle, Sealed, Newest
<1>10. TodoInv'
  <2>1. \A q \in Procs : RemovalsOK(mem'[q].todo) /\ CapturedOK(mem'[q].todo)
    BY <1>d, <1>e DEF TodoInv, RemovalsOK, CapturedOK
  <2> QED BY <1>f, <1>m, <2>1, RemovalsKept DEF TodoInv
<1>11. PreviewInv'
  BY <1>f, <1>m, RemovalsKept DEF PreviewInv
<1>12. OrderInv'
  BY <1>e, <1>f, <1>g, <1>j DEF OrderInv, Sealed, Recording, Idle
<1>13. ConfirmInv'
  BY <1>d, <1>e, <1>f, <1>g, <1>i DEF ConfirmInv, Planning, Applying, Removing
<1>14. NewestKept' /\ SealedMeansWhole' /\ UnretainedMeansGone'
  BY <1>d, <1>e, <1>f, <1>g, <1>i DEF NewestKept, SealedMeansWhole, Sealed,
     UnretainedMeansGone
<1> QED BY <1>1, <1>2, <1>3, <1>4, <1>5, <1>6, <1>7, <1>8, <1>9, <1>10, <1>11, <1>12, <1>13,
   <1>14

LEMMA FailRemovalStep ==
  ASSUME StoreInv, NEW p \in Runners \cup Pruners, FailRemoval(p)
  PROVE  StoreInv'
<1> USE DEF StoreInv
<1>1. StoreTypeOK'
  BY DEF FailRemoval, StoreTypeOK, Fault
<1>2. ExclusiveInv' /\ RemovalLockInv' /\ RestoreLockInv'
  BY DEF FailRemoval, StoreTypeOK, ExclusiveInv, Removing, Fault, RemovalLockInv, First,
     RestoreLockInv
<1>3. RankInv' /\ RunnerInv'
  BY DEF FailRemoval, StoreTypeOK, RankInv, Superseded, Fault, RunnerInv
<1>4. SavedInv'
  BY DEF FailRemoval, StoreTypeOK, SavedInv, Fault
<1>5. EndedInv'
  BY DEF FailRemoval, StoreTypeOK, EndedInv, Idle, Fault
<1>6. RunMemoryInv'
  BY DEF FailRemoval, StoreTypeOK, RunMemoryInv, RunMemory, Unretained, Idle, Fault
<1>7. RunDiskInv'
  BY DEF FailRemoval, StoreTypeOK, RunDiskInv, RunDisk, Unretained, Idle, Sealed,
     Newest, Fault
<1>8. RestoreInv'
  BY DEF FailRemoval, StoreTypeOK, RestoreInv, Idle, Sealed, Newest, Fault
<1>9. TodoInv' /\ PreviewInv'
  BY DEF FailRemoval, StoreTypeOK, TodoInv, RemovalsOK, CapturedOK, Superseded, Fault,
     PreviewInv
<1>10. OrderInv'
  BY DEF FailRemoval, StoreTypeOK, OrderInv, First, Sealed, Recording, Idle, Fault
<1>11. ConfirmInv'
  BY DEF FailRemoval, StoreTypeOK, ConfirmInv, Planning, Applying, Removing, Fault
<1>12. NewestKept' /\ SealedMeansWhole' /\ UnretainedMeansGone'
  BY DEF FailRemoval, StoreTypeOK, NewestKept, Fault, SealedMeansWhole, Sealed,
     UnretainedMeansGone
<1> QED BY <1>1, <1>2, <1>3, <1>4, <1>5, <1>6, <1>7, <1>8, <1>9, <1>10, <1>11, <1>12

(***************************************************************************)
(* unring run.                                                             *)
(***************************************************************************)
LEMMA BeginStep ==
  ASSUME StoreInv, NEW p \in Runners, Begin(p)
  PROVE  StoreInv'
<1> USE DEF StoreInv
<1>a. PICK k \in 0..MaxSessions : stamped = 1..k
  BY DEF RankInv, Superseded
<1> DEFINE id == Cardinality(stamped) + 1
<1>b. id = k + 1 /\ id \in Sessions \ stamped /\ stamped' = 1..id
  <2>1. Cardinality(stamped) = k
    BY <1>a, FS_Interval
  <2> QED BY <1>a, <2>1 DEF Begin
<1>c. PICK c \in Caps : mem' = [mem EXCEPT ![p].limit = c, ![p].loaded.exists = TRUE]
  BY DEF Begin
<1>d. target' = [target EXCEPT ![p] = id] /\ stamped' = stamped \cup {id}
  BY DEF Begin
<1> HIDE DEF id
<1>f. /\ pc[p] = "start" /\ pc' = [pc EXCEPT ![p] = "save"] /\ cap' \in Caps
      /\ UNCHANGED <<record, saved, store, preview, excl, shared, cutoff, overtaken, faults>>
  BY DEF Begin
<1> DEFINE loaded == [mem[p].loaded EXCEPT !.exists = TRUE]
           m == [mem[p] EXCEPT !.limit = c, !.loaded = loaded]
<1>g. mem[p] \in Memories /\ mem[p].loaded = NoRecord /\ ~mem[p].over
  BY <1>f DEF StoreTypeOK, RunMemoryInv, RunMemory, Unretained
<1>h. mem' = [mem EXCEPT ![p] = m]
  BY <1>c, <1>g
<1>i. loaded \in Records /\ loaded.exists /\ ~loaded.retained /\ ~loaded.ended
  <2>1. mem[p].loaded \in Records
    BY <1>g
  <2>2. ~mem[p].loaded.retained /\ ~mem[p].loaded.ended
    BY <1>g DEF NoRecord
  <2> QED BY <2>1, <2>2
<1> HIDE DEF loaded
<1>j. /\ m \in Memories /\ m.todo = mem[p].todo /\ m.ids = mem[p].ids
      /\ m.token = mem[p].token /\ m.loaded = loaded /\ ~m.over
  BY <1>g, <1>i
<1> HIDE DEF m
<1>k. /\ mem' \in [Procs -> Memories]
      /\ mem'[p] = m /\ \A q \in Procs : q # p => mem'[q] = mem[q]
  BY <1>h, <1>j, MemoryStep
<1>l. /\ pc' \in [Procs -> StoreLabels] /\ pc'[p] = "save"
      /\ \A q \in Procs : q # p => pc'[q] = pc[q]
      /\ target' \in [Procs -> Sessions \cup {0}] /\ target'[p] = id
      /\ \A q \in Procs : q # p => target'[q] = target[q]
  BY <1>b, <1>d, <1>f DEF StoreTypeOK
<1>m. /\ id \notin saved /\ ~store[id].dir /\ ~Sealed(id)
      /\ ~record[id].ended /\ ~record[id].retained
      /\ saved \subseteq Sessions
  BY <1>b DEF RankInv, Superseded, SavedInv, Sealed, StoreTypeOK
<1>n. \A s \in Sessions : Superseded(s) => s # id
  BY <1>a, <1>b, <1>m DEF Superseded, RankInv
<1>o. \A q \in Procs : mem'[q].todo = mem[q].todo /\ \A v : First(q, v)' <=> First(q, v)
  BY <1>j, <1>k DEF First
<1>1. StoreTypeOK'
  <2>1. stamped' \subseteq Sessions
    BY <1>b, <1>d DEF StoreTypeOK
  <2> QED BY <1>f, <1>k, <1>l, <2>1 DEF StoreTypeOK
<1>2. ExclusiveInv' /\ RestoreLockInv'
  BY <1>j, <1>k, <1>f, <1>l, <1>m DEF ExclusiveInv, Removing, RestoreLockInv
<1>3. RemovalLockInv'
  BY <1>f, <1>l, <1>o DEF RemovalLockInv, Removing
<1>4. RankInv'
  <2>1. \E n \in 0..MaxSessions : stamped' = 1..n
    BY <1>a, <1>b
  <2> QED BY <1>d, <1>f, <2>1 DEF RankInv, Superseded
<1>5. RunnerInv'
  <2>1. \A q \in Runners : q # p => target[q] # id
    BY <1>b DEF RunnerInv, RankInv, Superseded
  <2> QED BY <1>d, <1>l, <2>1 DEF RunnerInv
<1>6. SavedInv'
  BY <1>j, <1>k, <1>f, <1>l, <1>m DEF SavedInv
<1>7. EndedInv'
  BY <1>f, <1>l, <1>m DEF EndedInv, Idle
<1>8. RunMemoryInv'
  BY <1>i, <1>j, <1>k, <1>l DEF RunMemoryInv, RunMemory, Unretained, Idle
<1>9. RunDiskInv'
  BY <1>i, <1>j, <1>k, <1>l, <1>m, <1>f DEF RunDiskInv, RunDisk, Unretained, Idle,
     Sealed, Newest
<1>10. RestoreInv'
  <2>1. \A q \in Restorers : pc[q] = "restore" => target[q] # id
    BY <1>m DEF RestoreInv, SavedInv, RestoreLockInv
  <2> QED BY <1>f, <1>k, <1>l, <2>1 DEF RestoreInv, Idle, Sealed, Newest
<1>11. TodoInv'
  <2> SUFFICES ASSUME NEW q \in Procs
               PROVE  RemovalsOK(mem[q].todo)' /\ CapturedOK(mem[q].todo)'
    BY DEF TodoInv
  <2>1. \A r \in mem[q].todo : r.id \in Sessions \ {id}
    BY <1>n DEF StoreTypeOK, TodoInv, RemovalsOK
  <2> QED BY <1>f, <1>l, <1>o, <2>1 DEF TodoInv, RemovalsOK, CapturedOK, Superseded
<1>12. PreviewInv'
  <2> SUFFICES ASSUME NEW q \in Pruners
               PROVE  RemovalsOK(preview[q].removals)' /\ CapturedOK(preview[q].removals)'
    BY DEF PreviewInv
  <2>1. \A r \in preview[q].removals : r.id \in Sessions \ {id}
    BY <1>n DEF StoreTypeOK, PreviewInv, RemovalsOK
  <2> QED BY <1>f, <1>l, <2>1 DEF PreviewInv, RemovalsOK, CapturedOK, Superseded
<1>13. OrderInv'
  <2>1. \A s \in Sessions \ {id} : Recording(s)' => Recording(s)
    BY <1>l DEF Recording, Idle
  <2>2. \A q \in Procs : \A v \in mem[q].todo : v.id \in Sessions \ {id}
    BY <1>n DEF StoreTypeOK, TodoInv, RemovalsOK
  <2> QED BY <1>f, <1>l, <1>o, <2>1, <2>2 DEF OrderInv, Sealed
<1>14. ConfirmInv'
  BY <1>j, <1>k, <1>f, <1>l, <1>m DEF ConfirmInv, Planning, Applying, Removing
<1>15. NewestKept' /\ UnretainedMeansGone'
  BY <1>j, <1>k, <1>f, <1>l, <1>m DEF NewestKept, UnretainedMeansGone, Sealed
<1>16. SealedMeansWhole'
  BY <1>f DEF SealedMeansWhole, Sealed
<1> QED BY <1>1, <1>2, <1>3, <1>4, <1>5, <1>6, <1>7, <1>8, <1>9, <1>10, <1>11, <1>12, <1>13,
   <1>14, <1>15, <1>16

\* A run writes its record, at any of three places.
LEMMA UpdateStep ==
  ASSUME StoreInv, NEW p \in Runners, NEW next \in {"capture", "list", "child", "final"},
         Update(p, next), pc[p] \in {"save", "note", "applied", "refused"},
         pc[p] = "save" <=> next = "capture"
  PROVE  StoreInv'
<1> USE DEF StoreInv
<1> DEFINE s == target[p]
           c == mem[p].loaded
<1>a. s \in Sessions /\ s \in stamped /\ mem[p].loaded \in Records
  BY RunTarget DEF Update, Save, Idle, StoreTypeOK
<1>b. /\ pc' = [pc EXCEPT ![p] = next] /\ excl[s] = {} /\ shared[s] = {}
      /\ record' = [record EXCEPT ![s] = c] /\ saved' = saved \cup {s}
      /\ UNCHANGED <<store, preview, excl, shared, target, stamped, overtaken, mem>>
  BY DEF Update, Save, CanExclude
<1>c. /\ c \in Records /\ c.exists /\ c.retained = mem[p].loaded.retained
      /\ ~c.ended /\ ~mem[p].loaded.ended
      /\ pc[p] = "save" => ~c.retained
      /\ pc[p] # "save" => s \in saved
      /\ ~c.retained => ~Sealed(s)
      /\ c.retained /\ Newest(s) => store[s].dir /\ store[s].clone
  <2>1. Newest(s) => s \notin overtaken
    BY SMTT(30) DEF RankInv, Superseded, Newest, StoreTypeOK
  <2> QED BY <1>a, <1>b, <2>1
    DEF RunMemoryInv, RunMemory, Unretained, RunDiskInv, RunDisk, Idle
<1> HIDE DEF c
<1>d. /\ record' \in [Sessions -> Records] /\ record'[s] = c
      /\ \A u \in Sessions : u # s => record'[u] = record[u]
  BY <1>a, <1>b, <1>c DEF StoreTypeOK
<1>e. /\ pc' \in [Procs -> StoreLabels] /\ pc'[p] = next
      /\ \A q \in Procs : q # p => pc'[q] = pc[q]
  BY <1>b DEF StoreTypeOK
<1>1. StoreTypeOK'
  <2>1. UNCHANGED <<cap, cutoff, faults>>
    BY DEF Update
  <2> QED BY <1>a, <1>b, <1>d, <1>e, <2>1 DEF StoreTypeOK
<1>2. ExclusiveInv' /\ RemovalLockInv' /\ RestoreLockInv'
  BY DEF Update, StoreTypeOK, ExclusiveInv, Removing, Save, CanExclude, RemovalLockInv,
     First, RestoreLockInv
<1>3. RankInv'
  BY <1>a, <1>b DEF RankInv, Superseded
<1>4. RunnerInv'
  BY DEF Update, StoreTypeOK, RunnerInv, Save, CanExclude
<1>5. SavedInv'
  BY DEF Update, StoreTypeOK, SavedInv, Save, CanExclude
<1>6. EndedInv'
  BY DEF Update, StoreTypeOK, RankInv, Superseded, RunnerInv, SavedInv, EndedInv,
     RunMemoryInv, RunMemory, Unretained, Idle, Save, CanExclude
<1>7. RunMemoryInv'
  BY DEF Update, StoreTypeOK, RunMemoryInv, RunMemory, Unretained, Idle, Save,
     CanExclude
<1>8. RunDiskInv'
  BY DEF Update, StoreTypeOK, RankInv, Superseded, RunnerInv, SavedInv, RunMemoryInv,
     RunMemory, RunDiskInv, RunDisk, Unretained, Idle, Sealed, Newest, Save, CanExclude
<1>9. RestoreInv'
  BY DEF Update, StoreTypeOK, RestoreLockInv, RestoreInv, Idle, Sealed, Newest, Save,
     CanExclude
<1>10. TodoInv' /\ PreviewInv'
  BY DEF Update, StoreTypeOK, TodoInv, RemovalsOK, CapturedOK, Superseded, Save,
     CanExclude, PreviewInv
<1>11. OrderInv'
  BY DEF Update, StoreTypeOK, OrderInv, First, Sealed, Recording, Idle, Save,
     CanExclude
<1>12. ConfirmInv'
  BY DEF Update, StoreTypeOK, ConfirmInv, Planning, Applying, Removing, Save, CanExclude
<1>13. NewestKept'
  <2> SUFFICES ASSUME NEW u \in saved', \A t \in saved' : t <= u
               PROVE  record'[u].exists /\ (record'[u].retained => store[u].dir /\ store[u].clone)
    BY <1>b DEF NewestKept
  <2>1. u \in Sessions
    BY <1>a, <1>b DEF StoreTypeOK
  <2>2. CASE u = s
    BY <1>b, <1>c, <1>d, <2>2 DEF Newest
  <2>3. CASE u # s
    BY <1>b, <1>d, <2>1, <2>3 DEF NewestKept
  <2> QED BY <2>2, <2>3
<1>14. SealedMeansWhole'
  BY DEF Update, StoreTypeOK, SealedMeansWhole, Sealed, Save, CanExclude
<1>15. UnretainedMeansGone'
  BY <1>a, <1>b, <1>c, <1>d DEF UnretainedMeansGone, Sealed, SavedInv
<1> QED BY <1>1, <1>2, <1>3, <1>4, <1>5, <1>6, <1>7, <1>8, <1>9, <1>10, <1>11, <1>12, <1>13,
   <1>14, <1>15

LEMMA SavePendingStep ==
  ASSUME StoreInv, NEW p \in Runners, SavePending(p)
  PROVE  StoreInv'
BY UpdateStep DEF SavePending

\* A run writes its own store, before it is sealed: it publishes it, notes its
\* size in it, or removes what it published.
LEMMA OwnStoreStep ==
  ASSUME StoreInv, NEW p \in Runners, NEW next \in {"measure", "note", "final"},
         NEW t \in Stores, NEW m \in Memories,
         pc[p] \in {"capture", "measure"}, pc' = [pc EXCEPT ![p] = next],
         store' = [store EXCEPT ![target[p]] = t], mem' = [mem EXCEPT ![p] = m],
         t.manifest # "sealed", t.dir \/ t.manifest = "none",
         pc[p] = "measure" /\ t.dir => store[target[p]].dir,
         next # "final" /\ target[p] \notin overtaken => t.dir /\ t.clone,
         m.todo = mem[p].todo, m.ids = mem[p].ids, m.token = mem[p].token, m.over = mem[p].over,
         m.loaded.exists = mem[p].loaded.exists, m.loaded.ended = mem[p].loaded.ended,
         m.loaded.retained <=> next = "note",
         UNCHANGED <<record, saved, cap, preview, excl, shared, target, cutoff, stamped,
                     overtaken>>,
         faults' \in Nat
  PROVE  StoreInv'
<1> USE DEF StoreInv
<1> DEFINE s == target[p]
<1>a. s \in Sessions /\ s \in stamped
  BY RunTarget DEF Idle
<1>b. /\ ~mem[p].loaded.retained /\ ~mem[p].loaded.ended /\ mem[p].loaded.exists
      /\ ~Sealed(s) /\ ~record[s].retained /\ ~record[s].ended /\ s \in saved
      /\ pc[p] = "capture" => ~store[s].dir
  BY <1>a DEF RunMemoryInv, RunMemory, RunDiskInv, RunDisk, Unretained, Idle, EndedInv
<1>d. /\ store' \in [Sessions -> Stores]
      /\ store'[s] = t /\ \A u \in Sessions : u # s => store'[u] = store[u]
  BY <1>a, StoreStep
<1>i. /\ mem' \in [Procs -> Memories]
      /\ mem'[p] = m /\ \A q \in Procs : q # p => mem'[q] = mem[q]
  BY MemoryStep
<1>k. /\ pc' \in [Procs -> StoreLabels] /\ pc'[p] = next
      /\ \A q \in Procs : q # p => pc'[q] = pc[q]
  BY DEF StoreTypeOK
<1>l. /\ \A q \in Runners : q # p /\ ~Idle(q) => target[q] \in Sessions \ {s}
      /\ \A q \in Procs : Idle(q)' <=> Idle(q)
  BY <1>a, <1>k, RunTarget DEF RunnerInv, Idle
<1>m. \A q \in Procs : mem'[q].todo = mem[q].todo /\ \A v : First(q, v)' <=> First(q, v)
  BY <1>i DEF First
<1>n. \A q \in Runners : pc'[q] \in {"save", "capture"} =>
        pc[q] \in {"save", "capture"} /\ target'[q] = target[q]
  BY <1>k
<1> HIDE DEF s
<1>1. StoreTypeOK'
  BY <1>d, <1>i, <1>k DEF StoreTypeOK
<1>2. ExclusiveInv' /\ RestoreLockInv'
  BY <1>k DEF ExclusiveInv, Removing, RestoreLockInv
<1>3. RemovalLockInv'
  BY <1>k, <1>m DEF RemovalLockInv, Removing
<1>4. RankInv' /\ RunnerInv'
  <2>1. RankInv'
    BY DEF RankInv, Superseded
  <2>2. RunnerInv'
    BY <1>k DEF RunnerInv
  <2> QED BY <2>1, <2>2
<1>5. SavedInv'
  BY <1>b, <1>d, <1>i DEF SavedInv
<1>6. EndedInv'
  BY <1>l DEF EndedInv
<1>7. RunMemoryInv'
  <2>1. RunMemory(p)'
    BY <1>b, <1>i, <1>k DEF RunMemory, Unretained, Idle
  <2>2. ASSUME NEW q \in Runners, q # p
        PROVE  RunMemory(q)'
    BY <1>i, <1>k, <2>2 DEF RunMemoryInv, RunMemory, Idle
  <2> QED BY <2>1, <2>2 DEF RunMemoryInv
<1>8. RunDiskInv'
  <2>1. RunDisk(p)'
    BY <1>b, <1>d, <1>i, <1>k DEF RunDisk, Unretained, Sealed, s
  <2>2. ASSUME NEW q \in Runners, q # p
        PROVE  RunDisk(q)'
    BY <1>d, <1>i, <1>k, <1>l, <2>2 DEF RunDiskInv, RunDisk, Idle, Sealed
  <2> QED BY <2>1, <2>2 DEF RunDiskInv
<1>9. RestoreInv'
  <2>1. \A q \in Restorers : pc[q] = "restore" /\ target[q] = s =>
          ~mem[q].usable /\ ~mem[q].loaded.retained /\ ~mem[q].loaded.ended
    BY <1>b, <1>l DEF RestoreInv, Idle, s
  <2>2. \A q \in Restorers : pc[q] = "restore" => target[q] \in Sessions
    BY DEF RestoreLockInv
  <2>3. ASSUME NEW q \in Restorers, pc'[q] = "restore"
        PROVE  pc[q] = "restore" /\ mem'[q] = mem[q]
    BY <1>i, <1>k, <2>3
  <2>4. \A u : Newest(u)' <=> Newest(u)
    BY DEF Newest
  <2> QED BY <1>d, <1>l, <2>1, <2>2, <2>3, <2>4 DEF RestoreInv, Sealed
<1>10. TodoInv'
  BY <1>m, <1>n, RemovalsKept DEF TodoInv
<1>11. PreviewInv'
  BY <1>n, RemovalsKept DEF PreviewInv
<1>12. OrderInv'
  <2>1. /\ \A u \in Sessions : ~Sealed(u) => ~Sealed(u)'
        /\ \A u \in Sessions : Recording(u)' => Recording(u)
    BY <1>d, <1>l DEF Sealed, Recording
  <2>2. \A q \in Procs : \A v \in mem[q].todo :
          /\ v.id \in Sessions
          /\ v.hasSnapshot /\ v.id = s => pc[p] = "measure"
    BY DEF StoreTypeOK, TodoInv, CapturedOK, s
  <2>3. \A u \in Sessions : ~store[u].dir /\ (u = s => pc[p] = "measure") => ~store'[u].dir
    BY <1>d DEF s
  <2>4. \A q \in Procs : pc'[q] \in {"rmClone", "rmDir", "finalize"} => pc[q] = pc'[q]
    BY <1>k
  <2> QED BY <1>m, <2>1, <2>2, <2>3, <2>4 DEF OrderInv
<1>13. ConfirmInv'
  BY <1>i, <1>k DEF ConfirmInv, Planning, Applying, Removing
<1>14. NewestKept'
  <2> SUFFICES ASSUME NEW u \in saved, \A v \in saved : v <= u
               PROVE  record[u].exists /\ (record[u].retained => store'[u].dir /\ store'[u].clone)
    BY DEF NewestKept
  <2>1. u \in Sessions
    BY DEF StoreTypeOK
  <2> QED BY <1>b, <1>d, <2>1 DEF NewestKept
<1>15. SealedMeansWhole' /\ UnretainedMeansGone'
  BY <1>d DEF SealedMeansWhole, Sealed, UnretainedMeansGone
<1> QED BY <1>1, <1>2, <1>3, <1>4, <1>5, <1>6, <1>7, <1>8, <1>9, <1>10, <1>11, <1>12, <1>13,
   <1>14, <1>15

LEMMA CaptureStep ==
  ASSUME StoreInv, NEW p \in Runners, Capture(p)
  PROVE  StoreInv'
<1> DEFINE t == [dir |-> TRUE, manifest |-> "open", clone |-> TRUE]
           m == mem[p]
<1>1. /\ m \in Memories /\ mem' = [mem EXCEPT ![p] = m]
      /\ UNCHANGED <<record, saved, cap, preview, excl, shared, target, cutoff, stamped,
                     overtaken>>
      /\ faults' \in Nat
  BY DEF Capture, StoreInv, StoreTypeOK
<1>2. /\ pc[p] = "capture" /\ pc' = [pc EXCEPT ![p] = "measure"]
      /\ t \in Stores /\ store' = [store EXCEPT ![target[p]] = t]
      /\ t.dir /\ t.clone /\ t.manifest = "open"
  BY DEF Capture
<1>3. ~m.loaded.retained
  BY <1>2 DEF StoreInv, RunMemoryInv, RunMemory, Unretained, Idle
<1> HIDE DEF t, m
<1> QED BY <1>1, <1>2, <1>3, OwnStoreStep DEF m

LEMMA MeasureStep ==
  ASSUME StoreInv, NEW p \in Runners, Measure(p)
  PROVE  StoreInv'
<1> DEFINE s == target[p]
           t == [store[s] EXCEPT !.manifest = "open"]
           loaded == [mem[p].loaded EXCEPT !.retained = TRUE]
           m == [mem[p] EXCEPT !.loaded = loaded]
<1>1. /\ mem[p] \in Memories /\ mem[p].loaded \in Records
      /\ s \in Sessions /\ store[s] \in Stores
      /\ UNCHANGED <<record, saved, cap, preview, excl, shared, target, cutoff, stamped,
                     overtaken>>
      /\ faults' \in Nat
  BY RunTarget DEF Measure, Idle, StoreInv, StoreTypeOK
<1>2. /\ pc[p] = "measure" /\ pc' = [pc EXCEPT ![p] = "note"] /\ store[s].dir
      /\ store' = [store EXCEPT ![s] = t] /\ mem' = [mem EXCEPT ![p] = m]
  BY DEF Measure
<1>3. /\ t \in Stores /\ t.dir /\ t.clone = store[s].clone /\ t.manifest = "open"
  BY <1>1, <1>2
<1>4. /\ loaded \in Records /\ loaded.retained /\ loaded.exists = mem[p].loaded.exists
      /\ loaded.ended = mem[p].loaded.ended
  BY <1>1
<1>5. s \notin overtaken => store[s].clone
  BY <1>2 DEF StoreInv, RunDiskInv, RunDisk, Idle
<1> HIDE DEF loaded, t
<1>6. /\ m \in Memories /\ m.todo = mem[p].todo /\ m.ids = mem[p].ids
      /\ m.token = mem[p].token /\ m.loaded = loaded /\ m.over = mem[p].over
  BY <1>1, <1>4
<1> HIDE DEF m
<1> QED BY <1>1, <1>2, <1>3, <1>4, <1>5, <1>6, OwnStoreStep

LEMMA FailMeasureStep ==
  ASSUME StoreInv, NEW p \in Runners, FailMeasure(p)
  PROVE  StoreInv'
<1> DEFINE s == target[p]
           m == mem[p]
<1>1. /\ m \in Memories /\ mem' = [mem EXCEPT ![p] = m]
      /\ s \in Sessions /\ store[s] \in Stores
      /\ UNCHANGED <<record, saved, cap, preview, excl, shared, target, cutoff, stamped,
                     overtaken>>
      /\ faults' \in Nat
  <2>1. s \in Sessions /\ store[s] \in Stores
    BY RunTarget DEF FailMeasure, Idle, StoreInv, StoreTypeOK
  <2>2. faults' \in Nat
    BY DEF FailMeasure, Fault, StoreInv, StoreTypeOK
  <2>3. m \in Memories /\ mem' = [mem EXCEPT ![p] = m]
    BY DEF FailMeasure, StoreInv, StoreTypeOK
  <2> QED BY <2>1, <2>2, <2>3 DEF FailMeasure
<1>2. /\ pc[p] = "measure" /\ pc' = [pc EXCEPT ![p] = "final"]
      /\ \E t \in Leftovers(store[s]) : store' = [store EXCEPT ![s] = t]
  BY DEF FailMeasure
<1>3. /\ ~m.loaded.retained /\ store[s].manifest # "sealed"
      /\ store[s].dir \/ store[s].manifest = "none"
  BY <1>1, <1>2
  DEF StoreInv, RunMemoryInv, RunMemory, RunDiskInv, RunDisk, Unretained, Idle, Sealed, SavedInv
<1>4. PICK t \in Leftovers(store[s]) : store' = [store EXCEPT ![s] = t]
  BY <1>2
<1>5. /\ t \in Stores /\ t.manifest # "sealed" /\ (t.dir \/ t.manifest = "none")
      /\ t.dir => store[s].dir
  <2> DEFINE bare == [store[s] EXCEPT !.manifest = "none"]
             empty == [store[s] EXCEPT !.manifest = "none", !.clone = FALSE]
  <2>1. /\ bare \in Stores /\ bare.manifest = "none" /\ bare.dir = store[s].dir
        /\ empty \in Stores /\ empty.manifest = "none" /\ empty.dir = store[s].dir
        /\ NoStore \in Stores /\ NoStore.manifest = "none" /\ ~NoStore.dir
    BY <1>1 DEF NoStore
  <2>2. t \in {store[s], bare, empty, NoStore}
    BY DEF Leftovers
  <2> HIDE DEF bare, empty
  <2> QED BY <1>1, <1>3, <2>1, <2>2
<1> HIDE DEF m
<1> QED BY <1>1, <1>2, <1>3, <1>4, <1>5, OwnStoreStep DEF m

LEMMA NoteCaptureStep ==
  ASSUME StoreInv, NEW p \in Runners, NoteCapture(p)
  PROVE  StoreInv'
BY UpdateStep DEF NoteCapture

LEMMA NoteRetentionStep ==
  ASSUME StoreInv, NEW p \in Runners, NoteRetention(p)
  PROVE  StoreInv'
BY UpdateStep DEF NoteRetention

\* A run seals what it captured.
LEMMA WriteSealedStep ==
  ASSUME StoreInv, NEW p \in Runners, NEW next \in {"list", "final"}, WriteSealed(p),
         pc[p] \in {"child", "final"}, mem[p].loaded.retained, pc' = [pc EXCEPT ![p] = next],
         UNCHANGED <<record, saved, cap, preview, excl, shared, target, cutoff, stamped,
                     overtaken, faults>>
  PROVE  StoreInv'
<1> USE DEF StoreInv
<1> DEFINE s == target[p]
<1>a. s \in Sessions /\ s \in stamped /\ store[s] \in Stores /\ mem[p] \in Memories
  BY RunTarget DEF Idle, StoreTypeOK
<1>b. pc[p] \in {"child", "final"} /\ mem[p].loaded.retained /\ ~Sealed(s) /\ ~mem[p].over
  BY DEF WriteSealed, RunMemoryInv, RunMemory, RunDiskInv, RunDisk, Unretained, Idle
<1>c. PICK t \in Stores :
        /\ store' = [store EXCEPT ![s] = t]
        /\ t.dir = store[s].dir /\ t.clone = store[s].clone
        /\ ~t.dir => t = store[s]
  <2>1. CASE store[s].dir
    <3> DEFINE t == [store[s] EXCEPT !.manifest = "sealed"]
    <3>1. store' = [store EXCEPT ![s] = t]
      BY <2>1 DEF WriteSealed
    <3>2. t \in Stores /\ t.dir = store[s].dir /\ t.clone = store[s].clone
      BY <1>a
    <3> QED BY <2>1, <3>1, <3>2
  <2>2. CASE ~store[s].dir
    BY <1>a, <2>2 DEF WriteSealed, StoreTypeOK
  <2> QED BY <2>1, <2>2
<1>d. /\ store' \in [Sessions -> Stores]
      /\ store'[s] = t /\ \A u \in Sessions : u # s => store'[u] = store[u]
  BY <1>a, <1>c, StoreStep
<1> DEFINE m == [mem[p] EXCEPT !.over = TRUE]
<1>e. mem' = [mem EXCEPT ![p] = m]
  BY DEF WriteSealed
<1>f. /\ m \in Memories /\ m.todo = mem[p].todo /\ m.ids = mem[p].ids
      /\ m.token = mem[p].token /\ m.loaded = mem[p].loaded /\ m.over
  BY <1>a
<1> HIDE DEF m
<1>g. /\ mem' \in [Procs -> Memories]
      /\ mem'[p] = m /\ \A q \in Procs : q # p => mem'[q] = mem[q]
  BY <1>e, <1>f, MemoryStep
<1>h. /\ UNCHANGED <<record, saved, preview, excl, shared, target, stamped, overtaken>>
      /\ pc' = [pc EXCEPT ![p] = next]
  BY DEF WriteSealed
<1>i. pc' \in [Procs -> StoreLabels] /\ \A q \in Procs : q # p => pc'[q] = pc[q]
  BY <1>h DEF StoreTypeOK
<1>j. /\ pc'[p] = next
      /\ \A q \in Runners : q # p /\ ~Idle(q) => target[q] \in Sessions \ {s}
  BY <1>a, <1>b, <1>h, RunTarget DEF RunnerInv, StoreTypeOK
<1>k. \A q \in Procs : mem'[q].todo = mem[q].todo /\ \A v : First(q, v)' <=> First(q, v)
  BY <1>f, <1>g DEF First
<1>1. StoreTypeOK'
  BY <1>d, <1>g, <1>i DEF StoreTypeOK
<1>2. ExclusiveInv' /\ RemovalLockInv' /\ RestoreLockInv'
  BY DEF WriteSealed, StoreTypeOK, ExclusiveInv, Removing, RemovalLockInv, First,
     RestoreLockInv
<1>3. RankInv' /\ RunnerInv'
  BY DEF WriteSealed, StoreTypeOK, RankInv, Superseded, RunnerInv
<1>4. SavedInv'
  BY DEF WriteSealed, StoreTypeOK, SavedInv
<1>5. EndedInv'
  BY DEF WriteSealed, StoreTypeOK, EndedInv, Idle
<1>6. RunMemoryInv'
  BY DEF WriteSealed, StoreTypeOK, RunMemoryInv, RunMemory, Unretained, Idle
<1>7. RunDiskInv'
  BY <1>b, <1>c, <1>d, <1>f, <1>g, <1>h, <1>i, <1>j DEF RunDiskInv, RunDisk,
     Unretained, Idle, Sealed, Newest
<1>8. RestoreInv'
  <2>1. \A q \in Restorers : pc[q] = "restore" /\ target[q] = s =>
          ~mem[q].usable /\ ~mem[q].loaded.retained /\ ~mem[q].loaded.ended
    BY <1>b DEF RestoreInv, Idle
  <2>2. \A q \in Restorers : pc[q] = "restore" => target[q] \in Sessions
    BY DEF RestoreLockInv
  <2> QED BY SMTT(30), <1>c, <1>d, <1>g, <1>h, <1>i, <1>j, <2>1, <2>2
    DEF RestoreInv, Idle, Sealed, Newest
<1>9. TodoInv' /\ PreviewInv'
  BY DEF WriteSealed, StoreTypeOK, TodoInv, RemovalsOK, CapturedOK, Superseded,
     PreviewInv
<1>10. OrderInv'
  <2>1. Recording(s)
    BY <1>b DEF Recording, Idle
  <2>2. \A q \in Procs : \A v \in mem[q].todo : v.id \in Sessions
    BY DEF StoreTypeOK
  <2>3. /\ \A u \in Sessions : u # s => (Sealed(u)' <=> Sealed(u))
        /\ \A u \in Sessions : store'[u].dir = store[u].dir
        /\ \A u \in Sessions : Recording(u)' => Recording(u)
    BY <1>b, <1>c, <1>d, <1>i, <1>j DEF Sealed, Recording, Idle
  <2>4. \A q \in Procs : pc'[q] \in {"rmClone", "rmDir", "finalize"} => pc[q] = pc'[q]
    BY <1>i, <1>j
  <2> QED BY <1>h, <1>k, <2>1, <2>2, <2>3, <2>4 DEF OrderInv
<1>11. ConfirmInv'
  BY DEF WriteSealed, StoreTypeOK, ConfirmInv, Planning, Applying, Removing
<1>12. NewestKept' /\ SealedMeansWhole'
  <2>1. NewestKept'
    BY <1>a, <1>c, <1>d, <1>h DEF NewestKept, StoreTypeOK
  <2>2. s \notin overtaken => t.clone
    BY <1>b, <1>c DEF RunDiskInv, RunDisk, Idle
  <2>3. SealedMeansWhole'
    BY <1>d, <1>h, <2>2 DEF SealedMeansWhole, Sealed
  <2> QED BY <2>1, <2>3
<1>13. UnretainedMeansGone'
  <2>1. ~record[s].ended
    BY <1>a, <1>b DEF EndedInv, Idle
  <2> QED BY <1>d, <1>h, <2>1 DEF UnretainedMeansGone, Sealed
<1> QED BY <1>1, <1>2, <1>3, <1>4, <1>5, <1>6, <1>7, <1>8, <1>9, <1>10, <1>11, <1>12, <1>13

LEMMA SealStep ==
  ASSUME StoreInv, NEW p \in Runners, Seal(p)
  PROVE  StoreInv'
<1>1. mem[p].loaded.retained
  BY DEF Seal, Idle, StoreInv, RunMemoryInv, RunMemory, Unretained
<1> QED BY <1>1, WriteSealedStep DEF Seal

LEMMA SealInterruptedStep ==
  ASSUME StoreInv, NEW p \in Runners, SealInterrupted(p)
  PROVE  StoreInv'
<1>1. pc' = [pc EXCEPT ![p] = "final"]
  BY DEF SealInterrupted, StoreInv, StoreTypeOK
<1> QED BY <1>1, WriteSealedStep DEF SealInterrupted

LEMMA RecordEndStep ==
  ASSUME StoreInv, NEW p \in Runners, RecordEnd(p)
  PROVE  StoreInv'
<1> USE DEF StoreInv
<1> DEFINE s == target[p]
           c == [mem[p].loaded EXCEPT !.ended = TRUE]
<1>a. s \in Sessions /\ s \in stamped /\ mem[p].loaded \in Records
  BY RunTarget DEF RecordEnd, Save, Idle, StoreTypeOK
<1>b. /\ pc[p] = "final" /\ excl[s] = {} /\ shared[s] = {}
      /\ record' = [record EXCEPT ![s] = c] /\ saved' = saved \cup {s}
      /\ UNCHANGED <<store, preview, excl, shared, target, stamped, overtaken>>
  BY DEF RecordEnd, Save, CanExclude
<1>c. /\ c \in Records /\ c.exists /\ c.retained = mem[p].loaded.retained
      /\ c.ended /\ ~mem[p].loaded.ended
      /\ pc[p] = "save" => ~c.retained
      /\ pc[p] # "save" => s \in saved
      /\ ~c.retained => ~Sealed(s)
      /\ c.retained /\ Newest(s) => store[s].dir /\ store[s].clone
  <2>1. Newest(s) => s \notin overtaken
    BY SMTT(30) DEF RankInv, Superseded, Newest, StoreTypeOK
  <2> QED BY <1>a, <1>b, <2>1
    DEF RunMemoryInv, RunMemory, Unretained, RunDiskInv, RunDisk, Idle
<1> HIDE DEF c
<1>d. /\ record' \in [Sessions -> Records] /\ record'[s] = c
      /\ \A u \in Sessions : u # s => record'[u] = record[u]
  BY <1>a, <1>b, <1>c DEF StoreTypeOK
<1>e. /\ mem' \in [Procs -> Memories] /\ mem'[p] = NoMemory
      /\ \A q \in Procs : q # p => mem'[q] = mem[q]
  <2>1. NoMemory \in Memories
    BY DEF NoMemory, NoRecord
  <2>2. mem' = [mem EXCEPT ![p] = NoMemory]
    BY DEF RecordEnd, Exit
  <2> QED BY <2>1, <2>2, MemoryStep
<1>f. pc' = [pc EXCEPT ![p] = "done"] /\ UNCHANGED <<cap, cutoff, faults>>
  BY DEF RecordEnd, Exit
<1>1. StoreTypeOK'
  BY <1>a, <1>b, <1>d, <1>e, <1>f DEF StoreTypeOK
<1>2. ExclusiveInv' /\ RemovalLockInv' /\ RestoreLockInv'
  BY DEF RecordEnd, StoreTypeOK, ExclusiveInv, Removing, Save, CanExclude, Exit,
     NoMemory, NoRecord, RemovalLockInv, First, RestoreLockInv
<1>3. RankInv'
  BY <1>a, <1>b DEF RankInv, Superseded
<1>4. RunnerInv'
  BY DEF RecordEnd, StoreTypeOK, RunnerInv, Save, CanExclude, Exit, NoMemory, NoRecord
<1>5. SavedInv'
  BY DEF RecordEnd, StoreTypeOK, SavedInv, Save, CanExclude, Exit, NoMemory, NoRecord
<1>6. EndedInv'
  BY DEF RecordEnd, StoreTypeOK, RankInv, Superseded, RunnerInv, SavedInv, EndedInv,
     RunMemoryInv, RunMemory, Unretained, Idle, Save, CanExclude, Exit, NoMemory,
     NoRecord
<1>7. RunMemoryInv'
  BY DEF RecordEnd, StoreTypeOK, RunMemoryInv, RunMemory, Unretained, Idle, Save,
     CanExclude, Exit, NoMemory, NoRecord
<1>8. RunDiskInv'
  <2>1. ASSUME NEW q \in Runners, q # p, ~Idle(q)
        PROVE  target[q] \in Sessions /\ record'[target[q]] = record[target[q]]
    BY <1>a, <1>d, <2>1, RunTarget DEF RunnerInv
  <2>2. /\ pc'[p] = "done" /\ \A q \in Runners : q # p => pc'[q] = pc[q]
        /\ UNCHANGED overtaken
    BY <1>f DEF RecordEnd, StoreTypeOK
  <2> QED BY <1>b, <1>e, <2>1, <2>2 DEF RunDiskInv, RunDisk, Unretained, Idle, Sealed
<1>9. RestoreInv'
  BY DEF RecordEnd, StoreTypeOK, RestoreLockInv, RestoreInv, Idle, Sealed, Newest, Save,
     CanExclude, Exit, NoMemory, NoRecord
<1>10. TodoInv' /\ PreviewInv'
  BY DEF RecordEnd, StoreTypeOK, TodoInv, RemovalsOK, CapturedOK, Superseded, Save,
     CanExclude, Exit, NoMemory, NoRecord, PreviewInv
<1>11. OrderInv'
  BY DEF RecordEnd, StoreTypeOK, OrderInv, First, Sealed, Recording, Idle, Save,
     CanExclude, Exit, NoMemory, NoRecord
<1>12. ConfirmInv'
  BY DEF RecordEnd, StoreTypeOK, ConfirmInv, Planning, Applying, Removing, Save,
     CanExclude, Exit, NoMemory, NoRecord
<1>13. NewestKept'
  <2> SUFFICES ASSUME NEW u \in saved', \A t \in saved' : t <= u
               PROVE  record'[u].exists /\ (record'[u].retained => store[u].dir /\ store[u].clone)
    BY <1>b DEF NewestKept
  <2>1. u \in Sessions
    BY <1>a, <1>b DEF StoreTypeOK
  <2>2. CASE u = s
    BY <1>b, <1>c, <1>d, <2>2 DEF Newest
  <2>3. CASE u # s
    BY <1>b, <1>d, <2>1, <2>3 DEF NewestKept
  <2> QED BY <2>2, <2>3
<1>14. SealedMeansWhole'
  BY DEF RecordEnd, StoreTypeOK, SealedMeansWhole, Sealed, Save, CanExclude, Exit,
     NoMemory, NoRecord
<1>15. UnretainedMeansGone'
  BY <1>a, <1>b, <1>c, <1>d DEF UnretainedMeansGone, Sealed, SavedInv
<1> QED BY <1>1, <1>2, <1>3, <1>4, <1>5, <1>6, <1>7, <1>8, <1>9, <1>10, <1>11, <1>12, <1>13,
   <1>14, <1>15

LEMMA FailRunStep ==
  ASSUME StoreInv, NEW p \in Runners, FailRun(p)
  PROVE  StoreInv'
<1> USE DEF StoreInv
<1>a. /\ pc[p] \in {"save", "final", "capture", "note", "child", "applied", "refused"}
      /\ UNCHANGED <<record, saved, store, cap, preview, excl, shared, target, cutoff, stamped,
                     overtaken>>
  BY DEF FailRun
<1>b. /\ pc' \in [Procs -> StoreLabels] /\ pc'[p] \in {"done", "final"}
      /\ \A q \in Procs : q # p => pc'[q] = pc[q]
      /\ pc[p] = "save" => pc'[p] = "done"
  BY DEF FailRun, Exit, StoreTypeOK
<1>c. NoMemory \in Memories /\ NoMemory.todo = {} /\ NoMemory.ids = {}
  BY DEF NoMemory, NoRecord
<1>d. PICK m \in Memories :
        /\ mem' = [mem EXCEPT ![p] = m]
        /\ \/ m = mem[p]
           \/ m.todo = {} /\ m.ids = {} /\ pc'[p] = "done"
  <2>1. CASE pc' = [pc EXCEPT ![p] = "done"] /\ mem' = [mem EXCEPT ![p] = NoMemory]
    BY <1>c, <2>1 DEF StoreTypeOK
  <2>2. CASE UNCHANGED mem
    BY <2>2 DEF StoreTypeOK
  <2> QED BY <2>1, <2>2 DEF FailRun, Exit
<1>e. /\ mem' \in [Procs -> Memories]
      /\ mem'[p] = m /\ \A q \in Procs : q # p => mem'[q] = mem[q]
  BY <1>d, MemoryStep
<1>f. faults' \in Nat
  BY DEF FailRun, Fault, StoreTypeOK
<1>g. \A q \in Runners : pc'[q] \in {"save", "capture"} =>
        pc[q] \in {"save", "capture"} /\ target'[q] = target[q]
  BY <1>a, <1>b
<1>h. \A q \in Procs : q # p => \A v : First(q, v)' <=> First(q, v)
  BY <1>e DEF First
<1>1. StoreTypeOK'
  BY <1>a, <1>b, <1>e, <1>f DEF StoreTypeOK
<1>2. ExclusiveInv' /\ RestoreLockInv'
  BY <1>a, <1>b, <1>d, <1>e DEF ExclusiveInv, Removing, RestoreLockInv
<1>3. RemovalLockInv'
  BY <1>a, <1>b, <1>e, <1>h DEF RemovalLockInv, Removing
<1>4. RankInv' /\ RunnerInv'
  BY SMTT(30), <1>a, <1>b, <1>d, <1>e DEF RankInv, Superseded, RunnerInv
<1>5. SavedInv'
  BY <1>a, <1>b, <1>d, <1>e DEF SavedInv
<1>6. EndedInv'
  BY <1>a, <1>b, <1>d, <1>e DEF EndedInv, Idle
<1>7. RunMemoryInv'
  BY <1>a, <1>b, <1>d, <1>e DEF RunMemoryInv, RunMemory, Unretained, Idle
<1>8. RunDiskInv'
  BY <1>a, <1>b, <1>d, <1>e DEF RunDiskInv, RunDisk, Unretained, Idle, Sealed, Newest
<1>9. RestoreInv'
  BY <1>a, <1>b, <1>d, <1>e DEF RestoreInv, Idle, Sealed, Newest
<1>10. TodoInv'
  <2>1. \A q \in Procs : RemovalsOK(mem'[q].todo) /\ CapturedOK(mem'[q].todo)
    BY <1>d, <1>e DEF TodoInv, RemovalsOK, CapturedOK
  <2> QED BY <1>a, <1>g, <2>1, RemovalsKept DEF TodoInv
<1>11. PreviewInv'
  BY <1>a, <1>g, RemovalsKept DEF PreviewInv
<1>12. OrderInv'
  BY <1>a, <1>b, <1>e, <1>h DEF OrderInv, Sealed, Recording, Idle
<1>13. ConfirmInv'
  BY <1>a, <1>b, <1>d, <1>e DEF ConfirmInv, Planning, Applying, Removing
<1>14. NewestKept' /\ SealedMeansWhole' /\ UnretainedMeansGone'
  BY <1>a, <1>b, <1>d, <1>e DEF NewestKept, SealedMeansWhole, Sealed,
     UnretainedMeansGone
<1> QED BY <1>1, <1>2, <1>3, <1>4, <1>5, <1>6, <1>7, <1>8, <1>9, <1>10, <1>11, <1>12, <1>13,
   <1>14

(***************************************************************************)
(* unring restore.                                                         *)
(***************************************************************************)
LEMMA FindStep ==
  ASSUME StoreInv, NEW p \in Restorers, Find(p)
  PROVE  StoreInv'
<1> USE DEF StoreInv
<1>1. StoreTypeOK'
  BY DEF Find, StoreTypeOK
<1>2. ExclusiveInv' /\ RemovalLockInv' /\ RestoreLockInv'
  BY DEF Find, StoreTypeOK, ExclusiveInv, Removing, RemovalLockInv, First,
     RestoreLockInv
<1>3. RankInv' /\ RunnerInv'
  BY ZenonT(40) DEF Find, StoreTypeOK, RankInv, Superseded, RunnerInv
<1>4. SavedInv'
  BY DEF Find, StoreTypeOK, SavedInv
<1>5. EndedInv'
  BY DEF Find, StoreTypeOK, EndedInv, Idle
<1>6. RunMemoryInv'
  BY DEF Find, StoreTypeOK, RunMemoryInv, RunMemory, Unretained, Idle
<1>7. RunDiskInv'
  BY DEF Find, StoreTypeOK, RunDiskInv, RunDisk, Unretained, Idle, Sealed, Newest
<1>8. RestoreInv'
  BY DEF Find, StoreTypeOK, RestoreInv, Idle, Sealed, Newest
<1>9. TodoInv' /\ PreviewInv'
  BY DEF Find, StoreTypeOK, TodoInv, RemovalsOK, CapturedOK, Superseded, PreviewInv
<1>10. OrderInv'
  BY DEF Find, StoreTypeOK, OrderInv, First, Sealed, Recording, Idle
<1>11. ConfirmInv'
  BY DEF Find, StoreTypeOK, ConfirmInv, Planning, Applying, Removing
<1>12. NewestKept' /\ SealedMeansWhole' /\ UnretainedMeansGone'
  BY DEF Find, StoreTypeOK, NewestKept, SealedMeansWhole, Sealed, UnretainedMeansGone
<1> QED BY <1>1, <1>2, <1>3, <1>4, <1>5, <1>6, <1>7, <1>8, <1>9, <1>10, <1>11, <1>12

LEMMA ReadLockStep ==
  ASSUME StoreInv, NEW p \in Restorers, ReadLock(p)
  PROVE  StoreInv'
<1> USE DEF StoreInv
<1>1. StoreTypeOK'
  BY DEF ReadLock, StoreTypeOK, Share, CanShare
<1>2. ExclusiveInv' /\ RemovalLockInv' /\ RestoreLockInv'
  BY DEF ReadLock, StoreTypeOK, ExclusiveInv, Removing, Share, CanShare, RemovalLockInv,
     First, RestoreLockInv
<1>3. RankInv' /\ RunnerInv'
  BY DEF ReadLock, StoreTypeOK, RankInv, Superseded, Share, CanShare, RunnerInv
<1>4. SavedInv'
  BY DEF ReadLock, StoreTypeOK, SavedInv, Share, CanShare
<1>5. EndedInv'
  BY DEF ReadLock, StoreTypeOK, EndedInv, Idle, Share, CanShare
<1>6. RunMemoryInv'
  BY DEF ReadLock, StoreTypeOK, RunMemoryInv, RunMemory, Unretained, Idle, Share,
     CanShare
<1>7. RunDiskInv'
  BY DEF ReadLock, StoreTypeOK, RunDiskInv, RunDisk, Unretained, Idle, Sealed, Newest,
     Share, CanShare
<1>8. RestoreInv'
  BY DEF ReadLock, StoreTypeOK, RestoreInv, Idle, Sealed, Newest, Share, CanShare
<1>9. TodoInv' /\ PreviewInv'
  BY DEF ReadLock, StoreTypeOK, TodoInv, RemovalsOK, CapturedOK, Superseded, Share,
     CanShare, PreviewInv
<1>10. OrderInv'
  BY DEF ReadLock, StoreTypeOK, OrderInv, First, Sealed, Recording, Idle, Share,
     CanShare
<1>11. ConfirmInv'
  BY DEF ReadLock, StoreTypeOK, ConfirmInv, Planning, Applying, Removing, Share,
     CanShare
<1>12. NewestKept' /\ SealedMeansWhole' /\ UnretainedMeansGone'
  BY DEF ReadLock, StoreTypeOK, NewestKept, Share, CanShare, SealedMeansWhole, Sealed,
     UnretainedMeansGone
<1> QED BY <1>1, <1>2, <1>3, <1>4, <1>5, <1>6, <1>7, <1>8, <1>9, <1>10, <1>11, <1>12

LEMMA LoadExactStep ==
  ASSUME StoreInv, NEW p \in Restorers, LoadExact(p)
  PROVE  StoreInv'
<1> USE DEF StoreInv
<1> DEFINE s == target[p]
<1>a. /\ pc[p] = "exact" /\ s \in Sessions /\ p \in shared[s]
      /\ record[s] \in Records /\ mem[p] \in Memories
  BY DEF LoadExact, RestoreLockInv, StoreTypeOK
<1>b. /\ pc' \in [Procs -> StoreLabels] /\ pc'[p] \in {"restore", "done"}
      /\ \A q \in Procs : q # p => pc'[q] = pc[q]
      /\ UNCHANGED <<record, saved, store, preview, target, stamped, overtaken>>
  BY ZenonT(40) DEF LoadExact, Exit, StoreTypeOK
<1>c. /\ excl' \in [Locks -> SUBSET Procs] /\ shared' \in [Locks -> SUBSET Procs]
      /\ \A l \in Locks :
           /\ excl'[l] \in {excl[l], excl[l] \ {p}} /\ shared'[l] \subseteq shared[l]
           /\ \A q \in Procs : q # p /\ q \in shared[l] => q \in shared'[l]
           /\ pc'[p] = "restore" => shared'[l] = shared[l]
  <2>1. CASE UNCHANGED <<excl, shared>>
    BY <2>1 DEF StoreTypeOK
  <2>2. CASE pc'[p] = "done" /\ Release(Locks, p)
    BY <2>2 DEF Release, StoreTypeOK
  <2>3. pc' = [pc EXCEPT ![p] = "done"] => pc'[p] = "done"
    BY DEF StoreTypeOK
  <2> QED BY <2>1, <2>2, <2>3 DEF LoadExact, Exit
<1>d. PICK m \in Memories :
        /\ mem' = [mem EXCEPT ![p] = m]
        /\ m.ids \subseteq mem[p].ids /\ m.todo \subseteq mem[p].todo
        /\ pc'[p] = "restore" =>
             /\ record[s].exists /\ m.loaded.exists
             /\ m.loaded.ended = record[s].ended
             /\ m.loaded.retained <=> record[s].retained /\ Sealed(s)
             /\ m.usable <=> record[s].retained /\ Sealed(s)
  <2>1. CASE record[s].exists
    <3> DEFINE loaded == [record[s] EXCEPT !.retained = @ /\ Sealed(s)]
               m == [mem[p] EXCEPT !.loaded = loaded, !.usable = record[s].retained /\ Sealed(s)]
    <3>1. /\ loaded \in Records /\ loaded.exists /\ loaded.ended = record[s].ended
          /\ loaded.retained <=> record[s].retained /\ Sealed(s)
      BY <1>a, <2>1 DEF Sealed
    <3>2. mem' = [mem EXCEPT ![p] = m]
      BY <2>1 DEF LoadExact
    <3> HIDE DEF loaded
    <3>3. /\ m \in Memories /\ m.ids = mem[p].ids /\ m.todo = mem[p].todo
          /\ m.loaded = loaded /\ m.usable <=> record[s].retained /\ Sealed(s)
      BY <1>a, <3>1 DEF Sealed
    <3> QED BY <2>1, <3>1, <3>2, <3>3
  <2>2. CASE ~record[s].exists
    <3>1. NoMemory \in Memories /\ NoMemory.ids = {} /\ NoMemory.todo = {}
      BY DEF NoMemory, NoRecord
    <3>2. mem' = [mem EXCEPT ![p] = NoMemory] /\ pc' = [pc EXCEPT ![p] = "done"]
      BY <2>2 DEF LoadExact, Exit
    <3>3. pc'[p] # "restore"
      BY <3>2 DEF StoreTypeOK
    <3> QED BY <3>1, <3>2, <3>3
  <2> QED BY <2>1, <2>2
<1>e. /\ mem' \in [Procs -> Memories]
      /\ mem'[p] = m /\ \A q \in Procs : q # p => mem'[q] = mem[q]
  BY <1>d, MemoryStep
<1>f. p \notin Runners /\ p \notin Pruners
  OBVIOUS
<1>g. \A q \in Runners : pc'[q] \in {"save", "capture"} =>
        pc[q] \in {"save", "capture"} /\ target'[q] = target[q]
  BY <1>b
<1>h. \A q \in Procs : q # p => \A v : First(q, v)' <=> First(q, v)
  BY <1>e DEF First
<1>1. StoreTypeOK'
  BY <1>b, <1>c, <1>e DEF LoadExact, StoreTypeOK
<1>2. ExclusiveInv' /\ RestoreLockInv'
  BY <1>a, <1>b, <1>c DEF ExclusiveInv, Removing, RestoreLockInv
<1>3. RemovalLockInv'
  <2>1. \A q \in Procs : \A v \in mem[q].todo : v.id \in Locks
    BY DEF StoreTypeOK
  <2> QED BY SMTT(30), <1>b, <1>c, <1>e, <1>h, <2>1 DEF RemovalLockInv, Removing
<1>4. RankInv'
  BY <1>a, <1>b, <1>d, <1>e DEF RankInv, Superseded
<1>5. RunnerInv'
  BY <1>a, <1>b, <1>d, <1>e DEF RunnerInv
<1>6. SavedInv'
  BY <1>a, <1>b, <1>d, <1>e DEF SavedInv
<1>7. EndedInv'
  BY <1>a, <1>b, <1>d, <1>e DEF EndedInv, Idle
<1>8. RunMemoryInv'
  BY <1>b, <1>e, <1>f DEF RunMemoryInv, RunMemory, Unretained, Idle
<1>9. RunDiskInv'
  BY <1>b, <1>e, <1>f DEF RunDiskInv, RunDisk, Unretained, Idle, Sealed, Newest
<1>10. RestoreInv'
  <2>1. /\ Newest(s) /\ record[s].retained => store[s].dir /\ store[s].clone
        /\ record[s].ended => \A q \in Runners : target[q] = s => Idle(q)
        /\ record[s].ended /\ ~record[s].retained => ~Sealed(s)
    BY <1>a DEF NewestKept, Newest, EndedInv, UnretainedMeansGone
  <2>2. \A q \in Runners : Idle(q)' <=> Idle(q)
    BY <1>b, <1>f DEF Idle
  <2>3. Newest(s)' <=> Newest(s)
    BY <1>b DEF Newest
  <2>4. CASE pc'[p] = "restore"
    BY <1>a, <1>b, <1>d, <1>e, <2>1, <2>2, <2>3, <2>4 DEF RestoreInv, Sealed, Newest
  <2>5. CASE pc'[p] # "restore"
    BY <1>b, <1>e, <2>2, <2>5 DEF RestoreInv, Sealed, Newest
  <2> QED BY <2>4, <2>5
<1>11. TodoInv'
  <2>1. \A q \in Procs : RemovalsOK(mem'[q].todo) /\ CapturedOK(mem'[q].todo)
    BY <1>d, <1>e DEF TodoInv, RemovalsOK, CapturedOK
  <2> QED BY <1>b, <1>g, <2>1, RemovalsKept DEF TodoInv
<1>12. PreviewInv'
  BY <1>b, <1>g, RemovalsKept DEF PreviewInv
<1>13. OrderInv'
  BY <1>b, <1>e, <1>h DEF OrderInv, Sealed, Recording, Idle
<1>14. ConfirmInv'
  BY <1>b, <1>c, <1>e, <1>f DEF ConfirmInv, Planning, Applying, Removing
<1>15. NewestKept' /\ SealedMeansWhole' /\ UnretainedMeansGone'
  BY <1>a, <1>b, <1>d, <1>e DEF NewestKept, SealedMeansWhole, Sealed,
     UnretainedMeansGone
<1> QED BY <1>1, <1>2, <1>3, <1>4, <1>5, <1>6, <1>7, <1>8, <1>9, <1>10, <1>11, <1>12, <1>13,
   <1>14, <1>15

LEMMA RecordRestoreStep ==
  ASSUME StoreInv, NEW p \in Restorers, RecordRestore(p)
  PROVE  StoreInv'
<1> USE DEF StoreInv
<1> DEFINE s == target[p]
           c == mem[p].loaded
<1>a. /\ pc[p] = "restore" /\ s \in Sessions /\ p \in shared[s] /\ s \in saved
      /\ c \in Records /\ record[s].exists /\ c.exists
      /\ record' = [record EXCEPT ![s] = c] /\ saved' = saved \cup {s}
  BY DEF RecordRestore, SaveLocked, RestoreLockInv, RestoreInv, SavedInv, StoreTypeOK
<1>b. /\ c.retained /\ Newest(s) => store[s].dir /\ store[s].clone
      /\ c.ended => \A q \in Runners : target[q] = s => Idle(q)
      /\ c.ended /\ ~c.retained => ~Sealed(s)
  BY <1>a DEF RestoreInv
<1>c. UNCHANGED saved
  BY <1>a
<1>d. /\ record' \in [Sessions -> Records] /\ record'[s] = c
      /\ \A u \in Sessions : u # s => record'[u] = record[u]
  BY <1>a DEF StoreTypeOK
<1>e. /\ mem' \in [Procs -> Memories] /\ mem'[p] = NoMemory
      /\ \A q \in Procs : q # p => mem'[q] = mem[q]
  <2>1. NoMemory \in Memories
    BY DEF NoMemory, NoRecord
  <2>2. mem' = [mem EXCEPT ![p] = NoMemory]
    BY DEF RecordRestore, Exit
  <2> QED BY <2>1, <2>2, MemoryStep
<1>f. /\ pc' \in [Procs -> StoreLabels] /\ pc'[p] = "done"
      /\ \A q \in Procs : q # p => pc'[q] = pc[q]
      /\ UNCHANGED <<store, preview, target, stamped, overtaken>>
      /\ p \notin Runners
  BY DEF RecordRestore, Exit, StoreTypeOK
<1>g. /\ excl' \in [Locks -> SUBSET Procs] /\ shared' \in [Locks -> SUBSET Procs]
  BY DEF RecordRestore, Release, StoreTypeOK
<1>h. \A q \in Runners : Idle(q)' <=> Idle(q)
  BY <1>f DEF Idle
<1>1. StoreTypeOK'
  BY <1>c, <1>d, <1>e, <1>f, <1>g DEF RecordRestore, StoreTypeOK
<1>2. ExclusiveInv' /\ RemovalLockInv' /\ RestoreLockInv'
  BY DEF RecordRestore, StoreTypeOK, ExclusiveInv, Removing, Exit, NoMemory, NoRecord,
     Release, SaveLocked, RemovalLockInv, First, RestoreLockInv
<1>3. RankInv'
  BY <1>c, <1>f DEF RankInv, Superseded
<1>4. RunnerInv'
  BY DEF RecordRestore, StoreTypeOK, RunnerInv, Exit, NoMemory, NoRecord, Release,
     SaveLocked
<1>5. SavedInv'
  BY DEF RecordRestore, StoreTypeOK, SavedInv, Exit, NoMemory, NoRecord, Release,
     SaveLocked
<1>6. EndedInv'
  BY <1>b, <1>d, <1>f, <1>h DEF EndedInv
<1>7. RunMemoryInv'
  BY DEF RecordRestore, StoreTypeOK, RunMemoryInv, RunMemory, Unretained, Idle, Exit,
     NoMemory, NoRecord, Release, SaveLocked
<1>8. RunDiskInv'
  <2>1. ASSUME NEW q \in Runners, ~Idle(q)
        PROVE  /\ target[q] \in Sessions
               /\ pc[q] \in Unretained => ~record'[target[q]].retained
    <3>1. target[q] \in Sessions
      BY <2>1, RunTarget
    <3>2. pc[q] \in Unretained => ~Sealed(target[q]) /\ ~record[target[q]].retained
      BY <2>1 DEF RunMemoryInv, RunMemory, RunDiskInv, RunDisk
    <3>3. c.retained => Sealed(s)
      BY <1>a DEF RestoreInv
    <3>4. CASE target[q] = s
      BY <1>d, <3>1, <3>2, <3>3, <3>4
    <3>5. CASE target[q] # s
      BY <1>d, <3>1, <3>2, <3>5
    <3> QED BY <3>1, <3>4, <3>5
  <2>2. \A q \in Runners : pc'[q] = pc[q] /\ mem'[q] = mem[q]
    BY <1>e, <1>f
  <2> QED BY <1>c, <1>f, <1>h, <2>1, <2>2 DEF RunDiskInv, RunDisk, Sealed
<1>9. RestoreInv'
  <2>1. \A q \in Restorers : pc[q] = "restore" => target[q] \in Sessions
    BY DEF RestoreLockInv
  <2> QED BY <1>a, <1>c, <1>d, <1>e, <1>f, <1>h, <2>1 DEF RestoreInv, Sealed, Newest
<1>10. TodoInv' /\ PreviewInv'
  BY DEF RecordRestore, StoreTypeOK, TodoInv, RemovalsOK, CapturedOK, Superseded, Exit,
     NoMemory, NoRecord, Release, SaveLocked, PreviewInv
<1>11. OrderInv'
  BY DEF RecordRestore, StoreTypeOK, OrderInv, First, Sealed, Recording, Idle, Exit,
     NoMemory, NoRecord, Release, SaveLocked
<1>12. ConfirmInv'
  BY DEF RecordRestore, StoreTypeOK, ConfirmInv, Planning, Applying, Removing, Exit,
     NoMemory, NoRecord, Release, SaveLocked
<1>13. NewestKept'
  BY <1>a, <1>b, <1>c, <1>d, <1>f DEF NewestKept, Newest, StoreTypeOK
<1>14. SealedMeansWhole'
  BY DEF RecordRestore, StoreTypeOK, SealedMeansWhole, Sealed, Exit, NoMemory,
     NoRecord, Release, SaveLocked
<1>15. UnretainedMeansGone'
  BY <1>b, <1>d, <1>f DEF UnretainedMeansGone, Sealed
<1> QED BY <1>1, <1>2, <1>3, <1>4, <1>5, <1>6, <1>7, <1>8, <1>9, <1>10, <1>11, <1>12, <1>13,
   <1>14, <1>15

LEMMA ListChangesStep ==
  ASSUME StoreInv, NEW p \in Restorers, ListChanges(p)
  PROVE  StoreInv'
<1> USE DEF StoreInv
<1>e. /\ mem' \in [Procs -> Memories] /\ mem'[p] = NoMemory
      /\ \A q \in Procs : q # p => mem'[q] = mem[q]
  <2>1. NoMemory \in Memories
    BY DEF NoMemory, NoRecord
  <2>2. mem' = [mem EXCEPT ![p] = NoMemory]
    BY DEF ListChanges, Exit
  <2> QED BY <2>1, <2>2, MemoryStep
<1>1. StoreTypeOK'
  BY <1>e DEF ListChanges, Exit, Release, StoreTypeOK
<1>2. ExclusiveInv' /\ RemovalLockInv' /\ RestoreLockInv'
  BY DEF ListChanges, StoreTypeOK, ExclusiveInv, Removing, Exit, NoMemory, NoRecord,
     Release, RemovalLockInv, First, RestoreLockInv
<1>3. RankInv' /\ RunnerInv'
  BY DEF ListChanges, StoreTypeOK, RankInv, Superseded, Exit, NoMemory, NoRecord,
     Release, RunnerInv
<1>4. SavedInv'
  BY DEF ListChanges, StoreTypeOK, SavedInv, Exit, NoMemory, NoRecord, Release
<1>5. EndedInv'
  BY DEF ListChanges, StoreTypeOK, EndedInv, Idle, Exit, NoMemory, NoRecord, Release
<1>6. RunMemoryInv'
  BY DEF ListChanges, StoreTypeOK, RunMemoryInv, RunMemory, Unretained, Idle, Exit,
     NoMemory, NoRecord, Release
<1>7. RunDiskInv'
  BY DEF ListChanges, StoreTypeOK, RunDiskInv, RunDisk, Unretained, Idle, Sealed,
     Newest, Exit, NoMemory, NoRecord, Release
<1>8. RestoreInv'
  BY DEF ListChanges, StoreTypeOK, RestoreInv, Idle, Sealed, Newest, Exit, NoMemory,
     NoRecord, Release
<1>9. TodoInv' /\ PreviewInv'
  BY DEF ListChanges, StoreTypeOK, TodoInv, RemovalsOK, CapturedOK, Superseded, Exit,
     NoMemory, NoRecord, Release, PreviewInv
<1>10. OrderInv'
  BY DEF ListChanges, StoreTypeOK, OrderInv, First, Sealed, Recording, Idle, Exit,
     NoMemory, NoRecord, Release
<1>11. ConfirmInv'
  BY DEF ListChanges, StoreTypeOK, ConfirmInv, Planning, Applying, Removing, Exit,
     NoMemory, NoRecord, Release
<1>12. NewestKept' /\ SealedMeansWhole' /\ UnretainedMeansGone'
  BY DEF ListChanges, StoreTypeOK, NewestKept, Exit, NoMemory, NoRecord, Release,
     SealedMeansWhole, Sealed, UnretainedMeansGone
<1> QED BY <1>1, <1>2, <1>3, <1>4, <1>5, <1>6, <1>7, <1>8, <1>9, <1>10, <1>11, <1>12

(***************************************************************************)
(* unring prune.                                                           *)
(***************************************************************************)
LEMMA PreviewStep ==
  ASSUME StoreInv, NEW p \in Pruners, Preview(p)
  PROVE  StoreInv'
<1> USE DEF StoreInv
<1>a. mem[p] \in Memories /\ cap \in Caps
  BY DEF StoreTypeOK
<1> DEFINE m == [mem[p] EXCEPT !.limit = cap]
<1>b. mem' = [mem EXCEPT ![p] = m]
  BY DEF Preview
<1>d. /\ m \in Memories /\ m.todo = mem[p].todo /\ m.ids = mem[p].ids
      /\ m.token = mem[p].token /\ m.loaded = mem[p].loaded /\ m.over = mem[p].over
  BY <1>a
<1> HIDE DEF m
<1>e. /\ mem' \in [Procs -> Memories]
      /\ mem'[p] = m /\ \A q \in Procs : q # p => mem'[q] = mem[q]
  BY <1>b, <1>d, MemoryStep
<1>c. /\ preview' \in [Pruners -> Previews]
      /\ \A q \in Pruners : preview'[q].removals = preview[q].removals
      /\ preview[p].removals = {}
  BY CleanupKeeps DEF Preview, NoPreview
<1>f. /\ pc[p] = "start" /\ pc' \in [Procs -> StoreLabels] /\ pc'[p] = "list"
      /\ \A q \in Procs : q # p => pc'[q] = pc[q]
      /\ UNCHANGED <<record, saved, store, cap, excl, shared, target, cutoff, stamped,
                     overtaken, faults>>
  BY DEF Preview, StoreTypeOK
<1>g. p \notin Runners /\ p \notin Restorers
  OBVIOUS
<1>h. \A q \in Procs : mem'[q].todo = mem[q].todo /\ \A v : First(q, v)' <=> First(q, v)
  BY <1>d, <1>e DEF First
<1>k. \A q \in Runners : pc'[q] \in {"save", "capture"} =>
        pc[q] \in {"save", "capture"} /\ target'[q] = target[q]
  BY <1>f
<1>1. StoreTypeOK'
  BY <1>c, <1>e, <1>f DEF StoreTypeOK
<1>2. ExclusiveInv' /\ RestoreLockInv'
  BY <1>d, <1>e, <1>f, <1>g DEF ExclusiveInv, Removing, RestoreLockInv
<1>3. RemovalLockInv'
  BY <1>f, <1>h DEF RemovalLockInv, Removing
<1>4. RankInv' /\ RunnerInv'
  BY ZenonT(40), <1>d, <1>e, <1>f, <1>g DEF RankInv, Superseded, RunnerInv
<1>5. SavedInv'
  BY <1>d, <1>e, <1>f, <1>g DEF SavedInv
<1>6. EndedInv'
  BY <1>d, <1>e, <1>f, <1>g DEF EndedInv, Idle
<1>7. RunMemoryInv'
  BY <1>d, <1>e, <1>f, <1>g DEF RunMemoryInv, RunMemory, Unretained, Idle
<1>8. RunDiskInv'
  BY <1>d, <1>e, <1>f, <1>g DEF RunDiskInv, RunDisk, Unretained, Idle, Sealed, Newest
<1>9. RestoreInv'
  BY <1>d, <1>e, <1>f, <1>g DEF RestoreInv, Idle, Sealed, Newest
<1>10. TodoInv'
  BY <1>f, <1>h, <1>k, RemovalsKept DEF TodoInv
<1>11. PreviewInv'
  <2>1. \A q \in Pruners : RemovalsOK(preview'[q].removals) /\ CapturedOK(preview'[q].removals)
    BY <1>c DEF PreviewInv
  <2> QED BY <1>f, <1>k, <2>1, RemovalsKept DEF PreviewInv
<1>12. OrderInv'
  BY <1>f, <1>h DEF OrderInv, Sealed, Recording, Idle
<1>13. ConfirmInv'
  <2>1. \A q \in Pruners : pc'[q] \in Planning => preview'[q].removals = {}
    BY <1>c, <1>f DEF ConfirmInv, Planning
  <2>2. ASSUME NEW q \in Pruners, pc'[q] \in Applying
        PROVE  /\ mem'[q].token \in Pruners
               /\ mem'[q].todo \subseteq preview'[mem'[q].token].removals
    <3>1. CASE q = p
      BY <1>c, <1>e, <1>f, <2>2, <3>1 DEF Applying, Removing
    <3>2. CASE q # p
      <4>1. mem'[q] = mem[q] /\ pc[q] \in Applying
        BY <1>e, <1>f, <2>2, <3>2
      <4>2. /\ mem[q].token \in Pruners
            /\ mem[q].todo \subseteq preview[mem[q].token].removals
        BY <4>1 DEF ConfirmInv
      <4> QED BY <1>c, <4>1, <4>2
    <3> QED BY <3>1, <3>2
  <2>3. ASSUME NEW q \in Pruners, NEW s \in Sessions, q \in excl'[s]
        PROVE  /\ mem'[q].token \in Pruners
               /\ \E r \in preview'[mem'[q].token].removals : r.id = s
    <3>1. q # p /\ q \in excl[s]
      BY <1>f, <2>3 DEF ExclusiveInv, Removing
    <3> QED BY <1>c, <1>e, <3>1 DEF ConfirmInv
  <2> QED BY <2>1, <2>2, <2>3 DEF ConfirmInv
<1>14. NewestKept' /\ SealedMeansWhole' /\ UnretainedMeansGone'
  BY <1>d, <1>e, <1>f, <1>g DEF NewestKept, SealedMeansWhole, Sealed,
     UnretainedMeansGone
<1> QED BY <1>1, <1>2, <1>3, <1>4, <1>5, <1>6, <1>7, <1>8, <1>9, <1>10, <1>11, <1>12, <1>13,
   <1>14

LEMMA SavePreviewStep ==
  ASSUME StoreInv, NEW p \in Pruners, SavePreview(p)
  PROVE  StoreInv'
<1> USE DEF StoreInv
<1>e. /\ mem' \in [Procs -> Memories] /\ mem'[p] = NoMemory
      /\ \A q \in Procs : q # p => mem'[q] = mem[q]
  <2>1. NoMemory \in Memories
    BY DEF NoMemory, NoRecord
  <2>2. mem' = [mem EXCEPT ![p] = NoMemory]
    BY DEF SavePreview, Exit
  <2> QED BY <2>1, <2>2, MemoryStep
<1>f. /\ pc' \in [Procs -> StoreLabels] /\ pc'[p] = "start"
      /\ \A q \in Procs : q # p => pc'[q] = pc[q]
      /\ UNCHANGED <<record, saved, store, cap, excl, shared, target, cutoff, stamped,
                     overtaken>>
      /\ faults' \in Nat
  BY DEF SavePreview, Exit, Fault, StoreTypeOK
<1>g. p \notin Runners /\ p \notin Restorers /\ \A l \in Locks : p \notin excl[l]
  BY DEF SavePreview, ExclusiveInv, Removing
<1>h. NoMemory.todo = {} /\ NoMemory.ids = {} /\ NoMemory.token = 0
  BY DEF NoMemory
<1>i. \A q \in Procs : q # p => \A v : First(q, v)' <=> First(q, v)
  BY <1>e DEF First
<1>k. \A q \in Runners : pc'[q] \in {"save", "capture"} =>
        pc[q] \in {"save", "capture"} /\ target'[q] = target[q]
  BY <1>f
<1>a. preview[p].removals = {} /\ mem[p].todo \in SUBSET Removals
      /\ RemovalsOK(mem[p].todo) /\ CapturedOK(mem[p].todo)
  BY DEF SavePreview, ConfirmInv, Planning, TodoInv, StoreTypeOK
<1>c. /\ preview' \in [Pruners -> Previews]
      /\ preview'[p].removals \in {{}, mem[p].todo}
      /\ \A q \in Pruners : q # p => preview'[q] = preview[q]
  <2>1. CASE UNCHANGED preview
    BY <1>a, <2>1 DEF StoreTypeOK
  <2>2. CASE preview' = [preview EXCEPT ![p] =
               [issued |-> TRUE, old |-> FALSE, removals |-> mem[p].todo]]
    BY <1>a, <2>2 DEF StoreTypeOK
  <2> QED BY <2>1, <2>2 DEF SavePreview
<1>1. StoreTypeOK'
  BY <1>c, <1>e, <1>f DEF StoreTypeOK
<1>2. ExclusiveInv' /\ RestoreLockInv'
  BY <1>e, <1>f, <1>g, <1>h DEF ExclusiveInv, Removing, RestoreLockInv
<1>3. RemovalLockInv'
  BY <1>e, <1>f, <1>i DEF RemovalLockInv, Removing
<1>4. RankInv' /\ RunnerInv'
  BY <1>e, <1>f, <1>g, <1>h DEF RankInv, Superseded, RunnerInv
<1>5. SavedInv'
  BY <1>e, <1>f, <1>g, <1>h DEF SavedInv
<1>6. EndedInv'
  BY <1>e, <1>f, <1>g, <1>h DEF EndedInv, Idle
<1>7. RunMemoryInv'
  BY <1>e, <1>f, <1>g, <1>h DEF RunMemoryInv, RunMemory, Unretained, Idle
<1>8. RunDiskInv'
  BY <1>e, <1>f, <1>g, <1>h DEF RunDiskInv, RunDisk, Unretained, Idle, Sealed, Newest
<1>9. RestoreInv'
  BY <1>e, <1>f, <1>g, <1>h DEF RestoreInv, Idle, Sealed, Newest
<1>10. TodoInv'
  <2>1. \A q \in Procs : RemovalsOK(mem'[q].todo) /\ CapturedOK(mem'[q].todo)
    BY <1>e, <1>h DEF TodoInv, RemovalsOK, CapturedOK
  <2> QED BY <1>f, <1>k, <2>1, RemovalsKept DEF TodoInv
<1>11. PreviewInv'
  <2>1. \A q \in Pruners : RemovalsOK(preview'[q].removals) /\ CapturedOK(preview'[q].removals)
    BY <1>a, <1>c DEF PreviewInv, RemovalsOK, CapturedOK
  <2> QED BY <1>f, <1>k, <2>1, RemovalsKept DEF PreviewInv
<1>12. OrderInv'
  BY <1>e, <1>f, <1>i DEF OrderInv, Sealed, Recording, Idle
<1>13. ConfirmInv'
  <2>1. \A q \in Pruners : pc'[q] \in Planning => preview'[q].removals = {}
    BY <1>c, <1>f DEF ConfirmInv, Planning
  <2>2. ASSUME NEW q \in Pruners, pc'[q] \in Applying
        PROVE  /\ mem'[q].token \in Pruners
               /\ mem'[q].todo \subseteq preview'[mem'[q].token].removals
    <3>1. q # p /\ pc[q] \in Applying
      BY <1>f, <2>2 DEF Applying, Removing
    <3>2. CASE mem[q].token = p
      BY <1>a, <1>e, <3>1, <3>2 DEF ConfirmInv
    <3>3. CASE mem[q].token # p
      BY <1>c, <1>e, <3>1, <3>3 DEF ConfirmInv
    <3> QED BY <3>2, <3>3
  <2>3. ASSUME NEW q \in Pruners, NEW s \in Sessions, q \in excl'[s]
        PROVE  /\ mem'[q].token \in Pruners
               /\ \E r \in preview'[mem'[q].token].removals : r.id = s
    <3>1. q # p /\ q \in excl[s]
      BY <1>f, <1>g, <2>3
    <3>2. /\ mem[q].token \in Pruners
          /\ \E r \in preview[mem[q].token].removals : r.id = s
      BY <3>1 DEF ConfirmInv
    <3>3. mem'[q] = mem[q] /\ mem[q].token # p
      BY <1>a, <1>e, <3>1, <3>2
    <3> QED BY <1>c, <3>2, <3>3
  <2> QED BY <2>1, <2>2, <2>3 DEF ConfirmInv
<1>14. NewestKept' /\ SealedMeansWhole' /\ UnretainedMeansGone'
  BY <1>e, <1>f, <1>g, <1>h DEF NewestKept, SealedMeansWhole, Sealed,
     UnretainedMeansGone
<1> QED BY <1>1, <1>2, <1>3, <1>4, <1>5, <1>6, <1>7, <1>8, <1>9, <1>10, <1>11, <1>12, <1>13,
   <1>14

LEMMA ConfirmStep ==
  ASSUME StoreInv, NEW p \in Pruners, Confirm(p)
  PROVE  StoreInv'
<1> USE DEF StoreInv
<1>a. mem[p] \in Memories
  BY DEF StoreTypeOK
<1>b. PICK m \in Memories :
        /\ mem' = [mem EXCEPT ![p] = m]
        /\ m.ids = mem[p].ids /\ m.loaded = mem[p].loaded /\ m.over = mem[p].over
        /\ \/ m = mem[p] /\ pc' = pc
           \/ /\ pc' = [pc EXCEPT ![p] = "apply"] /\ m.token \in Pruners
              /\ m.todo = preview[m.token].removals
  <2>1. PICK q \in Pruners :
          IF preview[q].old THEN UNCHANGED <<pc, mem>>
          ELSE /\ mem' = [mem EXCEPT ![p].token = q, ![p].todo = preview[q].removals]
               /\ Goto(p, "apply")
    BY DEF Confirm
  <2>2. CASE preview[q].old
    BY <1>a, <2>1, <2>2 DEF StoreTypeOK
  <2>3. CASE ~preview[q].old
    <3> DEFINE m == [mem[p] EXCEPT !.token = q, !.todo = preview[q].removals]
    <3>1. mem' = [mem EXCEPT ![p] = m] /\ pc' = [pc EXCEPT ![p] = "apply"]
      BY <2>1, <2>3
    <3>2. preview[q].removals \in SUBSET Removals
      BY DEF StoreTypeOK
    <3>3. /\ m \in Memories /\ m.ids = mem[p].ids /\ m.loaded = mem[p].loaded
          /\ m.over = mem[p].over /\ m.token = q /\ m.todo = preview[q].removals
      BY <1>a, <3>2
    <3> HIDE DEF m
    <3> QED BY <3>1, <3>3
  <2> QED BY <2>2, <2>3
<1>e. /\ mem' \in [Procs -> Memories]
      /\ mem'[p] = m /\ \A q \in Procs : q # p => mem'[q] = mem[q]
  BY <1>b, MemoryStep
<1>c. /\ preview' \in [Pruners -> Previews]
      /\ \A q \in Pruners : preview'[q].removals = preview[q].removals
  BY CleanupKeeps DEF Confirm
<1>f. /\ pc[p] = "start" /\ pc' \in [Procs -> StoreLabels] /\ pc'[p] \in {"start", "apply"}
      /\ \A q \in Procs : q # p => pc'[q] = pc[q]
      /\ UNCHANGED <<record, saved, store, cap, excl, shared, target, cutoff, stamped,
                     overtaken, faults>>
  BY <1>b DEF Confirm, StoreTypeOK
<1>g. p \notin Runners /\ p \notin Restorers /\ \A l \in Locks : p \notin excl[l]
  BY <1>f DEF ExclusiveInv, Removing
<1>i. \A q \in Procs : q # p => \A v : First(q, v)' <=> First(q, v)
  BY <1>e DEF First
<1>j. pc'[p] = "apply" => m.token \in Pruners /\ m.todo = preview[m.token].removals
  BY <1>b, <1>f
<1>k. \A q \in Runners : pc'[q] \in {"save", "capture"} =>
        pc[q] \in {"save", "capture"} /\ target'[q] = target[q]
  BY <1>f
<1>1. StoreTypeOK'
  BY <1>c, <1>e, <1>f DEF StoreTypeOK
<1>2. ExclusiveInv' /\ RestoreLockInv'
  BY <1>b, <1>e, <1>f, <1>g DEF ExclusiveInv, Removing, RestoreLockInv
<1>3. RemovalLockInv'
  BY <1>e, <1>f, <1>i DEF RemovalLockInv, Removing
<1>4. RankInv' /\ RunnerInv'
  BY SMTT(30), <1>b, <1>e, <1>f, <1>g DEF RankInv, Superseded, RunnerInv
<1>5. SavedInv'
  BY <1>b, <1>e, <1>f, <1>g DEF SavedInv
<1>6. EndedInv'
  BY <1>b, <1>e, <1>f, <1>g DEF EndedInv, Idle
<1>7. RunMemoryInv'
  BY <1>b, <1>e, <1>f, <1>g DEF RunMemoryInv, RunMemory, Unretained, Idle
<1>8. RunDiskInv'
  BY <1>b, <1>e, <1>f, <1>g DEF RunDiskInv, RunDisk, Unretained, Idle, Sealed, Newest
<1>9. RestoreInv'
  BY <1>b, <1>e, <1>f, <1>g DEF RestoreInv, Idle, Sealed, Newest
<1>10. TodoInv'
  <2>1. m.todo = mem[p].todo \/ \E q \in Pruners : m.todo = preview[q].removals
    BY <1>b
  <2>2. \A q \in Procs : RemovalsOK(mem'[q].todo) /\ CapturedOK(mem'[q].todo)
    BY <1>e, <2>1 DEF TodoInv, PreviewInv
  <2> QED BY <1>f, <1>k, <2>2, RemovalsKept DEF TodoInv
<1>11. PreviewInv'
  <2>1. \A q \in Pruners : RemovalsOK(preview'[q].removals) /\ CapturedOK(preview'[q].removals)
    BY <1>c DEF PreviewInv
  <2> QED BY <1>f, <1>k, <2>1, RemovalsKept DEF PreviewInv
<1>12. OrderInv'
  BY <1>e, <1>f, <1>i DEF OrderInv, Sealed, Recording, Idle
<1>13. ConfirmInv'
  <2>1. \A q \in Pruners : pc'[q] \in Planning => preview'[q].removals = {}
    BY <1>c, <1>f DEF ConfirmInv, Planning
  <2>2. ASSUME NEW q \in Pruners, pc'[q] \in Applying
        PROVE  /\ mem'[q].token \in Pruners
               /\ mem'[q].todo \subseteq preview'[mem'[q].token].removals
    <3>1. CASE q = p
      BY <1>c, <1>e, <1>f, <1>j, <2>2, <3>1 DEF Applying, Removing
    <3>2. CASE q # p
      <4>1. mem'[q] = mem[q] /\ pc[q] \in Applying
        BY <1>e, <1>f, <2>2, <3>2
      <4>2. /\ mem[q].token \in Pruners
            /\ mem[q].todo \subseteq preview[mem[q].token].removals
        BY <4>1 DEF ConfirmInv
      <4> QED BY <1>c, <4>1, <4>2
    <3> QED BY <3>1, <3>2
  <2>3. ASSUME NEW q \in Pruners, NEW s \in Sessions, q \in excl'[s]
        PROVE  /\ mem'[q].token \in Pruners
               /\ \E r \in preview'[mem'[q].token].removals : r.id = s
    <3>1. q # p /\ q \in excl[s]
      BY <1>g, <1>f, <2>3
    <3> QED BY <1>c, <1>e, <3>1 DEF ConfirmInv
  <2> QED BY <2>1, <2>2, <2>3 DEF ConfirmInv
<1>14. NewestKept' /\ SealedMeansWhole' /\ UnretainedMeansGone'
  BY <1>b, <1>e, <1>f, <1>g DEF NewestKept, SealedMeansWhole, Sealed,
     UnretainedMeansGone
<1> QED BY <1>1, <1>2, <1>3, <1>4, <1>5, <1>6, <1>7, <1>8, <1>9, <1>10, <1>11, <1>12, <1>13,
   <1>14

LEMMA EndPruneStep ==
  ASSUME StoreInv, NEW p \in Pruners, EndPrune(p)
  PROVE  StoreInv'
<1> USE DEF StoreInv
<1>e. /\ mem' \in [Procs -> Memories] /\ mem'[p] = NoMemory
      /\ \A q \in Procs : q # p => mem'[q] = mem[q]
  <2>1. NoMemory \in Memories
    BY DEF NoMemory, NoRecord
  <2>2. mem' = [mem EXCEPT ![p] = NoMemory]
    BY DEF EndPrune, Exit
  <2> QED BY <2>1, <2>2, MemoryStep
<1>f. /\ pc' \in [Procs -> StoreLabels] /\ pc'[p] = "start"
      /\ \A q \in Procs : q # p => pc'[q] = pc[q]
      /\ UNCHANGED <<record, saved, store, cap, excl, shared, target, cutoff, stamped,
                     overtaken>>
      /\ faults' \in Nat
  BY DEF EndPrune, Exit, Fault, StoreTypeOK
<1>g. p \notin Runners /\ p \notin Restorers /\ \A l \in Locks : p \notin excl[l]
  BY DEF EndPrune, ExclusiveInv, Removing
<1>h. NoMemory.todo = {} /\ NoMemory.ids = {} /\ NoMemory.token = 0
  BY DEF NoMemory
<1>i. \A q \in Procs : q # p => \A v : First(q, v)' <=> First(q, v)
  BY <1>e DEF First
<1>k. \A q \in Runners : pc'[q] \in {"save", "capture"} =>
        pc[q] \in {"save", "capture"} /\ target'[q] = target[q]
  BY <1>f
<1>c. /\ preview' \in [Pruners -> Previews]
      /\ \A q \in Pruners : preview'[q].removals = preview[q].removals
  <2>1. CASE UNCHANGED preview
    BY <2>1 DEF StoreTypeOK
  <2>2. CASE preview' = [preview EXCEPT ![mem[p].token].issued = FALSE]
    <3>1. \A r \in Previews : /\ [r EXCEPT !.issued = FALSE] \in Previews
                              /\ [r EXCEPT !.issued = FALSE].removals = r.removals
      OBVIOUS
    <3>2. preview' = [q \in Pruners |-> IF q = mem[p].token
                        THEN [preview[q] EXCEPT !.issued = FALSE] ELSE preview[q]]
      BY <2>2 DEF StoreTypeOK
    <3>3. \A q \in Pruners : preview[q] \in Previews
      BY DEF StoreTypeOK
    <3> QED BY <3>1, <3>2, <3>3
  <2> QED BY <2>1, <2>2 DEF EndPrune
<1>1. StoreTypeOK'
  BY <1>c, <1>e, <1>f DEF StoreTypeOK
<1>2. ExclusiveInv' /\ RestoreLockInv'
  BY <1>e, <1>f, <1>g, <1>h DEF ExclusiveInv, Removing, RestoreLockInv
<1>3. RemovalLockInv'
  BY <1>e, <1>f, <1>i DEF RemovalLockInv, Removing
<1>4. RankInv' /\ RunnerInv'
  BY <1>e, <1>f, <1>g, <1>h DEF RankInv, Superseded, RunnerInv
<1>5. SavedInv'
  BY <1>e, <1>f, <1>g, <1>h DEF SavedInv
<1>6. EndedInv'
  BY <1>e, <1>f, <1>g, <1>h DEF EndedInv, Idle
<1>7. RunMemoryInv'
  BY <1>e, <1>f, <1>g, <1>h DEF RunMemoryInv, RunMemory, Unretained, Idle
<1>8. RunDiskInv'
  BY <1>e, <1>f, <1>g, <1>h DEF RunDiskInv, RunDisk, Unretained, Idle, Sealed, Newest
<1>9. RestoreInv'
  BY <1>e, <1>f, <1>g, <1>h DEF RestoreInv, Idle, Sealed, Newest
<1>10. TodoInv'
  <2>1. \A q \in Procs : RemovalsOK(mem'[q].todo) /\ CapturedOK(mem'[q].todo)
    BY <1>e, <1>h DEF TodoInv, RemovalsOK, CapturedOK
  <2> QED BY <1>f, <1>k, <2>1, RemovalsKept DEF TodoInv
<1>11. PreviewInv'
  <2>1. \A q \in Pruners : RemovalsOK(preview'[q].removals) /\ CapturedOK(preview'[q].removals)
    BY <1>c DEF PreviewInv
  <2> QED BY <1>f, <1>k, <2>1, RemovalsKept DEF PreviewInv
<1>12. OrderInv'
  BY <1>e, <1>f, <1>i DEF OrderInv, Sealed, Recording, Idle
<1>13. ConfirmInv'
  <2>1. \A q \in Pruners : pc'[q] \in Planning => preview'[q].removals = {}
    BY <1>c, <1>f DEF ConfirmInv, Planning
  <2>2. ASSUME NEW q \in Pruners, pc'[q] \in Applying
        PROVE  /\ mem'[q].token \in Pruners
               /\ mem'[q].todo \subseteq preview'[mem'[q].token].removals
    <3>1. CASE q = p
      BY <1>c, <1>e, <1>f, <2>2, <3>1 DEF Applying, Removing
    <3>2. CASE q # p
      <4>1. mem'[q] = mem[q] /\ pc[q] \in Applying
        BY <1>e, <1>f, <2>2, <3>2
      <4>2. /\ mem[q].token \in Pruners
            /\ mem[q].todo \subseteq preview[mem[q].token].removals
        BY <4>1 DEF ConfirmInv
      <4> QED BY <1>c, <4>1, <4>2
    <3> QED BY <3>1, <3>2
  <2>3. ASSUME NEW q \in Pruners, NEW s \in Sessions, q \in excl'[s]
        PROVE  /\ mem'[q].token \in Pruners
               /\ \E r \in preview'[mem'[q].token].removals : r.id = s
    <3>1. q # p /\ q \in excl[s]
      BY <1>g, <1>f, <2>3
    <3> QED BY <1>c, <1>e, <3>1 DEF ConfirmInv
  <2> QED BY <2>1, <2>2, <2>3 DEF ConfirmInv
<1>14. NewestKept' /\ SealedMeansWhole' /\ UnretainedMeansGone'
  BY <1>e, <1>f, <1>g, <1>h DEF NewestKept, SealedMeansWhole, Sealed,
     UnretainedMeansGone
<1> QED BY <1>1, <1>2, <1>3, <1>4, <1>5, <1>6, <1>7, <1>8, <1>9, <1>10, <1>11, <1>12, <1>13,
   <1>14

(***************************************************************************)
(* The environment.                                                        *)
(***************************************************************************)
LEMMA SessionAgesStep ==
  ASSUME StoreInv, SessionAges
  PROVE  StoreInv'
<1> USE DEF StoreInv
<1>1. StoreTypeOK'
  BY DEF SessionAges, StoreTypeOK
<1>2. ExclusiveInv' /\ RemovalLockInv' /\ RestoreLockInv'
  BY DEF SessionAges, StoreTypeOK, ExclusiveInv, Removing, RemovalLockInv, First,
     RestoreLockInv
<1>3. RankInv' /\ RunnerInv'
  BY DEF SessionAges, StoreTypeOK, RankInv, Superseded, RunnerInv
<1>4. SavedInv'
  BY DEF SessionAges, StoreTypeOK, SavedInv
<1>5. EndedInv'
  BY DEF SessionAges, StoreTypeOK, EndedInv, Idle
<1>6. RunMemoryInv'
  BY DEF SessionAges, StoreTypeOK, RunMemoryInv, RunMemory, Unretained, Idle
<1>7. RunDiskInv'
  BY DEF SessionAges, StoreTypeOK, RunDiskInv, RunDisk, Unretained, Idle, Sealed,
     Newest
<1>8. RestoreInv'
  BY DEF SessionAges, StoreTypeOK, RestoreInv, Idle, Sealed, Newest
<1>9. TodoInv' /\ PreviewInv'
  BY DEF SessionAges, StoreTypeOK, TodoInv, RemovalsOK, CapturedOK, Superseded,
     PreviewInv
<1>10. OrderInv'
  BY DEF SessionAges, StoreTypeOK, OrderInv, First, Sealed, Recording, Idle
<1>11. ConfirmInv'
  BY DEF SessionAges, StoreTypeOK, ConfirmInv, Planning, Applying, Removing
<1>12. NewestKept' /\ SealedMeansWhole' /\ UnretainedMeansGone'
  BY DEF SessionAges, StoreTypeOK, NewestKept, SealedMeansWhole, Sealed,
     UnretainedMeansGone
<1> QED BY <1>1, <1>2, <1>3, <1>4, <1>5, <1>6, <1>7, <1>8, <1>9, <1>10, <1>11, <1>12

LEMMA PreviewAgesStep ==
  ASSUME StoreInv, PreviewAges
  PROVE  StoreInv'
<1> USE DEF StoreInv
<1>a. PICK q \in Pruners : preview' = [preview EXCEPT ![q].old = TRUE]
  BY DEF PreviewAges
<1>b. [preview[q] EXCEPT !.old = TRUE] \in Previews
  <2>1. preview[q] \in Previews
    BY DEF StoreTypeOK
  <2> QED BY <2>1
<1>1. StoreTypeOK'
  BY <1>a, <1>b DEF PreviewAges, StoreTypeOK
<1>2. ExclusiveInv' /\ RemovalLockInv' /\ RestoreLockInv'
  BY DEF PreviewAges, StoreTypeOK, ExclusiveInv, Removing, RemovalLockInv, First,
     RestoreLockInv
<1>3. RankInv' /\ RunnerInv'
  BY DEF PreviewAges, StoreTypeOK, RankInv, Superseded, RunnerInv
<1>4. SavedInv'
  BY DEF PreviewAges, StoreTypeOK, SavedInv
<1>5. EndedInv'
  BY DEF PreviewAges, StoreTypeOK, EndedInv, Idle
<1>6. RunMemoryInv'
  BY DEF PreviewAges, StoreTypeOK, RunMemoryInv, RunMemory, Unretained, Idle
<1>7. RunDiskInv'
  BY DEF PreviewAges, StoreTypeOK, RunDiskInv, RunDisk, Unretained, Idle, Sealed,
     Newest
<1>8. RestoreInv'
  BY DEF PreviewAges, StoreTypeOK, RestoreInv, Idle, Sealed, Newest
<1>9. TodoInv' /\ PreviewInv'
  BY DEF PreviewAges, StoreTypeOK, TodoInv, RemovalsOK, CapturedOK, Superseded,
     PreviewInv
<1>10. OrderInv'
  BY ZenonT(40) DEF PreviewAges, StoreTypeOK, OrderInv, First, Sealed, Recording, Idle
<1>11. ConfirmInv'
  BY DEF PreviewAges, StoreTypeOK, ConfirmInv, Planning, Applying, Removing
<1>12. NewestKept' /\ SealedMeansWhole' /\ UnretainedMeansGone'
  BY DEF PreviewAges, StoreTypeOK, NewestKept, SealedMeansWhole, Sealed,
     UnretainedMeansGone
<1> QED BY <1>1, <1>2, <1>3, <1>4, <1>5, <1>6, <1>7, <1>8, <1>9, <1>10, <1>11, <1>12

LEMMA KillStep ==
  ASSUME StoreInv, NEW p \in Procs, Kill(p)
  PROVE  StoreInv'
<1> USE DEF StoreInv
<1>e. /\ mem' \in [Procs -> Memories] /\ mem'[p] = NoMemory
      /\ \A q \in Procs : q # p => mem'[q] = mem[q]
  <2>1. NoMemory \in Memories
    BY DEF NoMemory, NoRecord
  <2>2. mem' = [mem EXCEPT ![p] = NoMemory]
    BY DEF Kill, Exit
  <2> QED BY <2>1, <2>2, MemoryStep
<1>1. StoreTypeOK'
  <2>1. excl' \in [Locks -> SUBSET Procs] /\ shared' \in [Locks -> SUBSET Procs]
    BY DEF Kill, Release, StoreTypeOK
  <2> QED BY <1>e, <2>1 DEF Kill, Exit, Fault, StoreTypeOK
<1>2. ExclusiveInv' /\ RemovalLockInv' /\ RestoreLockInv'
  BY DEF Kill, StoreTypeOK, ExclusiveInv, Removing, Exit, NoMemory, NoRecord, Release,
     Fault, Idle, RemovalLockInv, First, RestoreLockInv
<1>3. RankInv' /\ RunnerInv'
  BY DEF Kill, StoreTypeOK, RankInv, Superseded, Exit, NoMemory, NoRecord, Release,
     Fault, Idle, RunnerInv
<1>4. SavedInv'
  BY DEF Kill, StoreTypeOK, SavedInv, Exit, NoMemory, NoRecord, Release, Fault, Idle
<1>5. EndedInv'
  BY DEF Kill, StoreTypeOK, EndedInv, Idle, Exit, NoMemory, NoRecord, Release, Fault
<1>6. RunMemoryInv'
  BY DEF Kill, StoreTypeOK, RunMemoryInv, RunMemory, Unretained, Idle, Exit, NoMemory,
     NoRecord, Release, Fault
<1>7. RunDiskInv'
  BY DEF Kill, StoreTypeOK, RunDiskInv, RunDisk, Unretained, Idle, Sealed, Newest,
     Exit, NoMemory, NoRecord, Release, Fault
<1>8. RestoreInv'
  BY DEF Kill, StoreTypeOK, RestoreInv, Idle, Sealed, Newest, Exit, NoMemory, NoRecord,
     Release, Fault
<1>9. TodoInv' /\ PreviewInv'
  BY DEF Kill, StoreTypeOK, TodoInv, RemovalsOK, CapturedOK, Superseded, Exit, NoMemory,
     NoRecord, Release, Fault, Idle, PreviewInv
<1>10. OrderInv'
  BY DEF Kill, StoreTypeOK, OrderInv, First, Sealed, Recording, Exit, NoMemory,
     NoRecord, Release, Fault, Idle
<1>11. ConfirmInv'
  BY DEF Kill, StoreTypeOK, ConfirmInv, Planning, Applying, Removing, Exit, NoMemory,
     NoRecord, Release, Fault, Idle
<1>12. NewestKept' /\ SealedMeansWhole' /\ UnretainedMeansGone'
  BY DEF Kill, StoreTypeOK, NewestKept, Exit, NoMemory, NoRecord, Release, Fault, Idle,
     SealedMeansWhole, Sealed, UnretainedMeansGone
<1> QED BY <1>1, <1>2, <1>3, <1>4, <1>5, <1>6, <1>7, <1>8, <1>9, <1>10, <1>11, <1>12

(***************************************************************************)
(* The invariant holds initially and every step keeps it.                  *)
(***************************************************************************)
LEMMA RetainStep ==
  ASSUME StoreInv, NEW p \in Runners \cup Pruners, Retain(p)
  PROVE  StoreInv'
BY ListStep, PlanStep, ApplyLockStep, LockSessionStep, RemoveManifestStep,
   RemoveCloneStep, RemoveDirStep, FinalizeStep, EndApplyStep DEF Retain

LEMMA RunStep ==
  ASSUME StoreInv, NEW p \in Runners, Run(p)
  PROVE  StoreInv'
BY RetainStep, BeginStep, SavePendingStep, CaptureStep, MeasureStep, FailMeasureStep,
   NoteCaptureStep, FailRemovalStep, NoteRetentionStep, SealStep, SealInterruptedStep,
   RecordEndStep, FailRunStep DEF Run

LEMMA RestoreStep ==
  ASSUME StoreInv, NEW p \in Restorers, Restore(p)
  PROVE  StoreInv'
BY FindStep, ReadLockStep, LoadExactStep, RecordRestoreStep, ListChangesStep DEF Restore

LEMMA PruneStep ==
  ASSUME StoreInv, NEW p \in Pruners, Prune(p)
  PROVE  StoreInv'
BY RetainStep, PreviewStep, FailRemovalStep, SavePreviewStep, ConfirmStep, EndPruneStep
   DEF Prune

LEMMA StutterStep ==
  ASSUME StoreInv, UNCHANGED vars
  PROVE  StoreInv'
<1> USE DEF vars, StoreInv
<1>1. StoreTypeOK'
  BY DEF StoreTypeOK
<1>2. ExclusiveInv'
  BY DEF ExclusiveInv
<1>3. RemovalLockInv'
  BY DEF RemovalLockInv, First
<1>4. RestoreLockInv'
  BY DEF RestoreLockInv
<1>5. RankInv'
  BY DEF RankInv, Superseded
<1>6. RunnerInv'
  BY DEF RunnerInv
<1>7. SavedInv'
  BY DEF SavedInv
<1>8. EndedInv'
  BY DEF EndedInv, Idle
<1>9. RunMemoryInv'
  BY DEF RunMemoryInv, RunMemory, Unretained, Idle
<1>10. RunDiskInv'
  BY DEF RunDiskInv, RunDisk, Unretained, Idle, Sealed, Newest
<1>11. RestoreInv'
  BY DEF RestoreInv, Idle, Sealed, Newest
<1>12. TodoInv'
  BY DEF TodoInv, RemovalsOK, CapturedOK, Superseded
<1>13. PreviewInv'
  BY DEF PreviewInv, RemovalsOK, CapturedOK, Superseded
<1>14. OrderInv'
  BY DEF OrderInv, First, Sealed, Recording, Idle
<1>15. ConfirmInv'
  BY DEF ConfirmInv
<1>16. NewestKept'
  BY DEF NewestKept
<1>17. SealedMeansWhole'
  BY DEF SealedMeansWhole, Sealed
<1>18. UnretainedMeansGone'
  BY DEF UnretainedMeansGone, Sealed
<1> QED BY <1>1, <1>2, <1>3, <1>4, <1>5, <1>6, <1>7, <1>8, <1>9, <1>10, <1>11, <1>12,
   <1>13, <1>14, <1>15, <1>16, <1>17, <1>18

LEMMA StoreInductive ==
  ASSUME StoreInv, [Next]_vars
  PROVE  StoreInv'
<1>1. ASSUME NEW p \in Procs, Step(p)
      PROVE  StoreInv'
  BY <1>1, RunStep, RestoreStep, PruneStep DEF Step
<1>2. ASSUME NEW p \in Procs, Kill(p)
      PROVE  StoreInv'
  BY <1>2, KillStep
<1>3. CASE SessionAges
  BY <1>3, SessionAgesStep
<1>4. CASE PreviewAges
  BY <1>4, PreviewAgesStep
<1>5. CASE UNCHANGED vars
  BY <1>5, StutterStep
<1> QED BY <1>1, <1>2, <1>3, <1>4, <1>5 DEF Next, Terminated

LEMMA StoreInitial ==
  ASSUME StateDirInit
  PROVE  StoreInv
<1>1. NoMemory \in Memories /\ NoMemory.todo = {} /\ NoMemory.ids = {} /\ ~NoMemory.over
      /\ NoMemory.loaded = NoRecord
  BY DEF NoMemory, NoRecord
<1>2. /\ \A p \in Procs : pc[p] = "start" /\ target[p] = 0 /\ mem[p] = NoMemory
      /\ \A l \in Locks : excl[l] = {} /\ shared[l] = {}
      /\ \A p \in Pruners : preview[p].removals = {}
      /\ stamped = 1..OldSessions /\ saved = 1..OldSessions /\ 1..OldSessions \subseteq Sessions
      /\ overtaken = {}
  BY DEF StateDirInit, NoPreview
<1>3. \A s \in Sessions :
        /\ s \in saved => /\ record[s].exists /\ record[s].retained
                          /\ store[s].dir /\ store[s].manifest = "sealed" /\ store[s].clone
        /\ s \notin saved => /\ ~record[s].exists /\ ~record[s].retained /\ ~record[s].ended
                             /\ ~store[s].dir /\ store[s].manifest = "none" /\ ~store[s].clone
  BY <1>2 DEF StateDirInit, NoRecord, NoStore
<1>4. StoreTypeOK
  BY <1>1 DEF StateDirInit, StoreTypeOK, NoPreview, NoRecord, NoStore
<1>5. ExclusiveInv /\ RemovalLockInv /\ RestoreLockInv
  BY <1>2 DEF ExclusiveInv, RemovalLockInv, RestoreLockInv, Removing
<1>6. RankInv /\ RunnerInv
  BY <1>2 DEF RankInv, Superseded, RunnerInv
<1>7. SavedInv /\ EndedInv
  BY <1>1, <1>2, <1>3 DEF SavedInv, EndedInv
<1>8. RunMemoryInv /\ RunDiskInv /\ RestoreInv
  BY <1>1, <1>2 DEF RunMemoryInv, RunMemory, RunDiskInv, RunDisk, Unretained,
     RestoreInv, Idle
<1>9. TodoInv /\ PreviewInv /\ OrderInv /\ ConfirmInv
  BY <1>1, <1>2 DEF TodoInv, PreviewInv, OrderInv, ConfirmInv, RemovalsOK, CapturedOK,
     Planning, Applying, Removing
<1>10. NewestKept /\ SealedMeansWhole /\ UnretainedMeansGone
  BY <1>2, <1>3 DEF NewestKept, SealedMeansWhole, UnretainedMeansGone, Sealed
<1> QED BY <1>4, <1>5, <1>6, <1>7, <1>8, <1>9, <1>10 DEF StoreInv

(* Every reachable state satisfies the inductive invariant. *)
THEOREM StoreInvariant == Spec => []StoreInv
BY StoreInitial, StoreInductive, PTL DEF Spec

(* Type correctness of the whole state directory and of every process. *)
THEOREM StoreTypeCorrect == Spec => []StoreTypeOK
<1>1. StoreInv => StoreTypeOK
  BY DEF StoreInv
<1> QED BY <1>1, StoreInvariant, PTL

(* README.md:239: no interleaving of runs, saved previews, restores and    *)
(* kills removes the newest session ever recorded, or its clone.  A plan   *)
(* names only superseded sessions, and nothing un-supersedes one.          *)
THEOREM NewestIsKept == Spec => []NewestKept
<1>1. StoreInv => NewestKept
  BY DEF StoreInv
<1> QED BY <1>1, StoreInvariant, PTL

(* removeSnapshotTree: however often a removal is interrupted, a store     *)
(* whose manifest says that it is sealed has its clone, unless a removal   *)
(* took its manifest away while its own run had not ended.  By OrderInv    *)
(* nobody else can write that manifest back.                               *)
THEOREM SealedIsWhole == Spec => []SealedMeansWhole
<1>1. StoreInv => SealedMeansWhole
  BY DEF StoreInv
<1> QED BY <1>1, StoreInvariant, PTL

(* A finished session whose record denies its clone has no sealed store.   *)
THEOREM UnretainedIsGone == Spec => []UnretainedMeansGone
<1>1. StoreInv => UnretainedMeansGone
  BY DEF StoreInv
<1> QED BY <1>1, StoreInvariant, PTL

(***************************************************************************)
(* Who writes a record or a store, and under which lock.  From this the    *)
(* action properties follow.                                               *)
(***************************************************************************)
Removes(p, s) ==
  /\ p \in Procs /\ pc[p] \in Removing /\ p \in excl[s] /\ shared[s] = {}
  /\ \E r \in mem[p].todo : r.id = s /\ (~record'[s].exists => r.expired)

RecordWritten(s) ==
  \/ record'[s] = record[s]
  \/ record'[s].exists /\ (record[s].exists \/ Recording(s))
  \/ ~record'[s].exists /\ \E p \in Procs : Removes(p, s)

StoreWritten(s) ==
  \/ store'[s] = store[s]
  \/ ~Sealed(s)
  \/ \E p \in Procs : p \in excl[s] /\ shared[s] = {}

\* What both say of the process that takes a step.
Written == \A s \in Sessions : RecordWritten(s) /\ StoreWritten(s)

LEMMA UnchangedWritten ==
  ASSUME UNCHANGED <<record, store>>
  PROVE  Written
BY DEF Written, RecordWritten, StoreWritten

LEMMA RemovalWritten ==
  ASSUME StoreInv, NEW p \in Runners \cup Pruners, NEW r \in mem[p].todo,
         First(p, r), pc[p] \in Removing, UNCHANGED record,
         \A s \in Sessions : s # r.id => store'[s] = store[s]
  PROVE  Written
<1>1. r.id \in Sessions /\ p \in excl[r.id] /\ shared[r.id] = {}
  BY DEF StoreInv, StoreTypeOK, RemovalLockInv, ExclusiveInv
<1> QED BY <1>1 DEF Written, RecordWritten, StoreWritten

LEMMA FinalizeWritten ==
  ASSUME StoreInv, NEW p \in Runners \cup Pruners, Finalize(p)
  PROVE  Written
<1>1. PICK r \in mem[p].todo : First(p, r) /\ Finalized(r)
  BY DEF Finalize
<1>2. /\ r.id \in Sessions /\ record \in [Sessions -> Records] /\ pc[p] = "finalize"
      /\ UNCHANGED store
  BY DEF Finalize, StoreInv, StoreTypeOK
<1>3. p \in excl[r.id] /\ shared[r.id] = {}
  BY <1>1, <1>2 DEF StoreInv, RemovalLockInv, ExclusiveInv, Removing
<1>4. \A s \in Sessions : s # r.id => record'[s] = record[s]
  BY <1>1, <1>2 DEF Finalized, DeleteLocked, SaveLocked
<1>5. CASE r.expired
  <2>1. ~record'[r.id].exists
    BY <1>1, <1>2, <1>5 DEF Finalized, DeleteLocked, NoRecord
  <2> QED BY <1>2, <1>3, <1>4, <1>5, <2>1
    DEF Written, RecordWritten, StoreWritten, Removes, Removing
<1>6. CASE ~r.expired /\ record[r.id].exists
  <2>1. record'[r.id].exists
    BY <1>1, <1>2, <1>6 DEF Finalized, SaveLocked
  <2> QED BY <1>2, <1>4, <1>6, <2>1 DEF Written, RecordWritten, StoreWritten
<1>7. CASE ~r.expired /\ ~record[r.id].exists
  BY <1>1, <1>2, <1>7, UnchangedWritten DEF Finalized
<1> QED BY <1>5, <1>6, <1>7

LEMMA RetainWritten ==
  ASSUME StoreInv, NEW p \in Runners \cup Pruners, Retain(p)
  PROVE  Written
<1>1. CASE List(p) \/ Plan(p) \/ ApplyLock(p) \/ LockSession(p) \/ EndApply(p)
  BY <1>1, UnchangedWritten DEF List, Plan, ApplyLock, LockSession, EndApply
<1>2. CASE RemoveManifest(p) \/ RemoveClone(p) \/ RemoveDir(p)
  <2>1. store \in [Sessions -> Stores]
    BY DEF StoreInv, StoreTypeOK
  <2>2. PICK r \in mem[p].todo :
          First(p, r) /\ \A s \in Sessions : s # r.id => store'[s] = store[s]
    BY <1>2, <2>1 DEF RemoveManifest, RemoveClone, RemoveDir
  <2> QED BY <1>2, <2>2, RemovalWritten DEF RemoveManifest, RemoveClone, RemoveDir, Removing
<1>3. CASE Finalize(p)
  BY <1>3, FinalizeWritten
<1> QED BY <1>1, <1>2, <1>3 DEF Retain

LEMMA RunWritten ==
  ASSUME StoreInv, NEW p \in Runners, Run(p)
  PROVE  Written
<1>1. CASE Begin(p) \/ FailRemoval(p) \/ FailRun(p)
  BY <1>1, UnchangedWritten DEF Begin, FailRemoval, FailRun
<1>2. CASE SavePending(p) \/ NoteCapture(p) \/ NoteRetention(p) \/ RecordEnd(p)
  <2> DEFINE s == target[p]
  <2>1. ~Idle(p) /\ UNCHANGED store
    BY <1>2 DEF SavePending, NoteCapture, NoteRetention, RecordEnd, Update, Idle
  <2>2. s \in Sessions /\ record \in [Sessions -> Records] /\ mem[p].loaded.exists
    BY <2>1, RunTarget DEF StoreInv, StoreTypeOK, RunMemoryInv, RunMemory, Unretained
  <2>3. record'[s].exists /\ \A u \in Sessions : u # s => record'[u] = record[u]
    <3>1. mem[p].loaded \in Records
      BY DEF StoreInv, StoreTypeOK
    <3>2. [mem[p].loaded EXCEPT !.ended = TRUE].exists
      BY <2>2, <3>1
    <3>3. PICK c : record' = [record EXCEPT ![s] = c] /\ c.exists
      BY <1>2, <2>2, <3>2
      DEF SavePending, NoteCapture, NoteRetention, RecordEnd, Update, Save
    <3> QED BY <2>2, <3>3
  <2>4. Recording(s)
    BY <2>1 DEF Recording
  <2> QED BY <2>1, <2>3, <2>4 DEF Written, RecordWritten, StoreWritten
<1>3. CASE Capture(p) \/ Measure(p) \/ FailMeasure(p) \/ Seal(p) \/ SealInterrupted(p)
  <2> DEFINE s == target[p]
  <2>1. UNCHANGED record /\ \A u \in Sessions : u # s => store'[u] = store[u]
    <3>1. store \in [Sessions -> Stores]
      BY DEF StoreInv, StoreTypeOK
    <3> QED BY <1>3, <3>1 DEF Capture, Measure, FailMeasure, Seal, SealInterrupted, WriteSealed
  <2>2. ~Sealed(s)
    <3>1. s \in Sessions /\ ~Idle(p)
      BY <1>3, RunTarget DEF Capture, Measure, FailMeasure, Seal, SealInterrupted, Idle
    <3>2. CASE Capture(p) \/ Measure(p) \/ FailMeasure(p)
      BY <3>1, <3>2 DEF Capture, Measure, FailMeasure, StoreInv, RunMemoryInv, RunMemory,
         Unretained, RunDiskInv, RunDisk
    <3>3. CASE Seal(p) \/ SealInterrupted(p)
      BY <3>1, <3>3 DEF Seal, SealInterrupted, WriteSealed, StoreInv, RunDiskInv,
         RunDisk, Unretained
    <3> QED BY <1>3, <3>2, <3>3
  <2> QED BY <2>1, <2>2 DEF Written, RecordWritten, StoreWritten
<1>4. CASE Retain(p)
  BY <1>4, RetainWritten
<1> QED BY <1>1, <1>2, <1>3, <1>4 DEF Run

LEMMA RestoreWritten ==
  ASSUME StoreInv, NEW p \in Restorers, Restore(p)
  PROVE  Written
<1>1. CASE Find(p) \/ ReadLock(p) \/ LoadExact(p) \/ ListChanges(p)
  BY <1>1, UnchangedWritten DEF Find, ReadLock, LoadExact, ListChanges
<1>2. CASE RecordRestore(p)
  <2> DEFINE s == target[p]
  <2>1. /\ s \in Sessions /\ record[s].exists /\ mem[p].loaded.exists
        /\ record \in [Sessions -> Records]
    BY <1>2 DEF RecordRestore, StoreInv, StoreTypeOK, RestoreLockInv, RestoreInv
  <2>2. /\ UNCHANGED store /\ record'[s].exists
        /\ \A u \in Sessions : u # s => record'[u] = record[u]
    BY <1>2, <2>1 DEF RecordRestore, SaveLocked
  <2> QED BY <2>1, <2>2 DEF Written, RecordWritten, StoreWritten
<1> QED BY <1>1, <1>2 DEF Restore

LEMMA StepWritten ==
  ASSUME StoreInv, [Next]_vars
  PROVE  Written
<1>1. ASSUME NEW p \in Pruners, Prune(p)
      PROVE  Written
  <2>1. CASE Preview(p) \/ FailRemoval(p) \/ SavePreview(p) \/ Confirm(p) \/ EndPrune(p)
    BY <2>1, UnchangedWritten DEF Preview, FailRemoval, SavePreview, Confirm, EndPrune
  <2>2. CASE Retain(p)
    BY <2>2, RetainWritten
  <2> QED BY <1>1, <2>1, <2>2 DEF Prune
<1>2. ASSUME NEW p \in Procs, Step(p)
      PROVE  Written
  BY <1>1, <1>2, RunWritten, RestoreWritten DEF Step
<1>3. ASSUME NEW p \in Procs, Kill(p)
      PROVE  Written
  BY <1>3, UnchangedWritten DEF Kill
<1>4. CASE SessionAges \/ PreviewAges \/ UNCHANGED vars
  BY <1>4, UnchangedWritten DEF SessionAges, PreviewAges, vars
<1> QED BY <1>2, <1>3, <1>4 DEF Next, Terminated

(* lock.go:17: between its lock and its last write a restore is right      *)
(* about the record and about a sealed store, whatever runs, removals and  *)
(* other restores do meanwhile.                                            *)
THEOREM RestoreReadsStable == Spec => ReadsStable
<1>1. ASSUME StoreInv, [Next]_vars, NEW p \in Restorers,
             pc[p] = "restore" /\ pc'[p] # "dead"
      PROVE  /\ record'[target[p]].exists
             /\ mem[p].usable => store'[target[p]] = store[target[p]]
  <2>1. target[p] \in Sessions /\ p \in shared[target[p]]
    BY <1>1 DEF StoreInv, RestoreLockInv
  <2>2. record[target[p]].exists /\ (mem[p].usable => Sealed(target[p]))
    BY <1>1 DEF StoreInv, RestoreInv
  <2>3. RecordWritten(target[p]) /\ StoreWritten(target[p])
    BY <1>1, <2>1, StepWritten DEF Written
  <2> QED BY <2>1, <2>2, <2>3 DEF RecordWritten, StoreWritten, Removes
<1>2. StoreInv /\ [Next]_vars =>
        [\A p \in Restorers :
           pc[p] = "restore" /\ pc'[p] # "dead" =>
             /\ record'[target[p]].exists
             /\ mem[p].usable => store'[target[p]] = store[target[p]]]_vars
  BY <1>1
<1> QED BY <1>2, StoreInvariant, PTL DEF Spec, ReadsStable

(* audit.go:171: a removed record stays removed, unless the run that       *)
(* records the session has not ended.                                      *)
THEOREM PrunedRecordsStay == Spec => PrunedStaysPruned
<1>1. ASSUME StoreInv, [Next]_vars, NEW s \in saved, ~record[s].exists, ~Recording(s)
      PROVE  ~record'[s].exists
  <2>1. s \in Sessions
    BY <1>1 DEF StoreInv, StoreTypeOK
  <2>2. RecordWritten(s)
    BY <1>1, <2>1, StepWritten DEF Written
  <2> QED BY <1>1, <2>2 DEF RecordWritten
<1>2. StoreInv /\ [Next]_vars =>
        [\A s \in saved : ~record[s].exists /\ ~Recording(s) => ~record'[s].exists]_vars
  BY <1>1
<1> QED BY <1>2, StoreInvariant, PTL DEF Spec, PrunedStaysPruned

(* prune --confirm stays within the preview it was given, and never makes  *)
(* more of a removal than was shown.                                       *)
THEOREM ConfirmRemovesShown == Spec => ConfirmsShown
<1>1. ASSUME StoreInv, [Next]_vars, NEW p \in Pruners, NEW s \in Sessions, p \in excl[s]
      PROVE  /\ record[s].exists /\ ~record'[s].exists =>
                  \E r \in preview[mem[p].token].removals : r.id = s /\ r.expired
             /\ store'[s] # store[s] => \E r \in preview[mem[p].token].removals : r.id = s
  <2>1. \E r \in preview[mem[p].token].removals : r.id = s
    BY <1>1 DEF StoreInv, ConfirmInv
  <2>2. ASSUME record[s].exists, ~record'[s].exists
        PROVE  \E r \in preview[mem[p].token].removals : r.id = s /\ r.expired
    <3>1. PICK q \in Procs : Removes(q, s)
      BY <1>1, <2>2, StepWritten DEF Written, RecordWritten
    <3>2. q = p
      BY <1>1, <3>1 DEF Removes, StoreInv, ExclusiveInv
    <3>3. mem[p].todo \subseteq preview[mem[p].token].removals
      <4>1. pc[p] \in Applying
        BY <3>1, <3>2 DEF Removes, Applying
      <4> QED BY <1>1, <4>1 DEF StoreInv, ConfirmInv
    <3> QED BY <2>2, <3>1, <3>2, <3>3 DEF Removes
  <2> QED BY <2>1, <2>2
<1>2. StoreInv /\ [Next]_vars =>
        [\A p \in Pruners, s \in Sessions :
           p \in excl[s] =>
             /\ record[s].exists /\ ~record'[s].exists =>
                  \E r \in preview[mem[p].token].removals : r.id = s /\ r.expired
             /\ store'[s] # store[s] =>
                  \E r \in preview[mem[p].token].removals : r.id = s]_vars
  BY <1>1
<1> QED BY <1>2, StoreInvariant, PTL DEF Spec, ConfirmsShown
=============================================================================
