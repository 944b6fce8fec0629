---- MODULE FileRestore ----
(* unring restore of one selection of a sealed session: the changes it found, from the     *)
(* clone or from the volume snapshot, and the recorded baseline where the list of changes  *)
(* is incomplete. A path is compared in one step and replaced in another. restore.go.      *)
EXTENDS FileCapture

NoJob == [forced |-> FALSE, queue |-> {}, plans |-> [p \in Paths |-> "none"],
          mounted |-> {}, created |-> Empty, temporary |-> Empty, finalized |-> {},
          results |-> [p \in Paths |-> "none"]]

Item(form, p) == [form |-> form, path |-> p]

\* The change an item is about: an incomplete scan has no after to trust.
Sought(i) ==
  IF i.form = "baseline"
  THEN [kind |-> IF capture.before[i.path] = None THEN "created" ELSE "modified",
        before |-> capture.before[i.path], after |-> None, source |-> "clone"]
  ELSE sealed.changes[i.path]

\* Directories first.
WeightTopDown(i) ==
  10 * (IF i.form = "baseline" THEN 2 ELSE 0) + Cardinality(Above[i.path])

\* orderRestoreChanges: what is not a directory first, the deepest first. The mounted
\* group follows the observed changes, the baselines follow both.
Weight(i) ==
  LET c == Sought(i) IN
    10 * (CASE i.form = "change" -> 0 [] i.form = "mounted" -> 1 [] OTHER -> 2)
    + (IF IsType(c.before, "dir") \/ IsType(c.after, "dir") THEN 3 ELSE 0)
    + (3 - Cardinality(Above[i.path]))

FirstItem == CHOOSE i \in job.queue : \A j \in job.queue : Weight(i) <= Weight(j)

\* The first path is compared, and acted upon when its plan says so.
Comparing == /\ phase = "restoring" /\ job.queue # {} /\ FirstItem.form # "mounted"
             /\ job.mounted = {} /\ job.plans[FirstItem.path] = "none"
Acting(plan) == /\ phase = "restoring" /\ job.queue # {} /\ FirstItem.form # "mounted"
                /\ job.plans[FirstItem.path] = plan

\* The item is done.
Finished(i, result) ==
  [job EXCEPT !.queue = @ \ {i}, !.plans[i.path] = "none", !.results[i.path] = result]

----
(* What is selected *)

Observed(selection) == {p \in Below[selection] : sealed.changes[p].kind # "none"}
Recorded(selection) == {p \in Below[selection] : capture.before[p] # None}

\* selectRecordedBaselines: the recorded descendants, or the absence of the path itself.
Baselines(selection) ==
  IF Recorded(selection) # {} THEN Recorded(selection)
  ELSE IF CoveredBy(selection, sealed.gaps) THEN {} ELSE {selection}

StartRestore ==
  /\ phase = "sealed" /\ phase' = "restoring"
  /\ \E selection \in Paths, all \in BOOLEAN, forced \in BOOLEAN :
       LET observed == Observed(selection)
           baselines == IF all \/ sealed.complete THEN {} ELSE Baselines(selection) \ observed
           queue == {Item("change", p) : p \in observed} \cup {Item("baseline", p) : p \in baselines}
       IN /\ all => selection = Root
          /\ queue # {}
          /\ job' = [NoJob EXCEPT !.forced = forced, !.queue = queue]
  /\ past' = [past EXCEPT !.begun = live]
  /\ UNCHANGED <<diskVars, edits, walk, capture, volume, sealed, faults>>

----
(* restoreOne *)

\* lstat below something that is not a directory is an error.
Unreachable(p) == p # Root /\ live[Parent(p)] # None /\ live[Parent(p)].type # "dir"

\* A directory made writable for its children is compared as it was.
Compared(p) == IF job.temporary[p] # None THEN job.temporary[p] ELSE live[p]

PathMatchesBefore(p, before) ==
  IF before = None THEN live[p] = None
  ELSE /\ live[p] # None
       /\ Compared(p).type = before.type /\ Compared(p).mode = before.mode
       /\ before.type = "file" => live[p].content = capture.clone[p].content

\* Whether the path is as the session left it is not looked at.
MatchesAny(p, after) == TRUE

MatchesExpected(p, after) ==
  IF after = None THEN live[p] = None
  ELSE live[p] # None /\ ~EntriesDiffer(Compared(p), after)

CloneVerdict(p, c) ==
  LET made == job.created[p] # None
      conflict == ~MatchesExpected(p, c.after) /\ ~(made /\ IsType(c.before, "dir"))
  IN IF Unreachable(p) THEN "error"
     ELSE IF PathMatchesBefore(p, c.before) /\ ~made THEN "already-restored"
     ELSE IF conflict /\ ~job.forced THEN "refused"
     ELSE IF c.kind = "created" THEN "remove" ELSE "write"

----
(* prepareVolumeRestore *)

\* matchesRestoredMetadata: of one type, mode and size.
PossiblyRestored(p, before) ==
  /\ before # None /\ live[p] # None
  /\ live[p].type = before.type /\ live[p].mode = before.mode /\ before.type # "other"

VolumeVerdict(p, c) ==
  LET conflict == IF c.after = None THEN live[p] # None
                  ELSE live[p] = None \/ EntriesDiffer(live[p], c.after)
      possible == PossiblyRestored(p, c.before)
  IN IF Unreachable(p) THEN "error"
     ELSE IF c.before = None /\ live[p] = None THEN "already-restored"
     ELSE IF conflict /\ ~possible /\ ~job.forced THEN "refused"
     ELSE IF c.kind = "created" THEN "remove"
     ELSE IF ~possible THEN "mount" ELSE IF conflict /\ ~job.forced THEN "doubt" ELSE "check"

Verdict(i) ==
  LET c == Sought(i) IN
    IF c.source = "none" THEN "unavailable"
    ELSE IF c.source = "volume" THEN VolumeVerdict(i.path, c) ELSE CloneVerdict(i.path, c)

Compare ==
  LET i == FirstItem p == i.path verdict == Verdict(i) IN
    /\ Comparing
    /\ job' = CASE verdict \in {"write", "remove"} -> [job EXCEPT !.plans[p] = verdict]
                [] verdict \in {"mount", "doubt", "check"} ->
                     [job EXCEPT !.queue = (@ \ {i}) \cup {Item("mounted", p)},
                                 !.plans[p] = verdict]
                [] OTHER -> Finished(i, verdict)
    /\ UNCHANGED <<diskVars, edits, phase, walk, capture, volume, sealed, faults, past>>

----
(* What is written *)

\* os.Remove: the folder must be writable, and a directory empty.
RemovePath ==
  LET i == FirstItem p == i.path
      possible == live[p] # None /\ Writable(live, p) /\ InFolder(p) \cap Present(live) = {}
  IN /\ Acting("remove")
     /\ IF possible THEN live' = Drop(live, p) /\ clock' = clock + 1 ELSE UNCHANGED diskVars
     /\ job' = Finished(i, IF possible THEN "restored" ELSE "error")
     /\ UNCHANGED <<edits, phase, walk, capture, volume, sealed, faults, past>>

\* ensureParentDirectories: a missing folder is made again, one that is not writable is
\* made so; both for as long as the restore takes. Nothing is above the root.
ParentsReady(p) ==
  /\ p # Root
  /\ p \in Names /\ live[Folder] = None => IsType(capture.before[Folder], "dir")
  /\ p \in Names /\ live[Folder] # None => live[Folder].type = "dir"

WithParents(p) ==
  IF p \notin Names THEN live
  ELSE IF live[Folder] = None
  THEN Put(live, Folder, Entry("dir", "open", 0, clock + 1))
  ELSE [live EXCEPT ![Folder].mode = "open"]

\* The mode of a folder that was made writable is not remembered.
Forgotten(p) ==
  IF p \notin Names THEN job
  ELSE IF live[Folder] = None THEN [job EXCEPT !.created[Folder] = capture.before[Folder]]
  ELSE job

\* Only the mode is kept.
RememberedMode(p) ==
  IF p \notin Names \/ live[Folder] = None \/ live[Folder].mode = "open" THEN job
  ELSE [job EXCEPT !.temporary[Folder] = [type |-> "dir", mode |-> live[Folder].mode]]

Remembered(p) ==
  IF p \notin Names THEN job
  ELSE IF live[Folder] = None THEN [job EXCEPT !.created[Folder] = capture.before[Folder]]
  ELSE IF live[Folder].mode = "open" THEN job
  ELSE [job EXCEPT !.temporary[Folder] = IF @ = None THEN live[Folder] ELSE @]

\* Mkdir or a rename over the path, which cannot replace what is of the other kind.
Replaceable(tree, p, type) ==
  IF type = "dir" THEN tree[p] = None \/ tree[p].type = "dir"
  ELSE tree[p] = None \/ tree[p].type # "dir"

Replaced(tree, p, before, contents) ==
  Put(tree, p, Entry(before.type, before.mode, contents, clock + 1))

\* restoreSnapshotObject.
WritePath ==
  LET i == FirstItem p == i.path before == Sought(i).before
      tree == WithParents(p) kept == Remembered(p)
      possible == ParentsReady(p) /\ Replaceable(tree, p, before.type)
      made == before.type = "dir" /\ tree[p] = None
  IN /\ Acting("write")
     /\ IF ~ParentsReady(p) THEN UNCHANGED diskVars /\ job' = Finished(i, "error")
        ELSE /\ clock' = clock + 1
             /\ live' = IF possible THEN Replaced(tree, p, before, capture.clone[p].content)
                        ELSE tree
             /\ job' = [kept EXCEPT
                  !.queue = @ \ {i}, !.plans[p] = "none",
                  !.results[p] = IF possible THEN "restored" ELSE "error",
                  !.created[p] = IF possible /\ made THEN before ELSE @,
                  !.finalized = IF possible /\ before.type = "dir" THEN @ \cup {p} ELSE @]
     /\ UNCHANGED <<edits, phase, walk, capture, volume, sealed, faults, past>>

----
(* restoreMountedGroup *)

Group == {i.path : i \in {j \in job.queue : j.form = "mounted"}}
Mounting == phase = "restoring" /\ job.queue # {} /\ FirstItem.form = "mounted"

\* The snapshot may have been purged or cannot be listed; sudo may be refused.
Mount ==
  /\ Mounting /\ job.mounted = {}
  /\ \/ job' = [job EXCEPT !.mounted = Group] /\ UNCHANGED faults
     \/ \E result \in {"unavailable", "error"} :
          /\ faults < MaxFaults /\ faults' = faults + 1
          /\ job' = [job EXCEPT
               !.queue = {j \in @ : j.form # "mounted"},
               !.plans = [p \in Paths |-> IF p \in Group THEN "none" ELSE @[p]],
               !.results = [p \in Paths |-> IF p \in Group THEN result ELSE @[p]]]
  /\ UNCHANGED <<diskVars, edits, phase, walk, capture, volume, sealed, past>>

\* os.MkdirAll: every folder above that is missing is made.
Made(tree, p) == IF tree[p] # None THEN tree ELSE Put(tree, p, Entry("dir", "open", 0, clock + 1))
MkdirAll(p) == IF p \in Names THEN Made(Made(live, Root), Folder) ELSE Made(live, Root)

\* restoreVolumeMounted: none is made writable.
RestoreMounted ==
  LET i == FirstItem p == i.path before == Sought(i).before plan == job.plans[p]
      valid == IsType(volume[p], before.type)
      readable == before.type = "dir" \/ IsType(live[p], "file")
      same == before.type = "dir" \/ (readable /\ live[p].content = volume[p].content)
      tree == MkdirAll(p)
      possible == /\ p # Root /\ IsType(tree[Parent(p)], "dir")
                  /\ before.type = "file" => Writable(tree, p)
                  /\ tree[p] = None => Writable(tree, p)
                  /\ Replaceable(tree, p, before.type)
      result == IF ~valid THEN "error"
                ELSE IF plan \in {"check", "doubt"} /\ same THEN "already-restored"
                ELSE IF plan \in {"check", "doubt"} /\ ~readable /\ ~job.forced THEN "error"
                ELSE IF plan = "doubt" THEN "refused"
                ELSE IF possible THEN "restored" ELSE "error"
  IN /\ Mounting /\ job.mounted # {}
     /\ IF result = "restored"
        THEN live' = Replaced(tree, p, before, volume[p].content) /\ clock' = clock + 1
        ELSE UNCHANGED diskVars
     /\ job' = Finished(i, result)
     /\ UNCHANGED <<edits, phase, walk, capture, volume, sealed, faults, past>>

\* The whole group is done. A snapshot that cannot be unmounted makes every result of it an
\* error, whatever was restored.
Unmount ==
  /\ phase = "restoring" /\ job.mounted # {} /\ Group = {}
  /\ \/ job' = [job EXCEPT !.mounted = {}] /\ UNCHANGED faults
     \/ /\ faults < MaxFaults /\ faults' = faults + 1
        /\ job' = [job EXCEPT !.mounted = {}, !.results =
             [p \in Paths |-> IF p \in job.mounted THEN "error" ELSE @[p]]]
  /\ UNCHANGED <<diskVars, edits, phase, walk, capture, volume, sealed, past>>

----
(* finishRestoreExecution *)

\* The folders made or made writable get their recorded metadata, unless they were
\* restored themselves.
FinishRestore ==
  LET left == (Present(job.created) \cup Present(job.temporary)) \ job.finalized
      entry == [p \in Paths |-> IF job.created[p] # None THEN job.created[p] ELSE job.temporary[p]]
  IN /\ phase = "restoring" /\ job.queue = {} /\ job.mounted = {} /\ phase' = "done"
     /\ live' = [p \in Paths |->
          IF p \in left /\ IsType(live[p], "dir")
          THEN Entry("dir", entry[p].mode, 0, clock + 1) ELSE live[p]]
     /\ clock' = clock + 1
     /\ job' = [job EXCEPT !.results = [p \in Paths |->
          IF p \in left /\ live[p] = None THEN "error" ELSE @[p]]]
     /\ UNCHANGED <<edits, walk, capture, volume, sealed, faults, past>>

Restore ==
  \/ StartRestore \/ Compare \/ RemovePath \/ WritePath
  \/ Mount \/ RestoreMounted \/ Unmount \/ FinishRestore
====
