---- MODULE FileRollback ----
(* The local files through one session: captured, edited by the child, scanned again,     *)
(* and restored later, with the edits of the user and of other programs in between.       *)
EXTENDS FileRestore

Init ==
  /\ \E mode \in {"open", "closed"}, fresh \in SUBSET NewNames :
       live = [p \in Paths |-> IF p = Root THEN Entry("dir", "open", 0, 0)
                               ELSE IF p = Folder THEN Entry("dir", mode, 0, 0)
                               ELSE IF p \notin fresh THEN Entry("file", "open", 0, 0) ELSE None]
  /\ clock = 0 /\ edits = 0 /\ faults = 0 /\ phase = "backstop"
  /\ walk = NewWalk /\ capture = NoCapture /\ volume = None /\ sealed = NotSealed /\ job = NoJob
  /\ past = [instant |-> Empty, ended |-> Empty, begun |-> Empty, touched |-> {}, during |-> {},
             left |-> NothingLeft]

\* The user may never restore.
Terminated == phase \in {"stopped", "sealed", "done"} /\ UNCHANGED vars

Next == Edits \/ Capture \/ StartSeal \/ Seal \/ Restore \/ Terminated

Spec == Init /\ [][Next]_vars

----
(* Properties *)

\* Everything has its type. (localrollback.go:160-250)
Statuses == {"none", "restored", "already-restored", "refused", "error", "unavailable"}

FilesTypeOK ==
  /\ live \in Trees /\ clock \in Nat /\ edits \in 0..MaxEdits /\ faults \in 0..MaxFaults
  /\ phase \in {"backstop", "guard", "clone", "recheck", "running", "after", "sealed",
                "restoring", "done", "stopped"}
  /\ walk \in [todo: SUBSET Paths, listed: SUBSET Paths, seen: Trees, failed: SUBSET Paths]
  /\ capture \in [guard: Trees, clone: Trees, before: Trees, observed: Trees,
                  failed: SUBSET Paths, uncaptured: SUBSET Paths]
  /\ volume \in Trees \cup {None}
  /\ sealed.gaps \subseteq Paths /\ sealed.complete \in BOOLEAN /\ sealed.scanned \in BOOLEAN
  /\ job.plans \in [Paths -> {"none", "write", "remove", "mount", "doubt", "check"}]
  /\ job.results \in [Paths -> Statuses]
  /\ job.created \in Trees /\ job.temporary \in Trees /\ job.finalized \subseteq Paths

Captured == phase \in {"running", "after", "sealed", "restoring", "done"}

\* The baseline is the tree of one instant: whatever is edited while the guards and the
\* clone are read one path after the other, a path is recorded and cloned as it was at
\* the end of the first guard, or it is under a path that is named as not captured.
CaptureExact ==
  Captured => \A p \in Paths :
    /\ capture.before[p] # None =>
         /\ capture.before[p] = past.instant[p]
         /\ capture.clone[p].content = past.instant[p].content
    /\ capture.before[p] # past.instant[p] => CoveredBy(p, capture.uncaptured)

\* The list of changes is what the session did: of a path that nobody edits after the
\* child has ended and that no gap covers, the list says exactly how the end differs
\* from the baseline, and an interrupted scan says nothing.
ChangeListExact ==
  phase \in {"sealed", "restoring", "done"} => \A p \in Paths :
    LET old == past.instant[p] new == past.ended[p] c == sealed.changes[p] IN
      /\ ~sealed.scanned => c = NoChange /\ ~sealed.complete
      /\ sealed.scanned /\ ~CoveredBy(p, sealed.gaps) /\ p \notin past.touched =>
           /\ c.kind = "created" <=> old = None /\ new # None
           /\ c.kind = "deleted" <=> old # None /\ new = None
           /\ c.kind = "modified" =>
                old # None /\ new # None /\ EntriesDiffer(old, new)
           /\ (old # None /\ new # None /\ <<old.type, old.mode, old.content>>
                                          # <<new.type, new.mode, new.content>>)
              => c.kind = "modified"

\* A file that was written after the session, or while its changes were listed, is there
\* after a restore without --force, unless it is written between the comparison and the
\* replacement of that very path.
EditsKept ==
  ~job.forced => \A p \in Paths :
    IsType(past.left[p], "file") =>
      IsType(live[p], "file") /\ live[p].content = past.left[p].content

\* What restore reports as restored is as it was before the session, unless somebody
\* edited it during the restore: the contents, the type, and, of a complete session, the
\* mode, in whatever order the folder and what is in it are made again. Two things are left
\* out: a change that is restored from the volume snapshot, which has the end of the capture
\* and not its instant, and the modes of an incomplete scan, where a folder that the restore
\* made writable may be compared as such.
RestoredIsBaseline ==
  phase = "done" => \A p \in Paths \ past.during :
    LET was == past.instant[p] IN
      job.results[p] \in {"restored", "already-restored"} /\ sealed.changes[p].source # "volume" =>
        IF was = None THEN live[p] = None
        ELSE /\ live[p] # None /\ live[p].type = was.type /\ live[p].content = was.content
             /\ sealed.complete => live[p].mode = was.mode

\* A restore leaves what it was not asked to restore as it was, the mode of a folder that
\* it had to make writable included.
UnselectedKept ==
  phase = "done" => \A p \in Paths \ past.during :
    job.results[p] \in {"none", "refused", "unavailable"} /\ past.begun[p] # None =>
      live[p] # None /\ ~EntriesDiffer(past.begun[p], live[p])

\* What a restore removes because the session created it was not there before.
RemovedIsNew ==
  phase = "done" => \A p \in Paths \ past.during :
    job.results[p] = "restored" /\ live[p] = None => past.instant[p] = None
====
