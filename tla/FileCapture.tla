---- MODULE FileCapture ----
(* The clone before the session and the change list after it: captureRootContext and      *)
(* sealContext. Every walk reads one path at a time, and anything may be edited between    *)
(* two reads. localrollback.go.                                                           *)
EXTENDS FileTree

----
(* Walks *)

NewWalk == [todo |-> Paths, listed |-> {Root}, seen |-> Empty, failed |-> {}]

Unread == walk.todo \cap walk.listed

\* WalkDir goes from the root down.
NextPath == CHOOSE p \in Unread : Above[p] \cap Unread = {p}

\* One path is read: what is there is recorded, and a directory is listed. A path that was
\* listed and is gone, or whose type cannot be captured, is a failure.
Visit(unsupported) ==
  LET p == NextPath e == live[p] IN
    /\ Unread # {}
    /\ walk' = [walk EXCEPT
         !.todo = @ \ {p},
         !.seen[p] = IF e # None /\ e.type \in unsupported THEN None ELSE e,
         !.listed = IF IsType(e, "dir") THEN @ \cup (InFolder(p) \cap Present(live)) ELSE @,
         !.failed = IF e = None \/ e.type \in unsupported THEN @ \cup {p} ELSE @]
    /\ UNCHANGED faults

\* The read fails: a directory was recorded before it could not be listed.
VisitFails ==
  LET p == NextPath IN
    /\ Unread # {} /\ faults < MaxFaults /\ faults' = faults + 1
    /\ walk' = [walk EXCEPT
         !.todo = @ \ {p},
         !.seen[p] = IF IsType(live[p], "dir") THEN live[p] ELSE None,
         !.failed = @ \cup {p}]

----
(* captureRootContext: guard, clone, guard again *)

NoCapture == [guard |-> Empty, clone |-> Empty, failed |-> {}, before |-> Empty,
              uncaptured |-> {}, observed |-> Empty]

\* takeBackstop asks Time Machine before anything is captured.
TakeBackstop ==
  /\ phase = "backstop" /\ phase' = "guard" /\ walk' = NewWalk
  /\ \E available \in Backstops : volume' = IF available THEN live ELSE None
  /\ UNCHANGED <<diskVars, edits, capture, sealed, job, faults, past>>

ReadNext ==
  /\ phase \in {"guard", "recheck", "after"}
  /\ Visit({}) \/ VisitFails
  /\ UNCHANGED <<diskVars, edits, phase, capture, volume, sealed, job, past>>

\* captureOne: a directory is made, a file cloned or copied, anything else refused.
CloneNext ==
  /\ phase = "clone"
  /\ Visit({"other"}) \/ VisitFails
  /\ UNCHANGED <<diskVars, edits, phase, capture, volume, sealed, job, past>>

EndGuard ==
  /\ phase = "guard" /\ Unread = {} /\ phase' = "clone" /\ walk' = NewWalk
  /\ capture' = [capture EXCEPT !.guard = walk.seen, !.failed = walk.failed]
  /\ past' = [past EXCEPT !.instant = live]
  /\ UNCHANGED <<diskVars, edits, volume, sealed, job, faults>>

\* clonefile takes the whole directory at once, where the system has it.
CloneDirectory ==
  /\ phase = "clone" /\ walk = NewWalk
  /\ capture' = [capture EXCEPT !.clone = live]
  /\ phase' = "recheck" /\ UNCHANGED walk
  /\ UNCHANGED <<diskVars, edits, volume, sealed, job, faults, past>>

EndClone ==
  /\ phase = "clone" /\ Unread = {} /\ phase' = "recheck" /\ walk' = NewWalk
  /\ capture' = [capture EXCEPT !.clone = walk.seen, !.failed = @ \cup walk.failed]
  /\ UNCHANGED <<diskVars, edits, volume, sealed, job, faults, past>>

\* snapshotMatchesSource: the clone has an entry of the same type.
CloneMatches(p, e) == IsType(capture.clone[p], e.type)

\* The guard after the clone is not looked at.
UnsettledOnce(after) ==
  {p \in Present(capture.guard) \cup Present(capture.clone) :
     \/ capture.guard[p] = None \/ ~CloneMatches(p, capture.guard[p])
     \/ capture.guard[p].type = "other"}

\* reconcileCapture: a path whose two guards or whose clone disagree is not captured, and
\* neither is what lies below it.
Unsettled(after) ==
  {p \in Present(capture.guard) \cup Present(after) \cup Present(capture.clone) :
     \/ capture.guard[p] = None \/ capture.guard[p] # after[p]
     \/ ~CloneMatches(p, capture.guard[p]) \/ capture.guard[p].type = "other"}

Reconcile ==
  LET existing == capture.failed \cup walk.failed
      failed == existing \cup {p \in Unsettled(walk.seen) : ~CoveredBy(p, existing)}
      captured == {p \in Paths : ~CoveredBy(p, failed)}
  IN /\ phase = "recheck" /\ Unread = {} /\ phase' = "running" /\ walk' = NewWalk
     /\ capture' = [capture EXCEPT
          !.guard = Empty, !.failed = {},
          !.before = Only(capture.guard, captured),
          !.clone = Only(capture.clone, captured), \* the rest is never read
          !.observed = Only(capture.guard,
                            {p \in Paths \ captured : capture.guard[p] = walk.seen[p]}),
          !.uncaptured = failed]
     /\ UNCHANGED <<diskVars, edits, volume, sealed, job, faults, past>>

\* A signal while the session starts: the unpublished snapshot is removed.
InterruptCapture ==
  /\ phase \in {"guard", "clone", "recheck"} /\ faults < MaxFaults
  /\ phase' = "stopped" /\ faults' = faults + 1
  /\ UNCHANGED <<diskVars, edits, walk, capture, volume, sealed, job, past>>

Capture ==
  \/ TakeBackstop \/ ReadNext \/ CloneNext \/ EndGuard \/ CloneDirectory \/ EndClone
  \/ Reconcile \/ InterruptCapture

----
(* sealContext *)

\* The child has ended.
StartSeal ==
  /\ phase = "running" /\ phase' = "after" /\ UNCHANGED walk
  /\ past' = [past EXCEPT !.ended = live]
  /\ UNCHANGED <<diskVars, edits, capture, volume, sealed, job, faults>>

NoChange == [kind |-> "none", before |-> None, after |-> None, source |-> "none"]

\* cheaplyMatchesSnapshot reads the file again, later than the walk.
CheaplyMatches(p, old, new) ==
  /\ IsType(old, "file") /\ IsType(new, "file") /\ old.mode = new.mode
  /\ IsType(live[p], "file") /\ IsType(capture.clone[p], "file")
  /\ live[p].content = capture.clone[p].content

Kind(old, new) ==
  IF old # None /\ new = None THEN "deleted"
  ELSE IF old = None /\ new # None THEN "created"
  ELSE IF old # None /\ EntriesDiffer(old, new) THEN "modified" ELSE "none"

\* coverageFailures: what appeared since and cannot be restored.
CoverageGaps(after, gaps) ==
  {p \in Present(after) : after[p].type = "other" /\ ~CoveredBy(p, capture.uncaptured \cup gaps)}

\* overlappingFailure: the gap is above the path, or below it.
Overlaps(p, gaps) == CoveredBy(p, gaps) \/ Below[p] \cap gaps # {}

\* diff of the captured paths, restored from the clone.
ClonedChange(p, after, gaps) ==
  LET old == capture.before[p] new == after[p] kind == Kind(old, new) IN
    IF kind = "none" \/ (kind = "modified" /\ CheaplyMatches(p, old, new)) THEN NoChange
    ELSE [kind |-> kind, before |-> old, after |-> new,
          source |-> IF Overlaps(p, CoverageGaps(after, gaps)) THEN "none" ELSE "clone"]

\* classifyWideChange: what was not captured is only in the volume snapshot.
ObservedChange(p, after) ==
  LET old == capture.observed[p] new == after[p] first == IF old = None THEN new ELSE old IN
    IF Kind(old, new) = "none" THEN NoChange
    ELSE [kind |-> Kind(old, new), before |-> old, after |-> new,
          source |-> IF first.type = "other" \/ volume = None THEN "none" ELSE "volume"]

ChangeOf(p, after, gaps) ==
  IF CoveredBy(p, gaps) THEN NoChange
  ELSE IF CoveredBy(p, capture.uncaptured) THEN ObservedChange(p, after)
  ELSE ClonedChange(p, after, gaps)

NoChanges == [p \in Paths |-> NoChange]

NotSealed == [changes |-> NoChanges, gaps |-> {}, complete |-> FALSE, scanned |-> FALSE]

\* What an interrupted walk saw is compared all the same.
PublishedPartly(ended) ==
  [changes |-> [p \in Paths |-> ChangeOf(p, walk.seen, walk.failed)],
   gaps |-> capture.uncaptured \cup walk.failed, complete |-> ended, scanned |-> TRUE]

\* The manifest that is published, from a walk that came to its end or was interrupted.
Published(ended) ==
  LET after == walk.seen gaps == walk.failed coverage == CoverageGaps(after, gaps) IN
    IF ended
    THEN [changes |-> [p \in Paths |-> ChangeOf(p, after, gaps)],
          gaps |-> capture.uncaptured \cup gaps \cup coverage,
          complete |-> gaps \cup coverage = {}, scanned |-> TRUE]
    ELSE [changes |-> NoChanges, gaps |-> capture.uncaptured, complete |-> FALSE, scanned |-> FALSE]

Seal ==
  /\ phase = "after" /\ phase' = "sealed" /\ walk' = NewWalk
  /\ \/ Unread = {} /\ sealed' = Published(TRUE) /\ UNCHANGED faults
     \/ /\ Unread # {} /\ faults < MaxFaults /\ faults' = faults + 1
        /\ sealed' = Published(FALSE)
  /\ UNCHANGED <<diskVars, edits, capture, volume, job, past>>
====
