------------------------- MODULE FileRollbackProofs -------------------------
(***************************************************************************)
(* Theorems about FileRollback, for any names below the folder, any number *)
(* of edits and any faults: its types, the baseline, the list of changes,  *)
(* what a restore leaves alone, and what it restores.                      *)
(***************************************************************************)
EXTENDS FileRollback, FiniteSetTheorems, TLAPS

Walking == {"guard", "clone", "recheck", "after"}
Restorable == {"sealed", "restoring", "done"}

(***************************************************************************)
(* The types, by component.                                                *)
(***************************************************************************)
TreeTypes ==
  /\ live \in Trees /\ clock \in Nat /\ edits \in 0..MaxEdits /\ faults \in 0..MaxFaults
  /\ phase \in {"backstop", "running", "stopped"} \cup Walking \cup Restorable
  /\ volume \in Trees \cup {None}
  /\ past \in [instant: Trees, ended: Trees, begun: Trees, touched: SUBSET Paths,
               during: SUBSET Paths, left: Trees]

WalkTypes ==
  walk \in [todo: SUBSET Paths, listed: SUBSET Paths, seen: Trees, failed: SUBSET Paths]

CaptureTypes ==
  capture \in [guard: Trees, clone: Trees, before: Trees, observed: Trees,
               failed: SUBSET Paths, uncaptured: SUBSET Paths]

Changes ==
  [kind: {"none", "created", "deleted", "modified"}, before: Entries \cup {None},
   after: Entries \cup {None}, source: {"none", "clone", "volume"}]

SealTypes ==
  sealed \in [changes: [Paths -> Changes], gaps: SUBSET Paths, complete: BOOLEAN,
              scanned: BOOLEAN]

Items == [form: {"change", "mounted", "baseline"}, path: Paths]
Plans == {"none", "write", "remove", "mount", "doubt", "check"}

Jobs ==
  [forced: BOOLEAN, queue: SUBSET Items, plans: [Paths -> Plans], mounted: SUBSET Paths,
   created: Trees, temporary: Trees, finalized: SUBSET Paths, results: [Paths -> Statuses]]

JobTypes == job \in Jobs

FileTypes == TreeTypes /\ WalkTypes /\ CaptureTypes /\ SealTypes /\ JobTypes

(***************************************************************************)
(* The tree.  What is there is in a directory, and was made in the past.   *)
(***************************************************************************)
WellFormed(tree) ==
  \A p \in Paths \ {Root} : tree[p] # None => IsType(tree[Parent(p)], "dir")

Stamped(tree) == \A p \in Paths : tree[p] # None => tree[p].stamp <= clock

\* Only a root that could not be captured can be taken for created.
TreeInv ==
  /\ WellFormed(live) /\ Stamped(live)
  /\ \/ IsType(live[Root], "dir")
     \/ (live[Root] = None /\ phase \in Restorable /\ Root \in capture.uncaptured)

(***************************************************************************)
(* A walk.  While a directory is as it was read, so are the names in it.   *)
(***************************************************************************)
WalkInv ==
  /\ phase \notin Walking \cup {"stopped"} => walk = NewWalk
  /\ Root \in walk.listed /\ Stamped(walk.seen)
  /\ \A p \in walk.todo : walk.seen[p] = None /\ p \notin walk.failed
  /\ \A p \in Paths \ walk.todo : p \in walk.listed /\ (walk.seen[p] # None \/ p \in walk.failed)
  /\ \A p \in walk.listed \ {Root} : IsType(walk.seen[Parent(p)], "dir")
  /\ phase \in Walking => \A p \in Paths \ {Root} :
       /\ IsType(walk.seen[Parent(p)], "dir") /\ Parent(p) \notin walk.failed
       /\ live[Parent(p)] = walk.seen[Parent(p)] /\ live[p] # None
       => p \in walk.listed

(***************************************************************************)
(* The capture.  A path that is still as the first guard saw it was so at  *)
(* the instant of the baseline and when it was cloned.                     *)
(***************************************************************************)
AsGuarded(p, tree, copy) ==
  tree[p] = capture.guard[p] => past.instant[p] = tree[p] /\ copy[p] \in {None, tree[p]}

GuardInv ==
  /\ phase \in {"clone", "recheck"} =>
       /\ Stamped(capture.guard)
       /\ capture.guard[Root] # None \/ Root \in capture.failed
       /\ \A p \in Paths \ {Root} :
            /\ IsType(capture.guard[Parent(p)], "dir") /\ Parent(p) \notin capture.failed
            /\ past.instant[Parent(p)] = capture.guard[Parent(p)] /\ past.instant[p] # None
            => capture.guard[p] # None \/ p \in capture.failed
  /\ phase \in {"clone", "recheck"} =>
       \A p \in Names : capture.guard[p] # None => IsType(capture.guard[Folder], "dir")
  /\ phase = "clone" =>
       \A p \in Present(capture.guard) : AsGuarded(p, live, walk.seen)
  /\ phase = "recheck" =>
       \A p \in Present(capture.guard) :
         AsGuarded(p, live, capture.clone) /\ AsGuarded(p, walk.seen, capture.clone)

InstantInv == phase \in {"clone", "recheck"} \/ Captured =>
  WellFormed(past.instant) /\ IsType(past.instant[Root], "dir")

\* What is recorded can be restored from the clone.
BaselineInv ==
  Captured => \A p \in Present(capture.before) :
    /\ ~CoveredBy(p, capture.uncaptured)
    /\ capture.before[p].type # "other"
    /\ IsType(capture.clone[p], capture.before[p].type)

\* What is known of a name that was not captured says that its folder was there.
ObservedInv ==
  Captured => \A p \in Names : capture.observed[p] # None =>
    IsType(past.instant[Folder], "dir") \/ CoveredBy(Folder, capture.uncaptured)

(***************************************************************************)
(* The scan after the session.  Of an untouched path the walk sees what    *)
(* the session left.                                                       *)
(***************************************************************************)
Plain(tree) == \A p \in Paths : IsType(tree[p], "dir") \/ IsType(tree[p], "other") => tree[p].content = 0

PlainInv ==
  /\ Plain(live) /\ (volume # None => Plain(volume))
  /\ phase \in {"clone", "recheck"} \/ Captured => Plain(past.instant)
  /\ phase \in {"after"} \cup Restorable => Plain(past.ended)

Untouched == Paths \ past.touched

EndedInv ==
  /\ phase \in {"after"} \cup Restorable => WellFormed(past.ended)
  /\ phase = "after" =>
       /\ \A p \in Untouched : ~EntriesDiffer(past.ended[p], live[p])
       /\ \A p \in Untouched : walk.seen[p] # None => ~EntriesDiffer(past.ended[p], walk.seen[p])
       /\ \A p \in Untouched : past.ended[p] # None =>
            \A q \in Above[p] \ {Root} :
              Parent(q) \in walk.todo \cup walk.failed \/ q \in walk.listed

(***************************************************************************)
(* What is published, and what a restore makes of it.                      *)
(***************************************************************************)
SealedInv ==
  /\ phase \notin Restorable => sealed = NotSealed
  /\ phase \in Restorable => capture.uncaptured \subseteq sealed.gaps
  /\ \A p \in Paths :
       LET c == sealed.changes[p] IN
         /\ c.kind \in {"deleted", "modified"} => c.before # None
         /\ c.kind = "created" => c.before = None
         /\ c.kind = "none" => c = NoChange
         /\ c.kind # "none" =>
              IF CoveredBy(p, capture.uncaptured) THEN c.source # "clone" ELSE c.before = capture.before[p]
         /\ c.source = "volume" => volume # None /\ c.before = capture.observed[p]
         /\ c.after # None => c.after.stamp <= clock

JobInv ==
  /\ phase \notin {"restoring", "done"} => job = NoJob
  /\ \A i, j \in job.queue : i.path = j.path => i = j
  /\ \A i \in job.queue :
       /\ i.form # "baseline" => sealed.changes[i.path].kind # "none"
       /\ i.form = "baseline" =>
            /\ ~sealed.complete /\ sealed.changes[i.path].kind = "none"
            /\ capture.before[i.path] = None => ~CoveredBy(i.path, sealed.gaps)
       /\ i.form = "mounted" =>
            /\ Sought(i).source = "volume" /\ Sought(i).kind # "created"
            /\ job.plans[i.path] \in {"mount", "doubt", "check"}
       /\ job.plans[i.path] = "write" =>
            i.form # "mounted" /\ Sought(i).source = "clone" /\ Sought(i).kind # "created"
       /\ job.plans[i.path] = "remove" =>
            i.form # "mounted" /\ Sought(i).source # "none" /\ Sought(i).kind = "created"

(***************************************************************************)
(* What an edit after the scan left behind.  The list of changes does not  *)
(* have it, so a comparison refuses it, unless a directory is to be made   *)
(* again where the file is, which then fails.                              *)
(***************************************************************************)
LeftFile(p) == IsType(past.left[p], "file")

LeftInv ==
  /\ \A p \in Paths : past.left[p] # None =>
       /\ phase \in {"after"} \cup Restorable /\ past.left[p].stamp <= clock
       /\ p \notin walk.todo \/ phase # "after"
       /\ phase = "after" => walk.seen[p] # past.left[p]
       /\ phase \in Restorable => sealed.changes[p].after # past.left[p]
  /\ ~job.forced => \A p \in Paths : LeftFile(p) => live[p] = past.left[p]

\* A folder that restore made or made writable was one before the session.
FolderInv ==
  \A p \in Paths : job.created[p] # None \/ job.temporary[p] # None =>
    IsType(past.instant[p], "dir") /\ (job.temporary[p] # None => ~CoveredBy(p, capture.uncaptured))

PlanInv ==
  ~job.forced => \A i \in job.queue : LeftFile(i.path) =>
    /\ job.plans[i.path] \in {"none", "write", "doubt"}
    /\ job.plans[i.path] = "write" => IsType(Sought(i).before, "dir")

(***************************************************************************)
(* The results.  A path has one, when it has left the queue; the folder is *)
(* the only one that is readied for others.                                *)
(***************************************************************************)
ResultInv ==
  /\ \A i \in job.queue : job.results[i.path] = "none"
  /\ \A i \in job.queue : i.path \in job.mounted => i.form = "mounted"
  /\ \A p \in job.finalized : job.results[p] \in {"restored", "error"}
  /\ \A p \in Paths \ job.finalized :
       job.created[p] # None \/ job.temporary[p] # None => p = Folder

\* A folder that was made writable is there for as long as nobody edits it.
ReadyInv ==
  phase = "restoring" => \A p \in Paths \ past.during :
    job.temporary[p] # None /\ job.results[p] = "none" => IsType(live[p], "dir")

\* What has no result is as it was, but for the mode that is kept for the end.
Unselected(p) ==
  /\ p \notin past.during /\ past.begun[p] # None
  /\ job.results[p] \in {"none", "refused", "unavailable"}

KeptInv ==
  phase = "restoring" => \A p \in Paths : Unselected(p) =>
    /\ job.created[p] = None /\ live[p] # None
    /\ job.temporary[p] = None => ~EntriesDiffer(past.begun[p], live[p])
    /\ job.temporary[p] # None =>
         /\ IsType(past.begun[p], "dir") /\ IsType(live[p], "dir")
         /\ job.temporary[p].mode = past.begun[p].mode

\* What is restored stays restored: the mode is the one that the end of the restore gives.
Recovered(p) ==
  /\ p \notin past.during /\ sealed.changes[p].source # "volume"
  /\ job.results[p] \in {"restored", "already-restored"}

FinalMode(p) ==
  IF p \notin job.finalized /\ job.created[p] # None THEN job.created[p].mode
  ELSE IF p \notin job.finalized /\ job.temporary[p] # None THEN job.temporary[p].mode
  ELSE live[p].mode

AsBaseline(p) ==
  LET was == past.instant[p] IN
    IF was = None THEN live[p] = None
    ELSE /\ live[p] # None /\ live[p].type = was.type /\ live[p].content = was.content
         /\ sealed.complete => FinalMode(p) = was.mode

DoneInv ==
  phase = "restoring" => \A p \in Paths :
    Recovered(p) => ~CoveredBy(p, capture.uncaptured) /\ AsBaseline(p)

\* The folder comes last: nothing makes it writable once its mode is restored.
OrderInv ==
  /\ phase = "restoring" /\ sealed.complete /\ Recovered(Folder)
  /\ IsType(past.instant[Folder], "dir")
  => \A i \in job.queue : i.path \in Names => i.form = "mounted"

FileInv ==
  /\ FileTypes /\ TreeInv /\ WalkInv /\ GuardInv /\ InstantInv /\ BaselineInv /\ ObservedInv
  /\ CaptureExact /\ PlainInv /\ EndedInv /\ ChangeListExact /\ SealedInv /\ JobInv

EditInv == LeftInv /\ FolderInv /\ PlanInv

RestoreInv ==
  ResultInv /\ ReadyInv /\ KeptInv /\ DoneInv /\ OrderInv /\ UnselectedKept /\ RestoredIsBaseline

-----------------------------------------------------------------------------
(* Paths and trees *)

LEMMA PathFacts ==
  /\ Root \in Paths /\ Folder \in Paths /\ Names \subseteq Paths
  /\ Root # Folder /\ Root \notin Names /\ Folder \notin Names
  /\ \A p \in Paths : p = Root \/ p = Folder \/ p \in Names
  /\ \A p \in Paths : Parent(p) \in Paths /\ Parent(p) \in {Root, Folder}
  /\ Parent(Root) = Root /\ Parent(Folder) = Root /\ \A p \in Names : Parent(p) = Folder
  /\ \A p \in Paths \ {Root} : Parent(p) # p
BY TreeAssumption DEF Paths, Parent

LEMMA AboveFacts ==
  /\ Above[Root] = {Root} /\ Above[Folder] = {Root, Folder}
  /\ \A p \in Names : Above[p] = {Root, Folder, p}
  /\ \A p \in Paths : p \in Above[p] /\ Above[p] \subseteq Paths /\ Root \in Above[p]
  /\ \A p \in Paths : Parent(p) \in Above[p] /\ Above[Parent(p)] \subseteq Above[p]
  /\ \A p \in Paths : \A q \in Above[p] : Above[q] \subseteq Above[p]
<1>1. /\ Above[Root] = {Root} /\ Above[Folder] = {Root, Folder}
      /\ \A p \in Names : Above[p] = {Root, Folder, p}
  BY PathFacts DEF Above
<1> QED BY <1>1, PathFacts

LEMMA BelowFacts ==
  /\ Below[Root] = Paths /\ Below[Folder] = {Folder} \cup Names
  /\ \A p \in Names : Below[p] = {p}
  /\ \A p \in Paths : p \in Below[p] /\ Below[p] \subseteq Paths
  /\ \A p \in Paths, q \in Paths : q \in Below[p] <=> p \in Above[q]
<1>1. \A p \in Paths : Below[p] = {q \in Paths : p \in Above[q]}
  BY DEF Below
<1>2. \A p, q \in Paths : q \in Below[p] <=> p \in Above[q]
  BY <1>1
<1>3. Below[Root] = Paths
  <2>1. \A q \in Paths : Root \in Above[q]
    BY AboveFacts
  <2>2. Below[Root] = {q \in Paths : Root \in Above[q]}
    BY <1>1, PathFacts
  <2> QED BY <2>1, <2>2
<1>4. Below[Folder] = {Folder} \cup Names
  BY <1>1, AboveFacts, PathFacts
<1>5. \A p \in Names : Below[p] = {p}
  <2> TAKE p \in Names
  <2>1. \A q \in Paths : p \in Above[q] <=> q = p
    BY AboveFacts, PathFacts
  <2> QED BY <1>1, <2>1, PathFacts
<1> QED BY <1>1, <1>2, <1>3, <1>4, <1>5, AboveFacts

LEMMA InFolderFacts ==
  /\ InFolder(Folder) = Names /\ \A p \in Names : InFolder(p) = {}
  /\ InFolder(Root) = {Folder}
  /\ \A p \in Paths : InFolder(p) \subseteq Paths \ {Root}
  /\ \A p \in Paths \ {Root} : p \in InFolder(Parent(p))
  /\ \A p \in Paths : \A q \in InFolder(p) : Parent(q) = p
<1>1. \A p \in Paths : InFolder(p) = {q \in Paths \ {p} : Parent(q) = p}
  BY DEF InFolder
<1>2. \A p \in Paths \ {Root} : p \in InFolder(Parent(p))
  BY <1>1, PathFacts
<1>3. InFolder(Folder) = Names
  BY <1>1, PathFacts
<1>4. InFolder(Root) = {Folder}
  BY <1>1, PathFacts
<1>5. \A p \in Names : InFolder(p) = {}
  BY <1>1, PathFacts
<1> QED BY <1>1, <1>2, <1>3, <1>4, <1>5, PathFacts

LEMMA EntryTypes ==
  \A type \in {"file", "dir", "other"}, mode \in {"open", "closed"}, content \in Nat, stamp \in Nat :
    LET e == Entry(type, mode, content, stamp) IN
      /\ e \in Entries /\ e # None
      /\ e.type = type /\ e.mode = mode /\ e.content = content /\ e.stamp = stamp
BY EntryAssumption DEF Entry, Entries

LEMMA TreeFacts ==
  ASSUME NEW tree \in Trees
  PROVE  /\ DOMAIN tree = Paths
         /\ \A p \in Paths : tree[p] \in Entries \cup {None}
         /\ \A p \in Paths : tree[p] # None =>
              /\ tree[p] \in Entries
              /\ tree[p].type \in {"file", "dir", "other"} /\ tree[p].mode \in {"open", "closed"}
              /\ tree[p].content \in Nat /\ tree[p].stamp \in Nat
BY DEF Trees, Entries

LEMMA EmptyTree == Empty \in Trees /\ \A p \in Paths : Empty[p] = None
BY DEF Empty, Trees

\* What a new ctime of the folder changes.
LEMMA RenewedTree ==
  ASSUME NEW tree \in Trees, NEW p \in Paths, clock \in Nat, p = Root \/ tree[Parent(p)] # None
  PROVE  /\ Renewed(tree, p) \in Trees
         /\ \A q \in Paths : p = Root \/ q # Parent(p) => Renewed(tree, p)[q] = tree[q]
         /\ p # Root => LET e == Renewed(tree, p)[Parent(p)] IN
              /\ e # None /\ e.stamp = clock + 1 /\ e.type = tree[Parent(p)].type
              /\ e.mode = tree[Parent(p)].mode /\ e.content = tree[Parent(p)].content
<1>1. CASE p = Root
  BY <1>1 DEF Renewed
<1>2. CASE p # Root
  <2>1. Renewed(tree, p) = [tree EXCEPT ![Parent(p)] = [tree[Parent(p)] EXCEPT !.stamp = clock + 1]]
    BY <1>2 DEF Renewed
  <2>2. [tree[Parent(p)] EXCEPT !.stamp = clock + 1] \in Entries
    BY <1>2, TreeFacts, PathFacts DEF Entries
  <2>3. Parent(p) \in DOMAIN tree
    BY TreeFacts, PathFacts
  <2>4. Renewed(tree, p)[Parent(p)] = [tree[Parent(p)] EXCEPT !.stamp = clock + 1]
    BY <2>1, <2>3
  <2>5. Renewed(tree, p) \in Trees
    BY <2>1, <2>2 DEF Trees
  <2>6. tree[Parent(p)] \in Entries
    BY <1>2, TreeFacts, PathFacts
  <2>7. /\ Renewed(tree, p)[Parent(p)] # None
        /\ Renewed(tree, p)[Parent(p)].stamp = clock + 1
        /\ Renewed(tree, p)[Parent(p)].type = tree[Parent(p)].type
        /\ Renewed(tree, p)[Parent(p)].mode = tree[Parent(p)].mode
        /\ Renewed(tree, p)[Parent(p)].content = tree[Parent(p)].content
    BY <2>2, <2>4, <2>6, EntryAssumption DEF Entries
  <2>8. \A q \in Paths : q # Parent(p) => Renewed(tree, p)[q] = tree[q]
    BY <2>1, TreeFacts
  <2> QED BY <1>2, <2>5, <2>7, <2>8
<1> QED BY <1>1, <1>2

LEMMA PutTree ==
  ASSUME NEW tree \in Trees, NEW p \in Paths, NEW e \in Entries, clock \in Nat,
         p = Root \/ tree[Parent(p)] # None
  PROVE  /\ Put(tree, p, e) \in Trees /\ Put(tree, p, e)[p] = e
         /\ \A q \in Paths : q # p /\ (p = Root \/ q # Parent(p) \/ tree[p] # None) =>
              Put(tree, p, e)[q] = tree[q]
         /\ p # Root /\ tree[p] = None => LET f == Put(tree, p, e)[Parent(p)] IN
              /\ f # None /\ f.stamp = clock + 1 /\ f.type = tree[Parent(p)].type
              /\ f.mode = tree[Parent(p)].mode /\ f.content = tree[Parent(p)].content
<1> DEFINE base == IF tree[p] = None THEN Renewed(tree, p) ELSE tree
<1>1. base \in Trees
  BY RenewedTree
<1>2. Put(tree, p, e) = [base EXCEPT ![p] = e]
  BY DEF Put
<1>3. /\ Put(tree, p, e) \in Trees /\ Put(tree, p, e)[p] = e
      /\ \A q \in Paths : q # p => Put(tree, p, e)[q] = base[q]
  BY <1>1, <1>2, TreeFacts DEF Trees
<1>4. \A q \in Paths : q # p /\ (p = Root \/ q # Parent(p) \/ tree[p] # None) => base[q] = tree[q]
  BY RenewedTree
<1>5. p # Root => Parent(p) \in Paths /\ Parent(p) # p
  BY PathFacts
<1>6. p # Root /\ tree[p] = None => Put(tree, p, e)[Parent(p)] = Renewed(tree, p)[Parent(p)]
  BY <1>3, <1>5
<1> QED BY <1>3, <1>4, <1>6, RenewedTree

LEMMA DropTree ==
  ASSUME NEW tree \in Trees, NEW p \in Paths, clock \in Nat, p = Root \/ tree[Parent(p)] # None
  PROVE  /\ Drop(tree, p) \in Trees
         /\ \A q \in Below[p] : Drop(tree, p)[q] = None
         /\ \A q \in Paths \ Below[p] : p = Root \/ q # Parent(p) => Drop(tree, p)[q] = tree[q]
         /\ p # Root => LET f == Drop(tree, p)[Parent(p)] IN
              /\ f # None /\ f.stamp = clock + 1 /\ f.type = tree[Parent(p)].type
              /\ f.mode = tree[Parent(p)].mode /\ f.content = tree[Parent(p)].content
<1>1. Drop(tree, p) = [q \in Paths |-> IF q \in Below[p] THEN None ELSE Renewed(tree, p)[q]]
  BY DEF Drop
<1>2. Renewed(tree, p) \in Trees
  BY RenewedTree
<1>3. Drop(tree, p) \in Trees
  BY <1>1, <1>2, TreeFacts DEF Trees
<1>4. p # Root => Parent(p) \in Paths \ Below[p]
  BY PathFacts, BelowFacts
<1>5. p # Root => Drop(tree, p)[Parent(p)] = Renewed(tree, p)[Parent(p)]
  BY <1>1, <1>4
<1>6. \A q \in Paths \ Below[p] : p = Root \/ q # Parent(p) => Drop(tree, p)[q] = tree[q]
  BY <1>1, RenewedTree
<1>7. \A q \in Below[p] : Drop(tree, p)[q] = None
  BY <1>1, BelowFacts
<1> QED BY <1>3, <1>5, <1>6, <1>7, RenewedTree

-----------------------------------------------------------------------------
(* Edits *)

(***************************************************************************)
(* What any edit does to the tree: what it changes gets a new ctime or is  *)
(* gone, and a folder whose names change is itself changed.                *)
(***************************************************************************)
Edited(tree) ==
  /\ tree \in Trees /\ WellFormed(tree)
  /\ \A p \in Paths : tree[p] # live[p] => tree[p] = None \/ tree[p].stamp = clock + 1
  /\ \A p \in Paths \ {Root} : tree[Parent(p)] = live[Parent(p)] => (tree[p] = None <=> live[p] = None)
  /\ tree[Root] = None <=> live[Root] = None
  /\ IsType(live[Root], "dir") => IsType(tree[Root], "dir")
  /\ Plain(live) => Plain(tree)

LEMMA TreeParts ==
  ASSUME TreeTypes, TreeInv
  PROVE  /\ live \in Trees /\ clock \in Nat /\ WellFormed(live)
         /\ \A p \in Paths : live[p] # None => live[p].stamp <= clock /\ live[p] \in Entries
         /\ \A p \in Paths \ {Root} : live[p] # None => IsType(live[Parent(p)], "dir")
BY TreeFacts DEF TreeTypes, TreeInv, Stamped, WellFormed

\* A path that is there is made anew, and is what it was for what is in it.
LEMMA RewriteEdited ==
  ASSUME TreeTypes, TreeInv, NEW p \in Paths, NEW e \in Entries, live[p] # None,
         e.stamp = clock + 1, e.type = live[p].type, e.type # "file" => e.content = 0
  PROVE  Edited([live EXCEPT ![p] = e])
<1> DEFINE tree == [live EXCEPT ![p] = e]
<1>1. /\ tree \in Trees /\ tree[p] = e /\ \A q \in Paths : q # p => tree[q] = live[q]
  BY TreeParts, TreeFacts DEF Trees
<1>2. e # None
  BY EntryAssumption
<1>3. WellFormed(tree)
  BY <1>1, <1>2, TreeParts, PathFacts DEF WellFormed, IsType
<1>4. \A q \in Paths : tree[q] = None <=> live[q] = None
  BY <1>1, <1>2
<1>5. IsType(live[Root], "dir") => IsType(tree[Root], "dir")
  BY <1>1, <1>2, PathFacts DEF IsType
<1>6. Plain(live) => Plain(tree)
  BY <1>1, <1>2 DEF Plain, IsType
<1>7. \A q \in Paths : tree[q] # live[q] => tree[q] = None \/ tree[q].stamp = clock + 1
  BY <1>1
<1>8. \A q \in Paths \ {Root} : tree[Parent(q)] = live[Parent(q)] => (tree[q] = None <=> live[q] = None)
  BY <1>4
<1> QED BY <1>1, <1>3, <1>4, <1>5, <1>6, <1>7, <1>8, PathFacts DEF Edited

\* A folder whose ctime is new.
LEMMA MakeEdited ==
  ASSUME TreeTypes, TreeInv, NEW p \in Paths \ {Root}, NEW e \in Entries, live[p] = None,
         Writable(live, p), e.stamp = clock + 1, e.type # "file" => e.content = 0
  PROVE  Edited(Put(live, p, e))
<1> DEFINE tree == Put(live, p, e)
<1>1. live[Parent(p)] # None /\ live[Parent(p)].type = "dir" /\ Parent(p) \in Paths /\ Parent(p) # p
  BY PathFacts DEF Writable, IsType
<1>2. /\ tree \in Trees /\ tree[p] = e
      /\ \A q \in Paths : q # p /\ q # Parent(p) => tree[q] = live[q]
      /\ tree[Parent(p)] # None /\ tree[Parent(p)].stamp = clock + 1
      /\ tree[Parent(p)].type = "dir" /\ tree[Parent(p)].content = live[Parent(p)].content
  BY <1>1, TreeParts, PutTree
<1>3. e # None
  BY EntryAssumption
<1>4. \A q \in Paths : q # p =>
        /\ tree[q] = None <=> live[q] = None
        /\ live[q] # None => tree[q].type = live[q].type /\ tree[q].content = live[q].content
  BY <1>1, <1>2, PutTree, TreeParts
<1>5. WellFormed(tree)
  <2> SUFFICES ASSUME NEW q \in Paths \ {Root}, tree[q] # None
               PROVE  IsType(tree[Parent(q)], "dir")
    BY DEF WellFormed
  <2>1. CASE q = p
    BY <2>1, <1>1, <1>2 DEF IsType
  <2>2. CASE q # p
    <3>1. IsType(live[Parent(q)], "dir")
      BY <2>2, <1>4, TreeParts
    <3>2. Parent(q) # p /\ Parent(q) \in Paths
      BY <3>1, PathFacts DEF IsType
    <3> QED BY <3>1, <3>2, <1>4 DEF IsType
  <2> QED BY <2>1, <2>2
<1>6. \A q \in Paths : tree[q] # live[q] => tree[q] = None \/ tree[q].stamp = clock + 1
  BY <1>2
<1>7. ASSUME NEW q \in Paths \ {Root}, tree[Parent(q)] = live[Parent(q)]
      PROVE  tree[q] = None <=> live[q] = None
  <2>1. live[Parent(p)].stamp <= clock /\ live[Parent(p)].stamp \in Nat
    BY <1>1, TreeParts, TreeFacts
  <2>2. q # p
    BY <1>2, <1>7, <2>1, TreeParts
  <2> QED BY <2>2, <1>4
<1>8. IsType(live[Root], "dir") => IsType(tree[Root], "dir")
  BY <1>4, PathFacts DEF IsType
<1>9. Plain(live) => Plain(tree)
  <2> SUFFICES ASSUME Plain(live), NEW q \in Paths, IsType(tree[q], "dir") \/ IsType(tree[q], "other")
               PROVE  tree[q].content = 0
    BY DEF Plain
  <2>1. CASE q = p
    BY <2>1, <1>2 DEF IsType
  <2>2. CASE q # p
    BY <2>2, <1>4 DEF Plain, IsType
  <2> QED BY <2>1, <2>2
<1> QED BY <1>2, <1>4, <1>5, <1>6, <1>7, <1>8, <1>9, PathFacts DEF Edited

LEMMA DropEdited ==
  ASSUME TreeTypes, TreeInv, NEW p \in Paths \ {Root}, live[p] # None, Writable(live, p)
  PROVE  Edited(Drop(live, p))
<1> DEFINE tree == Drop(live, p)
<1>1. live[Parent(p)] # None /\ live[Parent(p)].type = "dir" /\ Parent(p) \in Paths \ Below[p]
  BY PathFacts, BelowFacts DEF Writable, IsType
<1>2. /\ tree \in Trees /\ \A q \in Below[p] : tree[q] = None
      /\ \A q \in Paths \ Below[p] : q # Parent(p) => tree[q] = live[q]
      /\ tree[Parent(p)] # None /\ tree[Parent(p)].stamp = clock + 1
      /\ tree[Parent(p)].type = "dir" /\ tree[Parent(p)].content = live[Parent(p)].content
  BY <1>1, TreeParts, DropTree
<1>3. \A q \in Paths \ Below[p] :
        /\ tree[q] = None <=> live[q] = None
        /\ live[q] # None => tree[q].type = live[q].type /\ tree[q].content = live[q].content
  BY <1>1, <1>2
<1>4. \A q \in Paths \ {Root} : q \notin Below[p] => Parent(q) \notin Below[p]
  BY PathFacts, BelowFacts
<1>5. WellFormed(tree)
  <2> SUFFICES ASSUME NEW q \in Paths \ {Root}, tree[q] # None
               PROVE  IsType(tree[Parent(q)], "dir")
    BY DEF WellFormed
  <2>1. q \notin Below[p] /\ Parent(q) \in Paths \ Below[p]
    BY <1>2, <1>4, PathFacts
  <2>2. IsType(live[Parent(q)], "dir")
    BY <2>1, <1>3, TreeParts
  <2> QED BY <2>1, <2>2, <1>3 DEF IsType
<1>6. \A q \in Paths : tree[q] # live[q] => tree[q] = None \/ tree[q].stamp = clock + 1
  BY <1>2
<1>7. ASSUME NEW q \in Paths \ {Root}, tree[Parent(q)] = live[Parent(q)]
      PROVE  tree[q] = None <=> live[q] = None
  <2>1. live[Parent(p)].stamp <= clock /\ live[Parent(p)].stamp \in Nat
    BY <1>1, TreeParts, TreeFacts
  <2>2. Parent(q) # Parent(p)
    BY <1>2, <1>7, <2>1, TreeParts
  <2>3. CASE q \in Below[p]
    <3>1. Parent(q) \in Below[p]
      BY <2>2, <2>3, PathFacts, BelowFacts
    <3>2. live[Parent(q)] = None
      BY <3>1, <1>2, <1>7
    <3> QED BY <3>2, <2>3, <1>2, TreeParts DEF IsType
  <2>4. CASE q \notin Below[p]
    BY <2>4, <1>3
  <2> QED BY <2>3, <2>4
<1>8. /\ tree[Root] = None <=> live[Root] = None
      /\ IsType(live[Root], "dir") => IsType(tree[Root], "dir")
  <2>1. Root \in Paths \ Below[p]
    BY PathFacts, BelowFacts
  <2> QED BY <2>1, <1>3 DEF IsType
<1>9. Plain(live) => Plain(tree)
  BY <1>2, <1>3 DEF Plain, IsType
<1> QED BY <1>2, <1>5, <1>6, <1>7, <1>8, <1>9 DEF Edited

\* Every edit, with what it does to the histories.
EditStep ==
  /\ phase \notin {"stopped", "done"} /\ edits' \in 0..MaxEdits /\ clock' = clock + 1
  /\ Edited(live')
  /\ Remember({q \in Paths : EntriesDiffer(live[q], live'[q])})
  /\ UNCHANGED <<phase, walk, capture, volume, sealed, job, faults>>

LEMMA EditSteps ==
  ASSUME TreeTypes, TreeInv, Edits
  PROVE  EditStep
<1>1. ASSUME NEW p \in Paths, NEW tree, Edit(p, tree), Edited(tree) PROVE EditStep
  <2>1. edits' \in 0..MaxEdits
    BY <1>1, TreeAssumption DEF Edit, TreeTypes
  <2> QED BY <1>1, <2>1 DEF Edit, EditStep
<1>2. ASSUME NEW p \in Paths, Write(p) PROVE EditStep
  <2>1. PICK contents \in {live[p].content, clock + 1} :
          Edit(p, [live EXCEPT ![p] = Entry("file", "open", contents, clock + 1)])
    BY <1>2 DEF Write
  <2>2. live[p] # None /\ live[p].type = "file" /\ contents \in Nat /\ clock + 1 \in Nat
    BY <1>2, TreeParts, TreeFacts DEF Write, IsType
  <2>3. Edited([live EXCEPT ![p] = Entry("file", "open", contents, clock + 1)])
    BY <2>2, EntryTypes, RewriteEdited
  <2> QED BY <2>1, <2>3, <1>1
<1>3. ASSUME NEW p \in Paths, Chmod(p) PROVE EditStep
  <2>1. PICK mode \in {"open", "closed"} :
          Edit(p, [live EXCEPT ![p] = Entry("dir", mode, 0, clock + 1)])
    BY <1>3 DEF Chmod
  <2>2. live[p] # None /\ live[p].type = "dir" /\ clock + 1 \in Nat
    BY <1>3, TreeParts DEF Chmod, IsType
  <2>3. Edited([live EXCEPT ![p] = Entry("dir", mode, 0, clock + 1)])
    BY <2>2, EntryTypes, RewriteEdited
  <2> QED BY <2>1, <2>3, <1>1
<1>4. ASSUME NEW p \in Paths, Make(p) PROVE EditStep
  <2>1. PICK type \in {"file", "dir", "other"} :
          Edit(p, Put(live, p, Entry(type, "open", IF type = "file" THEN clock + 1 ELSE 0, clock + 1)))
    BY <1>4 DEF Make
  <2>2. live[p] = None /\ Writable(live, p) /\ p # Root /\ clock + 1 \in Nat
    BY <1>4, <2>1, TreeParts DEF Make, Edit
  <2>3. Edited(Put(live, p, Entry(type, "open", IF type = "file" THEN clock + 1 ELSE 0, clock + 1)))
    BY <2>2, EntryTypes, MakeEdited
  <2> QED BY <2>1, <2>3, <1>1
<1>5. ASSUME NEW p \in Paths, Remove(p) PROVE EditStep
  <2>1. live[p] # None /\ Writable(live, p) /\ p # Root /\ Edit(p, Drop(live, p))
    BY <1>5 DEF Remove, Edit
  <2>2. Edited(Drop(live, p))
    BY <2>1, DropEdited
  <2> QED BY <2>1, <2>2, <1>1
<1> QED BY <1>2, <1>3, <1>4, <1>5 DEF Edits

-----------------------------------------------------------------------------
(* Walks *)

LEMMA WalkParts ==
  ASSUME WalkTypes
  PROVE  /\ walk.todo \subseteq Paths /\ walk.listed \subseteq Paths /\ walk.failed \subseteq Paths
         /\ walk.seen \in Trees
         /\ walk = [todo |-> walk.todo, listed |-> walk.listed, seen |-> walk.seen,
                    failed |-> walk.failed]
BY DEF WalkTypes

LEMMA NewWalkFacts ==
  /\ NewWalk \in [todo: SUBSET Paths, listed: SUBSET Paths, seen: Trees, failed: SUBSET Paths]
  /\ NewWalk.todo = Paths /\ NewWalk.listed = {Root} /\ NewWalk.failed = {}
  /\ \A p \in Paths : NewWalk.seen[p] = None
BY EmptyTree, PathFacts DEF NewWalk

\* The walk finds a next path, whatever is left.
LEMMA NextPathFacts ==
  ASSUME WalkTypes, Unread # {}
  PROVE  NextPath \in Unread
<1>1. Unread \subseteq Paths
  BY DEF Unread, WalkTypes
<1>2. \E p \in Unread : Above[p] \cap Unread = {p}
  <2>1. CASE Root \in Unread
    BY <2>1, AboveFacts
  <2>2. CASE Root \notin Unread /\ Folder \in Unread
    BY <2>2, AboveFacts
  <2>3. CASE Root \notin Unread /\ Folder \notin Unread
    <3>1. PICK p \in Unread : TRUE
      OBVIOUS
    <3>2. p \in Names
      BY <1>1, <2>3, <3>1, PathFacts
    <3> QED BY <2>3, <3>1, <3>2, AboveFacts
  <2> QED BY <2>1, <2>2, <2>3
<1> QED BY <1>2 DEF NextPath

(***************************************************************************)
(* What reading one path does to the walk.                                 *)
(***************************************************************************)
ReadOf(p) ==
  /\ p \in walk.todo \cap walk.listed
  /\ WalkTypes' /\ faults' \in 0..MaxFaults
  /\ walk'.todo = walk.todo \ {p}
  /\ \A q \in Paths : q # p => walk'.seen[q] = walk.seen[q] /\ (q \in walk'.failed <=> q \in walk.failed)
  /\ walk'.seen[p] \in {None, live[p]}
  /\ p \in walk'.failed \/ (live[p] # None /\ walk'.seen[p] = live[p])
  /\ walk.listed \subseteq walk'.listed
  /\ p \notin walk'.failed /\ IsType(live[p], "dir") =>
       InFolder(p) \cap Present(live) \subseteq walk'.listed
  /\ \A q \in walk'.listed \ walk.listed : q \in InFolder(p) /\ IsType(walk'.seen[p], "dir")

LEMMA VisitReads ==
  ASSUME FileTypes, NEW unsupported, "dir" \notin unsupported, Visit(unsupported)
  PROVE  \E p \in Paths : ReadOf(p)
<1> DEFINE p == NextPath
           e == live[p]
           read == IF e # None /\ e.type \in unsupported THEN None ELSE e
           found == IF IsType(e, "dir") THEN walk.listed \cup (InFolder(p) \cap Present(live))
                    ELSE walk.listed
           bad == IF e = None \/ e.type \in unsupported THEN walk.failed \cup {p} ELSE walk.failed
<1>1. p \in walk.todo \cap walk.listed /\ p \in Paths
  BY NextPathFacts, WalkParts DEF Visit, Unread, FileTypes
<1>2. walk' = [todo |-> walk.todo \ {p}, listed |-> found, seen |-> [walk.seen EXCEPT ![p] = read],
               failed |-> bad]
  BY WalkParts DEF Visit, FileTypes
<1>3. faults' \in 0..MaxFaults
  BY DEF Visit, FileTypes, TreeTypes
<1>4. e \in Entries \cup {None} /\ read \in Entries \cup {None}
  BY <1>1, TreeFacts DEF FileTypes, TreeTypes
<1>5. /\ [walk.seen EXCEPT ![p] = read] \in Trees
      /\ [walk.seen EXCEPT ![p] = read][p] = read
      /\ \A q \in Paths : q # p => [walk.seen EXCEPT ![p] = read][q] = walk.seen[q]
  BY <1>1, <1>4, WalkParts DEF FileTypes, Trees
<1>6. found \subseteq Paths /\ bad \subseteq Paths
  BY <1>1, WalkParts, InFolderFacts DEF FileTypes
<1>7. WalkTypes'
  BY <1>2, <1>5, <1>6, WalkParts DEF WalkTypes, FileTypes
<1>8. p \in walk'.failed \/ (live[p] # None /\ walk'.seen[p] = live[p])
  BY <1>2, <1>5
<1>9. \A q \in Paths : q # p => walk'.seen[q] = walk.seen[q] /\ (q \in walk'.failed <=> q \in walk.failed)
  BY <1>2, <1>5
<1>10. /\ walk'.seen[p] \in {None, live[p]} /\ walk.listed \subseteq walk'.listed
       /\ IsType(live[p], "dir") => InFolder(p) \cap Present(live) \subseteq walk'.listed
  BY <1>2, <1>5
<1>11. \A q \in walk'.listed \ walk.listed : q \in InFolder(p) /\ IsType(walk'.seen[p], "dir")
  <2>1. IsType(e, "dir") => read = e
    BY DEF IsType
  <2> QED BY <1>2, <1>5, <2>1
<1> QED BY <1>1, <1>2, <1>3, <1>7, <1>8, <1>9, <1>10, <1>11 DEF ReadOf

LEMMA VisitFailsReads ==
  ASSUME FileTypes, VisitFails
  PROVE  \E p \in Paths : ReadOf(p)
<1> DEFINE p == NextPath
           read == IF IsType(live[p], "dir") THEN live[p] ELSE None
<1>1. p \in walk.todo \cap walk.listed /\ p \in Paths
  BY NextPathFacts, WalkParts DEF VisitFails, Unread, FileTypes
<1>2. walk' = [todo |-> walk.todo \ {p}, listed |-> walk.listed,
               seen |-> [walk.seen EXCEPT ![p] = read], failed |-> walk.failed \cup {p}]
  BY WalkParts DEF VisitFails, FileTypes
<1>3. faults' \in 0..MaxFaults
  BY TreeAssumption DEF VisitFails, FileTypes, TreeTypes
<1>4. read \in Entries \cup {None}
  BY <1>1, TreeFacts DEF FileTypes, TreeTypes
<1>5. /\ [walk.seen EXCEPT ![p] = read] \in Trees
      /\ [walk.seen EXCEPT ![p] = read][p] = read
      /\ \A q \in Paths : q # p => [walk.seen EXCEPT ![p] = read][q] = walk.seen[q]
  BY <1>1, <1>4, WalkParts DEF FileTypes, Trees
<1>6. WalkTypes'
  BY <1>1, <1>2, <1>5, WalkParts DEF WalkTypes, FileTypes
<1>7. \A q \in Paths : q # p => walk'.seen[q] = walk.seen[q] /\ (q \in walk'.failed <=> q \in walk.failed)
  BY <1>2, <1>5
<1> QED BY <1>1, <1>2, <1>3, <1>5, <1>6, <1>7 DEF ReadOf

\* A step of a walk, whichever it is of.
WalkStep ==
  /\ \E p \in Paths : ReadOf(p)
  /\ phase \in Walking
  /\ UNCHANGED <<diskVars, edits, phase, capture, volume, sealed, job, past>>

LEMMA WalkSteps ==
  ASSUME FileTypes, ReadNext \/ CloneNext
  PROVE  WalkStep
<1>1. \E p \in Paths : ReadOf(p)
  BY VisitReads, VisitFailsReads DEF ReadNext, CloneNext
<1> QED BY <1>1 DEF WalkStep, ReadNext, CloneNext, Walking

-----------------------------------------------------------------------------
(* The steps, by what they leave alone *)

\* The capture and the scan touch neither the tree nor the restore.
CaptureStep ==
  TakeBackstop \/ EndGuard \/ CloneDirectory \/ EndClone \/ Reconcile \/ InterruptCapture

SealStep == StartSeal \/ Seal

LEMMA StepCases ==
  ASSUME FileTypes, TreeInv, [Next]_vars
  PROVE  EditStep \/ WalkStep \/ CaptureStep \/ SealStep \/ Restore \/ UNCHANGED vars
<1>1. CASE Edits
  BY <1>1, EditSteps DEF FileTypes
<1>2. CASE Capture
  BY <1>2, WalkSteps DEF Capture, CaptureStep
<1>3. CASE Terminated
  BY <1>3 DEF Terminated
<1> QED BY <1>1, <1>2, <1>3 DEF Next, SealStep

-----------------------------------------------------------------------------
(* What restore does to the tree *)

Sound(tree) ==
  /\ tree \in Trees /\ WellFormed(tree) /\ IsType(tree[Root], "dir")
  /\ \A p \in Paths : tree[p] # None => tree[p].stamp <= clock + 1

\* Files are replaced only where restore replaces them.
Keeps(tree, base, p) == \A q \in Paths : q # p /\ IsType(base[q], "file") => tree[q] = base[q]

LEMMA LiveSound ==
  ASSUME TreeTypes, TreeInv, IsType(live[Root], "dir")
  PROVE  Sound(live)
<1>1. \A p \in Paths : live[p] # None => live[p].stamp <= clock /\ live[p].stamp \in Nat
  BY TreeParts, TreeFacts
<1>2. \A p \in Paths : live[p] # None => live[p].stamp <= clock + 1
  BY <1>1, TreeParts
<1> QED BY <1>2, TreeParts DEF Sound

LEMMA PutSound ==
  ASSUME NEW tree, Sound(tree), clock \in Nat, NEW p \in Paths \ {Root}, NEW e \in Entries,
         IsType(tree[Parent(p)], "dir"), e.stamp <= clock + 1,
         e.type = "dir" \/ ~IsType(tree[p], "dir")
  PROVE  Sound(Put(tree, p, e)) /\ Keeps(Put(tree, p, e), tree, p) /\ Put(tree, p, e)[p] = e
<1> DEFINE new == Put(tree, p, e)
<1>1. tree \in Trees /\ tree[Parent(p)] # None /\ Parent(p) \in Paths /\ Parent(p) # p
  BY PathFacts DEF Sound, IsType
<1>2. /\ new \in Trees /\ new[p] = e /\ e # None
      /\ \A q \in Paths : q # p /\ (q # Parent(p) \/ tree[p] # None) => new[q] = tree[q]
      /\ tree[p] = None =>
           /\ new[Parent(p)] # None /\ new[Parent(p)].stamp = clock + 1
           /\ new[Parent(p)].type = tree[Parent(p)].type
  BY <1>1, PutTree, EntryAssumption
<1>3. \A q \in Paths : q # p => (new[q] = None <=> tree[q] = None) /\ (tree[q] # None => new[q].type = tree[q].type)
  BY <1>1, <1>2
<1>4. WellFormed(new)
  <2> SUFFICES ASSUME NEW q \in Paths \ {Root}, new[q] # None
               PROVE  IsType(new[Parent(q)], "dir")
    BY DEF WellFormed
  <2>1. CASE q = p
    BY <2>1, <1>1, <1>3 DEF IsType
  <2>2. CASE q # p
    <3>1. IsType(tree[Parent(q)], "dir")
      BY <2>2, <1>3 DEF Sound, WellFormed
    <3>2. CASE Parent(q) = p
      BY <3>1, <3>2, <1>2 DEF IsType
    <3>3. CASE Parent(q) # p
      BY <3>1, <3>3, <1>3, PathFacts DEF IsType
    <3> QED BY <3>2, <3>3
  <2> QED BY <2>1, <2>2
<1>5. IsType(new[Root], "dir")
  BY <1>3, PathFacts DEF Sound, IsType
<1>6. \A q \in Paths : new[q] # None => new[q].stamp <= clock + 1
  <2> SUFFICES ASSUME NEW q \in Paths, new[q] # None PROVE new[q].stamp <= clock + 1
    OBVIOUS
  <2>1. CASE q = p
    BY <2>1, <1>2
  <2>2. CASE q = Parent(p) /\ tree[p] = None
    BY <2>2, <1>2
  <2>3. CASE q # p /\ (q # Parent(p) \/ tree[p] # None)
    BY <2>3, <1>2 DEF Sound
  <2> QED BY <2>1, <2>2, <2>3
<1>7. Keeps(new, tree, p)
  BY <1>1, <1>2 DEF Keeps, IsType
<1> QED BY <1>2, <1>4, <1>5, <1>6, <1>7 DEF Sound

\* os.MkdirAll starts from the root, when it is gone as well.
LEMMA MadeSound ==
  ASSUME NEW tree, clock \in Nat, NEW p \in Paths, ~IsType(tree[p], "file"), ~IsType(tree[p], "other"),
         IF p = Root THEN tree \in Trees /\ WellFormed(tree) /\
                          \A q \in Paths : tree[q] # None => tree[q].stamp <= clock + 1
         ELSE Sound(tree) /\ IsType(tree[Parent(p)], "dir")
  PROVE  Sound(Made(tree, p)) /\ Keeps(Made(tree, p), tree, p)
<1> DEFINE e == Entry("dir", "open", 0, clock + 1)
<1>1. e \in Entries /\ e.type = "dir" /\ e.stamp = clock + 1 /\ e # None
  BY EntryTypes
<1>2. CASE tree[p] # None
  <2>1. tree \in Trees
    BY DEF Sound
  <2>2. IsType(tree[p], "dir")
    BY <1>2, <2>1, TreeFacts DEF IsType
  <2> QED BY <1>2, <2>2 DEF Made, Sound, Keeps
<1>3. CASE tree[p] = None /\ p # Root
  <2>1. Sound(Put(tree, p, e)) /\ Keeps(Put(tree, p, e), tree, p)
    BY <1>1, <1>3, PutSound
  <2> QED BY <1>3, <2>1 DEF Made
<1>4. CASE tree[p] = None /\ p = Root
  <2>1. /\ Put(tree, p, e) \in Trees /\ Put(tree, p, e)[Root] = e
        /\ \A q \in Paths : q # Root => Put(tree, p, e)[q] = tree[q]
    BY <1>1, <1>4, PutTree
  <2>2. \A q \in Paths : q # Root => tree[q] = None
    BY <1>4, PathFacts DEF WellFormed, IsType
  <2>3. Sound(Put(tree, p, e)) /\ Keeps(Put(tree, p, e), tree, p)
    BY <1>1, <1>4, <2>1, <2>2 DEF Sound, WellFormed, IsType, Keeps
  <2> QED BY <1>4, <2>3 DEF Made
<1> QED BY <1>2, <1>3, <1>4

LEMMA MkdirAllSound ==
  ASSUME TreeTypes, TreeInv, NEW p \in Paths \ {Root},
         IsType(MkdirAll(p)[Parent(p)], "dir"), IsType(live[Root], "dir") \/ live[Root] = None
  PROVE  Sound(MkdirAll(p)) /\ Keeps(MkdirAll(p), live, p)
<1> DEFINE rooted == Made(live, Root)
<1>1. /\ live \in Trees /\ WellFormed(live) /\ clock \in Nat
      /\ \A q \in Paths : live[q] # None => live[q].stamp <= clock + 1
  <2>1. \A q \in Paths : live[q] # None => live[q].stamp <= clock /\ live[q].stamp \in Nat
    BY TreeParts, TreeFacts
  <2> QED BY <2>1, TreeParts
<1>2. Sound(rooted) /\ Keeps(rooted, live, Root)
  BY <1>1, MadeSound, PathFacts DEF IsType
<1>3. CASE p \notin Names
  BY <1>2, <1>3, PathFacts DEF MkdirAll, Keeps, IsType
<1>4. CASE p \in Names
  <2>1. Parent(p) = Folder /\ Folder \in Paths /\ Folder # Root /\ Parent(Folder) = Root
    BY <1>4, PathFacts
  <2>2. MkdirAll(p) = Made(rooted, Folder)
    BY <1>4 DEF MkdirAll
  <2>3. CASE rooted[Folder] # None
    <3>1. MkdirAll(p) = rooted
      BY <2>2, <2>3 DEF Made
    <3> QED BY <1>2, <3>1 DEF Keeps, IsType
  <2>4. CASE rooted[Folder] = None
    <3>1. Sound(MkdirAll(p)) /\ Keeps(MkdirAll(p), rooted, Folder)
      BY <1>2, <2>1, <2>2, <2>4, MadeSound, <1>1 DEF IsType, Sound
    <3>2. ~IsType(live[Folder], "file")
      BY <1>2, <2>1, <2>4 DEF Keeps, IsType
    <3>3. ~IsType(live[Root], "file")
      BY DEF IsType
    <3>4. Keeps(MkdirAll(p), live, p)
      BY <1>2, <3>1, <3>2, <3>3 DEF Keeps
    <3> QED BY <3>1, <3>4
  <2> QED BY <2>3, <2>4
<1> QED BY <1>3, <1>4

LEMMA ParentsSound ==
  ASSUME TreeTypes, TreeInv, NEW p \in Paths, ParentsReady(p), IsType(live[Root], "dir")
  PROVE  /\ p # Root /\ Sound(WithParents(p)) /\ IsType(WithParents(p)[Parent(p)], "dir")
         /\ Keeps(WithParents(p), live, p) /\ WithParents(p)[p] = live[p]
<1>1. p # Root /\ Sound(live) /\ clock \in Nat /\ live \in Trees
  BY LiveSound, TreeParts DEF ParentsReady
<1>2. CASE p \notin Names
  BY <1>1, <1>2, PathFacts DEF WithParents, Keeps
<1>3. CASE p \in Names /\ live[Folder] = None
  <2> DEFINE e == Entry("dir", "open", 0, clock + 1)
  <2>1. WithParents(p) = Put(live, Folder, e)
    BY <1>3 DEF WithParents
  <2>2. Sound(Put(live, Folder, e)) /\ Keeps(Put(live, Folder, e), live, Folder)
        /\ Put(live, Folder, e)[Folder] = e /\ e.type = "dir" /\ e # None
    BY <1>1, EntryTypes, PutSound, PathFacts
  <2>5. e \in Entries /\ Folder \in Paths /\ live[Parent(Folder)] # None /\ p \in Paths
        /\ p # Folder /\ p # Parent(Folder)
    BY <1>1, <1>3, EntryTypes, PathFacts DEF IsType
  <2>3. WithParents(p)[p] = live[p]
    BY <1>1, <2>1, <2>5, PutTree
  <2>4. Keeps(WithParents(p), live, p)
    BY <1>3, <2>1, <2>2 DEF Keeps, IsType
  <2> QED BY <1>1, <1>3, <2>1, <2>2, <2>3, <2>4, PathFacts DEF IsType
<1>4. CASE p \in Names /\ live[Folder] # None
  <2> DEFINE e == [live[Folder] EXCEPT !.mode = "open"]
  <2>1. live[Folder] \in Entries /\ live[Folder].type = "dir"
    BY <1>1, <1>4, TreeFacts, PathFacts DEF ParentsReady
  <2>2. e \in Entries /\ e # None /\ e.type = "dir" /\ e.stamp = live[Folder].stamp
    BY <2>1, EntryAssumption DEF Entries
  <2>3. WithParents(p) = [live EXCEPT ![Folder] = e]
    BY <1>4 DEF WithParents
  <2> HIDE DEF e
  <2>4. /\ WithParents(p) \in Trees /\ WithParents(p)[Folder] = e
        /\ \A q \in Paths : q # Folder => WithParents(p)[q] = live[q]
    BY <1>1, <2>2, <2>3, PathFacts, TreeFacts DEF Trees
  <2>5. Sound(WithParents(p))
    <3>1. \A q \in Paths :
            /\ WithParents(p)[q] = None <=> live[q] = None
            /\ live[q] # None => /\ WithParents(p)[q].type = live[q].type
                                /\ WithParents(p)[q].stamp = live[q].stamp
      BY <1>4, <2>1, <2>2, <2>4
    <3>2. WellFormed(WithParents(p))
      BY <1>1, <3>1, PathFacts DEF Sound, WellFormed, IsType
    <3>3. IsType(WithParents(p)[Root], "dir")
      BY <1>1, <3>1, PathFacts DEF Sound, IsType
    <3>4. \A q \in Paths : WithParents(p)[q] # None => WithParents(p)[q].stamp <= clock + 1
      BY <1>1, <3>1 DEF Sound
    <3> QED BY <2>4, <3>2, <3>3, <3>4 DEF Sound
  <2>6. Keeps(WithParents(p), live, p)
    BY <2>1, <2>4 DEF Keeps, IsType
  <2> QED BY <1>1, <1>4, <2>2, <2>4, <2>5, <2>6, PathFacts DEF IsType
<1> QED BY <1>2, <1>3, <1>4

-----------------------------------------------------------------------------
(* The queue of a restore *)

LEMMA FileParts ==
  ASSUME FileTypes
  PROVE  /\ capture.guard \in Trees /\ capture.clone \in Trees /\ capture.before \in Trees
         /\ capture.observed \in Trees
         /\ capture.failed \subseteq Paths /\ capture.uncaptured \subseteq Paths
         /\ sealed.changes \in [Paths -> Changes] /\ sealed.gaps \subseteq Paths
         /\ sealed.complete \in BOOLEAN /\ sealed.scanned \in BOOLEAN
         /\ job.forced \in BOOLEAN /\ job.queue \subseteq Items /\ job.plans \in [Paths -> Plans]
         /\ job.mounted \subseteq Paths /\ job.created \in Trees /\ job.temporary \in Trees
         /\ job.finalized \subseteq Paths /\ job.results \in [Paths -> Statuses]
         /\ past.instant \in Trees /\ past.ended \in Trees /\ past.begun \in Trees
         /\ past.touched \subseteq Paths /\ past.during \subseteq Paths /\ past.left \in Trees
BY DEF FileTypes, TreeTypes, CaptureTypes, SealTypes, JobTypes, Jobs

LEMMA DepthFacts ==
  /\ \A p \in Paths : Cardinality(Above[p]) \in 1..3
  /\ Cardinality(Above[Folder]) = 2 /\ \A p \in Names : Cardinality(Above[p]) = 3
<1>1. IsFiniteSet({Root}) /\ Cardinality({Root}) = 1
  BY FS_Singleton
<1>2. IsFiniteSet({Root, Folder}) /\ Cardinality({Root, Folder}) = 2
  <2>1. {Root, Folder} = {Root} \cup {Folder} /\ Folder \notin {Root}
    BY PathFacts
  <2> QED BY <1>1, <2>1, FS_AddElement
<1>3. ASSUME NEW p \in Names PROVE Cardinality({Root, Folder, p}) = 3
  <2>1. {Root, Folder, p} = {Root, Folder} \cup {p} /\ p \notin {Root, Folder}
    BY PathFacts
  <2> QED BY <1>2, <2>1, FS_AddElement
<1>4. Above[Root] = {Root} /\ Above[Folder] = {Root, Folder}
  BY AboveFacts, PathFacts
<1>5. \A p \in Names : Above[p] = {Root, Folder, p}
  BY AboveFacts
<1>6. /\ Cardinality(Above[Root]) = 1 /\ Cardinality(Above[Folder]) = 2
      /\ \A p \in Names : Cardinality(Above[p]) = 3
  BY <1>1, <1>2, <1>3, <1>4, <1>5
<1>7. \A p \in Paths : p = Root \/ p = Folder \/ p \in Names
  BY PathFacts
<1>8. ASSUME NEW p \in Paths PROVE Cardinality(Above[p]) \in 1..3
  <2>1. Cardinality(Above[p]) = 1 \/ Cardinality(Above[p]) = 2 \/ Cardinality(Above[p]) = 3
    BY <1>6, <1>7
  <2> QED BY <2>1
<1> QED BY <1>6, <1>8

\* The least of a few ranks, taken by one of any items.
LEMMA LeastOfThree ==
  ASSUME NEW S, NEW rank, S # {}, \A i \in S : rank[i] \in 0..2
  PROVE  \E i \in S : \A j \in S : rank[i] <= rank[j]
<1>1. CASE \E i \in S : rank[i] = 0
  BY <1>1
<1>2. CASE (\A i \in S : rank[i] # 0) /\ \E i \in S : rank[i] = 1
  BY <1>2
<1>3. CASE \A i \in S : rank[i] # 0 /\ rank[i] # 1
  BY <1>3
<1> QED BY <1>1, <1>2, <1>3

LEMMA FirstItemFacts ==
  ASSUME FileTypes, job.queue # {}
  PROVE  /\ FirstItem \in job.queue /\ FirstItem.path \in Paths
         /\ FirstItem.form \in {"change", "mounted", "baseline"}
         /\ \A j \in job.queue : Weight(FirstItem) <= Weight(j)
<1> DEFINE Form(i) == IF i.form = "change" THEN 0 ELSE IF i.form = "mounted" THEN 1 ELSE 2
           IsDir(i) == IsType(Sought(i).before, "dir") \/ IsType(Sought(i).after, "dir")
           forms == [i \in job.queue |-> Form(i)]
           One == {i \in job.queue : \A j \in job.queue : Form(i) <= Form(j)}
           dirs == [i \in One |-> IF IsDir(i) THEN 1 ELSE 0]
           Two == {i \in One : \A j \in One : dirs[i] <= dirs[j]}
           depths == [i \in Two |-> 3 - Cardinality(Above[i.path])]
<1>1. \A i \in job.queue : i.path \in Paths /\ i.form \in {"change", "mounted", "baseline"}
  BY FileParts DEF Items
<1>2. \A i \in job.queue : Cardinality(Above[i.path]) \in 1..3
  BY <1>1, DepthFacts
<1>3. \A i \in job.queue : Weight(i) = 10 * Form(i) + (IF IsDir(i) THEN 3 ELSE 0)
                                       + (3 - Cardinality(Above[i.path]))
  BY <1>1 DEF Weight
<1>4. One # {}
  <2>1. \A i \in job.queue : forms[i] = Form(i) /\ forms[i] \in 0..2
    OBVIOUS
  <2>2. \E i \in job.queue : \A j \in job.queue : forms[i] <= forms[j]
    BY <2>1, LeastOfThree
  <2> QED BY <2>1, <2>2
<1>5. Two # {}
  <2>1. \A i \in One : dirs[i] \in 0..2
    OBVIOUS
  <2> HIDE DEF One, dirs
  <2>2. \E i \in One : \A j \in One : dirs[i] <= dirs[j]
    BY <1>4, <2>1, LeastOfThree
  <2> QED BY <2>2
<1>6. PICK i \in Two : \A j \in Two : depths[i] <= depths[j]
  <2>1. ASSUME NEW i \in Two PROVE depths[i] \in 0..2
    <3>1. Cardinality(Above[i.path]) \in 1..3
      BY <1>2
    <3> HIDE DEF Two
    <3>2. depths[i] = 3 - Cardinality(Above[i.path])
      BY <2>1
    <3> QED BY <3>1, <3>2
  <2> HIDE DEF Two, depths
  <2> QED BY <1>5, <2>1, LeastOfThree
<1>7. ASSUME NEW j \in job.queue PROVE Weight(i) <= Weight(j)
  <2>1. i \in One /\ i \in job.queue /\ Form(i) <= Form(j)
    BY <1>6, <1>7
  <2>2. Form(i) \in 0..2 /\ Form(j) \in 0..2
    OBVIOUS
  <2>3. CASE Form(i) < Form(j)
    <3> HIDE DEF Form, IsDir
    <3> QED BY <2>1, <2>2, <2>3, <1>2, <1>3, <1>7
  <2>4. CASE Form(i) = Form(j)
    <3>1. j \in One
      BY <2>1, <2>4
    <3>2. dirs[i] <= dirs[j]
      BY <1>6, <3>1
    <3>3. /\ dirs[i] = IF IsDir(i) THEN 1 ELSE 0
          /\ dirs[j] = IF IsDir(j) THEN 1 ELSE 0
      BY <2>1, <3>1
    <3>4. CASE dirs[i] < dirs[j]
      <4>1. ~IsDir(i) /\ IsDir(j)
        BY <3>3, <3>4
      <4> HIDE DEF Form, IsDir, One, Two, dirs, depths
      <4> QED BY <2>1, <2>2, <2>4, <4>1, <1>2, <1>3, <1>7
    <3>5. CASE dirs[i] = dirs[j]
      <4>1. j \in Two
        BY <1>6, <3>1, <3>5
      <4>2. depths[i] <= depths[j]
        BY <1>6, <4>1
      <4>3. depths[i] = 3 - Cardinality(Above[i.path]) /\ depths[j] = 3 - Cardinality(Above[j.path])
        BY <1>6, <4>1
      <4>4. IsDir(i) <=> IsDir(j)
        BY <3>3, <3>5
      <4> HIDE DEF Form, IsDir, One, Two, dirs, depths
      <4> QED BY <2>1, <2>2, <2>4, <4>2, <4>3, <4>4, <1>2, <1>3, <1>7
    <3> QED BY <3>2, <3>3, <3>4, <3>5
  <2> QED BY <2>1, <2>2, <2>3, <2>4
<1>8. i \in job.queue
  BY <1>6
<1>9. FirstItem \in job.queue /\ \A j \in job.queue : Weight(FirstItem) <= Weight(j)
  BY <1>7, <1>8 DEF FirstItem
<1> QED BY <1>1, <1>9

(***************************************************************************)
(* What is sought for an item.                                             *)
(***************************************************************************)
LEMMA SoughtFacts ==
  ASSUME FileTypes, SealedInv, NEW i \in Items
  PROVE  /\ Sought(i) \in Changes
         /\ Sought(i).kind = "created" => Sought(i).before = None
         /\ Sought(i).kind \in {"deleted", "modified"} => Sought(i).before \in Entries
         /\ Sought(i).source = "clone" /\ Sought(i).kind # "none" =>
              Sought(i).before = capture.before[i.path]
         /\ Sought(i).source = "volume" => i.form # "baseline" /\ volume # None
         /\ Sought(i).kind # "none" /\ ~CoveredBy(i.path, capture.uncaptured) =>
              Sought(i).before = capture.before[i.path]
<1>1. i.path \in Paths /\ capture.before[i.path] \in Entries \cup {None}
  BY FileParts, TreeFacts DEF Items
<1>2. CASE i.form = "baseline"
  BY <1>1, <1>2 DEF Sought, Changes
<1>3. CASE i.form # "baseline"
  <2>1. Sought(i) = sealed.changes[i.path] /\ Sought(i) \in Changes
    BY <1>1, <1>3, FileParts DEF Sought
  <2> QED BY <1>1, <1>3, <2>1 DEF SealedInv, Changes
<1> QED BY <1>2, <1>3

LEMMA WriteFacts ==
  ASSUME FileTypes, TreeInv, SealedInv, JobInv, BaselineInv, Acting("write")
  PROVE  LET i == FirstItem IN
           /\ Sought(i).before \in Entries /\ Sought(i).before = capture.before[i.path]
           /\ Sought(i).before.type \in {"file", "dir"}
           /\ IsType(capture.clone[i.path], Sought(i).before.type)
           /\ capture.clone[i.path] \in Entries
           /\ ~CoveredBy(i.path, capture.uncaptured) /\ IsType(live[Root], "dir")
<1> DEFINE i == FirstItem
<1>1. i \in job.queue /\ i \in Items /\ i.path \in Paths /\ phase = "restoring"
  BY FirstItemFacts, FileParts DEF Acting
<1>2. Sought(i).source = "clone" /\ Sought(i).kind # "created" /\ i.form # "mounted"
  BY <1>1 DEF JobInv, Acting
<1>3. Sought(i).kind # "none"
  BY <1>1, <1>2 DEF JobInv, Sought
<1>4. Sought(i).before \in Entries /\ Sought(i).before = capture.before[i.path]
  <2>1. Sought(i).kind \in {"deleted", "modified"}
    BY <1>1, <1>2, <1>3, SoughtFacts DEF Changes
  <2> QED BY <1>1, <1>2, <1>3, <2>1, SoughtFacts
<1>5. i.path \in Present(capture.before)
  BY <1>1, <1>4, EntryAssumption DEF Present
<1>6. /\ ~CoveredBy(i.path, capture.uncaptured) /\ capture.before[i.path].type # "other"
      /\ IsType(capture.clone[i.path], capture.before[i.path].type)
  BY <1>1, <1>5 DEF BaselineInv, Captured
<1>7. Root \notin capture.uncaptured
  BY <1>1, <1>6, AboveFacts DEF CoveredBy
<1>8. capture.clone[i.path] \in Entries /\ Sought(i).before.type \in {"file", "dir", "other"}
  BY <1>1, <1>4, <1>6, FileParts, TreeFacts DEF IsType, Entries
<1> QED BY <1>1, <1>4, <1>6, <1>7, <1>8 DEF TreeInv

-----------------------------------------------------------------------------
(* The steps of a restore *)

Mended ==
  /\ live' \in Trees /\ WellFormed(live') /\ clock' \in {clock, clock + 1}
  /\ \A p \in Paths : live'[p] # None => live'[p].stamp <= clock'
  /\ IsType(live'[Root], "dir") \/ (live'[Root] = None /\ Root \in capture.uncaptured)

LEMMA UnchangedMended ==
  ASSUME TreeTypes, TreeInv, phase \in Restorable, UNCHANGED diskVars
  PROVE  Mended
BY TreeParts DEF Mended, diskVars, TreeInv, Restorable

LEMMA SoundMended ==
  ASSUME TreeTypes, Sound(live'), clock' = clock + 1
  PROVE  Mended
BY DEF Mended, Sound

\* Restore never takes a captured root for created.
LEMMA RootKept ==
  ASSUME FileTypes, InstantInv, CaptureExact, SealedInv, JobInv, phase = "restoring",
         NEW i \in job.queue, Sought(i).kind = "created", i.path = Root
  PROVE  Root \in capture.uncaptured
<1>1. i \in Items /\ Root \in Paths
  BY FileParts, PathFacts
<1>2. SUFFICES ASSUME Root \notin capture.uncaptured PROVE FALSE
  OBVIOUS
<1>3. ~CoveredBy(Root, capture.uncaptured)
  BY <1>2, AboveFacts DEF CoveredBy
<1>4. capture.before[Root] = None
  BY <1>1, <1>3, SoughtFacts
<1>5. capture.before[Root] = past.instant[Root]
  BY <1>1, <1>3 DEF CaptureExact, Captured
<1> QED BY <1>4, <1>5 DEF InstantInv, Captured, IsType

LEMMA RemoveMended ==
  ASSUME FileTypes, TreeInv, InstantInv, CaptureExact, SealedInv, JobInv, RemovePath
  PROVE  Mended
<1> DEFINE i == FirstItem
           p == i.path
<1>1. /\ i \in job.queue /\ p \in Paths /\ phase = "restoring" /\ Sought(i).kind = "created"
  BY FirstItemFacts DEF RemovePath, Acting, JobInv
<1>2. CASE UNCHANGED diskVars
  BY <1>1, <1>2, UnchangedMended DEF FileTypes, Restorable
<1>3. CASE ~UNCHANGED diskVars
  <2>1. /\ live[p] # None /\ Writable(live, p) /\ InFolder(p) \cap Present(live) = {}
        /\ live' = Drop(live, p) /\ clock' = clock + 1
    BY <1>3 DEF RemovePath
  <2>2. live \in Trees /\ clock \in Nat /\ live[Parent(p)] # None
    BY <2>1, TreeParts DEF FileTypes, Writable, IsType
  <2>3. CASE p = Root
    <3>1. Root \in capture.uncaptured
      BY <1>1, <2>3, RootKept
    <3>2. live' \in Trees /\ \A q \in Paths : live'[q] = None
      BY <2>1, <2>2, <2>3, DropTree, BelowFacts, PathFacts
    <3> QED BY <2>1, <3>1, <3>2, PathFacts DEF Mended, WellFormed
  <2>4. CASE p # Root
    <3>1. Edited(live')
      BY <1>1, <2>1, <2>4, DropEdited DEF FileTypes
    <3>2. \A q \in Paths : live'[q] # None => live'[q].stamp <= clock'
      <4>1. \A q \in Paths : live[q] # None => live[q].stamp <= clock /\ live[q].stamp \in Nat
        BY TreeParts, TreeFacts DEF FileTypes
      <4> QED BY <2>1, <2>2, <3>1, <4>1 DEF Edited
    <3>3. IsType(live'[Root], "dir") \/ (live'[Root] = None /\ Root \in capture.uncaptured)
      BY <3>1 DEF Edited, TreeInv
    <3> QED BY <2>1, <3>1, <3>2, <3>3 DEF Mended, Edited
  <2> QED BY <2>3, <2>4
<1> QED BY <1>2, <1>3

\* What WritePath writes, over the tree with the folder ready.
LEMMA WriteSound ==
  ASSUME FileTypes, TreeInv, SealedInv, JobInv, BaselineInv, WritePath, ParentsReady(FirstItem.path)
  PROVE  Sound(live') /\ Keeps(live', live, FirstItem.path) /\ clock' = clock + 1
<1> DEFINE i == FirstItem
           p == i.path
           before == Sought(i).before
           tree == WithParents(p)
           e == Entry(before.type, before.mode, capture.clone[p].content, clock + 1)
<1>1. /\ before \in Entries /\ before.type \in {"file", "dir"} /\ capture.clone[p] \in Entries
      /\ IsType(live[Root], "dir")
  BY WriteFacts DEF WritePath
<1>2. p \in Paths /\ clock \in Nat /\ clock' = clock + 1
  BY FirstItemFacts, TreeParts DEF FileTypes, WritePath, Acting
<1>3. /\ p # Root /\ Sound(tree) /\ IsType(tree[Parent(p)], "dir") /\ Keeps(tree, live, p)
      /\ tree[p] = live[p]
  BY <1>1, <1>2, ParentsSound DEF FileTypes
<1> DEFINE possible == ParentsReady(p) /\ Replaceable(tree, p, before.type)
<1>4. live' = IF possible THEN Replaced(tree, p, before, capture.clone[p].content) ELSE tree
  BY Zenon DEF WritePath
<1>5. CASE ~Replaceable(tree, p, before.type)
  <2>1. live' = tree
    BY <1>5, <1>4
  <2> QED BY <1>2, <1>3, <2>1
<1>6. CASE Replaceable(tree, p, before.type)
  <2>1. live' = Put(tree, p, e)
    <3>1. Replaced(tree, p, before, capture.clone[p].content) = Put(tree, p, e)
      BY DEF Replaced
    <3>2. possible
      BY <1>6
    <3> HIDE DEF possible, tree, e
    <3> QED BY <1>4, <3>1, <3>2
  <2>2. e \in Entries /\ e.type = before.type /\ e.stamp = clock + 1
    <3>1. /\ before.type \in {"file", "dir", "other"} /\ before.mode \in {"open", "closed"}
          /\ capture.clone[p].content \in Nat /\ clock + 1 \in Nat
      BY <1>1, <1>2 DEF Entries
    <3> QED BY SMTT(30), <3>1, EntryTypes
  <2>3. e.type = "dir" \/ ~IsType(tree[p], "dir")
    BY <1>1, <1>6, <2>2 DEF Replaceable, IsType
  <2>4. Sound(Put(tree, p, e)) /\ Keeps(Put(tree, p, e), tree, p)
    <3> HIDE DEF tree, e
    <3> QED BY <1>2, <1>3, <2>2, <2>3, PutSound
  <2>5. Keeps(Put(tree, p, e), live, p)
    BY <1>3, <2>4 DEF Keeps
  <2> QED BY <1>2, <2>1, <2>4, <2>5
<1> QED BY <1>5, <1>6

LEMMA WriteMended ==
  ASSUME FileTypes, TreeInv, SealedInv, JobInv, BaselineInv, WritePath
  PROVE  Mended
<1>1. CASE ParentsReady(FirstItem.path)
  BY <1>1, WriteSound, SoundMended DEF FileTypes
<1>2. CASE ~ParentsReady(FirstItem.path)
  BY <1>2, UnchangedMended DEF FileTypes, WritePath, Acting, Restorable
<1> QED BY <1>1, <1>2

\* What RestoreMounted writes is what the volume snapshot has.
LEMMA MountedSound ==
  ASSUME FileTypes, TreeInv, SealedInv, JobInv, RestoreMounted
  PROVE  \/ UNCHANGED diskVars
         \/ /\ Sound(live') /\ Keeps(live', live, FirstItem.path) /\ clock' = clock + 1
            /\ job.plans[FirstItem.path] # "doubt"
<1> DEFINE i == FirstItem
           p == i.path
           before == Sought(i).before
           tree == MkdirAll(p)
           e == Entry(before.type, before.mode, volume[p].content, clock + 1)
<1>1. /\ i \in job.queue /\ i \in Items /\ p \in Paths /\ i.form = "mounted"
      /\ Sought(i).source = "volume" /\ Sought(i).kind # "created" /\ Sought(i).kind # "none"
  BY FirstItemFacts, FileParts DEF RestoreMounted, Mounting, JobInv, Sought
<1>2. before \in Entries /\ volume \in Trees
  <2>1. Sought(i).kind \in {"deleted", "modified"} /\ volume # None
    BY <1>1, SoughtFacts DEF Changes
  <2> QED BY <1>1, <2>1, SoughtFacts DEF FileTypes, TreeTypes
<1>3. CASE UNCHANGED diskVars
  BY <1>3
<1>4. CASE ~UNCHANGED diskVars
  <2>1. /\ live' = Put(tree, p, e) /\ clock' = clock + 1
        /\ IsType(volume[p], before.type) /\ job.plans[p] # "doubt"
        /\ p # Root /\ IsType(tree[Parent(p)], "dir") /\ Replaceable(tree, p, before.type)
    <3> DEFINE plan == job.plans[p]
               valid == IsType(volume[p], before.type)
               readable == before.type = "dir" \/ IsType(live[p], "file")
               same == before.type = "dir" \/ (readable /\ live[p].content = volume[p].content)
               possible == /\ p # Root /\ IsType(tree[Parent(p)], "dir")
                           /\ before.type = "file" => Writable(tree, p)
                           /\ tree[p] = None => Writable(tree, p)
                           /\ Replaceable(tree, p, before.type)
               result == IF ~valid THEN "error"
                         ELSE IF plan \in {"check", "doubt"} /\ same THEN "already-restored"
                         ELSE IF plan \in {"check", "doubt"} /\ ~readable /\ ~job.forced THEN "error"
                         ELSE IF plan = "doubt" THEN "refused"
                         ELSE IF possible THEN "restored" ELSE "error"
    <3>1. IF result = "restored"
          THEN live' = Put(tree, p, e) /\ clock' = clock + 1 ELSE UNCHANGED diskVars
      BY DEF RestoreMounted, Replaced
    <3>2. result = "restored"
      <4> HIDE DEF result
      <4> QED BY <1>4, <3>1
    <3>3. valid /\ plan # "doubt" /\ possible
      <4> HIDE DEF valid, same, readable, possible
      <4> QED BY <3>2
    <3> QED BY <3>1, <3>2, <3>3
  <2>2. volume[p] \in Entries /\ clock \in Nat
    BY <1>1, <1>2, <2>1, TreeFacts, TreeParts DEF IsType, FileTypes
  <2>3. e \in Entries /\ e.type = before.type /\ e.stamp = clock + 1
    <3>1. /\ before.type \in {"file", "dir", "other"} /\ before.mode \in {"open", "closed"}
          /\ volume[p].content \in Nat /\ clock + 1 \in Nat
      BY <1>2, <2>2 DEF Entries
    <3> QED BY <3>1, EntryTypes
  <2>4. e.type = "dir" \/ ~IsType(tree[p], "dir")
    BY <2>1, <2>3 DEF Replaceable, IsType
  <2>5. IsType(live[Root], "dir") \/ live[Root] = None
    BY DEF TreeInv
  <2>6. Sound(tree) /\ Keeps(tree, live, p)
    BY <1>1, <2>1, <2>5, MkdirAllSound DEF FileTypes
  <2>7. Sound(Put(tree, p, e)) /\ Keeps(Put(tree, p, e), tree, p)
    <3> HIDE DEF tree, e
    <3> QED BY <1>1, <2>1, <2>2, <2>3, <2>4, <2>6, PutSound
  <2>8. Keeps(Put(tree, p, e), live, p)
    BY <2>6, <2>7 DEF Keeps
  <2> QED BY <2>1, <2>7, <2>8
<1> QED BY <1>3, <1>4

\* At the end of a restore only folders change, and they stay.
LEMMA FinishTree ==
  ASSUME FileTypes, TreeInv, FinishRestore
  PROVE  /\ Mended
         /\ \A p \in Paths : ~IsType(live[p], "dir") => live'[p] = live[p]
<1> DEFINE left == (Present(job.created) \cup Present(job.temporary)) \ job.finalized
           entry == [p \in Paths |-> IF job.created[p] # None THEN job.created[p] ELSE job.temporary[p]]
<1>1. /\ live' = [p \in Paths |-> IF p \in left /\ IsType(live[p], "dir")
                                  THEN Entry("dir", entry[p].mode, 0, clock + 1) ELSE live[p]]
      /\ clock' = clock + 1
  BY DEF FinishRestore
<1>2. live \in Trees /\ clock \in Nat /\ clock + 1 \in Nat
  BY TreeParts DEF FileTypes
<1>3. ASSUME NEW p \in left, p \in Paths
      PROVE  Entry("dir", entry[p].mode, 0, clock + 1) \in Entries
  <2>1. entry[p] \in Entries
    BY <1>3, FileParts, TreeFacts DEF Present
  <2>2. entry[p].mode \in {"open", "closed"}
    BY <2>1 DEF Entries
  <2> QED BY <1>2, <2>2, EntryTypes
<1> HIDE DEF left, entry
<1>4. /\ live' \in Trees
      /\ \A p \in Paths : ~IsType(live[p], "dir") => live'[p] = live[p]
  BY <1>1, <1>2, <1>3 DEF Trees
<1>5. \A p \in Paths : IsType(live[p], "dir") => IsType(live'[p], "dir")
  <2> TAKE p \in Paths
  <2>1. CASE p \in left /\ IsType(live[p], "dir")
    <3>1. live'[p] \in Entries /\ live'[p].type = "dir"
      BY <1>1, <1>2, <1>3, <2>1 DEF Entry
    <3> QED BY <3>1, EntryAssumption DEF IsType
  <2>2. CASE ~(p \in left /\ IsType(live[p], "dir"))
    BY <1>1, <2>2
  <2> QED BY <2>1, <2>2
<1>6. \A p \in Paths : live'[p] # None => live[p] # None /\ live'[p].stamp <= clock'
  <2> TAKE p \in Paths
  <2>1. CASE p \in left /\ IsType(live[p], "dir")
    <3>1. live'[p].stamp = clock + 1
      BY <1>1, <2>1 DEF Entry
    <3> QED BY <1>1, <1>2, <2>1, <3>1 DEF IsType
  <2>2. CASE ~(p \in left /\ IsType(live[p], "dir"))
    <3>1. live'[p] = live[p]
      BY <1>1, <2>2
    <3>2. live[p] # None => live[p].stamp <= clock /\ live[p].stamp \in Nat
      BY TreeParts, TreeFacts DEF FileTypes
    <3> QED BY <1>1, <1>2, <3>1, <3>2
  <2> QED BY <2>1, <2>2
<1>7. WellFormed(live')
  BY <1>5, <1>6, PathFacts DEF TreeInv, WellFormed
<1>8. IsType(live'[Root], "dir") \/ (live'[Root] = None /\ Root \in capture.uncaptured)
  BY <1>4, <1>5, PathFacts DEF TreeInv, IsType
<1> QED BY <1>1, <1>4, <1>6, <1>7, <1>8 DEF Mended

(***************************************************************************)
(* The record of a restore, field by field.                                *)
(***************************************************************************)
JobOf(forced, queue, plans, mounted, created, temporary, finalized, results) ==
  [forced |-> forced, queue |-> queue, plans |-> plans, mounted |-> mounted, created |-> created,
   temporary |-> temporary, finalized |-> finalized, results |-> results]

LEMMA JobFields ==
  ASSUME NEW j \in Jobs
  PROVE  /\ j = JobOf(j.forced, j.queue, j.plans, j.mounted, j.created, j.temporary, j.finalized,
                      j.results)
         /\ j.forced \in BOOLEAN /\ j.queue \subseteq Items /\ j.plans \in [Paths -> Plans]
         /\ j.mounted \subseteq Paths /\ j.created \in Trees /\ j.temporary \in Trees
         /\ j.finalized \subseteq Paths /\ j.results \in [Paths -> Statuses]
BY DEF Jobs, JobOf

\* What is left of a queue has the plans it had.
Shrinks ==
  /\ job' \in Jobs /\ job'.forced = job.forced /\ job'.queue \subseteq job.queue
  /\ \A i \in job'.queue :
       job'.plans[i.path] = job.plans[i.path] \/ \E j \in job.queue \ {i} : j.path = i.path

\* An item is done with a result, and no folder was readied for it.
Ends(i, result) ==
  /\ job'.queue = job.queue \ {i} /\ job'.results = [job.results EXCEPT ![i.path] = result]
  /\ job'.created = job.created /\ job'.temporary = job.temporary /\ job'.finalized = job.finalized
  /\ job'.mounted = job.mounted

LEMMA FinishedShrinks ==
  ASSUME FileTypes, NEW i \in job.queue, NEW result \in Statuses, job' = Finished(i, result)
  PROVE  /\ Shrinks /\ job'.created = job.created /\ job'.temporary = job.temporary
         /\ Ends(i, result)
<1>1. job \in Jobs /\ i \in Items /\ i.path \in Paths
  BY FileParts DEF Items, FileTypes, JobTypes
<1>2. job' = JobOf(job.forced, job.queue \ {i}, [job.plans EXCEPT ![i.path] = "none"], job.mounted,
                   job.created, job.temporary, job.finalized,
                   [job.results EXCEPT ![i.path] = result])
  <2> DEFINE first == [job EXCEPT !.queue = job.queue \ {i}]
             second == [first EXCEPT !.plans[i.path] = "none"]
             third == [second EXCEPT !.results[i.path] = result]
  <2>1. job' = third
    BY DEF Finished
  <2>2. first = JobOf(job.forced, job.queue \ {i}, job.plans, job.mounted, job.created,
                      job.temporary, job.finalized, job.results)
    BY <1>1 DEF Jobs, JobOf
  <2>3. second = JobOf(job.forced, job.queue \ {i}, [job.plans EXCEPT ![i.path] = "none"],
                       job.mounted, job.created, job.temporary, job.finalized, job.results)
    <3> HIDE DEF first
    <3> QED BY <2>2 DEF JobOf
  <2> HIDE DEF second
  <2> QED BY <2>1, <2>3 DEF JobOf
<1>3. /\ [job.plans EXCEPT ![i.path] = "none"] \in [Paths -> Plans]
      /\ [job.results EXCEPT ![i.path] = result] \in [Paths -> Statuses]
      /\ \A p \in Paths :
           [job.plans EXCEPT ![i.path] = "none"][p] = IF p = i.path THEN "none" ELSE job.plans[p]
  BY <1>1, JobFields DEF Plans
<1>4. job' \in Jobs
  BY <1>1, <1>2, <1>3, JobFields DEF Jobs, JobOf
<1>5. \A j \in job'.queue : j.path \in Paths
  BY <1>4, JobFields DEF Items
<1>6. Shrinks
  BY <1>2, <1>3, <1>4, <1>5 DEF Shrinks, JobOf
<1>7. Ends(i, result)
  BY <1>2 DEF Ends, JobOf
<1> QED BY <1>6, <1>7 DEF Ends

Verdicts == {"write", "remove", "mount", "doubt", "check", "unavailable", "error",
             "already-restored", "refused"}

\* What is decided of a path, from what it is compared with.
LEMMA VerdictFacts ==
  ASSUME FileTypes, SealedInv, NEW i \in Items
  PROVE  /\ Verdict(i) \in Verdicts
         /\ Verdict(i) = "write" => Sought(i).source = "clone" /\ Sought(i).kind # "created"
         /\ Verdict(i) = "remove" => Sought(i).source # "none" /\ Sought(i).kind = "created"
         /\ Verdict(i) \in {"mount", "doubt", "check"} =>
              Sought(i).source = "volume" /\ Sought(i).kind # "created"
<1>1. Sought(i).source \in {"none", "clone", "volume"}
  BY SoughtFacts DEF Changes
<1>2. CASE Sought(i).source = "none"
  BY <1>2 DEF Verdict, Verdicts
<1>3. CASE Sought(i).source = "clone"
  BY <1>3 DEF Verdict, Verdicts, CloneVerdict
<1>4. CASE Sought(i).source = "volume"
  BY <1>4 DEF Verdict, Verdicts, VolumeVerdict
<1> QED BY <1>1, <1>2, <1>3, <1>4

-----------------------------------------------------------------------------
(* What a restore does to its queue *)

\* A comparison decides for an item, which may wait for the volume snapshot.
Decides ==
  \E i \in job.queue, plan \in Plans \ {"none"}, form \in {"change", "mounted", "baseline"} :
    /\ i = FirstItem /\ i.form # "mounted" /\ plan = Verdict(i)
    /\ form = IF plan \in {"write", "remove"} THEN i.form ELSE "mounted"
    /\ job' \in Jobs /\ job'.forced = job.forced
    /\ job'.queue = (job.queue \ {i}) \cup {Item(form, i.path)}
    /\ job'.plans = [job.plans EXCEPT ![i.path] = plan]
    /\ job'.created = job.created /\ job'.temporary = job.temporary
    /\ job'.finalized = job.finalized /\ job'.results = job.results /\ job'.mounted = {}

LEMMA CompareMoves ==
  ASSUME FileTypes, SealedInv, Compare
  PROVE  /\ Shrinks \/ Decides
         /\ job'.created = job.created /\ job'.temporary = job.temporary
         /\ Decides \/ /\ Ends(FirstItem, Verdict(FirstItem))
                       /\ Verdict(FirstItem) \in {"unavailable", "error", "already-restored", "refused"}
<1> DEFINE i == FirstItem
           verdict == Verdict(i)
<1>1. /\ job \in Jobs /\ i \in job.queue /\ i \in Items /\ i.path \in Paths /\ i.form # "mounted"
      /\ i.form \in {"change", "mounted", "baseline"} /\ job.mounted = {}
  BY FirstItemFacts, JobFields DEF Compare, Comparing, FileTypes, JobTypes
<1>2. verdict \in Verdicts
  BY <1>1, VerdictFacts
<1>3. CASE verdict \in {"write", "remove"}
  <2>1. job' = [job EXCEPT !.plans[i.path] = verdict]
    BY <1>3 DEF Compare
  <2>2. [job.plans EXCEPT ![i.path] = verdict] \in [Paths -> Plans]
    BY <1>1, <1>3, JobFields DEF Plans
  <2>3. job' = JobOf(job.forced, job.queue, [job.plans EXCEPT ![i.path] = verdict], job.mounted,
                     job.created, job.temporary, job.finalized, job.results)
    BY <1>1, <2>1, JobFields DEF Jobs, JobOf
  <2>4. job' \in Jobs
    BY <1>1, <2>2, <2>3, JobFields DEF Jobs, JobOf
  <2>5. i = Item(i.form, i.path)
    BY <1>1 DEF Items, Item
  <2> QED BY SMTT(30), <1>1, <1>3, <2>3, <2>4, <2>5 DEF Decides, JobOf, Plans
<1>4. CASE verdict \in {"mount", "doubt", "check"}
  <2> DEFINE left == (job.queue \ {i}) \cup {Item("mounted", i.path)}
             first == [job EXCEPT !.queue = left]
  <2>1. job' = [first EXCEPT !.plans[i.path] = verdict]
    BY <1>4 DEF Compare
  <2>2. [job.plans EXCEPT ![i.path] = verdict] \in [Paths -> Plans]
    BY <1>1, <1>4, JobFields DEF Plans
  <2>3. first = JobOf(job.forced, left, job.plans, job.mounted,
                     job.created, job.temporary, job.finalized, job.results)
    <3>1. job = JobOf(job.forced, job.queue, job.plans, job.mounted,
                      job.created, job.temporary, job.finalized, job.results)
      BY <1>1, JobFields
    <3> HIDE DEF left
    <3> QED BY <3>1 DEF JobOf
  <2>4. job' = JobOf(job.forced, left, [job.plans EXCEPT ![i.path] = verdict], job.mounted,
                     job.created, job.temporary, job.finalized, job.results)
    <3> HIDE DEF first
    <3> QED BY <2>1, <2>3 DEF JobOf
  <2>5. left \subseteq Items
    BY <1>1, JobFields DEF Items, Item
  <2>6. job' \in Jobs
    BY <1>1, <2>2, <2>4, <2>5, JobFields DEF Jobs, JobOf
  <2> QED BY <1>1, <1>4, <2>4, <2>6 DEF Decides, JobOf, Plans
<1>5. CASE verdict \in Verdicts \ {"write", "remove", "mount", "doubt", "check"}
  <2>1. job' = Finished(i, verdict)
    BY <1>5 DEF Compare
  <2>2. verdict \in Statuses
    BY <1>5 DEF Verdicts, Statuses
  <2>3. Shrinks /\ Ends(i, verdict)
    <3> HIDE DEF verdict
    <3> QED BY <1>1, <2>1, <2>2, FinishedShrinks
  <2> QED BY <1>5, <2>3 DEF Ends, Verdicts
<1> QED BY <1>2, <1>3, <1>4, <1>5

LEMMA MountMoves ==
  ASSUME FileTypes, Mount
  PROVE  /\ Shrinks /\ job'.created = job.created /\ job'.temporary = job.temporary
         /\ job'.finalized = job.finalized /\ faults' \in 0..MaxFaults
         /\ \A p \in Paths :
              job'.results[p] = job.results[p]
              \/ (job'.results[p] \in {"unavailable", "error"}
                  /\ \E i \in job.queue : i.path = p /\ i.form = "mounted")
         /\ \A i \in job'.queue :
              job'.results[i.path] = job.results[i.path] \/ \E j \in job.queue \ {i} : j.path = i.path
         /\ \A p \in job'.mounted : \E i \in job.queue : i.path = p /\ i.form = "mounted"
<1>1. job \in Jobs /\ job.mounted = {}
  BY DEF FileTypes, JobTypes, Mount
<1>g. /\ Group \subseteq Paths
      /\ \A p \in Group : \E i \in job.queue : i.path = p /\ i.form = "mounted"
  BY <1>1, JobFields DEF Group, Items
<1>2. CASE job' = [job EXCEPT !.mounted = Group] /\ UNCHANGED faults
  <2>1. job' = JobOf(job.forced, job.queue, job.plans, Group, job.created, job.temporary,
                     job.finalized, job.results)
    BY <1>1, <1>2, JobFields DEF Jobs, JobOf
  <2>2. job' \in Jobs
    BY <1>1, <1>g, <2>1, JobFields DEF Jobs, JobOf
  <2>3. faults' \in 0..MaxFaults
    BY <1>2 DEF FileTypes, TreeTypes
  <2> QED BY <1>1, <1>g, <2>1, <2>2, <2>3, JobFields DEF Shrinks, JobOf
<1>3. CASE ~(job' = [job EXCEPT !.mounted = Group] /\ UNCHANGED faults)
  <2>0. PICK result \in {"unavailable", "error"} :
          /\ faults < MaxFaults /\ faults' = faults + 1
          /\ job' = [job EXCEPT
               !.queue = {j \in @ : j.form # "mounted"},
               !.plans = [p \in Paths |-> IF p \in Group THEN "none" ELSE @[p]],
               !.results = [p \in Paths |-> IF p \in Group THEN result ELSE @[p]]]
    BY <1>3 DEF Mount
  <2> DEFINE queue == {j \in job.queue : j.form # "mounted"}
             plans == [p \in Paths |-> IF p \in Group THEN "none" ELSE job.plans[p]]
             results == [p \in Paths |-> IF p \in Group THEN result ELSE job.results[p]]
  <2>1. /\ faults < MaxFaults /\ faults' = faults + 1
        /\ job' = [job EXCEPT !.queue = queue, !.plans = plans, !.results = results]
    BY <2>0
  <2>2. plans \in [Paths -> Plans] /\ results \in [Paths -> Statuses] /\ queue \subseteq Items
    BY <1>1, JobFields DEF Plans, Statuses
  <2> HIDE DEF plans, results, queue
  <2>3. job' = JobOf(job.forced, queue, plans, job.mounted, job.created, job.temporary,
                     job.finalized, results)
    BY <1>1, <2>1, JobFields DEF Jobs, JobOf
  <2>4. job' \in Jobs
    BY <1>1, <2>2, <2>3, JobFields DEF Jobs, JobOf
  <2>5. \A i \in queue : i \in job.queue /\ i.path \in Paths
    BY <1>1, JobFields DEF Items, queue
  <2>6. faults' \in 0..MaxFaults
    BY <2>1, TreeAssumption DEF FileTypes, TreeTypes
  <2>7. \A i \in queue :
          plans[i.path] = job.plans[i.path] \/ \E j \in job.queue \ {i} : j.path = i.path
    <3> SUFFICES ASSUME NEW i \in queue, plans[i.path] # job.plans[i.path]
                 PROVE  \E j \in job.queue \ {i} : j.path = i.path
      OBVIOUS
    <3>1. i.path \in Group
      BY <2>5 DEF plans
    <3>2. PICK j \in job.queue : j.form = "mounted" /\ j.path = i.path
      BY <1>g, <3>1
    <3>3. i.form # "mounted"
      BY DEF queue
    <3> QED BY <3>2, <3>3
  <2>8. /\ \A p \in Paths :
             results[p] = job.results[p]
             \/ (results[p] = result /\ \E i \in job.queue : i.path = p /\ i.form = "mounted")
        /\ \A i \in queue :
             results[i.path] = job.results[i.path] \/ \E j \in job.queue \ {i} : j.path = i.path
    <3>1. \A p \in Paths : results[p] = IF p \in Group THEN result ELSE job.results[p]
      BY DEF results
    <3>2. \A i \in queue : i.form # "mounted"
      BY DEF queue
    <3> QED BY <1>g, <2>5, <3>1, <3>2
  <2>9. Shrinks
    BY <2>3, <2>4, <2>5, <2>7 DEF Shrinks, JobOf
  <2>10. /\ job'.created = job.created /\ job'.temporary = job.temporary
         /\ job'.finalized = job.finalized /\ job'.results = results /\ job'.queue = queue
         /\ job'.mounted = {}
    BY <1>1, <2>3 DEF JobOf
  <2> QED BY <2>0, <2>6, <2>8, <2>9, <2>10
<1> QED BY <1>2, <1>3

LEMMA UnmountMoves ==
  ASSUME FileTypes, Unmount
  PROVE  /\ Shrinks /\ job'.created = job.created /\ job'.temporary = job.temporary
         /\ job'.finalized = job.finalized /\ job'.queue = job.queue /\ job'.mounted = {}
         /\ faults' \in 0..MaxFaults
         /\ \A p \in Paths :
              job'.results[p] = job.results[p] \/ (job'.results[p] = "error" /\ p \in job.mounted)
<1>1. job \in Jobs
  BY DEF FileTypes, JobTypes
<1> DEFINE marked == [p \in Paths |-> IF p \in job.mounted THEN "error" ELSE job.results[p]]
<1>2. /\ marked \in [Paths -> Statuses]
      /\ \A p \in Paths : marked[p] = IF p \in job.mounted THEN "error" ELSE job.results[p]
  BY <1>1, JobFields DEF Statuses
<1>3. PICK results \in {job.results, marked} : job' = [job EXCEPT !.mounted = {}, !.results = results]
  <2>1. CASE job' = [job EXCEPT !.mounted = {}]
    <3>1. job' = [job EXCEPT !.mounted = {}, !.results = job.results]
      BY <1>1, <2>1 DEF Jobs
    <3> QED BY <3>1
  <2>2. CASE ~(job' = [job EXCEPT !.mounted = {}])
    BY <2>2 DEF Unmount
  <2> QED BY <2>1, <2>2
<1>4. results \in [Paths -> Statuses]
  BY <1>1, <1>2, JobFields
<1> HIDE DEF marked
<1>5. job' = JobOf(job.forced, job.queue, job.plans, {}, job.created, job.temporary,
                   job.finalized, results)
  BY <1>1, <1>3 DEF Jobs, JobOf
<1>6. job' \in Jobs
  BY <1>1, <1>4, <1>5, JobFields DEF Jobs, JobOf
<1>7. faults' \in 0..MaxFaults
  BY TreeAssumption DEF Unmount, FileTypes, TreeTypes
<1> QED BY <1>2, <1>3, <1>5, <1>6, <1>7 DEF Shrinks, JobOf

LEMMA RememberedTypes ==
  ASSUME FileTypes, TreeInv, NEW p \in Paths
  PROVE  LET kept == Remembered(p) IN
           /\ kept \in Jobs /\ kept.forced = job.forced /\ kept.queue = job.queue
           /\ kept.plans = job.plans /\ kept.finalized = job.finalized /\ kept.results = job.results
           /\ kept.mounted = job.mounted
           /\ \A q \in Paths :
                kept.created[q] = IF q = Folder /\ p \in Names /\ live[Folder] = None
                                  THEN capture.before[Folder] ELSE job.created[q]
           /\ \A q \in Paths :
                kept.temporary[q] = IF /\ q = Folder /\ p \in Names /\ live[Folder] # None
                                       /\ live[Folder].mode # "open" /\ job.temporary[Folder] = None
                                    THEN live[Folder] ELSE job.temporary[q]
<1> DEFINE created == [job.created EXCEPT ![Folder] = capture.before[Folder]]
           temporary == [job.temporary EXCEPT
                           ![Folder] = IF job.temporary[Folder] = None THEN live[Folder]
                                       ELSE job.temporary[Folder]]
<1>1. job \in Jobs /\ Folder \in Paths
  BY PathFacts DEF FileTypes, JobTypes
<1>2. CASE p \notin Names \/ (live[Folder] # None /\ live[Folder].mode = "open")
  <2>1. Remembered(p) = job
    BY <1>2 DEF Remembered
  <2> QED BY <1>1, <1>2, <2>1
<1>3. CASE p \in Names /\ live[Folder] = None
  <2>1. Remembered(p) = [job EXCEPT !.created[Folder] = capture.before[Folder]]
    BY <1>3 DEF Remembered
  <2>2. created \in Trees
    BY <1>1, JobFields, FileParts, TreeFacts DEF Trees
  <2>3. Remembered(p) = JobOf(job.forced, job.queue, job.plans, job.mounted, created,
                              job.temporary, job.finalized, job.results)
    BY <1>1, <2>1, JobFields DEF Jobs, JobOf
  <2>4. Remembered(p) \in Jobs
    <3> HIDE DEF created
    <3> QED BY <1>1, <2>2, <2>3, JobFields DEF Jobs, JobOf
  <2>5. \A q \in Paths : created[q] = IF q = Folder THEN capture.before[Folder] ELSE job.created[q]
    BY <1>1, JobFields, TreeFacts
  <2> QED BY <1>3, <2>3, <2>4, <2>5 DEF JobOf
<1>4. CASE p \in Names /\ live[Folder] # None /\ live[Folder].mode # "open"
  <2>1. Remembered(p) = [job EXCEPT !.temporary[Folder] =
                           IF job.temporary[Folder] = None THEN live[Folder]
                           ELSE job.temporary[Folder]]
    BY <1>4 DEF Remembered
  <2>2. temporary \in Trees
    <3>1. live \in Trees /\ job.temporary \in Trees
      BY <1>1, JobFields DEF FileTypes, TreeTypes
    <3> QED BY <1>1, <3>1, TreeFacts DEF Trees
  <2>3. Remembered(p) = JobOf(job.forced, job.queue, job.plans, job.mounted, job.created,
                              temporary, job.finalized, job.results)
    BY <1>1, <2>1, JobFields DEF Jobs, JobOf
  <2>4. Remembered(p) \in Jobs
    <3> HIDE DEF temporary
    <3> QED BY <1>1, <2>2, <2>3, JobFields DEF Jobs, JobOf
  <2>5. \A q \in Paths : temporary[q] = IF q # Folder THEN job.temporary[q]
                                          ELSE IF job.temporary[Folder] = None THEN live[Folder]
                                          ELSE job.temporary[Folder]
    BY <1>1, JobFields, TreeFacts
  <2> HIDE DEF temporary
  <2> QED BY <1>4, <2>3, <2>4, <2>5 DEF JobOf
<1> QED BY <1>2, <1>3, <1>4

\* What a restore says of the folders it readies.
Readied ==
  \A q \in Paths :
    /\ job'.created[q] = job.created[q] \/ IsType(capture.before[q], "dir")
    /\ job'.temporary[q] = job.temporary[q] \/ (q = Folder /\ \E p \in Names : capture.before[p] # None)

\* What a restore that writes an item says of the paths.
Writes(i) ==
  LET p == i.path before == Sought(i).before tree == WithParents(p)
      possible == Replaceable(tree, p, before.type)
  IN /\ job'.queue = job.queue \ {i} /\ job'.mounted = job.mounted
     /\ job'.results = [job.results EXCEPT ![p] = IF possible THEN "restored" ELSE "error"]
     /\ job'.finalized = job.finalized \cup (IF possible /\ before.type = "dir" THEN {p} ELSE {})
     /\ \A q \in Paths : job'.created[q] =
          IF q = p /\ possible /\ before.type = "dir" /\ tree[p] = None THEN before
          ELSE IF q = Folder /\ p \in Names /\ live[Folder] = None THEN capture.before[Folder]
          ELSE job.created[q]
     /\ \A q \in Paths : job'.temporary[q] =
          IF /\ q = Folder /\ p \in Names /\ live[Folder] # None
             /\ live[Folder].mode # "open" /\ job.temporary[Folder] = None
          THEN live[Folder] ELSE job.temporary[q]

LEMMA WriteMoves ==
  ASSUME FileTypes, TreeInv, SealedInv, JobInv, BaselineInv, WritePath
  PROVE  /\ Shrinks /\ Readied
         /\ IF ParentsReady(FirstItem.path) THEN Writes(FirstItem) ELSE Ends(FirstItem, "error")
<1> DEFINE i == FirstItem
           p == i.path
           before == Sought(i).before
           kept == Remembered(p)
           tree == WithParents(p)
           possible == ParentsReady(p) /\ Replaceable(tree, p, before.type)
           made == before.type = "dir" /\ tree[p] = None
           result == IF possible THEN "restored" ELSE "error"
           entry == IF possible /\ made THEN before ELSE kept.created[p]
           final == IF possible /\ before.type = "dir" THEN kept.finalized \cup {p}
                    ELSE kept.finalized
<1>1. /\ job \in Jobs /\ i \in job.queue /\ i \in Items /\ p \in Paths
  BY FirstItemFacts, FileParts DEF WritePath, Acting, FileTypes, JobTypes
<1>2. /\ before \in Entries /\ before.type \in {"file", "dir"} /\ before = capture.before[p]
      /\ before # None
  BY WriteFacts, EntryAssumption DEF WritePath
<1>3. CASE ~ParentsReady(p)
  <2>1. job' = Finished(i, "error")
    BY <1>3 DEF WritePath
  <2>2. Shrinks /\ job'.created = job.created /\ job'.temporary = job.temporary /\ Ends(i, "error")
    BY <1>1, <2>1, FinishedShrinks DEF Statuses
  <2> QED BY <1>3, <2>2 DEF Readied
<1>4. CASE ParentsReady(p)
  <2> DEFINE first == [kept EXCEPT !.queue = kept.queue \ {i}]
             second == [first EXCEPT !.plans[p] = "none"]
             third == [second EXCEPT !.results[p] = result]
             fourth == [third EXCEPT !.created[p] = entry]
             fifth == [fourth EXCEPT !.finalized = final]
             plans == [kept.plans EXCEPT ![p] = "none"]
             results == [kept.results EXCEPT ![p] = result]
             created == [kept.created EXCEPT ![p] = entry]
  <2>1. job' = fifth
    BY <1>4 DEF WritePath
  <2>2. kept \in Jobs
    BY <1>1, RememberedTypes
  <2>3. result \in Statuses /\ entry \in Entries \cup {None} /\ final \in SUBSET Paths
    <3> HIDE DEF kept
    <3>1. kept.created[p] \in Entries \cup {None} /\ kept.finalized \in SUBSET Paths
      BY <1>1, <2>2, JobFields, TreeFacts
    <3> QED BY <1>1, <1>2, <3>1 DEF Statuses
  <2> HIDE DEF kept, result, entry, final
  <2>4. first = JobOf(kept.forced, kept.queue \ {i}, kept.plans, kept.mounted, kept.created,
                      kept.temporary, kept.finalized, kept.results)
    <3>1. kept = JobOf(kept.forced, kept.queue, kept.plans, kept.mounted, kept.created,
                       kept.temporary, kept.finalized, kept.results)
      BY <2>2, JobFields
    <3> QED BY <3>1 DEF JobOf
  <2>5. second = JobOf(kept.forced, kept.queue \ {i}, plans, kept.mounted,
                       kept.created, kept.temporary, kept.finalized, kept.results)
    <3> HIDE DEF first
    <3> QED BY <2>4 DEF JobOf
  <2>6. third = JobOf(kept.forced, kept.queue \ {i}, plans, kept.mounted,
                      kept.created, kept.temporary, kept.finalized, results)
    <3> HIDE DEF second, plans
    <3> QED BY <2>5 DEF JobOf
  <2>7. fourth = JobOf(kept.forced, kept.queue \ {i}, plans, kept.mounted,
                       created, kept.temporary, kept.finalized, results)
    <3> HIDE DEF third, plans, results
    <3> QED BY <2>6 DEF JobOf
  <2>8. fifth = JobOf(kept.forced, kept.queue \ {i}, plans, kept.mounted,
                      created, kept.temporary, final, results)
    <3> HIDE DEF fourth, plans, results, created
    <3> QED BY <2>7 DEF JobOf
  <2>9. /\ plans \in [Paths -> Plans] /\ results \in [Paths -> Statuses] /\ created \in Trees
        /\ \A q \in Paths : plans[q] = IF q = p THEN "none" ELSE kept.plans[q]
        /\ \A q \in Paths : created[q] = IF q = p THEN entry ELSE kept.created[q]
    BY <1>1, <2>2, <2>3, JobFields, TreeFacts DEF Plans, Trees
  <2> HIDE DEF fifth, plans, results, created
  <2>10. job' \in Jobs
    BY <2>1, <2>2, <2>3, <2>8, <2>9, JobFields DEF Jobs, JobOf
  <2>11. /\ job'.forced = kept.forced /\ job'.queue = kept.queue \ {i} /\ job'.plans = plans
         /\ job'.created = created /\ job'.temporary = kept.temporary
         /\ job'.finalized = final /\ job'.results = results /\ job'.mounted = kept.mounted
    BY <2>1, <2>8 DEF JobOf
  <2>12. /\ kept.forced = job.forced /\ kept.queue = job.queue /\ kept.plans = job.plans
         /\ kept.finalized = job.finalized /\ kept.results = job.results
         /\ kept.mounted = job.mounted
         /\ \A q \in Paths :
              kept.created[q] = IF q = Folder /\ p \in Names /\ live[Folder] = None
                                THEN capture.before[Folder] ELSE job.created[q]
         /\ \A q \in Paths :
              kept.temporary[q] = IF /\ q = Folder /\ p \in Names /\ live[Folder] # None
                                     /\ live[Folder].mode # "open" /\ job.temporary[Folder] = None
                                  THEN live[Folder] ELSE job.temporary[q]
    BY <1>1, RememberedTypes DEF kept
  <2>13. Shrinks
    <3>1. \A j \in job.queue : j.path \in Paths
      BY FileParts DEF Items
    <3>2. ASSUME NEW j \in job'.queue
          PROVE  plans[j.path] = job.plans[j.path] \/ \E k \in job.queue \ {j} : k.path = j.path
      <4>1. j \in job.queue /\ j # i /\ j.path \in Paths
        BY <2>11, <2>12, <3>1
      <4> QED BY <1>1, <2>9, <2>12, <4>1
    <3> QED BY <2>10, <2>11, <2>12, <3>2 DEF Shrinks
  <2>14. \A q \in Paths : kept.created[q] = job.created[q] \/ IsType(capture.before[q], "dir")
    <3>1. CASE live[Folder] = None /\ p \in Names
      BY <1>4, <2>12, <3>1 DEF ParentsReady
    <3>2. CASE p \notin Names
      BY <3>2 DEF kept, Remembered
    <3>3. CASE live[Folder] # None
      BY <2>12, <3>3
    <3> QED BY <3>1, <3>2, <3>3
  <2>15. entry = kept.created[p] \/ IsType(capture.before[p], "dir")
    BY <1>2 DEF entry, IsType
  <2>16. \A q \in Paths : job'.created[q] = job.created[q] \/ IsType(capture.before[q], "dir")
    BY <2>9, <2>11, <2>14, <2>15
  <2>17. \A q \in Paths :
           job'.temporary[q] = job.temporary[q] \/ (q = Folder /\ \E n \in Names : capture.before[n] # None)
    BY <1>2, <2>11, <2>12
  <2>18. Writes(i)
    <3>1. results = [job.results EXCEPT ![p] = IF Replaceable(tree, p, before.type) THEN "restored"
                                               ELSE "error"]
      BY <1>4, <2>12 DEF results, result
    <3>2. final = job.finalized \cup (IF Replaceable(tree, p, before.type) /\ before.type = "dir"
                                      THEN {p} ELSE {})
      BY <1>4, <2>12 DEF final
    <3>3. \A q \in Paths : job'.created[q] =
            IF q = p /\ Replaceable(tree, p, before.type) /\ before.type = "dir" /\ tree[p] = None
            THEN before ELSE kept.created[q]
      BY <1>4, <2>9, <2>11 DEF entry
    <3> HIDE DEF tree, before
    <3> QED BY <2>11, <2>12, <3>1, <3>2, <3>3 DEF Writes, tree, before
  <2> QED BY <1>4, <2>13, <2>16, <2>17, <2>18 DEF Readied
<1> QED BY <1>3, <1>4

LEMMA FinishMoves ==
  ASSUME FileTypes, FinishRestore
  PROVE  /\ Shrinks /\ job'.created = job.created /\ job'.temporary = job.temporary
         /\ job'.finalized = job.finalized /\ job'.queue = job.queue
         /\ \A p \in Paths :
              \/ job'.results[p] = job.results[p]
              \/ /\ job'.results[p] = "error" /\ p \notin job.finalized
<1> DEFINE left == (Present(job.created) \cup Present(job.temporary)) \ job.finalized
           results == [p \in Paths |-> IF p \in left /\ live[p] = None THEN "error" ELSE job.results[p]]
<1>1. job \in Jobs
  BY DEF FileTypes, JobTypes
<1>2. results \in [Paths -> Statuses]
  BY <1>1, JobFields DEF Statuses
<1>3. job' = [job EXCEPT !.results = results]
  BY DEF FinishRestore
<1> HIDE DEF results
<1>4. job' = JobOf(job.forced, job.queue, job.plans, job.mounted, job.created, job.temporary,
                   job.finalized, results)
  BY <1>1, <1>3 DEF Jobs, JobOf
<1>5. job' \in Jobs
  BY <1>1, <1>2, <1>4, JobFields DEF Jobs, JobOf
<1>6. \A p \in Paths :
        results[p] = job.results[p] \/ (results[p] = "error" /\ p \notin job.finalized)
  BY DEF results
<1> QED BY <1>4, <1>5, <1>6 DEF Shrinks, JobOf

-----------------------------------------------------------------------------
(* The types are kept *)

\* A restore, once it has begun, changes the tree, the queue and the folders it readied.
RestoreStep ==
  /\ phase = "restoring" /\ phase' \in {"restoring", "done"} /\ faults' \in 0..MaxFaults
  /\ Mended /\ (Shrinks \/ Decides) /\ Readied
  /\ UNCHANGED <<edits, walk, capture, volume, sealed, past>>

LEMMA RestoreSteps ==
  ASSUME FileTypes, TreeInv, InstantInv, CaptureExact, BaselineInv, SealedInv, JobInv, Restore
  PROVE  StartRestore \/ RestoreStep
<1>1. faults \in 0..MaxFaults
  BY DEF FileTypes, TreeTypes
<1>2. phase = "restoring" => phase \in Restorable /\ TreeTypes
  BY DEF Restorable, FileTypes
<1>3. CASE Compare
  <2>1. (Shrinks \/ Decides) /\ Readied
    BY <1>3, CompareMoves DEF Readied
  <2>2. phase = "restoring" /\ Mended
    BY <1>2, <1>3, UnchangedMended DEF Compare, Comparing
  <2> QED BY <1>1, <1>3, <2>1, <2>2 DEF Compare, RestoreStep
<1>4. CASE RemovePath
  <2>1. \E result \in Statuses : job' = Finished(FirstItem, result)
    BY <1>4 DEF RemovePath, Statuses
  <2>2. FirstItem \in job.queue
    BY <1>4, FirstItemFacts DEF RemovePath, Acting
  <2>3. Shrinks /\ Readied
    BY <2>1, <2>2, FinishedShrinks DEF Readied
  <2> QED BY <1>1, <1>4, <2>3, RemoveMended DEF RemovePath, Acting, RestoreStep
<1>5. CASE WritePath
  BY <1>1, <1>5, WriteMoves, WriteMended DEF WritePath, Acting, RestoreStep
<1>6. CASE Mount
  <2>1. Shrinks /\ Readied /\ faults' \in 0..MaxFaults
    BY <1>6, MountMoves DEF Readied
  <2>2. phase = "restoring" /\ Mended
    BY <1>2, <1>6, UnchangedMended DEF Mount, Mounting
  <2> QED BY <1>6, <2>1, <2>2 DEF Mount, RestoreStep
<1>9. CASE Unmount
  <2>1. Shrinks /\ Readied /\ faults' \in 0..MaxFaults
    BY <1>9, UnmountMoves DEF Readied
  <2>2. phase = "restoring" /\ Mended
    BY <1>2, <1>9, UnchangedMended DEF Unmount
  <2> QED BY <1>9, <2>1, <2>2 DEF Unmount, RestoreStep
<1>7. CASE RestoreMounted
  <2>1. \E result \in Statuses : job' = Finished(FirstItem, result)
    BY <1>7 DEF RestoreMounted, Statuses
  <2>2. FirstItem \in job.queue /\ phase = "restoring"
    BY <1>7, FirstItemFacts DEF RestoreMounted, Mounting
  <2>3. Shrinks /\ Readied
    BY <2>1, <2>2, FinishedShrinks DEF Readied
  <2>4. Mended
    BY <1>2, <1>7, <2>2, MountedSound, UnchangedMended, SoundMended
  <2> QED BY <1>1, <1>7, <2>2, <2>3, <2>4 DEF RestoreMounted, RestoreStep
<1>8. CASE FinishRestore
  <2>1. Shrinks /\ Readied
    BY <1>8, FinishMoves DEF Readied
  <2> QED BY <1>1, <1>8, <2>1, FinishTree DEF FinishRestore, RestoreStep
<1> QED BY <1>3, <1>4, <1>5, <1>6, <1>7, <1>8, <1>9 DEF Restore

\* The queue of a restore that begins: a path is in it once.
LEMMA StartTypes ==
  ASSUME FileTypes, StartRestore
  PROVE  /\ job' \in Jobs /\ job'.created = Empty /\ job'.temporary = Empty
         /\ \A p \in Paths : job'.plans[p] = "none"
         /\ \A i, j \in job'.queue : i.path = j.path => i = j
         /\ \A i \in job'.queue : i.form # "mounted" /\ i.path \in Paths
         /\ \A i \in job'.queue : i.form # "baseline" => sealed.changes[i.path].kind # "none"
         /\ \A i \in job'.queue : i.form = "baseline" =>
              /\ ~sealed.complete /\ sealed.changes[i.path].kind = "none"
              /\ capture.before[i.path] = None => ~CoveredBy(i.path, sealed.gaps)
         /\ job'.mounted = {} /\ job'.finalized = {}
         /\ \A p \in Paths : job'.results[p] = "none"
<1>1. PICK selection \in Paths, all \in BOOLEAN, forced \in BOOLEAN :
        LET observed == Observed(selection)
            baselines == IF all \/ sealed.complete THEN {} ELSE Baselines(selection) \ observed
            queue == {Item("change", p) : p \in observed} \cup {Item("baseline", p) : p \in baselines}
        IN job' = [NoJob EXCEPT !.forced = forced, !.queue = queue]
  BY DEF StartRestore
<1> DEFINE observed == Observed(selection)
           baselines == IF all \/ sealed.complete THEN {} ELSE Baselines(selection) \ observed
           queue == {Item("change", p) : p \in observed} \cup {Item("baseline", p) : p \in baselines}
<1>2. /\ observed \subseteq Paths /\ baselines \subseteq Paths /\ observed \cap baselines = {}
      /\ \A p \in observed : sealed.changes[p].kind # "none"
      /\ \A p \in baselines :
           /\ ~sealed.complete /\ sealed.changes[p].kind = "none"
           /\ capture.before[p] = None => ~CoveredBy(p, sealed.gaps)
  <2>1. Below[selection] \subseteq Paths /\ selection \in Below[selection]
    BY BelowFacts
  <2>2. ASSUME NEW p \in Baselines(selection)
        PROVE  /\ p \in Below[selection]
               /\ capture.before[p] = None => ~CoveredBy(p, sealed.gaps)
    BY <2>1, <2>2 DEF Baselines, Recorded
  <2>3. \A p \in Below[selection] \ observed : sealed.changes[p].kind = "none"
    BY DEF Observed
  <2>4. observed \subseteq Below[selection] /\ \A p \in observed : sealed.changes[p].kind # "none"
    BY DEF Observed
  <2> QED BY <2>1, <2>2, <2>3, <2>4
<1>3. job' = [NoJob EXCEPT !.forced = forced, !.queue = queue]
  BY <1>1
<1> HIDE DEF observed, baselines
<1>4. /\ queue \subseteq Items /\ \A i, j \in queue : i.path = j.path => i = j
      /\ \A i \in queue : i.form # "mounted" /\ i.path \in Paths
      /\ \A i \in queue : i.form # "baseline" => sealed.changes[i.path].kind # "none"
      /\ \A i \in queue : i.form = "baseline" =>
           /\ ~sealed.complete /\ sealed.changes[i.path].kind = "none"
           /\ capture.before[i.path] = None => ~CoveredBy(i.path, sealed.gaps)
  BY <1>2 DEF Items, Item
<1> HIDE DEF queue
<1>5. job' = JobOf(forced, queue, [p \in Paths |-> "none"], {}, Empty, Empty, {},
                   [p \in Paths |-> "none"])
  BY <1>3 DEF NoJob, JobOf
<1>6. job' \in Jobs
  BY <1>4, <1>5, EmptyTree DEF Jobs, JobOf, Plans, Statuses
<1> QED BY <1>4, <1>5, <1>6 DEF JobOf

LEMMA EditTypes ==
  ASSUME FileTypes, EditStep
  PROVE  FileTypes'
<1>1. CaptureTypes' /\ SealTypes' /\ WalkTypes' /\ JobTypes'
  BY DEF EditStep, FileTypes, CaptureTypes, SealTypes, WalkTypes, JobTypes
<1>2. live' \in Trees /\ clock' \in Nat
  BY DEF EditStep, Edited, FileTypes, TreeTypes
<1> DEFINE S == {q \in Paths : EntriesDiffer(live[q], live'[q])}
           left == [p \in Paths |->
             IF p \notin S THEN past.left[p]
             ELSE IF \/ phase \in {"sealed", "done"}
                     \/ phase = "after" /\ p \notin walk.todo
                     \/ phase = "restoring" /\ job.plans[p] = "none"
                  THEN live'[p] ELSE None]
           touched == IF phase \in {"after", "sealed", "restoring", "done"} THEN past.touched \cup S
                      ELSE past.touched
           during == IF phase = "restoring" THEN past.during \cup S ELSE past.during
<1>3. past' = [past EXCEPT !.touched = touched, !.during = during, !.left = left]
  BY DEF EditStep, Remember
<1>4. left \in Trees
  <2>1. \A p \in Paths : past.left[p] \in Entries \cup {None} /\ live'[p] \in Entries \cup {None}
    BY <1>2, FileParts, TreeFacts
  <2> HIDE DEF S
  <2> QED BY <2>1 DEF Trees
<1>5. touched \subseteq Paths /\ during \subseteq Paths
  BY FileParts
<1> HIDE DEF left, touched, during
<1>6. past' \in [instant: Trees, ended: Trees, begun: Trees, touched: SUBSET Paths,
                 during: SUBSET Paths, left: Trees]
  BY <1>3, <1>4, <1>5 DEF FileTypes, TreeTypes
<1>7. TreeTypes'
  BY <1>2, <1>6 DEF EditStep, FileTypes, TreeTypes
<1> QED BY <1>1, <1>7 DEF FileTypes

LEMMA WalkTypesKept ==
  ASSUME FileTypes, WalkStep
  PROVE  FileTypes'
<1>1. CaptureTypes' /\ SealTypes' /\ JobTypes' /\ WalkTypes'
  BY DEF WalkStep, ReadOf, FileTypes, CaptureTypes, SealTypes, JobTypes
<1>2. TreeTypes'
  BY DEF WalkStep, ReadOf, FileTypes, TreeTypes, diskVars
<1> QED BY <1>1, <1>2 DEF FileTypes

LEMMA RestoreTypes ==
  ASSUME FileTypes, RestoreStep
  PROVE  FileTypes'
<1>1. CaptureTypes' /\ SealTypes' /\ WalkTypes' /\ JobTypes'
  BY DEF RestoreStep, Shrinks, Decides, FileTypes, CaptureTypes, SealTypes, WalkTypes, JobTypes
<1>2. TreeTypes'
  BY DEF RestoreStep, Mended, FileTypes, TreeTypes, Restorable
<1> QED BY <1>1, <1>2 DEF FileTypes

LEMMA StartRestoreTypes ==
  ASSUME FileTypes, StartRestore
  PROVE  FileTypes'
<1>1. CaptureTypes' /\ SealTypes' /\ WalkTypes' /\ JobTypes'
  BY StartTypes DEF StartRestore, FileTypes, CaptureTypes, SealTypes, WalkTypes, JobTypes
<1>2. past' \in [instant: Trees, ended: Trees, begun: Trees, touched: SUBSET Paths,
                 during: SUBSET Paths, left: Trees]
  BY DEF StartRestore, FileTypes, TreeTypes
<1>3. TreeTypes'
  BY <1>2 DEF StartRestore, FileTypes, TreeTypes, diskVars, Restorable
<1> QED BY <1>1, <1>3 DEF FileTypes

LEMMA OnlyTypes ==
  ASSUME NEW tree \in Trees, NEW S
  PROVE  Only(tree, S) \in Trees /\ \A p \in Paths : Only(tree, S)[p] = IF p \in S THEN tree[p] ELSE None
<1>1. \A p \in Paths : tree[p] \in Entries \cup {None}
  BY TreeFacts
<1> QED BY <1>1 DEF Only, Trees

\* The paths that are not captured, and what is kept of the others.
LEMMA ReconcileFacts ==
  ASSUME FileTypes, Reconcile
  PROVE  \E failed \in SUBSET Paths :
           LET captured == {p \in Paths : ~CoveredBy(p, failed)} IN
             /\ capture'.before = Only(capture.guard, captured)
             /\ capture'.clone = Only(capture.clone, captured)
             /\ capture'.uncaptured = failed
             /\ capture.failed \cup walk.failed \subseteq failed
             /\ \A p \in Unsettled(walk.seen) : CoveredBy(p, failed)
             /\ \A p \in Paths : capture'.observed[p] # None => capture.guard[p] # None
             /\ CaptureTypes'
<1> DEFINE existing == capture.failed \cup walk.failed
           failed == existing \cup {p \in Unsettled(walk.seen) : ~CoveredBy(p, existing)}
           captured == {p \in Paths : ~CoveredBy(p, failed)}
           observed == {p \in Paths \ captured : capture.guard[p] = walk.seen[p]}
<1>1. capture' = [capture EXCEPT
          !.guard = Empty, !.failed = {},
          !.before = Only(capture.guard, captured), !.clone = Only(capture.clone, captured),
          !.observed = Only(capture.guard, observed), !.uncaptured = failed]
  BY DEF Reconcile
<1>2. failed \subseteq Paths /\ existing \subseteq failed
  BY FileParts, WalkParts DEF FileTypes, Unsettled, Present
<1>3. \A p \in Unsettled(walk.seen) : p \in Paths /\ CoveredBy(p, failed)
  <2> SUFFICES ASSUME NEW p \in Unsettled(walk.seen)
               PROVE  p \in Paths /\ CoveredBy(p, failed)
    OBVIOUS
  <2>1. p \in Paths /\ p \in Above[p]
    BY AboveFacts DEF Unsettled, Present
  <2> QED BY <2>1 DEF CoveredBy
<1>4. /\ Only(capture.guard, captured) \in Trees /\ Only(capture.clone, captured) \in Trees
      /\ Only(capture.guard, observed) \in Trees /\ Empty \in Trees
      /\ \A p \in Paths : Only(capture.guard, observed)[p] # None => capture.guard[p] # None
  BY FileParts, OnlyTypes, EmptyTree
<1> HIDE DEF failed, captured, observed
<1>5. CaptureTypes'
  BY <1>1, <1>2, <1>4 DEF FileTypes, CaptureTypes
<1>6. /\ capture'.before = Only(capture.guard, captured)
      /\ capture'.clone = Only(capture.clone, captured) /\ capture'.uncaptured = failed
      /\ capture'.observed = Only(capture.guard, observed)
  BY <1>1 DEF FileTypes, CaptureTypes
<1> QED BY <1>2, <1>3, <1>4, <1>5, <1>6 DEF captured

LEMMA CaptureTypesKept ==
  ASSUME FileTypes, CaptureStep
  PROVE  FileTypes'
<1>1. SealTypes' /\ JobTypes'
  BY DEF CaptureStep, TakeBackstop, EndGuard, CloneDirectory, EndClone, Reconcile, InterruptCapture,
         FileTypes, SealTypes, JobTypes
<1>2. WalkTypes'
  BY NewWalkFacts
     DEF CaptureStep, TakeBackstop, EndGuard, CloneDirectory, EndClone, Reconcile, InterruptCapture,
         FileTypes, WalkTypes
<1>3. CaptureTypes'
  <2>1. CASE Reconcile
    BY <2>1, ReconcileFacts
  <2>2. CASE EndGuard
    <3>1. walk.seen \in Trees /\ walk.failed \subseteq Paths
      BY WalkParts DEF FileTypes
    <3> QED BY <2>2, <3>1 DEF EndGuard, FileTypes, CaptureTypes
  <2>3. CASE EndClone
    <3>1. walk.seen \in Trees /\ capture.failed \cup walk.failed \subseteq Paths
      BY WalkParts, FileParts DEF FileTypes
    <3> QED BY <2>3, <3>1 DEF EndClone, FileTypes, CaptureTypes
  <2>4. CASE CloneDirectory
    BY <2>4 DEF CloneDirectory, FileTypes, CaptureTypes, TreeTypes
  <2>5. CASE TakeBackstop \/ InterruptCapture
    BY <2>5 DEF TakeBackstop, InterruptCapture, FileTypes, CaptureTypes
  <2> QED BY <2>1, <2>2, <2>3, <2>4, <2>5 DEF CaptureStep
<1>4. past' \in [instant: Trees, ended: Trees, begun: Trees, touched: SUBSET Paths,
                 during: SUBSET Paths, left: Trees]
  BY DEF CaptureStep, TakeBackstop, EndGuard, CloneDirectory, EndClone, Reconcile, InterruptCapture,
         FileTypes, TreeTypes
<1>5. faults' \in 0..MaxFaults
  BY TreeAssumption
     DEF CaptureStep, TakeBackstop, EndGuard, CloneDirectory, EndClone, Reconcile, InterruptCapture,
         FileTypes, TreeTypes
<1>6. volume' \in Trees \cup {None}
  BY DEF CaptureStep, TakeBackstop, EndGuard, CloneDirectory, EndClone, Reconcile, InterruptCapture,
         FileTypes, TreeTypes
<1>7. TreeTypes'
  BY <1>4, <1>5, <1>6
     DEF CaptureStep, TakeBackstop, EndGuard, CloneDirectory, EndClone, Reconcile, InterruptCapture,
         FileTypes, TreeTypes, diskVars, Walking
<1> QED BY <1>1, <1>2, <1>3, <1>7 DEF FileTypes

\* What the scan publishes of one path.
LEMMA ChangeFacts ==
  ASSUME FileTypes, NEW p \in Paths, NEW gaps
  PROVE  LET c == ChangeOf(p, walk.seen, gaps) IN
           /\ c \in Changes
           /\ c.kind \in {"deleted", "modified"} => c.before # None
           /\ c.kind = "created" => c.before = None
           /\ c.kind = "none" => c = NoChange
           /\ c.kind # "none" =>
                IF CoveredBy(p, capture.uncaptured) THEN c.source # "clone"
                ELSE c.before = capture.before[p]
           /\ c.source = "volume" => volume # None /\ c.before = capture.observed[p]
           /\ c.after # None => c.after = walk.seen[p]
<1> DEFINE c == ChangeOf(p, walk.seen, gaps)
<1>1. /\ capture.before[p] \in Entries \cup {None} /\ capture.observed[p] \in Entries \cup {None}
      /\ walk.seen[p] \in Entries \cup {None}
  BY FileParts, WalkParts, TreeFacts DEF FileTypes
<1>2. /\ NoChange \in Changes /\ NoChange.kind = "none" /\ NoChange.source = "none"
      /\ NoChange.after = None
  BY DEF NoChange, Changes
<1>3. ASSUME NEW old \in Entries \cup {None}, NEW new \in Entries \cup {None}
      PROVE  /\ Kind(old, new) \in {"none", "created", "deleted", "modified"}
             /\ Kind(old, new) \in {"deleted", "modified"} => old # None
             /\ Kind(old, new) = "created" => old = None
  BY DEF Kind
<1>4. CASE CoveredBy(p, gaps)
  BY <1>2, <1>4 DEF ChangeOf
<1>5. CASE ~CoveredBy(p, gaps) /\ CoveredBy(p, capture.uncaptured)
  <2>1. c = ObservedChange(p, walk.seen)
    BY <1>5 DEF ChangeOf
  <2>2. CASE Kind(capture.observed[p], walk.seen[p]) = "none"
    BY <1>2, <1>5, <2>1, <2>2 DEF ObservedChange
  <2>3. CASE Kind(capture.observed[p], walk.seen[p]) # "none"
    <3> DEFINE kind == Kind(capture.observed[p], walk.seen[p])
    <3>1. \E source \in {"none", "volume"} :
            /\ c = [kind |-> kind, before |-> capture.observed[p], after |-> walk.seen[p],
                    source |-> source]
            /\ source = "volume" => volume # None
      BY <2>1, <2>3 DEF ObservedChange
    <3>2. kind \in {"none", "created", "deleted", "modified"}
      BY <1>1, <1>3
    <3>3. /\ kind \in {"deleted", "modified"} => capture.observed[p] # None
          /\ kind = "created" => capture.observed[p] = None
      BY <1>1, <1>3
    <3>4. c \in Changes
      BY <1>1, <3>1, <3>2 DEF Changes
    <3>5. kind # "none"
      BY <2>3
    <3> HIDE DEF kind
    <3> QED BY <1>5, <3>1, <3>3, <3>4, <3>5
  <2> QED BY <2>2, <2>3
<1>6. CASE ~CoveredBy(p, gaps) /\ ~CoveredBy(p, capture.uncaptured)
  <2> DEFINE kind == Kind(capture.before[p], walk.seen[p])
  <2>1. c = ClonedChange(p, walk.seen, gaps)
    BY <1>6 DEF ChangeOf
  <2>2. CASE c = NoChange
    BY <1>2, <2>2
  <2>3. CASE c # NoChange
    <3>1. kind # "none" /\ \E source \in {"none", "clone"} :
            c = [kind |-> kind, before |-> capture.before[p], after |-> walk.seen[p],
                 source |-> source]
      BY <2>1, <2>3 DEF ClonedChange
    <3>2. kind \in {"none", "created", "deleted", "modified"}
      BY <1>1, <1>3
    <3>3. /\ kind \in {"deleted", "modified"} => capture.before[p] # None
          /\ kind = "created" => capture.before[p] = None
      BY <1>1, <1>3
    <3>4. c \in Changes
      BY <1>1, <3>1, <3>2 DEF Changes
    <3> HIDE DEF kind
    <3> QED BY <1>6, <3>1, <3>3, <3>4
  <2> QED BY <2>2, <2>3
<1> QED BY <1>4, <1>5, <1>6

\* The scan publishes what it found, or that it was interrupted.
LEMMA SealPublishes ==
  ASSUME FileTypes, Seal
  PROVE  /\ SealTypes'
         /\ \A p \in Paths :
              sealed'.changes[p] \in {NoChange, ChangeOf(p, walk.seen, walk.failed)}
         /\ sealed'.scanned =>
              /\ Unread = {}
              /\ \A p \in Paths : sealed'.changes[p] = ChangeOf(p, walk.seen, walk.failed)
              /\ sealed'.gaps = capture.uncaptured \cup walk.failed
                                \cup CoverageGaps(walk.seen, walk.failed)
         /\ ~sealed'.scanned => sealed'.gaps = capture.uncaptured
         /\ ~sealed'.scanned =>
              ~sealed'.complete /\ \A p \in Paths : sealed'.changes[p] = NoChange
<1> DEFINE changes == [p \in Paths |-> ChangeOf(p, walk.seen, walk.failed)]
           coverage == CoverageGaps(walk.seen, walk.failed)
           gaps == capture.uncaptured \cup walk.failed \cup coverage
           complete == walk.failed \cup coverage = {}
<1>1. /\ changes \in [Paths -> Changes] /\ NoChanges \in [Paths -> Changes]
      /\ \A p \in Paths : NoChanges[p] = NoChange
      /\ \A p \in Paths : changes[p] = ChangeOf(p, walk.seen, walk.failed)
  BY ChangeFacts DEF NoChanges, NoChange, Changes
<1>2. gaps \subseteq Paths /\ complete \in BOOLEAN /\ capture.uncaptured \subseteq Paths
  BY FileParts, WalkParts DEF FileTypes, CoverageGaps, Present
<1>3. CASE Unread = {} /\ sealed' = Published(TRUE)
  <2>1. sealed' = [changes |-> changes, gaps |-> gaps, complete |-> complete, scanned |-> TRUE]
    BY <1>3 DEF Published
  <2> HIDE DEF changes, gaps, complete
  <2>2. SealTypes'
    BY <1>1, <1>2, <2>1 DEF SealTypes
  <2>3. sealed'.changes = changes /\ sealed'.scanned /\ sealed'.gaps = gaps
    BY <2>1
  <2> QED BY <1>1, <1>3, <2>2, <2>3 DEF gaps
<1>4. CASE sealed' = Published(FALSE)
  <2>1. sealed' = [changes |-> NoChanges, gaps |-> capture.uncaptured, complete |-> FALSE,
                   scanned |-> FALSE]
    BY <1>4 DEF Published
  <2> HIDE DEF changes, gaps, complete
  <2>2. SealTypes'
    BY <1>1, <1>2, <2>1 DEF SealTypes
  <2> QED BY <1>1, <2>1, <2>2
<1> QED BY <1>3, <1>4 DEF Seal

LEMMA SealTypesKept ==
  ASSUME FileTypes, SealStep
  PROVE  FileTypes'
<1>1. CaptureTypes' /\ JobTypes' /\ WalkTypes'
  BY NewWalkFacts DEF SealStep, StartSeal, Seal, FileTypes, CaptureTypes, JobTypes, WalkTypes
<1>2. SealTypes'
  BY SealPublishes DEF SealStep, StartSeal, FileTypes, SealTypes
<1>3. past' \in [instant: Trees, ended: Trees, begun: Trees, touched: SUBSET Paths,
                 during: SUBSET Paths, left: Trees]
  BY DEF SealStep, StartSeal, Seal, FileTypes, TreeTypes
<1>4. faults' \in 0..MaxFaults
  <2>1. faults \in 0..MaxFaults
    BY DEF FileTypes, TreeTypes
  <2>2. UNCHANGED faults \/ (faults < MaxFaults /\ faults' = faults + 1)
    BY DEF SealStep, StartSeal, Seal
  <2> QED BY <2>1, <2>2, TreeAssumption
<1>5. TreeTypes'
  BY <1>3, <1>4 DEF SealStep, StartSeal, Seal, FileTypes, TreeTypes, diskVars, Walking, Restorable
<1> QED BY <1>1, <1>2, <1>5 DEF FileTypes

-----------------------------------------------------------------------------
(* The tree, the walk and the queue *)

\* Every step keeps the types.
LEMMA TypesKept ==
  ASSUME FileTypes, TreeInv, InstantInv, CaptureExact, BaselineInv, SealedInv, JobInv, [Next]_vars
  PROVE  FileTypes'
<1>1. CASE UNCHANGED vars
  BY <1>1 DEF vars, diskVars, FileTypes, TreeTypes, WalkTypes, CaptureTypes, SealTypes, JobTypes
<1>2. CASE Restore
  BY <1>2, RestoreSteps, StartRestoreTypes, RestoreTypes
<1> QED BY <1>1, <1>2, StepCases, EditTypes, WalkTypesKept, CaptureTypesKept, SealTypesKept

LEMMA SameTree ==
  ASSUME TreeInv, UNCHANGED <<live, clock>>,
         \/ UNCHANGED <<phase, capture>>
         \/ phase \notin Restorable
         \/ phase' \in Restorable /\ UNCHANGED capture
  PROVE  TreeInv'
BY DEF TreeInv, WellFormed, Stamped, Parent

\* Every step keeps what is there in a directory.
LEMMA TreeKept ==
  ASSUME FileTypes, TreeInv, InstantInv, CaptureExact, BaselineInv, SealedInv, JobInv, [Next]_vars
  PROVE  TreeInv'
<1>1. CASE EditStep
  <2>1. /\ live' \in Trees /\ WellFormed(live') /\ clock' = clock + 1 /\ clock \in Nat
        /\ \A p \in Paths : live'[p] # live[p] => live'[p] = None \/ live'[p].stamp = clock + 1
        /\ live'[Root] = None <=> live[Root] = None
        /\ IsType(live[Root], "dir") => IsType(live'[Root], "dir")
        /\ UNCHANGED <<phase, capture>>
    BY <1>1 DEF EditStep, Edited, FileTypes, TreeTypes
  <2>2. \A p \in Paths : live[p] # None => live[p].stamp <= clock /\ live[p].stamp \in Nat
    BY TreeParts, TreeFacts DEF FileTypes
  <2>3. \A p \in Paths : live'[p] # None => live'[p].stamp <= clock'
    BY <2>1, <2>2
  <2>4. /\ Stamped(live)' /\ WellFormed(live)'
    BY <2>1, <2>3 DEF Stamped, WellFormed
  <2> QED BY <2>1, <2>4 DEF TreeInv
<1>2. CASE WalkStep
  BY <1>2, SameTree DEF WalkStep, diskVars
<1>3. CASE CaptureStep
  BY <1>3, SameTree
     DEF CaptureStep, TakeBackstop, EndGuard, CloneDirectory, EndClone, Reconcile, InterruptCapture,
         diskVars, Restorable
<1>4. CASE SealStep
  BY <1>4, SameTree DEF SealStep, StartSeal, Seal, diskVars, Restorable
<1>5. CASE StartRestore
  BY <1>5, SameTree DEF StartRestore, diskVars, Restorable
<1>6. CASE RestoreStep
  <2>1. Stamped(live)' /\ WellFormed(live)'
    BY <1>6 DEF RestoreStep, Mended, Stamped, WellFormed
  <2> QED BY <1>6, <2>1 DEF RestoreStep, Mended, TreeInv, Restorable
<1>7. CASE UNCHANGED vars
  BY <1>7, SameTree DEF vars, diskVars
<1> QED BY <1>1, <1>2, <1>3, <1>4, <1>5, <1>6, <1>7, StepCases, RestoreSteps

\* A walk that begins.
LEMMA NewWalkInv ==
  ASSUME walk' = NewWalk
  PROVE  WalkInv'
<1>1. \A p \in Paths : walk'.seen[p] = None
  BY NewWalkFacts
<1> QED BY <1>1, NewWalkFacts, PathFacts DEF WalkInv, IsType, Stamped

LEMMA EditWalk ==
  ASSUME FileTypes, WalkInv, EditStep
  PROVE  WalkInv'
<1>1. UNCHANGED <<walk, phase>> /\ clock' = clock + 1 /\ clock \in Nat /\ walk.seen \in Trees
  BY WalkParts DEF EditStep, FileTypes, TreeTypes
<1>2. \A p \in Paths : walk.seen[p] # None => walk.seen[p].stamp <= clock /\ walk.seen[p].stamp \in Nat
  BY <1>1, TreeFacts DEF WalkInv, Stamped
<1>3. /\ \A p \in Paths : live'[p] # live[p] => live'[p] = None \/ live'[p].stamp = clock + 1
      /\ \A p \in Paths \ {Root} : live'[Parent(p)] = live[Parent(p)] => (live'[p] = None <=> live[p] = None)
  BY DEF EditStep, Edited
<1>4. ASSUME phase \in Walking, NEW p \in Paths \ {Root}, IsType(walk.seen[Parent(p)], "dir"),
             Parent(p) \notin walk.failed, live'[Parent(p)] = walk.seen[Parent(p)], live'[p] # None
      PROVE  p \in walk.listed
  <2>1. Parent(p) \in Paths
    BY PathFacts
  <2>2. live'[Parent(p)] # None /\ live'[Parent(p)].stamp # clock + 1
    BY <1>1, <1>2, <1>4, <2>1 DEF IsType
  <2>3. live'[Parent(p)] = live[Parent(p)]
    BY <1>3, <2>1, <2>2
  <2>4. live[p] # None
    BY <1>3, <1>4, <2>3
  <2> QED BY <1>4, <2>3, <2>4 DEF WalkInv
<1>5. Stamped(walk.seen)'
  <2>1. \A p \in Paths : walk.seen[p] # None => walk.seen[p].stamp <= clock + 1
    BY <1>1, <1>2
  <2> QED BY <1>1, <2>1 DEF Stamped
<1> QED BY <1>1, <1>4, <1>5 DEF WalkInv, Parent

LEMMA ReadWalk ==
  ASSUME FileTypes, TreeInv, WalkInv, WalkStep
  PROVE  WalkInv'
<1>1. PICK p \in Paths : ReadOf(p)
  BY DEF WalkStep
<1>2. /\ p \in walk.todo \cap walk.listed /\ walk'.todo = walk.todo \ {p}
      /\ \A q \in Paths : q # p => walk'.seen[q] = walk.seen[q] /\ (q \in walk'.failed <=> q \in walk.failed)
      /\ walk'.seen[p] \in {None, live[p]}
      /\ p \in walk'.failed \/ (live[p] # None /\ walk'.seen[p] = live[p])
      /\ walk.listed \subseteq walk'.listed
      /\ p \notin walk'.failed /\ IsType(live[p], "dir") =>
           InFolder(p) \cap Present(live) \subseteq walk'.listed
      /\ \A q \in walk'.listed \ walk.listed : q \in InFolder(p) /\ IsType(walk'.seen[p], "dir")
  BY <1>1 DEF ReadOf
<1>3. phase \in Walking /\ UNCHANGED <<live, clock, phase>>
  BY DEF WalkStep, diskVars
<1>4. \A q \in walk.todo : q \in Paths
  BY WalkParts DEF FileTypes
<1>5. Root \in walk'.listed /\ \A q \in walk'.todo : walk'.seen[q] = None /\ q \notin walk'.failed
  BY <1>2, <1>4 DEF WalkInv
<1>6. \A q \in Paths \ walk'.todo : q \in walk'.listed /\ (walk'.seen[q] # None \/ q \in walk'.failed)
  BY <1>2 DEF WalkInv
<1>7. Stamped(walk.seen)'
  BY <1>2, <1>3 DEF Stamped, WalkInv, TreeInv
<1>8. ASSUME NEW q \in Paths \ {Root}, IsType(walk'.seen[Parent(q)], "dir"),
             Parent(q) \notin walk'.failed, live[Parent(q)] = walk'.seen[Parent(q)], live[q] # None
      PROVE  q \in walk'.listed
  <2>1. CASE Parent(q) = p
    BY <1>2, <1>8, <2>1, InFolderFacts DEF Present
  <2>2. CASE Parent(q) # p
    <3>1. Parent(q) \in Paths
      BY PathFacts
    <3> QED BY <1>2, <1>3, <1>8, <2>2, <3>1 DEF WalkInv
  <2> QED BY <2>1, <2>2
<1>9. ASSUME NEW q \in walk'.listed \ {Root}
      PROVE  IsType(walk'.seen[Parent(q)], "dir")
  <2>1. CASE q \in walk.listed
    <3>1. q \in Paths /\ Parent(q) \in Paths /\ IsType(walk.seen[Parent(q)], "dir")
      BY <1>9, <2>1, WalkParts, PathFacts DEF WalkInv, FileTypes
    <3>2. Parent(q) # p
      BY <1>2, <3>1 DEF WalkInv, IsType
    <3> QED BY <1>2, <3>1, <3>2
  <2>2. CASE q \notin walk.listed
    <3>1. q \in InFolder(p) /\ IsType(walk'.seen[p], "dir")
      BY <1>2, <1>9, <2>2
    <3> QED BY <3>1, InFolderFacts
  <2> QED BY <2>1, <2>2
<1> QED BY <1>3, <1>5, <1>6, <1>7, <1>8, <1>9 DEF WalkInv, Parent

\* Every step keeps the walk true to what it read.
LEMMA WalkKept ==
  ASSUME FileTypes, TreeInv, WalkInv, InstantInv, CaptureExact, BaselineInv, SealedInv, JobInv,
         [Next]_vars
  PROVE  WalkInv'
<1>1. CASE CaptureStep
  <2>1. CASE InterruptCapture
    <3>1. UNCHANGED <<walk, live, clock>> /\ phase' = "stopped"
      BY <2>1 DEF InterruptCapture, diskVars
    <3> QED BY <3>1 DEF WalkInv, Stamped, Walking, Parent
  <2>2. CASE ~InterruptCapture
    <3>1. walk' = NewWalk
      BY <1>1, <2>2 DEF CaptureStep, TakeBackstop, EndGuard, CloneDirectory, EndClone, Reconcile
    <3> QED BY <3>1, NewWalkInv
  <2> QED BY <2>1, <2>2
<1>2. CASE SealStep \/ StartRestore \/ RestoreStep
  <2>1. walk' = NewWalk
    BY <1>2 DEF SealStep, StartSeal, Seal, StartRestore, RestoreStep, WalkInv, Walking
  <2> QED BY <2>1, NewWalkInv
<1>3. CASE UNCHANGED vars
  BY <1>3 DEF vars, diskVars, WalkInv, Stamped, Parent
<1> QED BY <1>1, <1>2, <1>3, StepCases, RestoreSteps, EditWalk, ReadWalk

\* A baseline is sought in what did not change.
LEMMA SoughtKept ==
  ASSUME UNCHANGED <<capture, sealed>>
  PROVE  \A i : Sought(i)' = Sought(i)
BY DEF Sought

\* Every step keeps a path in the queue once, with a plan that fits its change.
LEMMA JobKept ==
  ASSUME FileTypes, TreeInv, InstantInv, CaptureExact, BaselineInv, SealedInv, JobInv, [Next]_vars
  PROVE  JobInv'
<1>1. \A i \in job.queue : i \in Items /\ i.path \in Paths
  BY FileParts DEF Items
<1>2. CASE EditStep \/ WalkStep \/ CaptureStep \/ SealStep \/ UNCHANGED vars
  <2>1. UNCHANGED job
    BY <1>2 DEF EditStep, WalkStep, CaptureStep, TakeBackstop, EndGuard, CloneDirectory, EndClone,
                Reconcile, InterruptCapture, SealStep, StartSeal, Seal, vars
  <2>2. CASE phase \in {"restoring", "done"}
    <3>1. UNCHANGED <<phase, capture, sealed>>
      BY <1>2, <2>2
         DEF EditStep, WalkStep, CaptureStep, TakeBackstop, EndGuard, CloneDirectory, EndClone,
             Reconcile, InterruptCapture, SealStep, StartSeal, Seal, vars
    <3> QED BY <2>1, <3>1, SoughtKept DEF JobInv, CoveredBy
  <2>3. CASE phase \notin {"restoring", "done"}
    <3>1. job' = NoJob
      BY <2>1, <2>3 DEF JobInv
    <3>2. NoJob.queue = {}
      BY DEF NoJob
    <3> QED BY <3>1, <3>2 DEF JobInv
  <2> QED BY <2>2, <2>3
<1>3. CASE StartRestore
  <2>1. phase' = "restoring" /\ UNCHANGED <<capture, sealed>>
    BY <1>3 DEF StartRestore
  <2> QED BY <1>3, <2>1, StartTypes DEF JobInv, CoveredBy
<1>4. CASE RestoreStep /\ Shrinks
  <2>1. phase' \in {"restoring", "done"} /\ UNCHANGED <<capture, sealed>>
    BY <1>4 DEF RestoreStep
  <2> QED BY <1>4, <2>1, SoughtKept DEF JobInv, Shrinks, CoveredBy
<1>5. CASE RestoreStep /\ Decides
  <2>1. phase' \in {"restoring", "done"} /\ UNCHANGED <<capture, sealed>>
    BY <1>5 DEF RestoreStep
  <2>2. PICK i \in job.queue, plan \in Plans \ {"none"}, form \in {"change", "mounted", "baseline"} :
          /\ i = FirstItem /\ i.form # "mounted" /\ plan = Verdict(i)
          /\ form = IF plan \in {"write", "remove"} THEN i.form ELSE "mounted"
          /\ job' \in Jobs /\ job'.forced = job.forced
          /\ job'.queue = (job.queue \ {i}) \cup {Item(form, i.path)}
          /\ job'.plans = [job.plans EXCEPT ![i.path] = plan]
    BY <1>5 DEF Decides
  <2> DEFINE k == Item(form, i.path)
  <2>3. /\ k.form = form /\ k.path = i.path
        /\ \A p \in Paths : job'.plans[p] = IF p = i.path THEN plan ELSE job.plans[p]
    BY <1>1, <2>2, FileParts DEF Item
  <2>4. \A j \in job.queue : j # i => j.path # i.path
    BY DEF JobInv
  <2>5. form # "mounted" => k = i /\ plan \in {"write", "remove"}
    BY <1>1, <2>2 DEF Item, Items
  <2>6. /\ plan = "write" => Sought(i).source = "clone" /\ Sought(i).kind # "created"
        /\ plan = "remove" => Sought(i).source # "none" /\ Sought(i).kind = "created"
        /\ form = "mounted" => Sought(i).source = "volume" /\ Sought(i).kind # "created"
    <3>1. form = "mounted" => plan \in {"mount", "doubt", "check"}
      BY <2>2 DEF Plans
    <3> QED BY <1>1, <2>2, <3>1, VerdictFacts
  <2>7. form = "mounted" => Sought(k) = Sought(i) /\ sealed.changes[i.path].kind # "none"
    <3>1. ASSUME form = "mounted"
          PROVE  i.form # "baseline"
      BY <1>1, <2>6, <3>1, SoughtFacts
    <3> QED BY <2>3, <3>1 DEF Sought, JobInv
  <2> HIDE DEF k
  <2>8. \A j \in job'.queue : j = k \/ (j \in job.queue /\ j.path # i.path /\ j.path \in Paths)
    BY <1>1, <2>2, <2>4 DEF k
  <2>9. \A a, b \in job'.queue : a.path = b.path => a = b
    BY <2>3, <2>8 DEF JobInv
  <2>10. \A j \in job'.queue : j.form # "baseline" => sealed.changes[j.path].kind # "none"
    BY <2>3, <2>5, <2>7, <2>8 DEF JobInv
  <2>11. \A j \in job'.queue : j.form = "mounted" => Sought(j).source = "volume" /\ Sought(j).kind # "created"
    BY <2>3, <2>6, <2>7, <2>8 DEF JobInv
  <2>12. \A j \in job'.queue :
           /\ job'.plans[j.path] = "write" =>
                j.form # "mounted" /\ Sought(j).source = "clone" /\ Sought(j).kind # "created"
           /\ job'.plans[j.path] = "remove" =>
                j.form # "mounted" /\ Sought(j).source # "none" /\ Sought(j).kind = "created"
    <3>1. ASSUME NEW j \in job'.queue, j # k
          PROVE  j \in job.queue /\ job'.plans[j.path] = job.plans[j.path]
      BY <2>3, <2>8, <3>1
    <3>2. job'.plans[k.path] = plan /\ (plan \in {"write", "remove"} => k = i /\ i.form # "mounted")
      BY <1>1, <2>2, <2>3, <2>5
    <3> QED BY <2>6, <3>1, <3>2 DEF JobInv
  <2>14. \A j \in job'.queue : j.form = "baseline" =>
           /\ ~sealed.complete /\ sealed.changes[j.path].kind = "none"
           /\ capture.before[j.path] = None => ~CoveredBy(j.path, sealed.gaps)
    BY <2>3, <2>5, <2>8 DEF JobInv
  <2>13. \A j \in job'.queue :
           j.form = "mounted" => job'.plans[j.path] \in {"mount", "doubt", "check"}
    <3>1. ASSUME NEW j \in job'.queue, j # k
          PROVE  j \in job.queue /\ job'.plans[j.path] = job.plans[j.path]
      BY <2>3, <2>8, <3>1
    <3>2. job'.plans[k.path] = plan /\ (form = "mounted" => plan \in {"mount", "doubt", "check"})
      BY <1>1, <2>2, <2>3 DEF Plans
    <3> QED BY <2>3, <3>1, <3>2 DEF JobInv
  <2> QED BY <2>1, <2>9, <2>10, <2>11, <2>12, <2>13, <2>14, SoughtKept DEF JobInv, CoveredBy
<1> QED BY <1>2, <1>3, <1>4, <1>5, StepCases, RestoreSteps DEF RestoreStep

-----------------------------------------------------------------------------
(* The baseline *)

\* The histories of the baseline change when the first guard ends.
LEMMA InstantSame ==
  ASSUME FileTypes, TreeInv, InstantInv, CaptureExact, BaselineInv, SealedInv, JobInv, [Next]_vars
  PROVE  past'.instant = past.instant \/ EndGuard
<1>1. CASE EditStep
  BY <1>1 DEF EditStep, Remember, FileTypes, TreeTypes
<1>2. CASE SealStep \/ StartRestore
  BY <1>2 DEF SealStep, StartSeal, Seal, StartRestore, FileTypes, TreeTypes
<1>3. CASE CaptureStep \/ WalkStep \/ RestoreStep \/ UNCHANGED vars
  BY <1>3 DEF CaptureStep, TakeBackstop, CloneDirectory, EndClone, Reconcile, InterruptCapture,
              WalkStep, RestoreStep, vars
<1> QED BY <1>1, <1>2, <1>3, StepCases, RestoreSteps

LEMMA InstantKept ==
  ASSUME FileTypes, TreeInv, InstantInv, CaptureExact, BaselineInv, SealedInv, JobInv, [Next]_vars
  PROVE  InstantInv'
<1>1. CASE EndGuard
  <2>1. past'.instant = live
    BY <1>1 DEF EndGuard, FileTypes, TreeTypes
  <2>2. WellFormed(live) /\ IsType(live[Root], "dir")
    BY <1>1 DEF TreeInv, EndGuard, Restorable
  <2> QED BY <2>1, <2>2 DEF InstantInv, WellFormed, Parent
<1>2. CASE ~EndGuard
  <2>1. past'.instant = past.instant
    BY <1>2, InstantSame
  <2>2. phase' \in {"clone", "recheck"} \/ Captured' => phase \in {"clone", "recheck"} \/ Captured
    <3>1. CASE EditStep \/ WalkStep \/ UNCHANGED vars
      BY <3>1 DEF EditStep, WalkStep, vars, Captured
    <3>2. CASE SealStep \/ StartRestore \/ RestoreStep
      BY <3>2 DEF SealStep, StartSeal, Seal, StartRestore, RestoreStep, Captured
    <3>3. CASE CaptureStep
      BY <1>2, <3>3 DEF CaptureStep, TakeBackstop, CloneDirectory, EndClone, Reconcile,
                        InterruptCapture, Captured
    <3> QED BY <3>1, <3>2, <3>3, StepCases, RestoreSteps
  <2> QED BY <2>1, <2>2 DEF InstantInv, WellFormed, Parent
<1> QED BY <1>1, <1>2

\* Every edit gives a new ctime, so a path that looks as the guard saw it was not edited.
LEMMA EditGuard ==
  ASSUME FileTypes, TreeInv, GuardInv, EditStep, past'.instant = past.instant
  PROVE  GuardInv'
<1>1. /\ UNCHANGED <<phase, walk, capture>> /\ clock' = clock + 1 /\ clock \in Nat
      /\ capture.guard \in Trees
      /\ \A p \in Paths : live'[p] # live[p] => live'[p] = None \/ live'[p].stamp = clock + 1
  BY FileParts DEF EditStep, Edited, FileTypes, TreeTypes
<1>2. CASE phase \in {"clone", "recheck"}
  <2>1. \A p \in Paths : capture.guard[p] # None =>
          capture.guard[p].stamp <= clock /\ capture.guard[p].stamp \in Nat
    BY <1>1, <1>2, TreeFacts DEF GuardInv, Stamped
  <2>2. \A p \in Present(capture.guard) : live'[p] = capture.guard[p] => live'[p] = live[p]
    BY <1>1, <2>1 DEF Present
  <2>3. Stamped(capture.guard)'
    <3>1. \A p \in Paths : capture.guard[p] # None => capture.guard[p].stamp <= clock + 1
      BY <1>1, <2>1
    <3> QED BY <1>1, <3>1 DEF Stamped
  <2> QED BY <1>1, <1>2, <2>2, <2>3 DEF GuardInv, AsGuarded, Present, Parent
<1>3. CASE phase \notin {"clone", "recheck"}
  BY <1>1, <1>3 DEF GuardInv
<1> QED BY <1>2, <1>3

LEMMA WalkGuard ==
  ASSUME FileTypes, GuardInv, WalkStep
  PROVE  GuardInv'
<1>1. PICK p \in Paths : ReadOf(p)
  BY DEF WalkStep
<1>2. /\ \A q \in Paths : q # p => walk'.seen[q] = walk.seen[q]
      /\ walk'.seen[p] \in {None, live[p]}
  BY <1>1 DEF ReadOf
<1>3. UNCHANGED <<live, clock, phase, capture, past>>
  BY DEF WalkStep, diskVars
<1>4. /\ Stamped(capture.guard) <=> Stamped(capture.guard)'
      /\ Present(capture.guard)' = Present(capture.guard)
      /\ \A q \in Present(capture.guard) : q \in Paths /\ capture.guard[q] # None
  BY <1>3 DEF Stamped, Present
<1>5. CASE phase = "clone"
  <2>1. \A q \in Present(capture.guard) : AsGuarded(q, live, walk.seen)'
    BY <1>2, <1>3, <1>4, <1>5 DEF GuardInv, AsGuarded
  <2> QED BY <1>3, <1>4, <1>5, <2>1 DEF GuardInv, Parent
<1>6. CASE phase = "recheck"
  <2>1. \A q \in Present(capture.guard) :
          AsGuarded(q, live, capture.clone)' /\ AsGuarded(q, walk.seen, capture.clone)'
    BY <1>2, <1>3, <1>4, <1>6 DEF GuardInv, AsGuarded
  <2> QED BY <1>3, <1>4, <1>6, <2>1 DEF GuardInv, Parent
<1>7. CASE phase \notin {"clone", "recheck"}
  BY <1>3, <1>7 DEF GuardInv
<1> QED BY <1>5, <1>6, <1>7

LEMMA EndGuardGuard ==
  ASSUME FileTypes, WalkInv, EndGuard
  PROVE  GuardInv'
<1>1. /\ capture'.guard = walk.seen /\ capture'.failed = walk.failed /\ past'.instant = live
      /\ UNCHANGED <<live, clock>> /\ phase = "guard" /\ phase' = "clone" /\ walk' = NewWalk
  BY DEF EndGuard, FileTypes, TreeTypes, CaptureTypes, diskVars
<1>2. \A p \in Paths : p \in walk.listed => walk.seen[p] # None \/ p \in walk.failed
  BY DEF EndGuard, Unread, WalkInv
<1>3. Stamped(capture.guard)'
  BY <1>1 DEF WalkInv, Stamped
<1>4. capture'.guard[Root] # None \/ Root \in capture'.failed
  BY <1>1, <1>2, PathFacts DEF WalkInv
<1>5. ASSUME NEW p \in Paths \ {Root}, IsType(capture'.guard[Parent(p)], "dir"),
             Parent(p) \notin capture'.failed, past'.instant[Parent(p)] = capture'.guard[Parent(p)],
             past'.instant[p] # None
      PROVE  capture'.guard[p] # None \/ p \in capture'.failed
  BY <1>1, <1>2, <1>5 DEF WalkInv, Walking
<1>6. \A p \in Present(capture.guard)' : AsGuarded(p, live, walk.seen)'
  BY <1>1, NewWalkFacts DEF AsGuarded, Present
<1>7. \A p \in Names : capture'.guard[p] # None => IsType(capture'.guard[Folder], "dir")
  <2> TAKE p \in Names
  <2> HAVE capture'.guard[p] # None
  <2>1. p \in Paths \ {Root} /\ Parent(p) = Folder
    BY PathFacts
  <2>2. p \notin walk.todo
    BY <1>1, <2>1 DEF WalkInv
  <2> QED BY <1>1, <2>1, <2>2 DEF WalkInv
<1> QED BY <1>1, <1>3, <1>4, <1>5, <1>6, <1>7 DEF GuardInv, Parent

LEMMA CloneGuard ==
  ASSUME FileTypes, WalkInv, GuardInv, CloneDirectory \/ EndClone
  PROVE  GuardInv'
<1>1. /\ capture'.guard = capture.guard /\ capture.failed \subseteq capture'.failed
      /\ UNCHANGED <<live, clock, past>> /\ phase = "clone" /\ phase' = "recheck" /\ walk' = NewWalk
      /\ capture'.clone \in {live, walk.seen}
  BY DEF CloneDirectory, EndClone, FileTypes, CaptureTypes, diskVars
<1>2. /\ Stamped(capture.guard)'
      /\ capture'.guard[Root] # None \/ Root \in capture'.failed
  BY <1>1 DEF GuardInv, Stamped
<1>3. ASSUME NEW p \in Paths \ {Root}, IsType(capture'.guard[Parent(p)], "dir"),
             Parent(p) \notin capture'.failed, past'.instant[Parent(p)] = capture'.guard[Parent(p)],
             past'.instant[p] # None
      PROVE  capture'.guard[p] # None \/ p \in capture'.failed
  BY <1>1, <1>3 DEF GuardInv
<1>4. \A p \in Present(capture.guard)' : AsGuarded(p, live, capture.clone)'
  BY <1>1 DEF GuardInv, AsGuarded, Present
<1>5. \A p \in Present(capture.guard)' : AsGuarded(p, walk.seen, capture.clone)'
  BY <1>1, NewWalkFacts DEF AsGuarded, Present
<1> QED BY <1>1, <1>2, <1>3, <1>4, <1>5 DEF GuardInv, Parent

LEMMA GuardKept ==
  ASSUME FileTypes, TreeInv, WalkInv, GuardInv, InstantInv, CaptureExact, BaselineInv, SealedInv,
         JobInv, [Next]_vars
  PROVE  GuardInv'
<1>1. CASE EditStep
  <2>1. past'.instant = past.instant
    BY <1>1 DEF EditStep, Remember, FileTypes, TreeTypes
  <2> QED BY <1>1, <2>1, EditGuard
<1>2. CASE SealStep \/ StartRestore \/ RestoreStep \/ TakeBackstop \/ Reconcile \/ InterruptCapture
  BY <1>2 DEF SealStep, StartSeal, Seal, StartRestore, RestoreStep, TakeBackstop, Reconcile,
              InterruptCapture, GuardInv
<1>3. CASE UNCHANGED vars
  BY <1>3 DEF vars, diskVars, GuardInv, AsGuarded, Stamped, Present, Parent
<1> QED BY <1>1, <1>2, <1>3, StepCases, RestoreSteps, WalkGuard, EndGuardGuard, CloneGuard DEF CaptureStep

\* A path that both guards and the clone agree on was so when the first guard ended.
LEMMA SettledFacts ==
  ASSUME GuardInv, phase = "recheck", NEW p \in Paths, capture.guard[p] # None,
         p \notin Unsettled(walk.seen)
  PROVE  /\ past.instant[p] = capture.guard[p] /\ capture.clone[p] = capture.guard[p]
         /\ capture.guard[p].type # "other"
<1>1. /\ capture.guard[p] = walk.seen[p] /\ IsType(capture.clone[p], capture.guard[p].type)
      /\ capture.guard[p].type # "other"
  BY DEF Unsettled, Present, CloneMatches
<1>2. AsGuarded(p, walk.seen, capture.clone)
  BY DEF GuardInv, Present
<1> QED BY <1>1, <1>2 DEF AsGuarded, IsType

\* The baseline that is recorded.
LEMMA ReconcileExact ==
  ASSUME FileTypes, WalkInv, GuardInv, InstantInv, Reconcile
  PROVE  CaptureExact' /\ BaselineInv' /\ ObservedInv'
<1>1. PICK failed \in SUBSET Paths :
        LET captured == {p \in Paths : ~CoveredBy(p, failed)} IN
          /\ capture'.before = Only(capture.guard, captured)
          /\ capture'.clone = Only(capture.clone, captured)
          /\ capture'.uncaptured = failed
          /\ capture.failed \cup walk.failed \subseteq failed
          /\ \A p \in Unsettled(walk.seen) : CoveredBy(p, failed)
          /\ \A p \in Paths : capture'.observed[p] # None => capture.guard[p] # None
          /\ CaptureTypes'
  BY ReconcileFacts
<1>2. phase = "recheck" /\ UNCHANGED past
  BY DEF Reconcile
<1>3. \A p \in Paths : ~CoveredBy(p, failed) =>
        /\ capture'.before[p] = capture.guard[p] /\ capture'.clone[p] = capture.clone[p]
        /\ p \notin failed
  BY <1>1, AboveFacts, FileParts, OnlyTypes DEF CoveredBy
<1>4. \A p \in Paths : CoveredBy(p, failed) => capture'.before[p] = None
  BY <1>1, FileParts, OnlyTypes
<1>5. \A p \in Paths : ~CoveredBy(p, failed) /\ capture.guard[p] # None =>
        /\ past.instant[p] = capture.guard[p] /\ capture.clone[p] = capture.guard[p]
        /\ capture.guard[p].type # "other"
  BY <1>1, <1>2, SettledFacts
<1>6. \A p \in Paths : ~CoveredBy(p, failed) => ~CoveredBy(Parent(p), failed) /\ Parent(p) \notin capture.failed
  <2>1. \A p \in Paths : Above[Parent(p)] \subseteq Above[p] /\ Parent(p) \in Above[p]
    BY AboveFacts
  <2> QED BY <1>1, <2>1 DEF CoveredBy
<1>7. WellFormed(past.instant) /\ IsType(past.instant[Root], "dir")
  BY <1>2 DEF InstantInv
<1>8. ~CoveredBy(Root, failed) => capture.guard[Root] # None
  BY <1>1, <1>2, <1>3, PathFacts DEF GuardInv
<1>9. ASSUME NEW p \in Paths \ {Root}, ~CoveredBy(p, failed), past.instant[p] # None,
             capture.guard[Parent(p)] # None
      PROVE  capture.guard[p] # None
  <2>1. Parent(p) \in Paths /\ past.instant[Parent(p)] = capture.guard[Parent(p)]
    BY <1>5, <1>6, <1>9, PathFacts
  <2>2. IsType(capture.guard[Parent(p)], "dir")
    BY <1>7, <1>9, <2>1 DEF WellFormed
  <2>3. p \notin capture.failed
    BY <1>1, <1>3, <1>9
  <2> QED BY <1>2, <1>6, <1>9, <2>1, <2>2, <2>3 DEF GuardInv
<1>10. \A p \in Paths : ~CoveredBy(p, failed) /\ past.instant[p] # None => capture.guard[p] # None
  <2>1. ~CoveredBy(Folder, failed) /\ past.instant[Folder] # None => capture.guard[Folder] # None
    BY <1>6, <1>8, <1>9, PathFacts
  <2>2. ASSUME NEW p \in Names, ~CoveredBy(p, failed), past.instant[p] # None
        PROVE  capture.guard[p] # None
    <3>1. p \in Paths \ {Root} /\ Parent(p) = Folder
      BY PathFacts
    <3>2. ~CoveredBy(Folder, failed) /\ past.instant[Folder] # None
      BY <1>6, <1>7, <2>2, <3>1 DEF WellFormed, IsType
    <3> QED BY <1>9, <2>1, <2>2, <3>1, <3>2
  <2> QED BY <1>8, <2>1, <2>2, PathFacts
<1>11. CaptureExact'
  <2>1. \A p \in Paths : capture'.before[p] # None =>
          capture'.before[p] = past.instant[p] /\ capture'.clone[p].content = past.instant[p].content
    BY <1>3, <1>4, <1>5
  <2>2. \A p \in Paths : capture'.before[p] # past.instant[p] => CoveredBy(p, failed)
    BY <1>3, <1>5, <1>10
  <2> QED BY <1>1, <1>2, <2>1, <2>2 DEF CaptureExact, CoveredBy
<1>12. BaselineInv'
  <2>1. \A p \in Paths : capture'.before[p] # None =>
          /\ ~CoveredBy(p, failed) /\ capture'.before[p].type # "other"
          /\ IsType(capture'.clone[p], capture'.before[p].type)
    BY <1>3, <1>4, <1>5 DEF IsType
  <2> QED BY <1>1, <2>1 DEF BaselineInv, Present, CoveredBy
<1>13. ObservedInv'
  <2> SUFFICES ASSUME NEW p \in Names, capture'.observed[p] # None
               PROVE  IsType(past.instant[Folder], "dir") \/ CoveredBy(Folder, failed)
    BY <1>1, <1>2 DEF ObservedInv, CoveredBy
  <2>1. p \in Paths /\ Folder \in Paths
    BY PathFacts
  <2>2. IsType(capture.guard[Folder], "dir")
    BY <1>1, <1>2, <2>1 DEF GuardInv
  <2> QED BY <1>5, <2>1, <2>2 DEF IsType
<1> QED BY <1>11, <1>12, <1>13

\* Every step keeps the baseline.
LEMMA BaselineKept ==
  ASSUME FileTypes, TreeInv, WalkInv, GuardInv, InstantInv, CaptureExact, BaselineInv, ObservedInv,
         SealedInv, JobInv, [Next]_vars
  PROVE  CaptureExact' /\ BaselineInv' /\ ObservedInv'
<1>1. CASE Captured
  <2>1. UNCHANGED capture
    BY <1>1, StepCases, RestoreSteps
       DEF Captured, EditStep, WalkStep, CaptureStep, TakeBackstop, EndGuard, CloneDirectory, EndClone,
           Reconcile, InterruptCapture, SealStep, StartSeal, Seal, StartRestore, RestoreStep, vars
  <2>2. past'.instant = past.instant
    BY <1>1, InstantSame DEF Captured, EndGuard
  <2> QED BY <1>1, <2>1, <2>2 DEF CaptureExact, BaselineInv, ObservedInv, Present, CoveredBy
<1>2. CASE ~Captured /\ ~Reconcile
  <2>1. ~Captured'
    <3>1. CASE EditStep \/ WalkStep \/ UNCHANGED vars
      BY <1>2, <3>1 DEF EditStep, WalkStep, vars, Captured
    <3>2. CASE SealStep \/ StartRestore \/ RestoreStep
      BY <1>2, <3>2 DEF SealStep, StartSeal, Seal, StartRestore, RestoreStep, Captured
    <3>3. CASE CaptureStep
      BY <1>2, <3>3 DEF CaptureStep, TakeBackstop, CloneDirectory, EndClone, EndGuard,
                        InterruptCapture, Captured
    <3> QED BY <3>1, <3>2, <3>3, StepCases, RestoreSteps
  <2> QED BY <2>1 DEF CaptureExact, BaselineInv, ObservedInv
<1> QED BY <1>1, <1>2, ReconcileExact
-----------------------------------------------------------------------------
(* What a restore writes, path by path *)

\* Nothing but the ctime of a folder tells two entries apart.
Alike(a, b) ==
  \/ a = b
  \/ IsType(a, "dir") /\ IsType(b, "dir") /\ a.mode = b.mode /\ a.content = b.content

LEMMA AlikeFacts ==
  /\ \A a, b, c : Alike(a, b) /\ Alike(b, c) => Alike(a, c)
  /\ \A a, b : Alike(a, b) => /\ a = None <=> b = None
                              /\ ~EntriesDiffer(a, b)
                              /\ a # None => a.type = b.type /\ a.mode = b.mode /\ a.content = b.content
BY DEF Alike, EntriesDiffer, IsType

LEMMA PutAlike ==
  ASSUME NEW tree \in Trees, NEW p \in Paths \ {Root}, NEW e \in Entries, clock \in Nat,
         IsType(tree[Parent(p)], "dir")
  PROVE  /\ Put(tree, p, e) \in Trees /\ Put(tree, p, e)[p] = e
         /\ \A q \in Paths \ {p} : Alike(Put(tree, p, e)[q], tree[q])
<1>1. Parent(p) \in Paths /\ tree[Parent(p)] # None /\ tree[Parent(p)].type = "dir"
  BY PathFacts DEF IsType
<1>2. Put(tree, p, e) \in Trees /\ Put(tree, p, e)[p] = e
  BY <1>1, PutTree
<1>3. ASSUME NEW q \in Paths \ {p} PROVE Alike(Put(tree, p, e)[q], tree[q])
  <2>1. CASE q # Parent(p) \/ tree[p] # None
    BY <1>1, <2>1, PutTree DEF Alike
  <2>2. CASE q = Parent(p) /\ tree[p] = None
    <3> DEFINE f == Put(tree, p, e)[Parent(p)]
    <3>1. /\ f # None /\ f.type = tree[Parent(p)].type
          /\ f.mode = tree[Parent(p)].mode /\ f.content = tree[Parent(p)].content
      BY <1>1, <2>2, PutTree
    <3> HIDE DEF f
    <3>2. Alike(f, tree[Parent(p)])
      BY <1>1, <3>1 DEF Alike, IsType
    <3> QED BY <2>2, <3>2 DEF f
  <2> QED BY <2>1, <2>2
<1> QED BY <1>2, <1>3

LEMMA NothingBelow ==
  ASSUME NEW tree, WellFormed(tree), NEW p \in Paths, InFolder(p) \cap Present(tree) = {}
  PROVE  \A q \in Below[p] \ {p} : tree[q] = None
<1>1. \A q \in InFolder(p) : tree[q] = None
  BY InFolderFacts DEF Present
<1>2. CASE p = Root
  <2>1. tree[Folder] = None
    BY <1>1, <1>2, InFolderFacts
  <2>2. \A q \in Names : tree[q] = None
    BY <2>1, PathFacts DEF WellFormed, IsType
  <2> QED BY <1>2, <2>1, <2>2, BelowFacts, PathFacts
<1>3. CASE p = Folder
  BY <1>1, <1>3, InFolderFacts, BelowFacts
<1>4. CASE p \in Names
  BY <1>4, BelowFacts
<1> QED BY <1>2, <1>3, <1>4, PathFacts

LEMMA DropAlike ==
  ASSUME TreeTypes, TreeInv, NEW p \in Paths, live[p] # None, Writable(live, p),
         InFolder(p) \cap Present(live) = {}
  PROVE  Drop(live, p)[p] = None /\ \A q \in Paths \ {p} : Alike(Drop(live, p)[q], live[q])
<1>1. /\ live \in Trees /\ clock \in Nat /\ Parent(p) \in Paths /\ live[Parent(p)] # None
      /\ live[Parent(p)].type = "dir"
  BY TreeParts, PathFacts DEF Writable, IsType
<1>2. \A q \in Below[p] \ {p} : live[q] = None
  BY NothingBelow DEF TreeInv
<1>3. p \in Below[p]
  BY BelowFacts
<1>4. ASSUME NEW q \in Paths \ {p} PROVE Alike(Drop(live, p)[q], live[q])
  <2>1. CASE q \in Below[p]
    BY <1>1, <1>2, <1>4, <2>1, DropTree DEF Alike
  <2>2. CASE q \notin Below[p] /\ (p = Root \/ q # Parent(p))
    BY <1>1, <1>4, <2>2, DropTree DEF Alike
  <2>3. CASE q = Parent(p) /\ p # Root
    <3> DEFINE f == Drop(live, p)[Parent(p)]
    <3>1. /\ f # None /\ f.type = live[Parent(p)].type
          /\ f.mode = live[Parent(p)].mode /\ f.content = live[Parent(p)].content
      BY <1>1, <2>3, DropTree
    <3> HIDE DEF f
    <3>2. Alike(f, live[Parent(p)])
      BY <1>1, <3>1 DEF Alike, IsType
    <3> QED BY <2>3, <3>2 DEF f
  <2> QED BY <2>1, <2>2, <2>3
<1> QED BY <1>1, <1>3, <1>4, DropTree

\* The path is gone, or it is not and nothing changed.
LEMMA RemoveLeaves ==
  ASSUME FileTypes, TreeInv, RemovePath
  PROVE  \E result \in {"restored", "error"} :
           /\ job' = Finished(FirstItem, result)
           /\ IF result = "error" THEN UNCHANGED live
              ELSE /\ live'[FirstItem.path] = None
                   /\ \A q \in Paths \ {FirstItem.path} : Alike(live'[q], live[q])
<1> DEFINE p == FirstItem.path
           possible == live[p] # None /\ Writable(live, p) /\ InFolder(p) \cap Present(live) = {}
<1>1. p \in Paths
  BY FirstItemFacts DEF RemovePath, Acting
<1>2. /\ job' = Finished(FirstItem, IF possible THEN "restored" ELSE "error")
      /\ IF possible THEN live' = Drop(live, p) ELSE UNCHANGED live
  BY DEF RemovePath, diskVars
<1>3. CASE possible
  <2>1. Drop(live, p)[p] = None /\ \A q \in Paths \ {p} : Alike(Drop(live, p)[q], live[q])
    BY <1>1, <1>3, DropAlike DEF FileTypes
  <2> QED BY <1>2, <1>3, <2>1
<1>4. CASE ~possible
  BY <1>2, <1>4
<1> QED BY <1>3, <1>4

\* The folder of what is written is made, or made writable.
LEMMA ParentsLeave ==
  ASSUME TreeTypes, TreeInv, NEW p \in Paths, ParentsReady(p), IsType(live[Root], "dir")
  PROVE  /\ \A q \in Paths \ {Folder} : Alike(WithParents(p)[q], live[q])
         /\ p \notin Names => WithParents(p) = live
         /\ p \in Names =>
              /\ IsType(WithParents(p)[Folder], "dir") /\ WithParents(p)[Folder].mode = "open"
              /\ live[Folder] = None => WithParents(p)[Folder].content = 0
              /\ live[Folder] # None => /\ IsType(live[Folder], "dir")
                                        /\ WithParents(p)[Folder].content = live[Folder].content
<1>1. live \in Trees /\ clock \in Nat /\ Folder \in Paths \ {Root} /\ Parent(Folder) = Root
  BY TreeParts, PathFacts
<1>2. CASE p \notin Names
  BY <1>2 DEF WithParents, Alike
<1>3. CASE p \in Names /\ live[Folder] = None
  <2> DEFINE e == Entry("dir", "open", 0, clock + 1)
  <2>1. e \in Entries /\ e # None /\ e.type = "dir" /\ e.mode = "open" /\ e.content = 0
    <3>1. e \in Entries
      BY <1>1, EntryTypes
    <3> QED BY <3>1, EntryAssumption DEF Entry
  <2>2. WithParents(p) = Put(live, Folder, e)
    BY <1>3 DEF WithParents
  <2> HIDE DEF e
  <2>3. /\ Put(live, Folder, e)[Folder] = e
        /\ \A q \in Paths \ {Folder} : Alike(Put(live, Folder, e)[q], live[q])
    BY <1>1, <2>1, PutAlike
  <2> QED BY <1>3, <2>1, <2>2, <2>3 DEF IsType
<1>4. CASE p \in Names /\ live[Folder] # None
  <2> DEFINE e == [live[Folder] EXCEPT !.mode = "open"]
  <2>1. live[Folder] \in Entries /\ live[Folder].type = "dir"
    BY <1>1, <1>4, TreeFacts DEF ParentsReady
  <2>2. /\ e \in Entries /\ e # None /\ e.type = "dir" /\ e.mode = "open"
        /\ e.content = live[Folder].content
    BY <2>1, EntryAssumption DEF Entries
  <2>3. WithParents(p) = [live EXCEPT ![Folder] = e]
    BY <1>4 DEF WithParents
  <2> HIDE DEF e
  <2>4. /\ WithParents(p)[Folder] = e
        /\ \A q \in Paths \ {Folder} : WithParents(p)[q] = live[q]
    BY <1>1, <2>3, TreeFacts DEF Trees
  <2> QED BY <1>4, <2>1, <2>2, <2>4 DEF IsType, Alike
<1> QED BY <1>2, <1>3, <1>4

LEMMA WriteLeaves ==
  ASSUME FileTypes, TreeInv, SealedInv, JobInv, BaselineInv, WritePath, ParentsReady(FirstItem.path)
  PROVE  LET p == FirstItem.path before == Sought(FirstItem).before IN
           /\ p \in Names \cup {Folder}
           /\ \A q \in Paths \ {p, Folder} : Alike(live'[q], live[q])
           /\ IF Replaceable(WithParents(p), p, before.type)
              THEN /\ live'[p] # None /\ live'[p].type = before.type /\ live'[p].mode = before.mode
                   /\ live'[p].content = capture.clone[p].content
              ELSE Alike(live'[p], live[p])
           /\ p \in Names =>
                /\ IsType(live'[Folder], "dir") /\ live'[Folder].mode = "open"
                /\ live[Folder] = None => live'[Folder].content = 0
                /\ live[Folder] # None => /\ IsType(live[Folder], "dir")
                                          /\ live'[Folder].content = live[Folder].content
<1> DEFINE i == FirstItem
           p == i.path
           before == Sought(i).before
           tree == WithParents(p)
           e == Entry(before.type, before.mode, capture.clone[p].content, clock + 1)
           possible == ParentsReady(p) /\ Replaceable(tree, p, before.type)
<1>1. /\ before \in Entries /\ before.type \in {"file", "dir"} /\ capture.clone[p] \in Entries
      /\ IsType(live[Root], "dir")
  BY WriteFacts DEF WritePath
<1>2. p \in Paths /\ clock \in Nat
  BY FirstItemFacts, TreeParts DEF FileTypes, WritePath, Acting
<1>3. /\ p # Root /\ tree \in Trees /\ IsType(tree[Parent(p)], "dir") /\ tree[p] = live[p]
      /\ p \in Names \cup {Folder}
  BY <1>1, <1>2, ParentsSound, PathFacts DEF FileTypes, Sound
<1>4. /\ \A q \in Paths \ {Folder} : Alike(tree[q], live[q])
      /\ p \notin Names => tree = live
      /\ p \in Names =>
           /\ IsType(tree[Folder], "dir") /\ tree[Folder].mode = "open"
           /\ live[Folder] = None => tree[Folder].content = 0
           /\ live[Folder] # None => /\ IsType(live[Folder], "dir")
                                     /\ tree[Folder].content = live[Folder].content
  BY <1>1, <1>2, ParentsLeave DEF FileTypes
<1>5. live' = IF possible THEN Put(tree, p, e) ELSE tree
  <2>1. live' = IF possible THEN Replaced(tree, p, before, capture.clone[p].content) ELSE tree
    BY Zenon DEF WritePath
  <2> QED BY <2>1 DEF Replaced
<1>6. /\ e \in Entries /\ e # None /\ e.type = before.type /\ e.mode = before.mode
      /\ e.content = capture.clone[p].content
  <2>1. /\ before.type \in {"file", "dir", "other"} /\ before.mode \in {"open", "closed"}
        /\ capture.clone[p].content \in Nat /\ clock + 1 \in Nat
    BY <1>1, <1>2 DEF Entries
  <2>2. e \in Entries
    BY <2>1, EntryTypes
  <2> QED BY <2>2, EntryAssumption DEF Entry
<1> HIDE DEF tree, e
<1>7. Put(tree, p, e)[p] = e /\ \A q \in Paths \ {p} : Alike(Put(tree, p, e)[q], tree[q])
  BY <1>2, <1>3, <1>6, PutAlike
<1>8. \A q \in Paths \ {p} : Alike(live'[q], tree[q])
  BY <1>5, <1>7 DEF Alike
<1>9. \A q \in Paths \ {p, Folder} : Alike(live'[q], live[q])
  BY <1>4, <1>8, AlikeFacts
<1>10. p \in Names => Alike(live'[Folder], tree[Folder])
  BY <1>8, PathFacts
<1>11. p \in Names =>
         /\ IsType(live'[Folder], "dir") /\ live'[Folder].mode = "open"
         /\ live[Folder] = None => live'[Folder].content = 0
         /\ live[Folder] # None => /\ IsType(live[Folder], "dir")
                                   /\ live'[Folder].content = live[Folder].content
  BY <1>4, <1>10 DEF Alike, IsType
<1>12. CASE possible
  BY <1>3, <1>5, <1>6, <1>7, <1>9, <1>11, <1>12 DEF tree
<1>13. CASE ~possible
  <2>1. ~Replaceable(tree, p, before.type) /\ live' = tree
    BY <1>5, <1>13
  <2> QED BY <1>3, <1>9, <1>11, <2>1 DEF tree, Alike
<1> QED BY <1>12, <1>13

\* A folder that os.MkdirAll makes was missing.
LEMMA MadeLeaves ==
  ASSUME NEW tree \in Trees, clock \in Nat, NEW p \in Paths,
         p # Root => IsType(tree[Parent(p)], "dir")
  PROVE  /\ Made(tree, p) \in Trees
         /\ \A q \in Paths : \/ Alike(Made(tree, p)[q], tree[q])
                             \/ /\ q = p /\ tree[q] = None
                                /\ IsType(Made(tree, p)[q], "dir") /\ Made(tree, p)[q].content = 0
<1> DEFINE e == Entry("dir", "open", 0, clock + 1)
<1>1. e \in Entries /\ e # None /\ e.type = "dir" /\ e.content = 0
  <2>1. e \in Entries
    BY EntryTypes
  <2> QED BY <2>1, EntryAssumption DEF Entry
<1>2. CASE tree[p] # None
  BY <1>2 DEF Made, Alike
<1>3. CASE tree[p] = None
  <2>1. Made(tree, p) = Put(tree, p, e)
    BY <1>3 DEF Made
  <2>2. Put(tree, p, e) \in Trees /\ Put(tree, p, e)[p] = e
    <3> HIDE DEF e
    <3> QED BY <1>1, PutTree DEF IsType
  <2>3. \A q \in Paths \ {p} : Alike(Put(tree, p, e)[q], tree[q])
    <3> HIDE DEF e
    <3>1. CASE p = Root
      BY <1>1, <3>1, PutTree DEF Alike
    <3>2. CASE p # Root
      BY <1>1, <3>2, PutAlike
    <3> QED BY <3>1, <3>2
  <2> HIDE DEF e
  <2> QED BY <1>1, <1>3, <2>1, <2>2, <2>3 DEF IsType
<1> QED BY <1>2, <1>3

LEMMA MountedLeaves ==
  ASSUME FileTypes, TreeInv, SealedInv, JobInv, RestoreMounted
  PROVE  LET p == FirstItem.path before == Sought(FirstItem).before IN
           /\ FirstItem \in job.queue /\ FirstItem.form = "mounted" /\ p \in Paths
           /\ Sought(FirstItem).source = "volume" /\ Sought(FirstItem) = sealed.changes[p]
           /\ before # None /\ volume \in Trees /\ volume # None
           /\ \E result \in Statuses \ {"none"} : job' = Finished(FirstItem, result)
           /\ \/ UNCHANGED live
              \/ /\ job' = Finished(FirstItem, "restored")
                 /\ IsType(volume[p], before.type) /\ live'[p] # None
                 /\ live'[p].type = before.type /\ live'[p].content = volume[p].content
                 /\ \A q \in Paths \ {p} :
                      \/ Alike(live'[q], live[q])
                      \/ /\ live[q] = None /\ IsType(live'[q], "dir") /\ live'[q].content = 0
                         /\ q = Root \/ (q = Folder /\ p \in Names)
<1> DEFINE i == FirstItem
           p == i.path
           before == Sought(i).before
           tree == MkdirAll(p)
           e == Entry(before.type, before.mode, volume[p].content, clock + 1)
<1>1. /\ i \in job.queue /\ i \in Items /\ p \in Paths /\ i.form = "mounted"
      /\ Sought(i).source = "volume" /\ Sought(i).kind # "created" /\ Sought(i).kind # "none"
      /\ Sought(i) = sealed.changes[p]
  BY FirstItemFacts, FileParts DEF RestoreMounted, Mounting, JobInv, Sought
<1>2. before \in Entries /\ before # None /\ volume \in Trees /\ volume # None
  <2>1. Sought(i).kind \in {"deleted", "modified"} /\ volume # None
    BY <1>1, SoughtFacts DEF Changes
  <2> QED BY <1>1, <2>1, SoughtFacts, EntryAssumption DEF FileTypes, TreeTypes
<1> DEFINE plan == job.plans[p]
           valid == IsType(volume[p], before.type)
           readable == before.type = "dir" \/ IsType(live[p], "file")
           same == before.type = "dir" \/ (readable /\ live[p].content = volume[p].content)
           possible == /\ p # Root /\ IsType(tree[Parent(p)], "dir")
                       /\ before.type = "file" => Writable(tree, p)
                       /\ tree[p] = None => Writable(tree, p)
                       /\ Replaceable(tree, p, before.type)
           result == IF ~valid THEN "error"
                     ELSE IF plan \in {"check", "doubt"} /\ same THEN "already-restored"
                     ELSE IF plan \in {"check", "doubt"} /\ ~readable /\ ~job.forced THEN "error"
                     ELSE IF plan = "doubt" THEN "refused"
                     ELSE IF possible THEN "restored" ELSE "error"
<1>3. /\ job' = Finished(i, result)
      /\ IF result = "restored" THEN live' = Put(tree, p, e) ELSE UNCHANGED live
  BY DEF RestoreMounted, Replaced, diskVars
<1>4. result \in Statuses \ {"none"}
  BY DEF Statuses
<1>5. CASE result # "restored"
  <2> HIDE DEF result
  <2> QED BY <1>1, <1>2, <1>3, <1>4, <1>5
<1>6. CASE result = "restored"
  <2>1. valid /\ possible
    <3> HIDE DEF valid, same, readable, possible
    <3> QED BY <1>6
  <2>2. live' = Put(tree, p, e) /\ job' = Finished(i, "restored")
    <3> HIDE DEF result, e, tree
    <3> QED BY <1>3, <1>6
  <2> HIDE DEF result
  <2>3. volume[p] \in Entries /\ clock \in Nat /\ live \in Trees
    BY <1>1, <1>2, <2>1, TreeFacts, TreeParts DEF IsType, FileTypes
  <2>4. e \in Entries /\ e # None /\ e.type = before.type /\ e.content = volume[p].content
    <3>1. /\ before.type \in {"file", "dir", "other"} /\ before.mode \in {"open", "closed"}
          /\ volume[p].content \in Nat /\ clock + 1 \in Nat
      BY <1>2, <2>3 DEF Entries
    <3>2. e \in Entries
      BY <3>1, EntryTypes
    <3> QED BY <3>2, EntryAssumption DEF Entry
  <2>5. /\ tree \in Trees
        /\ \A q \in Paths : \/ Alike(tree[q], live[q])
                            \/ /\ live[q] = None /\ IsType(tree[q], "dir") /\ tree[q].content = 0
                               /\ q = Root \/ (q = Folder /\ p \in Names)
    <3> DEFINE rooted == Made(live, Root)
    <3>1. /\ rooted \in Trees
          /\ \A q \in Paths : \/ Alike(rooted[q], live[q])
                              \/ /\ q = Root /\ live[q] = None
                                 /\ IsType(rooted[q], "dir") /\ rooted[q].content = 0
      BY <2>3, PathFacts, MadeLeaves
    <3>2. CASE p \notin Names
      BY <3>1, <3>2 DEF MkdirAll
    <3>3. CASE p \in Names
      <4>1. tree = Made(rooted, Folder)
        BY <3>3 DEF MkdirAll
      <4>2. IsType(rooted[Root], "dir")
        <5> HIDE DEF rooted
        <5>1. IsType(live[Root], "dir") \/ live[Root] = None
          BY DEF TreeInv
        <5>2. Alike(rooted[Root], live[Root]) \/ (live[Root] = None /\ IsType(rooted[Root], "dir"))
          BY <3>1, PathFacts
        <5>3. CASE IsType(live[Root], "dir")
          <6>1. Alike(rooted[Root], live[Root]) \/ IsType(rooted[Root], "dir")
            BY <5>2
          <6>2. Alike(rooted[Root], live[Root]) => rooted[Root] # None /\ rooted[Root].type = live[Root].type
            BY <5>3, AlikeFacts DEF IsType
          <6> QED BY <5>3, <6>1, <6>2 DEF IsType
        <5>4. CASE live[Root] = None
          <6>1. rooted[Root] # None
            <7> DEFINE new == Entry("dir", "open", 0, clock + 1)
            <7>1. rooted = Put(live, Root, new)
              BY <5>4 DEF rooted, Made
            <7>2. clock + 1 \in Nat
              BY <2>3
            <7>3. new \in Entries /\ new # None
              BY <7>2, EntryTypes
            <7> HIDE DEF new
            <7>4. Put(live, Root, new)[Root] = new
              BY <2>3, <7>3, PathFacts, PutTree
            <7> QED BY <7>1, <7>3, <7>4
          <6>2. ~Alike(rooted[Root], live[Root])
            BY <5>4, <6>1, AlikeFacts
          <6> QED BY <5>2, <6>2
        <5> QED BY <5>1, <5>3, <5>4
      <4> HIDE DEF rooted
      <4>3. /\ tree \in Trees
            /\ \A q \in Paths : \/ Alike(tree[q], rooted[q])
                                \/ /\ q = Folder /\ rooted[q] = None
                                   /\ IsType(tree[q], "dir") /\ tree[q].content = 0
        BY <2>3, <3>1, <4>1, <4>2, PathFacts, MadeLeaves
      <4> HIDE DEF tree
      <4>4. ASSUME NEW q \in Paths
            PROVE  \/ Alike(tree[q], live[q])
                   \/ /\ live[q] = None /\ IsType(tree[q], "dir") /\ tree[q].content = 0
                      /\ q = Root \/ (q = Folder /\ p \in Names)
        <5>1. CASE q = Folder /\ rooted[q] = None
          <6>1. Alike(rooted[q], live[q])
            BY <3>1, <5>1, PathFacts
          <6> QED BY <3>3, <4>3, <5>1, <6>1, AlikeFacts
        <5>2. CASE q = Root /\ live[q] = None /\ IsType(rooted[q], "dir") /\ rooted[q].content = 0
          <6>1. Alike(tree[q], rooted[q])
            BY <4>3, <5>2, PathFacts
          <6> QED BY <5>2, <6>1 DEF Alike, IsType
        <5>3. CASE Alike(tree[q], rooted[q]) /\ Alike(rooted[q], live[q])
          BY <5>3, AlikeFacts
        <5> QED BY <3>1, <4>3, <5>1, <5>2, <5>3
      <4> QED BY <4>3, <4>4
    <3> QED BY <3>2, <3>3
  <2> HIDE DEF tree, e
  <2>6. Put(tree, p, e)[p] = e /\ \A q \in Paths \ {p} : Alike(Put(tree, p, e)[q], tree[q])
    BY <1>1, <2>1, <2>3, <2>4, <2>5, PutAlike
  <2>7. ASSUME NEW q \in Paths \ {p}
        PROVE  \/ Alike(live'[q], live[q])
               \/ /\ live[q] = None /\ IsType(live'[q], "dir") /\ live'[q].content = 0
                  /\ q = Root \/ (q = Folder /\ p \in Names)
    <3>1. Alike(live'[q], tree[q])
      BY <2>2, <2>6
    <3>2. CASE Alike(tree[q], live[q])
      BY <3>1, <3>2, AlikeFacts
    <3>3. CASE ~Alike(tree[q], live[q])
      BY <2>5, <3>1, <3>3 DEF Alike, IsType
    <3> QED BY <3>2, <3>3
  <2> QED BY <1>1, <1>2, <1>4, <1>6, <2>1, <2>2, <2>4, <2>6, <2>7 DEF Statuses
<1> QED BY <1>5, <1>6

LEMMA FinishLeaves ==
  ASSUME FileTypes, FinishRestore
  PROVE  \A q \in Paths :
           \/ live'[q] = live[q] /\ ~(q \notin job.finalized /\ IsType(live[q], "dir")
                                      /\ (job.created[q] # None \/ job.temporary[q] # None))
           \/ /\ q \notin job.finalized /\ (job.created[q] # None \/ job.temporary[q] # None)
              /\ IsType(live[q], "dir") /\ IsType(live'[q], "dir") /\ live'[q].content = 0
              /\ live'[q].mode = IF job.created[q] # None THEN job.created[q].mode
                                 ELSE job.temporary[q].mode
<1> DEFINE left == (Present(job.created) \cup Present(job.temporary)) \ job.finalized
           entry == [q \in Paths |-> IF job.created[q] # None THEN job.created[q] ELSE job.temporary[q]]
<1> TAKE q \in Paths
<1>1. live'[q] = IF q \in left /\ IsType(live[q], "dir") THEN Entry("dir", entry[q].mode, 0, clock + 1)
                 ELSE live[q]
  BY DEF FinishRestore
<1>2. q \in left <=> q \notin job.finalized /\ (job.created[q] # None \/ job.temporary[q] # None)
  BY DEF Present
<1>3. entry[q] = IF job.created[q] # None THEN job.created[q] ELSE job.temporary[q]
  OBVIOUS
<1> HIDE DEF left, entry
<1>4. CASE q \in left /\ IsType(live[q], "dir")
  <2>1. entry[q] \in Entries
    BY <1>2, <1>3, <1>4, FileParts, TreeFacts
  <2>2. entry[q].mode \in {"open", "closed"} /\ clock + 1 \in Nat
    <3>1. clock \in Nat
      BY DEF FileTypes, TreeTypes
    <3> QED BY <2>1, <3>1 DEF Entries
  <2>3. Entry("dir", entry[q].mode, 0, clock + 1) \in Entries
    BY <2>2, EntryTypes
  <2>4. live'[q] = [type |-> "dir", mode |-> entry[q].mode, content |-> 0, stamp |-> clock + 1]
    BY <1>1, <1>4 DEF Entry
  <2>5. live'[q] # None
    BY <1>1, <1>4, <2>3, EntryAssumption
  <2> QED BY <1>2, <1>3, <1>4, <2>4, <2>5 DEF IsType
<1>5. CASE ~(q \in left /\ IsType(live[q], "dir"))
  BY <1>1, <1>2, <1>5
<1> QED BY <1>4, <1>5

\* Only files have contents, also in what a restore writes.
LEMMA RestorePlain ==
  ASSUME FileTypes, TreeInv, InstantInv, CaptureExact, BaselineInv, SealedInv, JobInv, PlainInv,
         Restore
  PROVE  Plain(live')
<1>1. Plain(live)
  BY DEF PlainInv
<1>2. CASE UNCHANGED live
  BY <1>1, <1>2 DEF Plain
<1>3. \A a, b : /\ Alike(a, b)
                /\ IsType(b, "dir") \/ IsType(b, "other") => b.content = 0
                => (IsType(a, "dir") \/ IsType(a, "other") => a.content = 0)
  BY DEF Alike, IsType
<1>4. CASE RemovePath /\ live' # live
  <2>1. live'[FirstItem.path] = None /\ \A q \in Paths \ {FirstItem.path} : Alike(live'[q], live[q])
    BY <1>4, RemoveLeaves
  <2> QED BY <1>1, <1>3, <2>1 DEF Plain, IsType
<1>5. CASE WritePath /\ live' # live
  <2> DEFINE p == FirstItem.path
             before == Sought(FirstItem).before
  <2>1. ParentsReady(p)
    BY <1>5 DEF WritePath, diskVars
  <2>2. /\ before = capture.before[p] /\ before \in Entries /\ before # None
        /\ p \in Paths /\ phase = "restoring" /\ before.type # "other"
    BY <1>5, WriteFacts, FirstItemFacts, EntryAssumption DEF WritePath, Acting
  <2>3. before.type = "dir" => capture.clone[p].content = 0
    <3>1. before = past.instant[p] /\ capture.clone[p].content = past.instant[p].content
      BY <2>2 DEF CaptureExact, Captured
    <3>2. Plain(past.instant)
      BY <2>2 DEF PlainInv, Captured
    <3> QED BY <2>2, <3>1, <3>2 DEF Plain, IsType
  <2>4. /\ p \in Names \cup {Folder} /\ \A q \in Paths \ {p, Folder} : Alike(live'[q], live[q])
        /\ \/ /\ live'[p] # None /\ live'[p].type = before.type
              /\ live'[p].content = capture.clone[p].content
           \/ Alike(live'[p], live[p])
        /\ p \in Names =>
             /\ IsType(live'[Folder], "dir")
             /\ live[Folder] = None => live'[Folder].content = 0
             /\ live[Folder] # None => /\ IsType(live[Folder], "dir")
                                       /\ live'[Folder].content = live[Folder].content
    <3> HIDE DEF p, before
    <3> QED BY <1>5, <2>1, WriteLeaves DEF p, before
  <2> HIDE DEF p, before
  <2>5. IsType(live'[p], "dir") \/ IsType(live'[p], "other") => live'[p].content = 0
    BY <1>1, <1>3, <2>2, <2>3, <2>4 DEF Plain, IsType
  <2>6. p \in Names => live'[Folder].content = 0
    BY <1>1, <2>4, PathFacts DEF Plain
  <2> QED BY <1>1, <1>3, <2>4, <2>5, <2>6 DEF Plain
<1>6. CASE RestoreMounted /\ live' # live
  <2> DEFINE p == FirstItem.path
             before == Sought(FirstItem).before
  <2>1. /\ p \in Paths /\ volume # None /\ IsType(volume[p], before.type)
        /\ live'[p].type = before.type /\ live'[p].content = volume[p].content
        /\ \A q \in Paths \ {p} :
             \/ Alike(live'[q], live[q])
             \/ IsType(live'[q], "dir") /\ live'[q].content = 0
    BY <1>6, MountedLeaves
  <2>2. Plain(volume)
    BY <2>1 DEF PlainInv
  <2> HIDE DEF p, before
  <2>3. IsType(live'[p], "dir") \/ IsType(live'[p], "other") => live'[p].content = 0
    BY <2>1, <2>2 DEF Plain, IsType
  <2> QED BY <1>1, <1>3, <2>1, <2>3 DEF Plain
<1>7. CASE FinishRestore
  BY <1>1, <1>7, FinishLeaves DEF Plain, IsType
<1> QED BY <1>2, <1>4, <1>5, <1>6, <1>7 DEF Restore, StartRestore, Compare, Mount, Unmount, diskVars


-----------------------------------------------------------------------------
(* The scan after the session *)

\* What an edit does to the histories.
LEMMA EditPast ==
  ASSUME FileTypes, EditStep
  PROVE  LET S == {q \in Paths : EntriesDiffer(live[q], live'[q])} IN
           /\ past'.instant = past.instant /\ past'.ended = past.ended /\ past'.begun = past.begun
           /\ past.touched \subseteq past'.touched /\ past.during \subseteq past'.during
           /\ phase \in {"after"} \cup Restorable => S \subseteq past'.touched
           /\ phase = "restoring" => S \subseteq past'.during
           /\ \A p \in Paths : past'.left[p] =
                IF p \notin S THEN past.left[p]
                ELSE IF \/ phase \in {"sealed", "done"}
                        \/ phase = "after" /\ p \notin walk.todo
                        \/ phase = "restoring" /\ job.plans[p] = "none"
                     THEN live'[p] ELSE None
<1> DEFINE S == {q \in Paths : EntriesDiffer(live[q], live'[q])}
           left == [p \in Paths |->
             IF p \notin S THEN past.left[p]
             ELSE IF \/ phase \in {"sealed", "done"}
                     \/ phase = "after" /\ p \notin walk.todo
                     \/ phase = "restoring" /\ job.plans[p] = "none"
                  THEN live'[p] ELSE None]
           touched == IF phase \in {"after", "sealed", "restoring", "done"} THEN past.touched \cup S
                      ELSE past.touched
           during == IF phase = "restoring" THEN past.during \cup S ELSE past.during
<1>1. past' = [past EXCEPT !.touched = touched, !.during = during, !.left = left]
  BY DEF EditStep, Remember
<1>2. /\ past.touched \subseteq touched /\ past.during \subseteq during
      /\ phase = "restoring" => S \subseteq during
      /\ phase \in {"after"} \cup Restorable => S \subseteq touched
      /\ \A p \in Paths : left[p] =
           IF p \notin S THEN past.left[p]
           ELSE IF \/ phase \in {"sealed", "done"}
                   \/ phase = "after" /\ p \notin walk.todo
                   \/ phase = "restoring" /\ job.plans[p] = "none"
                THEN live'[p] ELSE None
  BY DEF Restorable
<1> HIDE DEF left, touched, during
<1>3. /\ past'.instant = past.instant /\ past'.ended = past.ended /\ past'.begun = past.begun
      /\ past'.touched = touched /\ past'.left = left /\ past'.during = during
  BY <1>1 DEF FileTypes, TreeTypes
<1> QED BY <1>2, <1>3

\* Where a session is in its life: a scan follows a session, a restore a scan.
LEMMA PhaseMoves ==
  ASSUME FileTypes, TreeInv, InstantInv, CaptureExact, BaselineInv, SealedInv, JobInv, [Next]_vars
  PROVE  /\ phase \in Restorable \cup {"stopped"} => phase' \in Restorable \cup {"stopped"}
         /\ phase' \in Restorable => phase \in Restorable \/ Seal
         /\ phase' = "after" => phase = "after" \/ StartSeal
         /\ phase \in {"after"} \cup Restorable => UNCHANGED <<capture, volume>>
         /\ ~Seal => UNCHANGED sealed
<1>1. CASE EditStep \/ WalkStep \/ UNCHANGED vars
  BY <1>1 DEF EditStep, WalkStep, vars
<1>2. CASE SealStep
  BY <1>2 DEF SealStep, StartSeal, Seal, Restorable
<1>3. CASE StartRestore \/ RestoreStep
  BY <1>3 DEF StartRestore, RestoreStep, Restorable
<1>4. CASE CaptureStep
  BY <1>4 DEF CaptureStep, TakeBackstop, EndGuard, CloneDirectory, EndClone, Reconcile,
              InterruptCapture, Restorable
<1> QED BY <1>1, <1>2, <1>3, <1>4, StepCases, RestoreSteps

\* The tree changes with an edit or with a restore, the end of the session is noted once.
LEMMA EndedSame ==
  ASSUME FileTypes, TreeInv, InstantInv, CaptureExact, BaselineInv, SealedInv, JobInv, [Next]_vars
  PROVE  /\ past'.ended = past.ended \/ StartSeal
         /\ UNCHANGED <<live, clock>> \/ EditStep \/ RestoreStep
         /\ UNCHANGED <<past>> \/ EditStep \/ EndGuard \/ StartSeal \/ StartRestore
<1>1. CASE EditStep
  BY <1>1, EditPast
<1>2. CASE SealStep \/ StartRestore \/ EndGuard
  BY <1>2 DEF SealStep, StartSeal, Seal, StartRestore, EndGuard, FileTypes, TreeTypes, diskVars
<1>3. CASE (CaptureStep /\ ~EndGuard) \/ WalkStep \/ RestoreStep \/ UNCHANGED vars
  BY <1>3 DEF CaptureStep, TakeBackstop, CloneDirectory, EndClone, Reconcile, InterruptCapture,
              WalkStep, RestoreStep, vars, diskVars
<1> QED BY <1>1, <1>2, <1>3, StepCases, RestoreSteps

\* Only a file has contents.
LEMMA PlainKept ==
  ASSUME FileTypes, TreeInv, InstantInv, CaptureExact, BaselineInv, SealedInv, JobInv, PlainInv,
         [Next]_vars
  PROVE  PlainInv'
<1>1. Plain(live') /\ (volume' # None => Plain(volume'))
  <2>1. Plain(live) /\ (volume # None => Plain(volume))
    BY DEF PlainInv
  <2>2. CASE EditStep
    BY <2>1, <2>2 DEF EditStep, Edited, Plain
  <2>3. CASE Restore
    <3>1. UNCHANGED volume
      BY <2>3 DEF Restore, StartRestore, Compare, RemovePath, WritePath, Mount, RestoreMounted,
                  Unmount, FinishRestore
    <3> QED BY <2>1, <2>3, <3>1, RestorePlain DEF Plain
  <2>4. CASE WalkStep \/ CaptureStep \/ SealStep \/ UNCHANGED vars
    <3>1. UNCHANGED live /\ volume' \in {volume, live, None}
      BY <2>4 DEF WalkStep, CaptureStep, TakeBackstop, EndGuard, CloneDirectory, EndClone, Reconcile,
                  InterruptCapture, SealStep, StartSeal, Seal, vars, diskVars
    <3> QED BY <2>1, <3>1 DEF Plain
  <2> QED BY <2>2, <2>3, <2>4, StepCases
<1>2. phase' \in {"clone", "recheck"} \/ Captured' => Plain(past'.instant)
  <2>1. CASE EndGuard
    <3>1. past'.instant = live /\ phase = "guard"
      BY <2>1 DEF EndGuard, FileTypes, TreeTypes
    <3> QED BY <3>1 DEF PlainInv, Restorable
  <2>2. CASE ~EndGuard /\ (phase' \in {"clone", "recheck"} \/ Captured')
    <3>1. past'.instant = past.instant
      BY <2>2, InstantSame
    <3>2. phase \in {"clone", "recheck"} \/ Captured
      <4>1. CASE EditStep \/ WalkStep \/ UNCHANGED vars
        BY <2>2, <4>1 DEF EditStep, WalkStep, vars, Captured
      <4>2. CASE SealStep \/ StartRestore \/ RestoreStep
        BY <2>2, <4>2 DEF SealStep, StartSeal, Seal, StartRestore, RestoreStep, Captured
      <4>3. CASE CaptureStep
        BY <2>2, <4>3 DEF CaptureStep, TakeBackstop, CloneDirectory, EndClone, Reconcile,
                          InterruptCapture, Captured
      <4> QED BY <4>1, <4>2, <4>3, StepCases, RestoreSteps
    <3> QED BY <3>1, <3>2 DEF PlainInv
  <2> QED BY <2>1, <2>2
<1>3. phase' \in {"after"} \cup Restorable => Plain(past'.ended)
  <2>1. CASE StartSeal
    <3>1. past'.ended = live /\ phase = "running"
      BY <2>1 DEF StartSeal, FileTypes, TreeTypes
    <3> QED BY <3>1 DEF PlainInv, Restorable
  <2>2. CASE ~StartSeal
    <3>1. past'.ended = past.ended
      BY <2>2, EndedSame
    <3>2. phase' \in {"after"} \cup Restorable => phase \in {"after"} \cup Restorable
      BY <2>2, PhaseMoves DEF Seal
    <3> QED BY <3>1, <3>2 DEF PlainInv
  <2> QED BY <2>1, <2>2
<1> QED BY <1>1, <1>2, <1>3 DEF PlainInv, Plain

\* Two entries that do not differ are one and the same, or directories of one mode.
LEMMA DifferFacts ==
  /\ \A a : ~EntriesDiffer(a, a)
  /\ \A a, b : EntriesDiffer(a, b) <=> EntriesDiffer(b, a)
  /\ \A a, b, c : ~EntriesDiffer(a, b) /\ ~EntriesDiffer(b, c) => ~EntriesDiffer(a, c)
  /\ \A a, b : ~EntriesDiffer(a, b) => (a = None <=> b = None)
  /\ \A a, b : ~EntriesDiffer(a, b) /\ ~IsType(a, "dir") => a = b
  /\ \A a, b : ~EntriesDiffer(a, b) /\ IsType(a, "dir") => IsType(b, "dir") /\ a.mode = b.mode
BY DEF EntriesDiffer, IsType

\* While an untouched path is there, so is every folder above it, and the walk finds it.
LEMMA ReadEnded ==
  ASSUME FileTypes, TreeInv, EndedInv, phase = "after", NEW r \in Paths, ReadOf(r),
         NEW p \in Untouched, past.ended[p] # None, NEW q \in Above[p] \ {Root}
  PROVE  Parent(q) \in walk'.todo \cup walk'.failed \/ q \in walk'.listed
<1>1. /\ p \in Paths /\ q \in Paths \ {Root} /\ Parent(q) \in Paths
  BY AboveFacts, PathFacts DEF Untouched
<1>2. live[p] # None
  BY <1>1, DifferFacts DEF EndedInv
<1>3. live[q] # None /\ IsType(live[Parent(q)], "dir")
  <2>1. WellFormed(live)
    BY DEF TreeInv
  <2>2. live[q] # None
    <3>1. CASE q = p
      BY <1>2, <3>1
    <3>2. CASE q # p
      <4>1. p \in Names /\ q = Folder
        BY <1>1, <3>2, AboveFacts, PathFacts
      <4>2. p \in Paths \ {Root} /\ Parent(p) = Folder
        BY <4>1, PathFacts
      <4> QED BY <1>2, <2>1, <4>1, <4>2 DEF WellFormed, IsType
    <3> QED BY <3>1, <3>2
  <2> QED BY <1>1, <2>1, <2>2 DEF WellFormed
<1>4. /\ walk'.todo = walk.todo \ {r} /\ walk.listed \subseteq walk'.listed
      /\ \A s \in Paths : s # r => (s \in walk'.failed <=> s \in walk.failed)
      /\ r \notin walk'.failed /\ IsType(live[r], "dir") =>
           InFolder(r) \cap Present(live) \subseteq walk'.listed
  BY DEF ReadOf
<1>5. Parent(q) \in walk.todo \cup walk.failed \/ q \in walk.listed
  BY <1>1 DEF EndedInv
<1>6. CASE Parent(q) = r
  <2>1. q \in InFolder(Parent(q))
    BY <1>1, InFolderFacts
  <2> QED BY <1>1, <1>3, <1>4, <1>6, <2>1 DEF Present
<1>7. CASE Parent(q) # r
  BY <1>1, <1>4, <1>5, <1>7
<1> QED BY <1>6, <1>7

LEMMA EndedWalk ==
  ASSUME FileTypes, TreeInv, EndedInv, WalkStep
  PROVE  EndedInv'
<1>1. UNCHANGED <<live, phase, past>>
  BY DEF WalkStep, diskVars
<1>2. CASE phase = "after"
  <2>1. PICK r \in Paths : ReadOf(r)
    BY DEF WalkStep
  <2>2. /\ \A q \in Paths : q # r => walk'.seen[q] = walk.seen[q]
        /\ walk'.seen[r] \in {None, live[r]}
    BY <2>1 DEF ReadOf
  <2>3. \A p \in Untouched : p \in Paths
    BY DEF Untouched
  <2>4. \A p \in Untouched : walk'.seen[p] # None => ~EntriesDiffer(past.ended[p], walk'.seen[p])
    BY <1>2, <2>2, <2>3 DEF EndedInv
  <2>5. \A p \in Untouched : past.ended[p] # None => \A q \in Above[p] \ {Root} :
          Parent(q) \in walk'.todo \cup walk'.failed \/ q \in walk'.listed
    BY <1>2, <2>1, ReadEnded
  <2> QED BY <1>1, <1>2, <2>4, <2>5 DEF EndedInv, Untouched, WellFormed, Parent
<1>3. CASE phase # "after"
  BY <1>1, <1>3 DEF EndedInv, WellFormed, Parent
<1> QED BY <1>2, <1>3

LEMMA EndedEdit ==
  ASSUME FileTypes, TreeInv, EndedInv, EditStep
  PROVE  EndedInv'
<1> DEFINE S == {q \in Paths : EntriesDiffer(live[q], live'[q])}
<1>1. /\ UNCHANGED <<phase, walk>> /\ past'.ended = past.ended /\ past.touched \subseteq past'.touched
      /\ phase \in {"after"} \cup Restorable => S \subseteq past'.touched
  BY EditPast DEF EditStep
<1>2. CASE phase = "after"
  <2>1. \A p \in Untouched' : p \in Untouched /\ ~EntriesDiffer(live[p], live'[p])
    BY <1>1, <1>2 DEF Untouched
  <2>2. \A p \in Untouched' : ~EntriesDiffer(past.ended[p], live'[p])
    BY <1>2, <2>1, DifferFacts DEF EndedInv
  <2> QED BY <1>1, <1>2, <2>1, <2>2 DEF EndedInv, WellFormed, Parent
<1>3. CASE phase # "after"
  BY <1>1, <1>3 DEF EndedInv, WellFormed, Parent
<1> QED BY <1>2, <1>3

\* Every step keeps the scan true to the end of the session.
LEMMA EndedKept ==
  ASSUME FileTypes, TreeInv, WalkInv, InstantInv, CaptureExact, BaselineInv, SealedInv, JobInv,
         EndedInv, [Next]_vars
  PROVE  EndedInv'
<1>1. CASE StartSeal
  <2>1. /\ past'.ended = live /\ phase = "running" /\ phase' = "after" /\ UNCHANGED <<live, walk>>
    BY <1>1 DEF StartSeal, FileTypes, TreeTypes, diskVars
  <2>2. walk' = NewWalk
    BY <2>1 DEF WalkInv, Walking
  <2>3. \A p \in Paths : \A q \in Above[p] : Parent(q) \in walk'.todo
    BY <2>2, NewWalkFacts, AboveFacts, PathFacts
  <2>4. \A p \in Untouched' : p \in Paths
    BY DEF Untouched
  <2>5. \A p \in Untouched' : walk'.seen[p] = None
    BY <2>2, <2>4, NewWalkFacts
  <2> QED BY <2>1, <2>3, <2>4, <2>5, DifferFacts DEF EndedInv, TreeInv, WellFormed, Parent
<1>2. CASE ~StartSeal /\ ~EditStep /\ ~WalkStep /\ phase' # "after"
  <2>1. past'.ended = past.ended
    BY <1>2, EndedSame
  <2>2. phase' \in {"after"} \cup Restorable => phase \in {"after"} \cup Restorable
    BY <1>2, PhaseMoves DEF Seal
  <2> QED BY <1>2, <2>1, <2>2 DEF EndedInv, WellFormed, Parent
<1>3. CASE ~StartSeal /\ ~EditStep /\ ~WalkStep /\ phase' = "after"
  <2>1. phase = "after"
    BY <1>3, PhaseMoves
  <2>2. UNCHANGED <<vars>>
    BY <1>3, <2>1, StepCases, RestoreSteps
       DEF CaptureStep, TakeBackstop, EndGuard, CloneDirectory, EndClone, Reconcile, InterruptCapture,
           SealStep, Seal, StartRestore, RestoreStep
  <2> QED BY <2>2 DEF vars, diskVars, EndedInv, WellFormed, Untouched, Parent
<1> QED BY <1>1, <1>2, <1>3, EndedEdit, EndedWalk

\* Every step keeps what is published true to its kind.
LEMMA SealedKept ==
  ASSUME FileTypes, TreeInv, WalkInv, InstantInv, CaptureExact, BaselineInv, SealedInv, JobInv,
         [Next]_vars
  PROVE  SealedInv'
<1>1. CASE Seal
  <2>1. /\ phase' = "sealed" /\ UNCHANGED <<capture, volume, clock>>
    BY <1>1 DEF Seal, diskVars
  <2>2. \A p \in Paths : walk.seen[p] # None => walk.seen[p].stamp <= clock
    BY DEF WalkInv, Stamped
  <2>3. ASSUME NEW p \in Paths
        PROVE  LET c == sealed'.changes[p] IN
                 /\ c.kind \in {"deleted", "modified"} => c.before # None
                 /\ c.kind = "created" => c.before = None
                 /\ c.kind = "none" => c = NoChange
                 /\ c.kind # "none" =>
                      IF CoveredBy(p, capture.uncaptured) THEN c.source # "clone"
                      ELSE c.before = capture.before[p]
                 /\ c.source = "volume" => volume # None /\ c.before = capture.observed[p]
                 /\ c.after # None => c.after.stamp <= clock
    <3> DEFINE c == sealed'.changes[p]
    <3>1. CASE c = NoChange
      <4>1. NoChange.kind = "none" /\ NoChange.source = "none" /\ NoChange.after = None
        BY DEF NoChange
      <4> HIDE DEF c
      <4>2. /\ c.kind = "none" /\ c.source = "none" /\ c.after = None /\ c = NoChange
        BY <3>1, <4>1
      <4> QED BY <4>2 DEF c
    <3>2. CASE c = ChangeOf(p, walk.seen, walk.failed)
      BY <2>2, <3>2, ChangeFacts
    <3> QED BY <1>1, <3>1, <3>2, SealPublishes
  <2>4. capture.uncaptured \subseteq sealed'.gaps
    BY <1>1, SealPublishes
  <2> QED BY <2>1, <2>3, <2>4 DEF SealedInv, Restorable, CoveredBy
<1>2. CASE ~Seal
  <2>1. UNCHANGED sealed /\ (phase' \in Restorable => phase \in Restorable)
    BY <1>2, PhaseMoves
  <2>2. CASE phase \in Restorable
    <3>1. UNCHANGED <<capture, volume>>
      BY <2>2, PhaseMoves
    <3>2. clock \in Nat /\ clock' \in {clock, clock + 1}
      BY EndedSame DEF EditStep, RestoreStep, Mended, FileTypes, TreeTypes
    <3>3. \A p \in Paths : LET c == sealed.changes[p] IN
            c.after # None => c.after.stamp \in Nat /\ c.after.stamp <= clock
      <4>1. \A p \in Paths : sealed.changes[p].after \in Entries \cup {None}
        BY FileParts DEF Changes
      <4> QED BY <4>1 DEF SealedInv, Entries
    <3>4. \A p \in Paths : LET c == sealed.changes[p] IN c.after # None => c.after.stamp <= clock'
      BY <3>2, <3>3
    <3>5. phase' \in Restorable \cup {"stopped"}
      BY <2>2, PhaseMoves
    <3>6. phase' # "stopped"
      BY <2>2, StepCases, RestoreSteps
         DEF EditStep, WalkStep, CaptureStep, TakeBackstop, EndGuard, CloneDirectory, EndClone,
             Reconcile, InterruptCapture, SealStep, StartSeal, Seal, StartRestore, RestoreStep,
             vars, Restorable
    <3> QED BY <2>1, <2>2, <3>1, <3>4, <3>5, <3>6 DEF SealedInv, CoveredBy
  <2>3. CASE phase \notin Restorable
    <3>1. sealed' = NotSealed /\ sealed = NotSealed /\ phase' \notin Restorable
      BY <2>1, <2>3 DEF SealedInv
    <3>2. \A p \in Paths : NotSealed.changes[p] = NoChange
      BY DEF NotSealed, NoChanges
    <3>3. NoChange.kind = "none" /\ NoChange.source = "none" /\ NoChange.after = None
      BY DEF NoChange
    <3> QED BY <3>1, <3>2, <3>3 DEF SealedInv
  <2> QED BY <2>2, <2>3
<1> QED BY <1>1, <1>2

-----------------------------------------------------------------------------
(* The list of changes *)

\* When the scan has come to its end, it saw an untouched path as the session left it.
LEMMA SeenAsEnded ==
  ASSUME FileTypes, WalkInv, EndedInv, phase = "after", Unread = {}, NEW p \in Untouched,
         ~CoveredBy(p, walk.failed)
  PROVE  ~EntriesDiffer(past.ended[p], walk.seen[p])
<1>1. p \in Paths /\ Root \in Above[p] /\ p \in Above[p]
  BY AboveFacts DEF Untouched
<1>2. CASE walk.seen[p] # None
  BY <1>2 DEF EndedInv
<1>3. CASE walk.seen[p] = None
  <2>1. \A q \in Above[p] : q \in Paths /\ q \notin walk.failed
    BY <1>1, AboveFacts DEF CoveredBy
  <2>2. p \in walk.todo
    BY <1>1, <1>3, <2>1 DEF WalkInv
  <2>3. \A q \in Paths : q \in walk.listed => q \notin walk.todo
    BY DEF Unread
  <2>4. ASSUME past.ended[p] # None
        PROVE  FALSE
    <3>1. \A q \in Above[p] \ {Root} :
            Parent(q) \in walk.todo \cup walk.failed \/ q \in walk.listed
      BY <2>4 DEF EndedInv
    <3>2. Root \in walk.listed
      BY DEF WalkInv
    <3>3. Folder \in Above[p] => Folder \in walk.listed
      BY <2>1, <2>3, <3>1, <3>2, <1>1, PathFacts
    <3>4. p \in walk.listed
      <4>1. CASE p = Root
        BY <3>2, <4>1
      <4>2. CASE p = Folder
        BY <1>1, <3>3, <4>2
      <4>3. CASE p \in Names
        <5>1. Folder \in Above[p] /\ p \in Above[p] \ {Root} /\ Parent(p) = Folder /\ Folder \in Paths
          BY <1>1, <4>3, AboveFacts, PathFacts
        <5> QED BY <2>1, <2>3, <3>1, <3>3, <5>1
      <4> QED BY <1>1, <4>1, <4>2, <4>3, PathFacts
    <3> QED BY <1>1, <2>2, <2>3, <3>4
  <2> QED BY <1>3, <2>4, DifferFacts
<1> QED BY <1>2, <1>3

\* What is compared of a captured path: an equal file of equal contents is no change.
LEMMA ClonedExact ==
  ASSUME FileTypes, PlainInv, CaptureExact, phase = "after", NEW p \in Paths, NEW gaps,
         ~CoveredBy(p, capture.uncaptured),
         ~EntriesDiffer(past.ended[p], walk.seen[p]), ~EntriesDiffer(past.ended[p], live[p])
  PROVE  LET old == past.instant[p] new == past.ended[p] c == ClonedChange(p, walk.seen, gaps) IN
           /\ c.kind = "created" <=> old = None /\ new # None
           /\ c.kind = "deleted" <=> old # None /\ new = None
           /\ c.kind = "modified" => old # None /\ new # None /\ EntriesDiffer(old, new)
           /\ (old # None /\ new # None /\ <<old.type, old.mode, old.content>>
                                          # <<new.type, new.mode, new.content>>)
              => c.kind = "modified"
<1> DEFINE old == past.instant[p]
           new == past.ended[p]
           seen == walk.seen[p]
           c == ClonedChange(p, walk.seen, gaps)
<1>1. Captured
  BY DEF Captured
<1>2. capture.before[p] = old /\ (old # None => capture.clone[p].content = old.content)
  BY <1>1 DEF CaptureExact
<1>3. (seen = None <=> new = None) /\ (live[p] = None <=> new = None)
  BY DifferFacts
<1>4. EntriesDiffer(old, seen) <=> EntriesDiffer(old, new)
  BY DifferFacts
<1>5. c.kind = IF Kind(old, seen) = "modified" /\ CheaplyMatches(p, old, seen) THEN "none"
               ELSE Kind(old, seen)
  BY <1>2 DEF ClonedChange, NoChange
<1>6. c.kind = "created" <=> old = None /\ new # None
  BY <1>3, <1>5 DEF Kind
<1>7. c.kind = "deleted" <=> old # None /\ new = None
  BY <1>3, <1>5 DEF Kind
<1>8. c.kind = "modified" => old # None /\ new # None /\ EntriesDiffer(old, new)
  BY <1>3, <1>4, <1>5 DEF Kind
<1>9. ASSUME old # None, new # None, c.kind # "modified"
      PROVE  old.type = new.type /\ old.mode = new.mode /\ old.content = new.content
  <2>1. Plain(past.instant) /\ Plain(past.ended)
    BY <1>1 DEF PlainInv
  <2>2. CASE ~EntriesDiffer(old, new)
    <3>1. CASE IsType(old, "dir")
      BY <1>9, <2>1, <2>2, <3>1, DifferFacts DEF Plain, IsType
    <3>2. CASE ~IsType(old, "dir")
      BY <2>2, <3>2, DifferFacts
    <3> QED BY <3>1, <3>2
  <2>3. CASE EntriesDiffer(old, new)
    <3>1. Kind(old, seen) = "modified"
      BY <1>3, <1>4, <1>9, <2>3 DEF Kind
    <3>2. CheaplyMatches(p, old, seen)
      BY <1>5, <1>9, <3>1
    <3>3. /\ IsType(old, "file") /\ IsType(seen, "file") /\ old.mode = seen.mode
          /\ IsType(live[p], "file") /\ live[p].content = capture.clone[p].content
      BY <3>2 DEF CheaplyMatches
    <3>4. new = seen /\ new = live[p]
      BY <3>3, DifferFacts DEF IsType
    <3> QED BY <1>2, <3>3, <3>4 DEF IsType
  <2> QED BY <2>2, <2>3
<1>10. (old # None /\ new # None /\ <<old.type, old.mode, old.content>>
                                    # <<new.type, new.mode, new.content>>) => c.kind = "modified"
  BY <1>9
<1> QED BY <1>6, <1>7, <1>8, <1>10

LEMMA SealExact ==
  ASSUME FileTypes, WalkInv, EndedInv, PlainInv, CaptureExact, Seal
  PROVE  ChangeListExact'
<1>1. phase = "after" /\ UNCHANGED past
  BY DEF Seal
<1>2. ASSUME sealed'.scanned, NEW p \in Untouched, ~CoveredBy(p, sealed'.gaps)
      PROVE  LET old == past.instant[p] new == past.ended[p] c == sealed'.changes[p] IN
           /\ c.kind = "created" <=> old = None /\ new # None
           /\ c.kind = "deleted" <=> old # None /\ new = None
           /\ c.kind = "modified" => old # None /\ new # None /\ EntriesDiffer(old, new)
           /\ (old # None /\ new # None /\ <<old.type, old.mode, old.content>>
                                          # <<new.type, new.mode, new.content>>)
              => c.kind = "modified"
  <2>1. /\ Unread = {} /\ p \in Paths
        /\ sealed'.changes[p] = ChangeOf(p, walk.seen, walk.failed)
        /\ sealed'.gaps = capture.uncaptured \cup walk.failed
                          \cup CoverageGaps(walk.seen, walk.failed)
    BY <1>2, SealPublishes DEF Untouched
  <2>2. ~CoveredBy(p, capture.uncaptured) /\ ~CoveredBy(p, walk.failed)
    BY <1>2, <2>1 DEF CoveredBy
  <2>3. sealed'.changes[p] = ClonedChange(p, walk.seen, walk.failed)
    BY <2>1, <2>2 DEF ChangeOf
  <2>4. ~EntriesDiffer(past.ended[p], walk.seen[p]) /\ ~EntriesDiffer(past.ended[p], live[p])
    BY <1>1, <2>1, <2>2, SeenAsEnded DEF EndedInv
  <2> QED BY <1>1, <2>1, <2>2, <2>3, <2>4, ClonedExact
<1>3. \A p \in Paths : ~sealed'.scanned => sealed'.changes[p] = NoChange /\ ~sealed'.complete
  BY SealPublishes
<1> QED BY <1>1, <1>2, <1>3 DEF ChangeListExact, Untouched, CoveredBy

\* Every step keeps the list of changes exact.
LEMMA ChangesKept ==
  ASSUME FileTypes, TreeInv, WalkInv, InstantInv, CaptureExact, BaselineInv, SealedInv, JobInv,
         EndedInv, PlainInv, ChangeListExact, [Next]_vars
  PROVE  ChangeListExact'
<1>1. CASE Seal
  BY <1>1, SealExact
<1>2. CASE ~Seal
  <2>1. UNCHANGED sealed /\ (phase' \in Restorable => phase \in Restorable)
    BY <1>2, PhaseMoves
  <2>2. CASE phase \in Restorable
    <3>1. /\ past'.instant = past.instant /\ past'.ended = past.ended
      BY <2>2, InstantSame, EndedSame DEF Restorable, EndGuard, StartSeal
    <3>2. past.touched \subseteq past'.touched
      <4>1. CASE StartRestore
        BY <4>1 DEF StartRestore, FileTypes, TreeTypes
      <4>2. CASE ~StartRestore
        BY <2>2, <4>2, EndedSame, EditPast DEF Restorable, EndGuard, StartSeal
      <4> QED BY <4>1, <4>2
    <3> QED BY <2>1, <2>2, <3>1, <3>2 DEF ChangeListExact, Restorable, CoveredBy
  <2>3. CASE phase \notin Restorable
    BY <2>1, <2>3 DEF ChangeListExact, Restorable
  <2> QED BY <2>2, <2>3
<1> QED BY <1>1, <1>2

-----------------------------------------------------------------------------
(* What a restore leaves alone *)

\* Every step keeps the folders that restore readied to those of the baseline.
LEMMA FolderKept ==
  ASSUME FileTypes, TreeInv, InstantInv, CaptureExact, BaselineInv, SealedInv, JobInv, FolderInv,
         [Next]_vars
  PROVE  FolderInv'
<1>1. CASE RestoreStep
  <2>1. /\ UNCHANGED <<capture, past>> /\ Readied /\ Captured
    BY <1>1 DEF RestoreStep, Captured
  <2>2. \A p \in Paths : capture.before[p] # None =>
          capture.before[p] = past.instant[p] /\ ~CoveredBy(p, capture.uncaptured)
    BY <2>1 DEF CaptureExact, BaselineInv, Present
  <2>3. \A p \in Paths : IsType(capture.before[p], "dir") => IsType(past.instant[p], "dir")
    BY <2>2 DEF IsType
  <2>4. (\E p \in Names : capture.before[p] # None) =>
          IsType(past.instant[Folder], "dir") /\ ~CoveredBy(Folder, capture.uncaptured)
    <3> SUFFICES ASSUME NEW p \in Names, capture.before[p] # None
                 PROVE  IsType(past.instant[Folder], "dir") /\ ~CoveredBy(Folder, capture.uncaptured)
      OBVIOUS
    <3>1. p \in Paths \ {Root} /\ Parent(p) = Folder /\ Above[Folder] \subseteq Above[p]
      BY PathFacts, AboveFacts
    <3> QED BY <2>1, <2>2, <3>1 DEF InstantInv, WellFormed, CoveredBy
  <2>5. \A p \in Paths :
          /\ job'.created[p] = job.created[p] \/ IsType(capture.before[p], "dir")
          /\ job'.temporary[p] = job.temporary[p]
             \/ (p = Folder /\ \E n \in Names : capture.before[n] # None)
    BY <2>1 DEF Readied
  <2> QED BY <2>1, <2>2, <2>3, <2>4, <2>5 DEF FolderInv, CoveredBy
<1>2. CASE ~RestoreStep
  <2>1. CASE StartRestore
    <3>1. \A p \in Paths : job'.created[p] = None /\ job'.temporary[p] = None
      BY <2>1, StartTypes, EmptyTree
    <3> QED BY <3>1 DEF FolderInv
  <2>2. CASE ~StartRestore
    <3>1. UNCHANGED job
      BY <1>2, <2>2, StepCases, RestoreSteps
         DEF EditStep, WalkStep, CaptureStep, TakeBackstop, EndGuard, CloneDirectory, EndClone,
             Reconcile, InterruptCapture, SealStep, StartSeal, Seal, vars
    <3>2. CASE phase \in {"restoring", "done"}
      <4>1. UNCHANGED capture /\ past'.instant = past.instant
        BY <3>2, PhaseMoves, InstantSame DEF Restorable, EndGuard
      <4> QED BY <3>1, <4>1 DEF FolderInv, CoveredBy
    <3>3. CASE phase \notin {"restoring", "done"}
      <4>1. \A p \in Paths : job'.created[p] = None /\ job'.temporary[p] = None
        BY <3>1, <3>3, EmptyTree DEF JobInv, NoJob
      <4> QED BY <4>1 DEF FolderInv
    <3> QED BY <3>2, <3>3
  <2> QED BY <2>1, <2>2
<1> QED BY <1>1, <1>2

\* A file that was left is compared with what is not it: it is refused, or its folder was
\* there before the session and is to be made again, which fails, or there is a doubt.
LEMMA LeftVerdict ==
  ASSUME FileTypes, CaptureExact, SealedInv, JobInv, LeftInv, FolderInv, ~job.forced,
         phase = "restoring", NEW i \in job.queue, LeftFile(i.path)
  PROVE  /\ Verdict(i) \notin {"remove", "mount", "check"}
         /\ Verdict(i) = "write" => IsType(Sought(i).before, "dir")
<1> DEFINE p == i.path
           c == Sought(i)
<1>1. i \in Items /\ p \in Paths /\ i.form \in {"change", "mounted", "baseline"}
  BY FileParts DEF Items
<1>2. live[p] = past.left[p] /\ live[p] # None /\ ~IsType(live[p], "dir")
  BY <1>1 DEF LeftInv, LeftFile, IsType
<1>3. c.after # None => c.after # live[p]
  <2>1. sealed.changes[p].after # past.left[p]
    BY <1>1, <1>2 DEF LeftInv, Restorable
  <2> QED BY <1>2, <2>1 DEF Sought
<1>4. c.after # None => EntriesDiffer(live[p], c.after)
  BY <1>2, <1>3, DifferFacts
<1>5. c.kind # "none" /\ (c.kind = "created" => c.before = None)
  <2>1. c.kind # "none"
    BY <1>1 DEF JobInv, Sought
  <2> QED BY <1>1, <2>1, SoughtFacts
<1>6. job.temporary[p] # None => IsType(c.before, "dir")
  <2> SUFFICES ASSUME job.temporary[p] # None
               PROVE  IsType(c.before, "dir")
    OBVIOUS
  <2>1. IsType(past.instant[p], "dir") /\ ~CoveredBy(p, capture.uncaptured)
    BY <1>1 DEF FolderInv
  <2>2. capture.before[p] = past.instant[p]
    BY <1>1, <2>1 DEF CaptureExact, Captured
  <2> QED BY <1>1, <1>5, <2>1, <2>2, SoughtFacts
<1>7. CASE c.source = "none"
  BY <1>7 DEF Verdict
<1>8. CASE c.source = "clone"
  <2>1. Verdict(i) = CloneVerdict(p, c)
    BY <1>8 DEF Verdict
  <2>2. CASE CloneVerdict(p, c) \notin {"write", "remove"}
    BY <2>1, <2>2 DEF CloneVerdict
  <2>3. CASE CloneVerdict(p, c) \in {"write", "remove"}
    <3>1. MatchesExpected(p, c.after) \/ IsType(c.before, "dir")
      BY <2>3 DEF CloneVerdict
    <3>2. MatchesExpected(p, c.after) => job.temporary[p] # None
      BY <1>2, <1>4 DEF MatchesExpected, Compared
    <3>3. IsType(c.before, "dir")
      BY <1>6, <3>1, <3>2
    <3>4. c.kind # "created"
      BY <1>5, <3>3 DEF IsType
    <3> QED BY <2>1, <3>3, <3>4 DEF CloneVerdict
  <2> QED BY <2>2, <2>3
<1>9. CASE c.source = "volume"
  <2>1. Verdict(i) = VolumeVerdict(p, c)
    BY <1>9 DEF Verdict
  <2> DEFINE conflict == IF c.after = None THEN live[p] # None
                         ELSE live[p] = None \/ EntriesDiffer(live[p], c.after)
  <2>2. conflict
    BY <1>2, <1>4
  <2>3. PossiblyRestored(p, c.before) => c.kind # "created"
    BY <1>5 DEF PossiblyRestored
  <2> QED BY <2>1, <2>2, <2>3, <1>2 DEF VolumeVerdict
<1>10. c.source \in {"none", "clone", "volume"}
  BY <1>1, SoughtFacts DEF Changes
<1> QED BY <1>7, <1>8, <1>9, <1>10

\* Every step keeps a file that was left from being removed or replaced.
LEMMA PlanKept ==
  ASSUME FileTypes, TreeInv, InstantInv, CaptureExact, BaselineInv, SealedInv, JobInv, LeftInv,
         FolderInv, PlanInv, [Next]_vars
  PROVE  PlanInv'
<1>1. \A i \in job.queue : i \in Items /\ i.path \in Paths
  BY FileParts DEF Items
<1>2. CASE phase \notin {"restoring", "done"} /\ ~StartRestore
  <2>1. job' = NoJob
    BY <1>2, StepCases, RestoreSteps
       DEF EditStep, WalkStep, CaptureStep, TakeBackstop, EndGuard, CloneDirectory, EndClone,
           Reconcile, InterruptCapture, SealStep, StartSeal, Seal, vars, JobInv, RestoreStep
  <2>2. NoJob.queue = {}
    BY DEF NoJob
  <2> QED BY <2>1, <2>2 DEF PlanInv
<1>3. CASE StartRestore
  <2>1. \A i \in job'.queue : job'.plans[i.path] = "none"
    BY <1>3, StartTypes
  <2> QED BY <2>1 DEF PlanInv
<1>4. CASE EditStep
  <2>1. UNCHANGED <<job, capture, sealed>>
    BY <1>4 DEF EditStep
  <2>2. \A p \in Paths : past'.left[p] # None =>
          past'.left[p] = past.left[p] \/ phase # "restoring" \/ job.plans[p] = "none"
    BY <1>4, EditPast
  <2>3. CASE phase = "restoring"
    <3>1. \A i \in job.queue : LeftFile(i.path)' => LeftFile(i.path) \/ job.plans[i.path] = "none"
      BY <1>1, <2>2, <2>3 DEF LeftFile, IsType
    <3> QED BY <2>1, <3>1, SoughtKept DEF PlanInv
  <2>4. CASE phase = "done"
    BY <1>4, <2>4 DEF EditStep
  <2> QED BY <1>2, <1>4, <2>3, <2>4 DEF StartRestore, EditStep
<1>5. CASE RestoreStep /\ Shrinks
  <2>1. UNCHANGED <<capture, sealed, past>>
    BY <1>5 DEF RestoreStep
  <2>2. /\ job'.queue \subseteq job.queue /\ job'.forced = job.forced
        /\ \A i \in job'.queue : job'.plans[i.path] = job.plans[i.path]
    BY <1>5 DEF Shrinks, JobInv
  <2> QED BY <2>1, <2>2, SoughtKept DEF PlanInv, LeftFile
<1>6. CASE RestoreStep /\ Decides
  <2>1. UNCHANGED <<capture, sealed, past>> /\ phase = "restoring"
    BY <1>6 DEF RestoreStep
  <2>2. PICK i \in job.queue, plan \in Plans \ {"none"}, form \in {"change", "mounted", "baseline"} :
          /\ i = FirstItem /\ i.form # "mounted" /\ plan = Verdict(i)
          /\ form = IF plan \in {"write", "remove"} THEN i.form ELSE "mounted"
          /\ job' \in Jobs /\ job'.forced = job.forced
          /\ job'.queue = (job.queue \ {i}) \cup {Item(form, i.path)}
          /\ job'.plans = [job.plans EXCEPT ![i.path] = plan]
    BY <1>6 DEF Decides
  <2> DEFINE k == Item(form, i.path)
  <2>3. /\ k.path = i.path
        /\ \A p \in Paths : job'.plans[p] = IF p = i.path THEN plan ELSE job.plans[p]
    BY <1>1, <2>2, FileParts DEF Item
  <2>4. plan = "write" => k = i
    BY <1>1, <2>2 DEF Item, Items
  <2> HIDE DEF k
  <2>5. \A j \in job'.queue : j = k \/ (j \in job.queue /\ j.path # i.path /\ j.path \in Paths)
    BY <1>1, <2>2 DEF k, JobInv
  <2>6. ~job.forced /\ LeftFile(i.path) =>
          plan \in {"none", "write", "doubt"} /\ (plan = "write" => IsType(Sought(i).before, "dir"))
    BY <2>1, <2>2, LeftVerdict DEF Plans
  <2>7. ASSUME ~job.forced, NEW j \in job'.queue, LeftFile(j.path)
        PROVE  /\ job'.plans[j.path] \in {"none", "write", "doubt"}
               /\ job'.plans[j.path] = "write" => IsType(Sought(j).before, "dir")
    <3>1. CASE j = k
      BY <1>1, <2>3, <2>4, <2>6, <2>7, <3>1
    <3>2. CASE j # k
      BY <2>3, <2>5, <2>7, <3>2 DEF PlanInv
    <3> QED BY <3>1, <3>2
  <2> QED BY <2>1, <2>2, <2>7, SoughtKept DEF PlanInv, LeftFile
<1>7. CASE phase \in {"restoring", "done"} /\ ~EditStep /\ ~RestoreStep
  <2>1. UNCHANGED <<job, capture, sealed, past>>
    BY <1>7, StepCases, RestoreSteps
       DEF WalkStep, CaptureStep, TakeBackstop, EndGuard, CloneDirectory, EndClone,
           Reconcile, InterruptCapture, SealStep, StartSeal, Seal, vars, StartRestore, Walking
  <2> QED BY <2>1, SoughtKept DEF PlanInv, LeftFile
<1> QED BY <1>2, <1>3, <1>4, <1>5, <1>6, <1>7, StepCases, RestoreSteps DEF RestoreStep

\* A step of a restore leaves a file that was left.
LEMMA RestoreKeeps ==
  ASSUME FileTypes, TreeInv, InstantInv, CaptureExact, BaselineInv, SealedInv, JobInv, LeftInv,
         PlanInv, ~job.forced, Restore, NEW p \in Paths, LeftFile(p)
  PROVE  live'[p] = live[p]
<1> DEFINE i == FirstItem
<1>1. live[p] = past.left[p] /\ IsType(live[p], "file") /\ ~IsType(live[p], "dir")
  BY DEF LeftInv, LeftFile, IsType
<1>2. job.queue # {} => i \in job.queue /\ i.path \in Paths
  BY FirstItemFacts
<1>3. CASE UNCHANGED live
  BY <1>3
<1>4. CASE RemovePath /\ live' # live
  <2>1. /\ i \in job.queue /\ i.path \in Paths /\ i.path # p
    BY <1>2, <1>4 DEF RemovePath, Acting, PlanInv
  <2>2. CASE i.path = Root
    <3>1. live[p] # None /\ p \in Paths \ {Root}
      BY <1>1, <2>1, <2>2 DEF IsType
    <3>2. live[Folder] # None
      BY <3>1, PathFacts DEF TreeInv, WellFormed, IsType
    <3>3. InFolder(Root) \cap Present(live) = {}
      BY <1>4, <2>2 DEF RemovePath, diskVars
    <3> QED BY <3>2, <3>3, PathFacts, InFolderFacts DEF Present
  <2>3. CASE i.path # Root
    <3>1. /\ live' = Drop(live, i.path) /\ live[i.path] # None /\ Writable(live, i.path)
          /\ InFolder(i.path) \cap Present(live) = {}
      BY <1>4 DEF RemovePath, diskVars
    <3>2. p \notin Below[i.path]
      BY <1>1, <2>1, <3>1, NothingBelow DEF TreeInv, IsType
    <3>3. p # Parent(i.path)
      BY <1>1, <3>1 DEF Writable
    <3>4. live \in Trees /\ clock \in Nat /\ live[Parent(i.path)] # None
      BY <3>1, TreeParts DEF FileTypes, Writable, IsType
    <3> QED BY <2>1, <2>3, <3>1, <3>2, <3>3, <3>4, DropTree
  <2> QED BY <2>2, <2>3
<1>5. CASE WritePath /\ live' # live
  <2>1. ParentsReady(i.path) /\ i \in job.queue /\ i.path \in Paths /\ job.plans[i.path] = "write"
    BY <1>2, <1>5 DEF WritePath, Acting, diskVars
  <2>2. CASE i.path # p
    BY <1>1, <1>5, <2>1, <2>2, WriteSound DEF Keeps
  <2>3. CASE i.path = p
    <3>1. IsType(Sought(i).before, "dir")
      BY <2>1, <2>3 DEF PlanInv
    <3>2. WithParents(p)[p] = live[p]
      BY <1>5, <2>1, <2>3, ParentsSound, WriteFacts DEF FileTypes, WritePath
    <3>3. ~Replaceable(WithParents(p), p, Sought(i).before.type)
      BY <1>1, <3>1, <3>2 DEF Replaceable, IsType
    <3>4. live' = WithParents(p)
      BY <1>5, <2>1, <2>3, <3>3 DEF WritePath
    <3> QED BY <3>2, <3>4
  <2> QED BY <2>2, <2>3
<1>6. CASE RestoreMounted /\ live' # live
  <2>1. Keeps(live', live, i.path) /\ job.plans[i.path] # "doubt"
    BY <1>6, MountedSound DEF diskVars
  <2>2. i \in job.queue /\ i.path \in Paths /\ i.form = "mounted"
    BY <1>2, <1>6 DEF RestoreMounted, Mounting
  <2>3. i.path # p
    BY <2>1, <2>2 DEF PlanInv, JobInv
  <2> QED BY <1>1, <2>1, <2>3 DEF Keeps
<1>7. CASE FinishRestore
  BY <1>1, <1>7, FinishTree
<1> QED BY <1>3, <1>4, <1>5, <1>6, <1>7 DEF Restore, StartRestore, Compare, Mount, Unmount, diskVars

\* An edit leaves what it did not touch, and what it leaves is newer than any scan.
LEMMA EditLeft ==
  ASSUME FileTypes, TreeInv, WalkInv, SealedInv, JobInv, LeftInv, EditStep
  PROVE  LeftInv'
<1> DEFINE S == {q \in Paths : EntriesDiffer(live[q], live'[q])}
<1>1. /\ UNCHANGED <<phase, walk, sealed, job>> /\ clock' = clock + 1 /\ clock \in Nat
      /\ live' \in Trees /\ phase # "done"
      /\ \A p \in Paths : live'[p] # live[p] => live'[p] = None \/ live'[p].stamp = clock + 1
  BY DEF EditStep, Edited, FileTypes, TreeTypes
<1>2. \A p \in Paths : past'.left[p] =
        IF p \notin S THEN past.left[p]
        ELSE IF \/ phase \in {"sealed", "done"}
                \/ phase = "after" /\ p \notin walk.todo
                \/ phase = "restoring" /\ job.plans[p] = "none"
             THEN live'[p] ELSE None
  BY EditPast
<1>3. \A p \in S : p \in Paths /\ live'[p] # live[p]
  BY DifferFacts
<1>4. ASSUME NEW p \in Paths
      PROVE  /\ past.left[p] # None => past.left[p].stamp \in Nat
             /\ walk.seen[p] # None => walk.seen[p].stamp \in Nat /\ walk.seen[p].stamp <= clock
             /\ sealed.changes[p].after # None =>
                  sealed.changes[p].after.stamp \in Nat /\ sealed.changes[p].after.stamp <= clock
  <2>1. sealed.changes[p].after \in Entries \cup {None}
    BY FileParts DEF Changes
  <2>2. past.left[p] \in Entries \cup {None} /\ walk.seen[p] \in Entries \cup {None}
    BY FileParts, WalkParts, TreeFacts DEF FileTypes
  <2>3. \A e \in Entries : e.stamp \in Nat
    BY DEF Entries
  <2> QED BY <2>1, <2>2, <2>3 DEF WalkInv, Stamped, SealedInv
<1>5. ASSUME NEW p \in Paths, past'.left[p] # None
      PROVE  /\ phase \in {"after"} \cup Restorable /\ past'.left[p].stamp <= clock + 1
             /\ p \notin walk.todo \/ phase # "after"
             /\ phase = "after" => walk.seen[p] # past'.left[p]
             /\ phase \in Restorable => sealed.changes[p].after # past'.left[p]
  <2>1. CASE p \notin S
    <3>1. past'.left[p] = past.left[p]
      BY <1>2, <2>1
    <3>2. past.left[p].stamp <= clock + 1
      BY <1>1, <1>4, <1>5, <3>1 DEF LeftInv
    <3> QED BY <1>5, <3>1, <3>2 DEF LeftInv
  <2>2. CASE p \in S
    <3>1. past'.left[p] = live'[p] /\ live'[p].stamp = clock + 1
      BY <1>1, <1>2, <1>3, <1>5, <2>2
    <3>2. /\ phase \in {"after"} \cup Restorable
          /\ p \notin walk.todo \/ phase # "after"
      BY <1>2, <1>5, <2>2 DEF Restorable
    <3>3. walk.seen[p] # live'[p] /\ sealed.changes[p].after # live'[p]
      BY <1>1, <1>4, <1>5, <3>1
    <3> QED BY <1>1, <3>1, <3>2, <3>3
  <2> QED BY <2>1, <2>2
<1>6. ASSUME ~job.forced, NEW p \in Paths, IsType(past'.left[p], "file")
      PROVE  live'[p] = past'.left[p]
  <2>1. CASE p \notin S
    <3>1. IsType(past.left[p], "file") /\ past'.left[p] = past.left[p]
      BY <1>2, <1>6, <2>1
    <3>2. live[p] = past.left[p] /\ ~IsType(live[p], "dir")
      BY <1>6, <3>1 DEF LeftInv, LeftFile, IsType
    <3>3. ~EntriesDiffer(live[p], live'[p])
      BY <2>1
    <3> QED BY <3>1, <3>2, <3>3, DifferFacts
  <2>2. CASE p \in S
    BY <1>2, <1>6, <2>2 DEF IsType
  <2> QED BY <2>1, <2>2
<1> QED BY <1>1, <1>5, <1>6 DEF LeftInv, LeftFile

\* Every step keeps what an edit left behind.
LEMMA LeftKept ==
  ASSUME FileTypes, TreeInv, WalkInv, InstantInv, CaptureExact, BaselineInv, SealedInv, JobInv,
         LeftInv, FolderInv, PlanInv, [Next]_vars
  PROVE  LeftInv'
<1>1. CASE EditStep
  BY <1>1, EditLeft
<1>2. CASE WalkStep
  <2>1. PICK r \in Paths : ReadOf(r)
    BY <1>2 DEF WalkStep
  <2>2. /\ r \in walk.todo /\ walk'.todo = walk.todo \ {r}
        /\ \A p \in Paths : p # r => walk'.seen[p] = walk.seen[p]
    BY <2>1 DEF ReadOf
  <2>3. UNCHANGED <<live, clock, phase, sealed, job, past>>
    BY <1>2 DEF WalkStep, diskVars
  <2> QED BY <2>2, <2>3 DEF LeftInv, LeftFile
<1>3. CASE SealStep \/ CaptureStep \/ StartRestore \/ UNCHANGED vars
  <2>1. past'.left = past.left
    BY <1>3
       DEF SealStep, StartSeal, Seal, CaptureStep, TakeBackstop, EndGuard, CloneDirectory, EndClone,
           Reconcile, InterruptCapture, StartRestore, vars, FileTypes, TreeTypes
  <2>2. UNCHANGED <<live, clock>>
    BY <1>3
       DEF SealStep, StartSeal, Seal, CaptureStep, TakeBackstop, EndGuard, CloneDirectory, EndClone,
           Reconcile, InterruptCapture, StartRestore, vars, diskVars
  <2>3. CASE phase \notin {"after"} \cup Restorable
    <3>1. \A p \in Paths : past.left[p] = None
      BY <2>3 DEF LeftInv
    <3> QED BY <2>1, <3>1 DEF LeftInv, LeftFile, IsType
  <2>4. CASE UNCHANGED vars
    BY <2>4 DEF vars, diskVars, LeftInv, LeftFile
  <2>5. CASE Seal
    <3>1. phase = "after" /\ phase' = "sealed" /\ UNCHANGED job
      BY <2>5 DEF Seal
    <3>2. \A p \in Paths : past.left[p] # None => sealed'.changes[p].after # past.left[p]
      <4>1. NoChange.after = None
        BY DEF NoChange
      <4>2. \A p \in Paths : sealed'.changes[p].after \in {None, walk.seen[p]}
        BY <2>5, <4>1, SealPublishes, ChangeFacts
      <4> QED BY <3>1, <4>2 DEF LeftInv
    <3> QED BY <2>1, <2>2, <3>1, <3>2 DEF LeftInv, LeftFile, Restorable
  <2>6. CASE StartRestore
    <3>1. phase \in Restorable /\ phase' = "restoring" /\ UNCHANGED <<sealed, walk>> /\ ~job.forced
      BY <2>6 DEF StartRestore, Restorable, JobInv, NoJob
    <3> QED BY <2>1, <2>2, <3>1 DEF LeftInv, LeftFile, Restorable
  <2> QED BY <1>3, <2>3, <2>4, <2>5, <2>6
       DEF SealStep, StartSeal, CaptureStep, TakeBackstop, EndGuard, CloneDirectory, EndClone,
           Reconcile, InterruptCapture, Restorable
<1>4. CASE Restore /\ RestoreStep
  <2>1. /\ phase \in Restorable /\ phase' \in Restorable /\ phase' # "after"
        /\ UNCHANGED <<sealed, past>> /\ job'.forced = job.forced
        /\ clock' \in {clock, clock + 1} /\ clock \in Nat
    BY <1>4 DEF RestoreStep, Restorable, Shrinks, Decides, Mended, FileTypes, TreeTypes
  <2>2. \A p \in Paths : past.left[p] # None => past.left[p].stamp <= clock'
    <3>1. \A p \in Paths : past.left[p] # None => past.left[p].stamp \in Nat
      BY FileParts, TreeFacts
    <3> QED BY <2>1, <3>1 DEF LeftInv
  <2>3. ~job.forced => \A p \in Paths : LeftFile(p) => live'[p] = past.left[p]
    BY <1>4, RestoreKeeps DEF LeftInv
  <2> QED BY <2>1, <2>2, <2>3 DEF LeftInv, LeftFile
<1> QED BY <1>1, <1>2, <1>3, <1>4, StepCases, RestoreSteps

-----------------------------------------------------------------------------
(* What a restore reports *)

LEMMA RestoreCases ==
  ASSUME FileTypes, TreeInv, InstantInv, CaptureExact, BaselineInv, SealedInv, JobInv, [Next]_vars
  PROVE  /\ phase' = "restoring" =>
              \/ StartRestore
              \/ /\ phase = "restoring"
                 /\ \/ EditStep \/ Compare \/ RemovePath \/ WritePath \/ Mount \/ RestoreMounted
                    \/ Unmount \/ UNCHANGED vars
         /\ phase' = "done" => FinishRestore \/ UNCHANGED vars
<1>1. CASE EditStep \/ UNCHANGED vars
  BY <1>1 DEF EditStep, vars
<1>2. CASE WalkStep \/ CaptureStep \/ SealStep
  BY <1>2 DEF WalkStep, Walking, CaptureStep, TakeBackstop, EndGuard, CloneDirectory, EndClone,
              Reconcile, InterruptCapture, SealStep, StartSeal, Seal
<1>3. CASE Restore
  <2>1. CASE StartRestore
    BY <2>1 DEF StartRestore
  <2>2. CASE Compare \/ RemovePath \/ WritePath \/ Mount \/ RestoreMounted \/ Unmount
    BY <2>2 DEF Compare, Comparing, RemovePath, Acting, WritePath, Mount, Mounting, RestoreMounted,
                Unmount
  <2>3. CASE FinishRestore
    BY <2>3 DEF FinishRestore
  <2> QED BY <1>3, <2>1, <2>2, <2>3 DEF Restore
<1> QED BY <1>1, <1>2, <1>3, StepCases

LEMMA EndsFacts ==
  ASSUME FileTypes, JobInv, ResultInv, NEW i \in job.queue, NEW result, Ends(i, result)
  PROVE  /\ i.path \in Paths /\ job.results[i.path] = "none"
         /\ \A q \in Paths : job'.results[q] = IF q = i.path THEN result ELSE job.results[q]
         /\ ResultInv'
<1>1. \A j \in job.queue : j.path \in Paths
  BY FileParts DEF Items
<1>2. \A q \in Paths : job'.results[q] = IF q = i.path THEN result ELSE job.results[q]
  BY <1>1, FileParts DEF Ends
<1>3. job.results[i.path] = "none"
  BY DEF ResultInv
<1>4. \A j \in job'.queue : j \in job.queue /\ j.path # i.path
  BY DEF Ends, JobInv
<1>5. \A p \in job'.finalized : p \in job.finalized /\ p \in Paths /\ p # i.path
  BY <1>3, FileParts DEF Ends, ResultInv
<1> QED BY <1>1, <1>2, <1>3, <1>4, <1>5 DEF Ends, ResultInv

LEMMA DecidesFacts ==
  ASSUME FileTypes, JobInv, ResultInv, Decides
  PROVE  /\ \A j \in job'.queue : j \in job.queue \/ j.form = "mounted"
         /\ ResultInv'
<1>1. PICK i \in job.queue, plan \in Plans \ {"none"}, form \in {"change", "mounted", "baseline"} :
        /\ form = IF plan \in {"write", "remove"} THEN i.form ELSE "mounted"
        /\ job'.queue = (job.queue \ {i}) \cup {Item(form, i.path)}
        /\ job'.created = job.created /\ job'.temporary = job.temporary
        /\ job'.finalized = job.finalized /\ job'.results = job.results /\ job'.mounted = {}
  BY DEF Decides
<1>2. i \in Items
  BY FileParts
<1>3. Item(form, i.path).path = i.path /\ Item(form, i.path).form = form
  BY DEF Item
<1>4. form = "mounted" \/ Item(form, i.path) = i
  BY <1>1, <1>2 DEF Item, Items
<1> QED BY <1>1, <1>3, <1>4 DEF ResultInv

LEMMA WritesFacts ==
  ASSUME FileTypes, JobInv, ResultInv, NEW i \in job.queue, Writes(i)
  PROVE  /\ i.path \in Paths /\ job.results[i.path] = "none"
         /\ job'.results[i.path] =
              IF Replaceable(WithParents(i.path), i.path, Sought(i).before.type) THEN "restored"
              ELSE "error"
         /\ \A q \in Paths \ {i.path} : job'.results[q] = job.results[q]
         /\ \A q \in Paths \ {i.path} : q \in job'.finalized <=> q \in job.finalized
         /\ ResultInv'
<1> DEFINE p == i.path
           possible == Replaceable(WithParents(p), p, Sought(i).before.type)
           final == job.finalized \cup (IF possible /\ Sought(i).before.type = "dir" THEN {p} ELSE {})
           result == IF possible THEN "restored" ELSE "error"
<1>1. \A j \in job.queue : j.path \in Paths
  BY FileParts DEF Items
<1>2. /\ job'.queue = job.queue \ {i} /\ job'.finalized = final
      /\ job'.results = [job.results EXCEPT ![p] = result]
  BY DEF Writes
<1>3. \A q \in Paths : job'.results[q] = IF q = p THEN result ELSE job.results[q]
  BY <1>1, <1>2, FileParts
<1>4. job.results[p] = "none"
  BY DEF ResultInv
<1>5. \A j \in job'.queue : j \in job.queue /\ j.path # p
  BY <1>2 DEF JobInv
<1>6. ASSUME NEW q \in job'.finalized PROVE job'.results[q] \in {"restored", "error"}
  <2>1. CASE q \in job.finalized
    <3>1. q # p /\ q \in Paths
      BY <1>4, <2>1, FileParts DEF ResultInv
    <3> QED BY <1>3, <2>1, <3>1 DEF ResultInv
  <2>2. CASE q \notin job.finalized
    <3>1. q = p /\ possible
      BY <1>2, <1>6, <2>2
    <3> QED BY <1>1, <1>3, <3>1
  <2> QED BY <2>1, <2>2
<1>10. job'.mounted = job.mounted
  BY DEF Writes
<1>7. ASSUME NEW q \in Paths \ job'.finalized, job'.created[q] # None \/ job'.temporary[q] # None
      PROVE  q = Folder
  <2>1. q \notin job.finalized /\ ~(q = p /\ possible /\ Sought(i).before.type = "dir")
    BY <1>2, <1>7
  <2>2. q = Folder \/ (job'.created[q] = job.created[q] /\ job'.temporary[q] = job.temporary[q])
    <3> HIDE DEF final, result
    <3> QED BY <2>1 DEF Writes
  <2> QED BY <1>7, <2>1, <2>2 DEF ResultInv
<1>8. \A q \in Paths \ {p} : q \in job'.finalized <=> q \in job.finalized
  BY <1>2
<1>9. ResultInv'
  <2> HIDE DEF p, possible, final, result
  <2> QED BY <1>1, <1>3, <1>5, <1>6, <1>7, <1>10 DEF ResultInv
<1> QED BY <1>1, <1>3, <1>4, <1>8, <1>9

\* The results of a group are errors when its snapshot is not mounted or not unmounted.
LEMMA MountFacts ==
  ASSUME FileTypes, JobInv, ResultInv, Mount \/ Unmount
  PROVE  /\ \A q \in Paths : \/ job'.results[q] = job.results[q]
                             \/ job.results[q] = "none" /\ job'.results[q] = "unavailable"
                             \/ job'.results[q] = "error"
         /\ job'.queue \subseteq job.queue /\ job'.finalized = job.finalized
         /\ job'.created = job.created /\ job'.temporary = job.temporary
         /\ ResultInv'
<1>1. /\ job'.queue \subseteq job.queue /\ job'.finalized = job.finalized
      /\ job'.created = job.created /\ job'.temporary = job.temporary
  BY MountMoves, UnmountMoves DEF Shrinks
<1>2. \A q \in Paths : \/ job'.results[q] = job.results[q]
                       \/ job.results[q] = "none" /\ job'.results[q] = "unavailable"
                       \/ job'.results[q] = "error"
  BY MountMoves, UnmountMoves DEF ResultInv
<1>3. \A i \in job'.queue : job'.results[i.path] = "none"
  <2>1. CASE Mount
    BY <1>1, <2>1, MountMoves DEF JobInv, ResultInv
  <2>2. CASE Unmount
    <3>1. \A i \in job.queue : i.form = "mounted" => i.path \in Group
      BY DEF Group
    <3>2. \A i \in job.queue : i.path \notin job.mounted
      BY <2>2, <3>1 DEF Unmount, ResultInv
    <3>3. \A i \in job.queue : i.path \in Paths
      BY FileParts DEF Items
    <3> QED BY <1>1, <2>2, <3>2, <3>3, UnmountMoves DEF ResultInv
  <2> QED BY <2>1, <2>2
<1>4. \A i \in job'.queue : i.path \in job'.mounted => i.form = "mounted"
  BY <1>1, MountMoves, UnmountMoves DEF JobInv
<1>5. \A p \in job'.finalized : job'.results[p] \in {"restored", "error"}
  BY <1>1, <1>2, FileParts DEF ResultInv
<1> QED BY <1>1, <1>2, <1>3, <1>4, <1>5 DEF ResultInv

\* The three actions that end an item without readying a folder.
LEMMA EndingFacts ==
  ASSUME FileTypes, TreeInv, SealedInv, JobInv, BaselineInv, ResultInv
  PROVE  /\ Compare => Decides \/ /\ FirstItem \in job.queue
                                  /\ Ends(FirstItem, Verdict(FirstItem))
                                  /\ Verdict(FirstItem) \in {"unavailable", "error", "already-restored",
                                                             "refused"}
         /\ RemovePath => /\ FirstItem \in job.queue
                          /\ \E result \in {"restored", "error"} : Ends(FirstItem, result)
         /\ RestoreMounted => /\ FirstItem \in job.queue
                              /\ \E result \in Statuses \ {"none"} : Ends(FirstItem, result)
         /\ WritePath => /\ FirstItem \in job.queue
                         /\ IF ParentsReady(FirstItem.path) THEN Writes(FirstItem)
                            ELSE Ends(FirstItem, "error")
<1>1. Compare => Decides \/ /\ FirstItem \in job.queue
                            /\ Ends(FirstItem, Verdict(FirstItem))
                            /\ Verdict(FirstItem) \in {"unavailable", "error", "already-restored",
                                                       "refused"}
  <2> SUFFICES ASSUME Compare
               PROVE  Decides \/ /\ FirstItem \in job.queue
                                 /\ Ends(FirstItem, Verdict(FirstItem))
                                 /\ Verdict(FirstItem) \in {"unavailable", "error",
                                                            "already-restored", "refused"}
    OBVIOUS
  <2>1. job.queue # {}
    BY DEF Compare, Comparing
  <2>2. FirstItem \in job.queue
    BY <2>1, FirstItemFacts
  <2> QED BY <2>2, CompareMoves
<1>2. RemovePath => /\ FirstItem \in job.queue
                    /\ \E result \in {"restored", "error"} : Ends(FirstItem, result)
  <2> SUFFICES ASSUME RemovePath
               PROVE  /\ FirstItem \in job.queue
                      /\ \E result \in {"restored", "error"} : Ends(FirstItem, result)
    OBVIOUS
  <2>1. FirstItem \in job.queue
    BY FirstItemFacts DEF RemovePath, Acting
  <2>2. PICK result \in {"restored", "error"} : job' = Finished(FirstItem, result)
    BY RemoveLeaves
  <2> QED BY <2>1, <2>2, FinishedShrinks DEF Statuses
<1>3. RestoreMounted => /\ FirstItem \in job.queue
                        /\ \E result \in Statuses \ {"none"} : Ends(FirstItem, result)
  <2> SUFFICES ASSUME RestoreMounted
               PROVE  /\ FirstItem \in job.queue
                      /\ \E result \in Statuses \ {"none"} : Ends(FirstItem, result)
    OBVIOUS
  <2>1. FirstItem \in job.queue /\ \E result \in Statuses \ {"none"} : job' = Finished(FirstItem, result)
    BY MountedLeaves
  <2> QED BY <2>1, FinishedShrinks
<1>4. WritePath => /\ FirstItem \in job.queue
                   /\ IF ParentsReady(FirstItem.path) THEN Writes(FirstItem)
                      ELSE Ends(FirstItem, "error")
  BY WriteMoves, FirstItemFacts DEF WritePath, Acting
<1> QED BY <1>1, <1>2, <1>3, <1>4

\* Every step keeps the results of what has left the queue.
LEMMA ResultKept ==
  ASSUME FileTypes, TreeInv, InstantInv, CaptureExact, BaselineInv, SealedInv, JobInv, ResultInv,
         [Next]_vars
  PROVE  ResultInv'
<1>1. CASE EditStep \/ WalkStep \/ CaptureStep \/ SealStep \/ UNCHANGED vars
  <2>1. UNCHANGED job
    BY <1>1 DEF EditStep, WalkStep, CaptureStep, TakeBackstop, EndGuard, CloneDirectory, EndClone,
                Reconcile, InterruptCapture, SealStep, StartSeal, Seal, vars
  <2> QED BY <2>1 DEF ResultInv
<1>2. CASE StartRestore
  <2>1. \A p \in Paths : job'.created[p] = None /\ job'.temporary[p] = None
    BY <1>2, StartTypes, EmptyTree
  <2> QED BY <1>2, <2>1, StartTypes DEF ResultInv
<1>3. CASE Compare
  BY <1>3, EndingFacts, EndsFacts, DecidesFacts
<1>4. CASE RemovePath \/ RestoreMounted
  BY <1>4, EndingFacts, EndsFacts
<1>5. CASE WritePath
  BY <1>5, EndingFacts, EndsFacts, WritesFacts
<1>6. CASE Mount \/ Unmount
  BY <1>6, MountFacts
<1>7. CASE FinishRestore
  <2>1. /\ job'.queue = {} /\ job'.finalized = job.finalized
        /\ job'.created = job.created /\ job'.temporary = job.temporary
        /\ \A p \in Paths : job'.results[p] = job.results[p] \/ p \notin job.finalized
    BY <1>7, FinishMoves DEF FinishRestore
  <2> QED BY <2>1, FileParts DEF ResultInv
<1> QED BY <1>1, <1>2, <1>3, <1>4, <1>5, <1>6, <1>7, StepCases DEF Restore

(***************************************************************************)
(* What a step of a restore leaves of a path that it does not act upon: it *)
(* is as it was, or it is made again for what is below it, or it is the    *)
(* folder, made writable, its mode remembered.                             *)
(***************************************************************************)
SameFor(q) ==
  /\ Alike(live'[q], live[q])
  /\ job'.created[q] = job.created[q] /\ job'.temporary[q] = job.temporary[q]

MadeAgain(q) ==
  /\ live[q] = None /\ IsType(live'[q], "dir")
  /\ IsType(past.instant[q], "dir") \/ CoveredBy(q, capture.uncaptured)

Opened(q) ==
  /\ q = Folder /\ IsType(live[q], "dir") /\ IsType(live'[q], "dir")
  /\ live'[q].mode = "open" /\ live'[q].content = live[q].content
  /\ job'.created[q] = job.created[q]
  /\ job'.temporary[q] = IF live[q].mode # "open" /\ job.temporary[q] = None THEN live[q]
                         ELSE job.temporary[q]
  /\ \E i \in job.queue : i.path \in Names /\ i.form # "mounted"

Spared(q) ==
  /\ q \in job'.finalized <=> q \in job.finalized
  /\ SameFor(q) \/ MadeAgain(q) \/ Opened(q)

LEMMA WriteSpares ==
  ASSUME FileTypes, TreeInv, CaptureExact, BaselineInv, SealedInv, JobInv, ResultInv, WritePath,
         NEW q \in Paths
  PROVE  /\ job'.results[q] = job.results[q] \/ job.results[q] = "none"
         /\ \/ job'.results[q] \in {"restored", "error"} /\ job.results[q] = "none"
            \/ Spared(q) /\ job'.results[q] = job.results[q]
<1> DEFINE i == FirstItem
           p == i.path
<1>1. /\ i \in job.queue /\ p \in Paths /\ i.form # "mounted" /\ phase = "restoring"
      /\ IF ParentsReady(p) THEN Writes(i) ELSE Ends(i, "error")
  BY EndingFacts, FirstItemFacts DEF WritePath, Acting
<1>2. CASE ~ParentsReady(p)
  <2>1. UNCHANGED live /\ Ends(i, "error")
    BY <1>1, <1>2 DEF WritePath, diskVars
  <2>2. /\ job.results[p] = "none"
        /\ job'.results[q] = IF q = p THEN "error" ELSE job.results[q]
    BY <1>1, <2>1, EndsFacts
  <2>3. SameFor(q) /\ job'.finalized = job.finalized
    BY <2>1 DEF Ends, SameFor, Alike
  <2> QED BY <2>2, <2>3 DEF Spared
<1>3. CASE ParentsReady(p) /\ q = p
  <2>1. Writes(i)
    BY <1>1, <1>3
  <2>2. job.results[p] = "none" /\ job'.results[p] \in {"restored", "error"}
    BY <1>1, <2>1, WritesFacts
  <2> QED BY <1>3, <2>2
<1>4. CASE ParentsReady(p) /\ q # p
  <2> DEFINE before == Sought(i).before
  <2>1. Writes(i)
    BY <1>1, <1>4
  <2>2. job'.results[q] = job.results[q] /\ (q \in job'.finalized <=> q \in job.finalized)
    BY <1>1, <1>4, <2>1, WritesFacts
  <2>3. /\ p \in Names \cup {Folder}
        /\ q # Folder => Alike(live'[q], live[q])
        /\ p \in Names =>
             /\ IsType(live'[Folder], "dir") /\ live'[Folder].mode = "open"
             /\ live[Folder] # None => /\ IsType(live[Folder], "dir")
                                       /\ live'[Folder].content = live[Folder].content
    BY <1>3, <1>4, WriteLeaves
  <2>4. /\ job'.created[q] = IF q = Folder /\ p \in Names /\ live[Folder] = None
                             THEN capture.before[Folder] ELSE job.created[q]
        /\ job'.temporary[q] = IF /\ q = Folder /\ p \in Names /\ live[Folder] # None
                                  /\ live[Folder].mode # "open" /\ job.temporary[Folder] = None
                               THEN live[Folder] ELSE job.temporary[q]
    BY <1>4, <2>1 DEF Writes
  <2>5. CASE q # Folder
    BY <2>2, <2>3, <2>4, <2>5 DEF Spared, SameFor
  <2>6. CASE q = Folder /\ live[Folder] = None
    <3>1. p \in Names
      BY <1>4, <2>3, <2>6
    <3>2. IsType(capture.before[Folder], "dir")
      BY <1>4, <2>6, <3>1 DEF ParentsReady
    <3>3. IsType(past.instant[Folder], "dir")
      BY <1>1, <3>2, PathFacts DEF CaptureExact, Captured, IsType
    <3> QED BY <2>2, <2>3, <2>6, <3>1, <3>3 DEF Spared, MadeAgain
  <2>7. CASE q = Folder /\ live[Folder] # None
    <3>1. p \in Names
      BY <1>4, <2>3, <2>7
    <3> QED BY <1>1, <2>2, <2>3, <2>4, <2>7, <3>1 DEF Spared, Opened
  <2> QED BY <2>5, <2>6, <2>7
<1> QED BY <1>2, <1>3, <1>4

LEMMA MountedSpares ==
  ASSUME FileTypes, TreeInv, InstantInv, BaselineInv, ObservedInv, SealedInv, JobInv, ResultInv,
         RestoreMounted, NEW q \in Paths
  PROVE  /\ job'.results[q] = job.results[q] \/ job.results[q] = "none"
         /\ \/ job'.results[q] \in {"restored", "error"} /\ job.results[q] = "none"
            \/ Spared(q)
<1> DEFINE i == FirstItem
           p == i.path
<1>1. /\ i \in job.queue /\ p \in Paths /\ Sought(i) = sealed.changes[p]
      /\ Sought(i).source = "volume" /\ Sought(i).before # None /\ phase = "restoring"
  BY MountedLeaves DEF RestoreMounted, Mounting
<1>2. CASE UNCHANGED live
  <2>1. PICK result \in Statuses \ {"none"} : Ends(i, result)
    BY EndingFacts
  <2>2. /\ job.results[p] = "none"
        /\ job'.results[q] = IF q = p THEN result ELSE job.results[q]
    BY <1>1, <2>1, EndsFacts
  <2>3. SameFor(q) /\ job'.finalized = job.finalized
    BY <1>2, <2>1 DEF Ends, SameFor, Alike
  <2> QED BY <2>2, <2>3 DEF Spared
<1>3. CASE live' # live
  <2>1. /\ job' = Finished(i, "restored")
        /\ q # p => \/ Alike(live'[q], live[q])
                    \/ /\ live[q] = None /\ IsType(live'[q], "dir")
                       /\ q = Root \/ (q = Folder /\ p \in Names)
    BY <1>3, MountedLeaves
  <2>2. Ends(i, "restored")
    BY <1>1, <2>1, FinishedShrinks DEF Statuses
  <2>3. /\ job.results[p] = "none"
        /\ job'.results[q] = IF q = p THEN "restored" ELSE job.results[q]
    BY <1>1, <2>2, EndsFacts
  <2>4. CASE q = p
    BY <2>3, <2>4
  <2>5. CASE q # p /\ Alike(live'[q], live[q])
    BY <2>2, <2>3, <2>5 DEF Spared, SameFor, Ends
  <2>6. CASE q # p /\ ~Alike(live'[q], live[q])
    <3>1. IsType(past.instant[q], "dir") \/ CoveredBy(q, capture.uncaptured)
      <4>1. CASE q = Root
        BY <1>1, <4>1 DEF InstantInv, Captured
      <4>2. CASE q = Folder /\ p \in Names
        <5>1. capture.observed[p] # None
          BY <1>1 DEF SealedInv
        <5> QED BY <1>1, <4>2, <5>1 DEF ObservedInv, Captured
      <4> QED BY <2>1, <2>6, <4>1, <4>2
    <3> QED BY <2>1, <2>2, <2>3, <2>6, <3>1 DEF Spared, MadeAgain, Ends
  <2> QED BY <2>4, <2>5, <2>6
<1> QED BY <1>2, <1>3

Recovering == Compare \/ RemovePath \/ WritePath \/ Mount \/ RestoreMounted \/ Unmount

LEMMA RestoreSpares ==
  ASSUME FileTypes, TreeInv, InstantInv, CaptureExact, BaselineInv, ObservedInv, SealedInv, JobInv,
         ResultInv, Recovering, NEW q \in Paths
  PROVE  /\ \/ job'.results[q] = job.results[q] \/ job.results[q] = "none"
            \/ job'.results[q] = "error"
         /\ \/ job'.results[q] \in {"restored", "error"} /\ job.results[q] = "none"
            \/ Spared(q)
<1>1. CASE Compare
  <2>1. UNCHANGED live
    BY <1>1 DEF Compare, diskVars
  <2>2. CASE Decides
    <3>1. /\ job'.created = job.created /\ job'.temporary = job.temporary
          /\ job'.finalized = job.finalized /\ job'.results = job.results
      BY <2>2 DEF Decides
    <3> QED BY <2>1, <3>1 DEF Spared, SameFor, Alike
  <2>3. CASE FirstItem \in job.queue /\ Ends(FirstItem, Verdict(FirstItem))
    <3>1. /\ job.results[FirstItem.path] = "none"
          /\ q # FirstItem.path => job'.results[q] = job.results[q]
      BY <2>3, EndsFacts
    <3> QED BY <2>1, <2>3, <3>1 DEF Spared, SameFor, Alike, Ends
  <2> QED BY <1>1, <2>2, <2>3, EndingFacts
<1>2. CASE RemovePath
  <2>1. PICK result \in {"restored", "error"} :
          /\ job' = Finished(FirstItem, result)
          /\ live' = live \/ \A p \in Paths \ {FirstItem.path} : Alike(live'[p], live[p])
    BY <1>2, RemoveLeaves
  <2>2. FirstItem \in job.queue
    BY <1>2, EndingFacts
  <2>3. Ends(FirstItem, result)
    BY <2>1, <2>2, FinishedShrinks DEF Statuses
  <2>4. /\ job.results[FirstItem.path] = "none"
        /\ job'.results[q] = IF q = FirstItem.path THEN result ELSE job.results[q]
    BY <2>2, <2>3, EndsFacts
  <2>5. CASE q = FirstItem.path
    BY <2>4, <2>5
  <2>6. CASE q # FirstItem.path
    <3>1. Alike(live'[q], live[q])
      BY <2>1, <2>6 DEF Alike
    <3> QED BY <2>3, <2>4, <2>6, <3>1 DEF Spared, SameFor, Ends
  <2> QED BY <2>5, <2>6
<1>3. CASE WritePath
  BY <1>3, WriteSpares
<1>4. CASE Mount \/ Unmount
  <2>1. UNCHANGED live
    BY <1>4 DEF Mount, Unmount, diskVars
  <2>2. /\ \/ job'.results[q] = job.results[q] \/ job.results[q] = "none"
           \/ job'.results[q] = "error"
        /\ job'.finalized = job.finalized
        /\ job'.created = job.created /\ job'.temporary = job.temporary
    BY <1>4, MountFacts
  <2> QED BY <2>1, <2>2 DEF Spared, SameFor, Alike
<1>5. CASE RestoreMounted
  BY <1>5, MountedSpares
<1> QED BY <1>1, <1>2, <1>3, <1>4, <1>5 DEF Recovering

\* Every step keeps a folder that was made writable.
LEMMA ReadyKept ==
  ASSUME FileTypes, TreeInv, InstantInv, CaptureExact, BaselineInv, ObservedInv, SealedInv, JobInv,
         ResultInv, ReadyInv, [Next]_vars
  PROVE  ReadyInv'
<1> SUFFICES ASSUME phase' = "restoring", NEW q \in Paths, q \notin past'.during,
                    job'.temporary[q] # None, job'.results[q] = "none"
             PROVE  IsType(live'[q], "dir")
  BY DEF ReadyInv
<1>1. CASE StartRestore
  BY <1>1, StartTypes, EmptyTree
<1>2. CASE phase = "restoring" /\ EditStep
  <2>1. q \notin past.during /\ ~EntriesDiffer(live[q], live'[q]) /\ UNCHANGED job
    BY <1>2, EditPast DEF EditStep
  <2>2. IsType(live[q], "dir")
    BY <1>2, <2>1 DEF ReadyInv
  <2> QED BY <2>1, <2>2, DifferFacts
<1>3. CASE phase = "restoring" /\ Recovering
  <2>1. UNCHANGED past
    BY <1>3 DEF Recovering, Compare, RemovePath, WritePath, Mount, RestoreMounted, Unmount
  <2>2. Spared(q) /\ job.results[q] = "none"
    BY <1>3, RestoreSpares
  <2>3. CASE SameFor(q)
    <3>1. IsType(live[q], "dir") /\ Alike(live'[q], live[q])
      BY <1>3, <2>1, <2>2, <2>3 DEF SameFor, ReadyInv
    <3> QED BY <3>1 DEF Alike, IsType
  <2>4. CASE MadeAgain(q) \/ Opened(q)
    BY <2>4 DEF MadeAgain, Opened
  <2> QED BY <2>2, <2>3, <2>4 DEF Spared
<1>4. CASE phase = "restoring" /\ UNCHANGED vars
  BY <1>4 DEF vars, diskVars, ReadyInv
<1> QED BY <1>1, <1>2, <1>3, <1>4, RestoreCases DEF Recovering

\* Every step keeps what a restore was not asked to restore.
LEMMA KeptKept ==
  ASSUME FileTypes, TreeInv, InstantInv, CaptureExact, BaselineInv, ObservedInv, SealedInv, JobInv,
         ResultInv, KeptInv, [Next]_vars
  PROVE  KeptInv'
<1> SUFFICES ASSUME phase' = "restoring", NEW q \in Paths, Unselected(q)'
             PROVE  /\ job'.created[q] = None /\ live'[q] # None
                    /\ job'.temporary[q] = None => ~EntriesDiffer(past'.begun[q], live'[q])
                    /\ job'.temporary[q] # None =>
                         /\ IsType(past'.begun[q], "dir") /\ IsType(live'[q], "dir")
                         /\ job'.temporary[q].mode = past'.begun[q].mode
  BY DEF KeptInv
<1>1. CASE StartRestore
  <2>1. past'.begun = live /\ UNCHANGED live
    BY <1>1 DEF StartRestore, FileTypes, TreeTypes, diskVars
  <2>2. job'.created[q] = None /\ job'.temporary[q] = None
    BY <1>1, StartTypes, EmptyTree
  <2> QED BY <2>1, <2>2, DifferFacts DEF Unselected
<1>2. CASE phase = "restoring" /\ EditStep
  <2>1. /\ q \notin past.during /\ ~EntriesDiffer(live[q], live'[q]) /\ UNCHANGED job
        /\ past'.begun = past.begun
    BY <1>2, EditPast DEF EditStep, Unselected
  <2>2. Unselected(q)
    BY <2>1 DEF Unselected
  <2> QED BY <1>2, <2>1, <2>2, DifferFacts DEF KeptInv
<1>3. CASE phase = "restoring" /\ Recovering
  <2>1. UNCHANGED past
    BY <1>3 DEF Recovering, Compare, RemovePath, WritePath, Mount, RestoreMounted, Unmount
  <2>2. Spared(q) /\ Unselected(q)
    <3>1. Spared(q) /\ (job'.results[q] = job.results[q] \/ job.results[q] = "none")
      BY <1>3, RestoreSpares DEF Unselected
    <3> QED BY <2>1, <3>1 DEF Unselected
  <2>3. /\ job.created[q] = None /\ live[q] # None
        /\ job.temporary[q] = None => ~EntriesDiffer(past.begun[q], live[q])
        /\ job.temporary[q] # None =>
             /\ IsType(past.begun[q], "dir") /\ IsType(live[q], "dir")
             /\ job.temporary[q].mode = past.begun[q].mode
    BY <1>3, <2>2 DEF KeptInv
  <2>4. CASE SameFor(q)
    <3>1. ~EntriesDiffer(live[q], live'[q]) /\ live'[q] # None
      BY <2>3, <2>4, AlikeFacts, DifferFacts DEF SameFor
    <3> QED BY <2>1, <2>3, <2>4, <3>1, DifferFacts DEF SameFor
  <2>5. CASE MadeAgain(q)
    BY <2>3, <2>5 DEF MadeAgain
  <2>6. CASE Opened(q)
    <3>1. /\ IsType(live[q], "dir") /\ IsType(live'[q], "dir") /\ live'[q].mode = "open"
          /\ job'.created[q] = None
          /\ job'.temporary[q] = IF live[q].mode # "open" /\ job.temporary[q] = None THEN live[q]
                                 ELSE job.temporary[q]
      BY <2>3, <2>6 DEF Opened
    <3>2. CASE job.temporary[q] # None
      BY <2>1, <2>3, <3>1, <3>2 DEF IsType
    <3>3. CASE job.temporary[q] = None
      <4>1. IsType(past.begun[q], "dir") /\ past.begun[q].mode = live[q].mode
        BY <2>3, <3>1, <3>3, DifferFacts
      <4> QED BY <2>1, <3>1, <3>3, <4>1 DEF IsType, EntriesDiffer
    <3> QED BY <3>2, <3>3
  <2> QED BY <2>2, <2>4, <2>5, <2>6 DEF Spared
<1>4. CASE phase = "restoring" /\ UNCHANGED vars
  BY <1>4 DEF vars, diskVars, KeptInv, Unselected
<1> QED BY <1>1, <1>2, <1>3, <1>4, RestoreCases DEF Recovering

\* At its end a restore gives the mode back that it changed.
LEMMA UnselectedStays ==
  ASSUME FileTypes, TreeInv, InstantInv, CaptureExact, BaselineInv, SealedInv, JobInv, ResultInv,
         KeptInv, UnselectedKept, [Next]_vars
  PROVE  UnselectedKept'
<1> SUFFICES ASSUME phase' = "done", NEW q \in Paths, q \notin past'.during,
                    job'.results[q] \in {"none", "refused", "unavailable"}, past'.begun[q] # None
             PROVE  live'[q] # None /\ ~EntriesDiffer(past'.begun[q], live'[q])
  BY DEF UnselectedKept
<1>1. CASE FinishRestore
  <2>1. UNCHANGED past /\ phase = "restoring"
    BY <1>1 DEF FinishRestore
  <2>2. job'.results[q] = job.results[q]
    BY <1>1, FinishMoves
  <2>3. Unselected(q) /\ q \notin job.finalized
    BY <2>1, <2>2 DEF Unselected, ResultInv
  <2>4. /\ job.created[q] = None /\ live[q] # None
        /\ job.temporary[q] = None => ~EntriesDiffer(past.begun[q], live[q])
        /\ job.temporary[q] # None =>
             /\ IsType(past.begun[q], "dir") /\ IsType(live[q], "dir")
             /\ job.temporary[q].mode = past.begun[q].mode
    BY <2>1, <2>3 DEF KeptInv
  <2>5. \/ live'[q] = live[q] /\ job.temporary[q] = None
        \/ /\ job.temporary[q] # None /\ IsType(live'[q], "dir")
           /\ live'[q].mode = job.temporary[q].mode
    BY <1>1, <2>3, <2>4, FinishLeaves
  <2> QED BY <2>1, <2>4, <2>5 DEF EntriesDiffer, IsType
<1>2. CASE UNCHANGED vars
  BY <1>2 DEF vars, diskVars, UnselectedKept
<1> QED BY <1>1, <1>2, RestoreCases

-----------------------------------------------------------------------------
(* What a restore reports as restored *)

\* What is restored for a path that the volume snapshot has no part in.
LEMMA CapturedItem ==
  ASSUME FileTypes, CaptureExact, BaselineInv, SealedInv, JobInv, phase = "restoring",
         NEW i \in job.queue, sealed.changes[i.path].source # "volume", Sought(i).source # "none"
  PROVE  /\ i.path \in Paths /\ Sought(i).source = "clone" /\ i.form # "mounted"
         /\ Sought(i).kind # "none" /\ ~CoveredBy(i.path, capture.uncaptured)
         /\ Sought(i).before = capture.before[i.path]
         /\ Sought(i).before = past.instant[i.path]
         /\ Sought(i).before # None =>
              /\ Sought(i).before.type # "other"
              /\ capture.clone[i.path].content = past.instant[i.path].content
<1> DEFINE p == i.path
<1>1. i \in Items /\ p \in Paths
  BY FileParts DEF Items
<1>2. i.form # "baseline" => Sought(i) = sealed.changes[p]
  BY DEF Sought
<1>3. Sought(i).source = "clone"
  <2>1. i.form = "baseline" => Sought(i).source = "clone"
    BY DEF Sought
  <2>2. Sought(i).source \in {"none", "clone", "volume"}
    BY <1>1, SoughtFacts DEF Changes
  <2> QED BY <1>2, <2>1, <2>2
<1>4. i.form # "mounted"
  BY <1>3 DEF JobInv
<1>5. Sought(i).kind # "none"
  BY DEF JobInv, Sought
<1>6. Sought(i).before = capture.before[p]
  BY <1>1, <1>3, <1>5, SoughtFacts
<1>7. ~CoveredBy(p, capture.uncaptured)
  <2>1. CASE i.form = "baseline" /\ capture.before[p] = None
    <3>1. ~CoveredBy(p, sealed.gaps)
      BY <2>1 DEF JobInv
    <3>2. capture.uncaptured \subseteq sealed.gaps
      BY DEF SealedInv, Restorable
    <3> QED BY <3>1, <3>2 DEF CoveredBy
  <2>2. CASE i.form = "baseline" /\ capture.before[p] # None
    BY <1>1, <2>2 DEF BaselineInv, Captured, Present
  <2>3. CASE i.form # "baseline"
    BY <1>1, <1>2, <1>3, <1>5, <2>3 DEF SealedInv
  <2> QED BY <2>1, <2>2, <2>3
<1>8. capture.before[p] = past.instant[p]
  BY <1>1, <1>7 DEF CaptureExact, Captured
<1>9. capture.before[p] # None =>
        capture.before[p].type # "other" /\ capture.clone[p].content = past.instant[p].content
  BY <1>1 DEF BaselineInv, CaptureExact, Captured, Present
<1> QED BY <1>1, <1>3, <1>4, <1>5, <1>6, <1>7, <1>8, <1>9

\* What a step spares stays as it was in the baseline.
LEMMA SparedBaseline ==
  ASSUME NEW q \in Paths, Spared(q), AsBaseline(q), ~CoveredBy(q, capture.uncaptured),
         UNCHANGED <<past, sealed>>, Opened(q) => ~sealed.complete
  PROVE  AsBaseline(q)'
<1> DEFINE was == past.instant[q]
<1>1. CASE SameFor(q)
  <2>1. /\ job'.created[q] = job.created[q] /\ job'.temporary[q] = job.temporary[q]
        /\ q \in job'.finalized <=> q \in job.finalized
        /\ live'[q] = None <=> live[q] = None
        /\ live[q] # None => /\ live'[q].type = live[q].type /\ live'[q].mode = live[q].mode
                             /\ live'[q].content = live[q].content
    <3>1. Alike(live'[q], live[q])
      BY <1>1 DEF SameFor
    <3>2. /\ live'[q] = None <=> live[q] = None
          /\ live'[q] # None => /\ live'[q].type = live[q].type /\ live'[q].mode = live[q].mode
                                /\ live'[q].content = live[q].content
      BY <3>1, AlikeFacts
    <3> QED BY <1>1, <3>2 DEF SameFor, Spared
  <2>2. live[q] # None => FinalMode(q)' = FinalMode(q)
    BY <2>1 DEF FinalMode
  <2> QED BY <2>1, <2>2 DEF AsBaseline
<1>2. CASE MadeAgain(q)
  BY <1>2 DEF MadeAgain, AsBaseline, IsType
<1>3. CASE Opened(q)
  BY <1>3 DEF Opened, AsBaseline, IsType
<1> QED BY <1>1, <1>2, <1>3 DEF Spared

LEMMA RemovedBaseline ==
  ASSUME FileTypes, TreeInv, CaptureExact, BaselineInv, SealedInv, JobInv, ResultInv, RemovePath,
         NEW p \in Paths, p = FirstItem.path, Recovered(p)'
  PROVE  ~CoveredBy(p, capture.uncaptured) /\ AsBaseline(p)'
<1> DEFINE i == FirstItem
<1>1. /\ i \in job.queue /\ i \in Items /\ p \in Paths /\ phase = "restoring"
      /\ job.plans[p] = "remove" /\ UNCHANGED <<past, sealed>>
  BY FirstItemFacts, FileParts DEF RemovePath, Acting
<1>2. Sought(i).source # "none" /\ Sought(i).kind = "created"
  BY <1>1 DEF JobInv
<1>3. /\ ~CoveredBy(p, capture.uncaptured) /\ Sought(i).before = past.instant[p]
  <2>1. sealed.changes[p].source # "volume"
    BY <1>1 DEF Recovered
  <2> QED BY <1>1, <1>2, <2>1, CapturedItem
<1>4. past.instant[p] = None
  BY <1>1, <1>2, <1>3, SoughtFacts
<1>5. live'[p] = None
  <2>1. PICK result \in {"restored", "error"} :
          /\ job' = Finished(i, result)
          /\ result # "error" => live'[p] = None
    BY RemoveLeaves
  <2>2. Ends(i, result)
    BY <1>1, <2>1, FinishedShrinks DEF Statuses
  <2>3. job'.results[p] = result
    BY <1>1, <2>2, EndsFacts
  <2> QED BY <2>1, <2>3 DEF Recovered
<1> QED BY <1>1, <1>3, <1>4, <1>5 DEF AsBaseline

LEMMA WrittenBaseline ==
  ASSUME FileTypes, TreeInv, CaptureExact, BaselineInv, SealedInv, JobInv, ResultInv, FolderInv,
         WritePath, NEW p \in Paths, p = FirstItem.path, Recovered(p)'
  PROVE  ~CoveredBy(p, capture.uncaptured) /\ AsBaseline(p)'
<1> DEFINE i == FirstItem
           before == Sought(i).before
<1>1. /\ i \in job.queue /\ i \in Items /\ p \in Paths /\ phase = "restoring"
      /\ job.plans[p] = "write" /\ UNCHANGED <<past, sealed>>
  BY FirstItemFacts, FileParts DEF WritePath, Acting
<1>2. Sought(i).source = "clone"
  BY <1>1 DEF JobInv
<1>3. /\ ~CoveredBy(p, capture.uncaptured) /\ before = past.instant[p]
      /\ before # None => capture.clone[p].content = past.instant[p].content
  <2>1. sealed.changes[p].source # "volume"
    BY <1>1 DEF Recovered
  <2> QED BY <1>1, <1>2, <2>1, CapturedItem
<1>4. before # None /\ before.type \in {"file", "dir"}
  BY WriteFacts, EntryAssumption DEF WritePath
<1>5. ParentsReady(p) /\ Writes(i) /\ Replaceable(WithParents(p), p, before.type)
  <2>1. IF ParentsReady(p) THEN Writes(i) ELSE Ends(i, "error")
    BY EndingFacts
  <2>2. job'.results[p] \in {"restored", "already-restored"}
    BY DEF Recovered
  <2>3. ParentsReady(p)
    BY <1>1, <2>1, <2>2, EndsFacts
  <2> QED BY <1>1, <2>1, <2>2, <2>3, WritesFacts
<1>6. /\ live'[p] # None /\ live'[p].type = before.type /\ live'[p].mode = before.mode
      /\ live'[p].content = capture.clone[p].content /\ p \in Names \cup {Folder}
  BY <1>5, WriteLeaves
<1>7. FinalMode(p)' = live'[p].mode
  <2>1. CASE before.type = "dir"
    BY <1>5, <2>1 DEF Writes, FinalMode
  <2>2. CASE before.type # "dir"
    <3>1. p \notin job.finalized
      BY <1>1 DEF ResultInv
    <3>2. job.created[p] = None /\ job.temporary[p] = None
      BY <1>1, <1>3, <2>2 DEF FolderInv, IsType
    <3>3. job'.created[p] = job.created[p] /\ job'.temporary[p] = job.temporary[p]
      <4>1. ~(p = Folder /\ p \in Names)
        BY PathFacts
      <4> QED BY <1>1, <1>5, <2>2, <4>1 DEF Writes
    <3> QED BY <3>2, <3>3 DEF FinalMode
  <2> QED BY <2>1, <2>2
<1> QED BY <1>1, <1>3, <1>4, <1>6, <1>7 DEF AsBaseline

LEMMA ComparedBaseline ==
  ASSUME FileTypes, TreeInv, PlainInv, CaptureExact, BaselineInv, SealedInv, JobInv, ResultInv,
         ReadyInv, FolderInv, phase = "restoring", NEW i \in job.queue,
         i.path \notin past.during, sealed.changes[i.path].source # "volume",
         Verdict(i) = "already-restored"
  PROVE  ~CoveredBy(i.path, capture.uncaptured) /\ AsBaseline(i.path)
<1> DEFINE p == i.path
           before == Sought(i).before
           was == past.instant[p]
<1>1. Sought(i).source # "none"
  BY DEF Verdict
<1>2. /\ p \in Paths /\ Sought(i).source = "clone" /\ ~CoveredBy(p, capture.uncaptured)
      /\ before = was
      /\ before # None => before.type # "other" /\ capture.clone[p].content = was.content
  BY <1>1, CapturedItem
<1>3. Verdict(i) = CloneVerdict(p, Sought(i))
  BY <1>2 DEF Verdict
<1>4. PathMatchesBefore(p, before) /\ job.created[p] = None
  BY <1>3 DEF CloneVerdict
<1>5. p \notin job.finalized /\ job.results[p] = "none"
  BY DEF ResultInv
<1>6. CASE was = None
  BY <1>2, <1>4, <1>6 DEF PathMatchesBefore, AsBaseline
<1>7. CASE was # None /\ job.temporary[p] = None
  <2>1. /\ live[p] # None /\ live[p].type = was.type /\ live[p].mode = was.mode
        /\ was.type = "file" => live[p].content = was.content
    BY <1>2, <1>4, <1>7 DEF PathMatchesBefore, Compared
  <2>2. FinalMode(p) = live[p].mode
    BY <1>4, <1>7 DEF FinalMode
  <2>3. live[p].content = was.content
    <3>1. was.type \in {"file", "dir"}
      BY <1>2, <1>7, FileParts, TreeFacts
    <3>2. Plain(live) /\ Plain(past.instant)
      BY DEF PlainInv, Captured
    <3> QED BY <1>2, <1>7, <2>1, <3>1, <3>2 DEF Plain, IsType
  <2> QED BY <1>2, <1>7, <2>1, <2>2, <2>3 DEF AsBaseline
<1>8. CASE was # None /\ job.temporary[p] # None
  <2>1. IsType(was, "dir") /\ IsType(live[p], "dir")
    BY <1>2, <1>5, <1>8 DEF FolderInv, ReadyInv
  <2>2. job.temporary[p].mode = was.mode
    BY <1>2, <1>4, <1>8 DEF PathMatchesBefore, Compared
  <2>3. FinalMode(p) = job.temporary[p].mode
    BY <1>4, <1>5, <1>8 DEF FinalMode
  <2>4. live[p].content = 0 /\ was.content = 0
    <3>1. Plain(live) /\ Plain(past.instant)
      BY DEF PlainInv, Captured
    <3> QED BY <1>2, <2>1, <3>1 DEF Plain
  <2> QED BY <1>2, <1>8, <2>1, <2>2, <2>3, <2>4 DEF AsBaseline, IsType
<1> QED BY <1>2, <1>6, <1>7, <1>8

\* An edit that leaves the path alone leaves it as it was in the baseline.
LEMMA EditBaseline ==
  ASSUME FileTypes, PlainInv, EditStep, phase = "restoring", NEW q \in Paths, q \notin past'.during,
         AsBaseline(q)
  PROVE  AsBaseline(q)'
<1>1. /\ ~EntriesDiffer(live[q], live'[q]) /\ UNCHANGED <<job, sealed>>
      /\ past'.instant = past.instant
  BY EditPast DEF EditStep
<1>2. CASE live[q] = None
  BY <1>1, <1>2, DifferFacts DEF AsBaseline
<1>3. CASE IsType(live[q], "dir")
  <2>1. IsType(live'[q], "dir") /\ live'[q].mode = live[q].mode
    BY <1>1, <1>3, DifferFacts
  <2>2. Plain(live) /\ Plain(live')
    BY DEF PlainInv, EditStep, Edited
  <2>3. live[q].content = 0 /\ live'[q].content = 0
    BY <1>3, <2>1, <2>2 DEF Plain
  <2> QED BY <1>1, <1>3, <2>1, <2>3 DEF AsBaseline, FinalMode, IsType
<1>4. CASE live[q] # None /\ ~IsType(live[q], "dir")
  <2>1. live'[q] = live[q]
    BY <1>1, <1>4, DifferFacts
  <2> QED BY <1>1, <2>1 DEF AsBaseline, FinalMode
<1> QED BY <1>2, <1>3, <1>4

\* Every step keeps what was restored.
LEMMA DoneKept ==
  ASSUME FileTypes, TreeInv, PlainInv, InstantInv, CaptureExact, BaselineInv, ObservedInv, SealedInv,
         JobInv, ResultInv, ReadyInv, FolderInv, DoneInv, OrderInv, [Next]_vars
  PROVE  DoneInv'
<1> SUFFICES ASSUME phase' = "restoring", NEW q \in Paths, Recovered(q)'
             PROVE  (~CoveredBy(q, capture.uncaptured) /\ AsBaseline(q))'
  BY DEF DoneInv
<1>1. CASE StartRestore
  BY <1>1, StartTypes DEF Recovered
<1>2. CASE phase = "restoring" /\ EditStep
  <2>1. UNCHANGED <<job, sealed, capture>> /\ past.during \subseteq past'.during
    BY <1>2, EditPast DEF EditStep
  <2>2. Recovered(q) /\ q \notin past'.during
    BY <2>1 DEF Recovered
  <2>3. ~CoveredBy(q, capture.uncaptured) /\ AsBaseline(q)
    BY <1>2, <2>2 DEF DoneInv
  <2> QED BY <1>2, <2>1, <2>2, <2>3, EditBaseline DEF CoveredBy
<1>3. CASE phase = "restoring" /\ Recovering
  <2>1. UNCHANGED <<past, sealed, capture>>
    BY <1>3 DEF Recovering, Compare, RemovePath, WritePath, Mount, RestoreMounted, Unmount
  <2>2. /\ q \notin past.during /\ sealed.changes[q].source # "volume"
        /\ job'.results[q] \in {"restored", "already-restored"}
    BY <2>1 DEF Recovered
  <2>3. CASE Recovered(q) /\ Spared(q)
    <3>1. ~CoveredBy(q, capture.uncaptured) /\ AsBaseline(q)
      BY <1>3, <2>3 DEF DoneInv
    <3>2. Opened(q) => ~sealed.complete
      <4> SUFFICES ASSUME Opened(q), sealed.complete
                   PROVE  FALSE
        BY FileParts
      <4>1. q = Folder /\ IsType(live[q], "dir") /\ \E i \in job.queue : i.path \in Names /\ i.form # "mounted"
        BY DEF Opened
      <4>2. IsType(past.instant[Folder], "dir")
        BY <3>1, <4>1 DEF AsBaseline, IsType
      <4> QED BY <1>3, <2>3, <4>1, <4>2 DEF OrderInv
    <3> QED BY <2>1, <2>3, <3>1, <3>2, SparedBaseline DEF CoveredBy
  <2>4. CASE job.results[q] = "none"
    <3>1. CASE Compare
      <4>1. ~Decides
        BY <2>2, <2>4 DEF Decides
      <4>2. /\ FirstItem \in job.queue /\ Ends(FirstItem, Verdict(FirstItem))
            /\ Verdict(FirstItem) \in {"unavailable", "error", "already-restored", "refused"}
        BY <3>1, <4>1, EndingFacts
      <4>3. q = FirstItem.path /\ Verdict(FirstItem) = "already-restored"
        BY <2>2, <2>4, <4>2, EndsFacts
      <4>4. ~CoveredBy(q, capture.uncaptured) /\ AsBaseline(q)
        BY <1>3, <2>2, <4>2, <4>3, ComparedBaseline
      <4>5. UNCHANGED live /\ job'.created = job.created /\ job'.temporary = job.temporary
            /\ job'.finalized = job.finalized
        BY <3>1, <4>2 DEF Compare, Ends, diskVars
      <4> QED BY <2>1, <4>4, <4>5 DEF AsBaseline, FinalMode, CoveredBy
    <3>2. CASE RemovePath
      <4>1. PICK result \in {"restored", "error"} : Ends(FirstItem, result)
        BY <3>2, EndingFacts
      <4>2. FirstItem \in job.queue
        BY <3>2, EndingFacts
      <4>3. q = FirstItem.path
        BY <2>2, <2>4, <4>1, <4>2, EndsFacts
      <4> QED BY <2>1, <3>2, <4>3, RemovedBaseline DEF CoveredBy
    <3>3. CASE WritePath
      <4>1. /\ FirstItem \in job.queue
            /\ IF ParentsReady(FirstItem.path) THEN Writes(FirstItem) ELSE Ends(FirstItem, "error")
        BY <3>3, EndingFacts
      <4>2. q = FirstItem.path
        BY <2>2, <2>4, <4>1, EndsFacts, WritesFacts
      <4> QED BY <2>1, <3>3, <4>2, WrittenBaseline DEF CoveredBy
    <3>4. CASE Mount \/ Unmount
      BY <2>2, <2>4, <3>4, MountFacts
    <3>5. CASE RestoreMounted
      <4>1. /\ FirstItem \in job.queue
            /\ Sought(FirstItem).source = "volume" /\ Sought(FirstItem) = sealed.changes[FirstItem.path]
        BY <3>5, MountedLeaves
      <4>2. PICK result \in Statuses \ {"none"} : Ends(FirstItem, result)
        BY <3>5, EndingFacts
      <4>3. q = FirstItem.path
        BY <2>2, <2>4, <4>1, <4>2, EndsFacts
      <4> QED BY <2>2, <4>1, <4>3
    <3> QED BY <1>3, <3>1, <3>2, <3>3, <3>4, <3>5 DEF Recovering
  <2>5. Recovered(q) \/ job.results[q] = "none"
    BY <1>3, <2>2, RestoreSpares DEF Recovered
  <2>6. job.results[q] = "none" \/ Spared(q)
    BY <1>3, RestoreSpares
  <2> QED BY <2>3, <2>4, <2>5, <2>6
<1>4. CASE phase = "restoring" /\ UNCHANGED vars
  <2>1. UNCHANGED <<live, past, sealed, capture, job>>
    BY <1>4 DEF vars, diskVars
  <2>2. ~CoveredBy(q, capture.uncaptured) /\ AsBaseline(q)
    BY <1>4, <2>1 DEF DoneInv, Recovered
  <2> QED BY <2>1, <2>2 DEF CoveredBy, AsBaseline, FinalMode
<1> QED BY <1>1, <1>2, <1>3, <1>4, RestoreCases DEF Recovering

\* What is restored by a step is what the step acts upon, and it has a source.
LEMMA RecoveredItem ==
  ASSUME FileTypes, TreeInv, BaselineInv, SealedInv, JobInv, ResultInv, Recovering,
         NEW q \in Paths, job.results[q] = "none", job'.results[q] \in {"restored", "already-restored"}
  PROVE  /\ FirstItem \in job.queue /\ q = FirstItem.path /\ Sought(FirstItem).source # "none"
         /\ job'.queue \subseteq job.queue
<1>1. CASE Compare
  <2>1. ~Decides
    BY DEF Decides
  <2>2. /\ FirstItem \in job.queue /\ Ends(FirstItem, Verdict(FirstItem))
        /\ Verdict(FirstItem) \in {"unavailable", "error", "already-restored", "refused"}
    BY <1>1, <2>1, EndingFacts
  <2>3. q = FirstItem.path /\ Verdict(FirstItem) = "already-restored"
    BY <2>2, EndsFacts
  <2> QED BY <2>2, <2>3 DEF Verdict, Ends
<1>2. CASE RemovePath
  <2>1. PICK result \in {"restored", "error"} : Ends(FirstItem, result)
    BY <1>2, EndingFacts
  <2>2. FirstItem \in job.queue /\ job.plans[FirstItem.path] = "remove"
    BY <1>2, EndingFacts DEF RemovePath, Acting
  <2>3. q = FirstItem.path
    BY <2>1, <2>2, EndsFacts
  <2> QED BY <2>1, <2>2, <2>3 DEF JobInv, Ends
<1>3. CASE WritePath
  <2>1. /\ FirstItem \in job.queue /\ job.plans[FirstItem.path] = "write"
        /\ IF ParentsReady(FirstItem.path) THEN Writes(FirstItem) ELSE Ends(FirstItem, "error")
    BY <1>3, EndingFacts DEF WritePath, Acting
  <2>2. q = FirstItem.path
    BY <2>1, EndsFacts, WritesFacts
  <2> QED BY <2>1, <2>2 DEF JobInv, Writes, Ends
<1>4. CASE Mount \/ Unmount
  BY <1>4, MountFacts
<1>5. CASE RestoreMounted
  <2>1. FirstItem \in job.queue /\ Sought(FirstItem).source = "volume"
    BY <1>5, MountedLeaves
  <2>2. PICK result \in Statuses \ {"none"} : Ends(FirstItem, result)
    BY <1>5, EndingFacts
  <2>3. q = FirstItem.path
    BY <2>1, <2>2, EndsFacts
  <2> QED BY <2>1, <2>2, <2>3 DEF Ends
<1> QED BY <1>1, <1>2, <1>3, <1>4, <1>5 DEF Recovering

\* A step adds nothing to the queue but what it has deferred to the volume snapshot.
LEMMA QueueFacts ==
  ASSUME FileTypes, TreeInv, BaselineInv, SealedInv, JobInv, ResultInv, Recovering
  PROVE  \A j \in job'.queue : j \in job.queue \/ j.form = "mounted"
<1>1. CASE Compare
  BY <1>1, EndingFacts, DecidesFacts DEF Ends
<1>2. CASE RemovePath \/ RestoreMounted
  BY <1>2, EndingFacts DEF Ends
<1>3. CASE WritePath
  BY <1>3, EndingFacts DEF Ends, Writes
<1>4. CASE Mount \/ Unmount
  BY <1>4, MountFacts
<1> QED BY <1>1, <1>2, <1>3, <1>4 DEF Recovering

\* Every step keeps the folder for the end: orderRestoreChanges puts it after the names in it.
LEMMA OrderKept ==
  ASSUME FileTypes, TreeInv, InstantInv, CaptureExact, BaselineInv, ObservedInv, SealedInv, JobInv,
         ResultInv, OrderInv, [Next]_vars
  PROVE  OrderInv'
<1> SUFFICES ASSUME phase' = "restoring", sealed'.complete, Recovered(Folder)',
                    IsType(past'.instant[Folder], "dir"),
                    NEW j \in job'.queue, j.path \in Names
             PROVE  j.form = "mounted"
  BY DEF OrderInv
<1>1. CASE StartRestore
  BY <1>1, StartTypes, PathFacts DEF Recovered
<1>2. CASE phase = "restoring" /\ EditStep
  <2>1. /\ UNCHANGED <<job, sealed>> /\ past'.instant = past.instant
        /\ past.during \subseteq past'.during
    BY <1>2, EditPast DEF EditStep
  <2>2. Recovered(Folder)
    BY <2>1 DEF Recovered
  <2> QED BY <1>2, <2>1, <2>2 DEF OrderInv
<1>3. CASE phase = "restoring" /\ Recovering
  <2>1. UNCHANGED <<past, sealed, capture>>
    BY <1>3 DEF Recovering, Compare, RemovePath, WritePath, Mount, RestoreMounted, Unmount
  <2>2. /\ Folder \notin past.during /\ sealed.changes[Folder].source # "volume"
        /\ job'.results[Folder] \in {"restored", "already-restored"}
    BY <2>1 DEF Recovered
  <2>3. j \in job.queue \/ j.form = "mounted"
    BY <1>3, QueueFacts
  <2>4. CASE Recovered(Folder)
    BY <1>3, <2>1, <2>3, <2>4 DEF OrderInv
  <2>5. CASE job.results[Folder] = "none"
    <3> DEFINE i == FirstItem
    <3>1. /\ i \in job.queue /\ i.path = Folder /\ Sought(i).source # "none"
          /\ job'.queue \subseteq job.queue
      BY <1>3, <2>2, <2>5, RecoveredItem, PathFacts
    <3>2. i.form # "mounted" /\ IsType(Sought(i).before, "dir")
      BY <1>3, <2>1, <2>2, <3>1, CapturedItem
    <3>3. /\ i.form # "baseline" /\ j.form # "baseline" /\ j \in job.queue
          /\ i.form \in {"change", "mounted", "baseline"}
          /\ j.form \in {"change", "mounted", "baseline"}
      BY <2>1, <3>1, FileParts DEF JobInv, Items
    <3>4. Weight(i) <= Weight(j)
      BY <3>1, <3>3, FirstItemFacts
    <3>5. Weight(i) = 4
      BY <3>1, <3>2, <3>3, DepthFacts DEF Weight
    <3>6. j.form = "change" => Weight(j) \in {0, 3}
      BY DepthFacts DEF Weight
    <3> HIDE DEF i
    <3> QED BY <3>3, <3>4, <3>5, <3>6
  <2>6. Recovered(Folder) \/ job.results[Folder] = "none"
    <3>1. job'.results[Folder] = job.results[Folder] \/ job.results[Folder] = "none"
      BY <1>3, <2>2, RestoreSpares, PathFacts
    <3> QED BY <2>2, <3>1 DEF Recovered
  <2> QED BY <2>4, <2>5, <2>6
<1>4. CASE phase = "restoring" /\ UNCHANGED vars
  <2>1. UNCHANGED <<past, sealed, job>>
    BY <1>4 DEF vars, diskVars
  <2> QED BY <1>4, <2>1 DEF OrderInv, Recovered
<1> QED BY <1>1, <1>2, <1>3, <1>4, RestoreCases DEF Recovering

\* The end of a restore gives what it restored its mode.
LEMMA RestoredStays ==
  ASSUME FileTypes, TreeInv, PlainInv, InstantInv, CaptureExact, BaselineInv, SealedInv, JobInv,
         ResultInv, FolderInv, DoneInv, RestoredIsBaseline, [Next]_vars
  PROVE  RestoredIsBaseline'
<1> DEFINE was(p) == past.instant[p]
<1>1. CASE FinishRestore
  <2> SUFFICES ASSUME NEW q \in Paths, q \notin past.during, sealed.changes[q].source # "volume",
                      job'.results[q] \in {"restored", "already-restored"}
               PROVE  IF was(q) = None THEN live'[q] = None
                      ELSE /\ live'[q] # None /\ live'[q].type = was(q).type
                           /\ live'[q].content = was(q).content
                           /\ sealed.complete => live'[q].mode = was(q).mode
    BY <1>1 DEF FinishRestore, RestoredIsBaseline
  <2>1. phase = "restoring"
    BY <1>1 DEF FinishRestore
  <2>2. job'.results[q] = job.results[q]
    BY <1>1, FinishMoves
  <2>3. AsBaseline(q)
    BY <2>1, <2>2 DEF DoneInv, Recovered
  <2>4. CASE was(q) = None
    BY <1>1, <2>3, <2>4, FinishLeaves DEF AsBaseline, IsType
  <2>5. CASE was(q) # None /\ live'[q] = live[q]
             /\ ~(q \notin job.finalized /\ IsType(live[q], "dir")
                  /\ (job.created[q] # None \/ job.temporary[q] # None))
    <3>1. q \in job.finalized \/ (job.created[q] = None /\ job.temporary[q] = None)
      BY <2>3, <2>5 DEF FolderInv, AsBaseline, IsType
    <3>2. FinalMode(q) = live[q].mode
      BY <3>1 DEF FinalMode
    <3> QED BY <2>3, <2>5, <3>2 DEF AsBaseline
  <2>6. CASE /\ was(q) # None
             /\ q \notin job.finalized /\ (job.created[q] # None \/ job.temporary[q] # None)
             /\ IsType(live[q], "dir") /\ IsType(live'[q], "dir") /\ live'[q].content = 0
             /\ live'[q].mode = IF job.created[q] # None THEN job.created[q].mode
                                ELSE job.temporary[q].mode
    <3>1. FinalMode(q) = live'[q].mode
      BY <2>6 DEF FinalMode
    <3>2. IsType(was(q), "dir") /\ Plain(past.instant)
      BY <2>1, <2>6 DEF FolderInv, PlainInv, Captured
    <3>3. was(q).content = 0
      BY <3>2 DEF Plain
    <3> QED BY <2>3, <2>6, <3>1, <3>2, <3>3 DEF AsBaseline, IsType
  <2> QED BY <1>1, <2>4, <2>5, <2>6, FinishLeaves
<1>2. CASE UNCHANGED vars
  BY <1>2 DEF vars, diskVars, RestoredIsBaseline
<1>3. CASE phase' # "done"
  BY <1>3 DEF RestoredIsBaseline
<1> QED BY <1>1, <1>2, <1>3, RestoreCases

-----------------------------------------------------------------------------
(* The theorems *)

LEMMA InitFile ==
  ASSUME Init
  PROVE  FileInv /\ EditInv /\ RestoreInv
<1>1. PICK mode \in {"open", "closed"}, fresh \in SUBSET NewNames :
        live = [p \in Paths |-> IF p = Root THEN Entry("dir", "open", 0, 0)
                                ELSE IF p = Folder THEN Entry("dir", mode, 0, 0)
                                ELSE IF p \notin fresh THEN Entry("file", "open", 0, 0) ELSE None]
  BY DEF Init
<1>2. /\ clock = 0 /\ edits = 0 /\ faults = 0 /\ phase = "backstop"
      /\ walk = NewWalk /\ capture = NoCapture /\ volume = None /\ sealed = NotSealed /\ job = NoJob
      /\ past = [instant |-> Empty, ended |-> Empty, begun |-> Empty, touched |-> {}, during |-> {},
                 left |-> NothingLeft]
  BY DEF Init
<1>3. \A p \in Paths : live[p] = IF p = Root THEN Entry("dir", "open", 0, 0)
                                 ELSE IF p = Folder THEN Entry("dir", mode, 0, 0)
                                 ELSE IF p \notin fresh THEN Entry("file", "open", 0, 0) ELSE None
  BY <1>1
<1>4. \A type \in {"file", "dir"}, m \in {"open", "closed"} :
        /\ Entry(type, m, 0, 0) \in Entries /\ Entry(type, m, 0, 0) # None
        /\ Entry(type, m, 0, 0).type = type /\ Entry(type, m, 0, 0).stamp = 0
        /\ Entry(type, m, 0, 0).content = 0
  BY EntryTypes
<1>5. /\ live \in Trees
      /\ \A p \in Paths : live[p] # None =>
           live[p].type \in {"file", "dir"} /\ live[p].stamp = 0 /\ live[p].content = 0
      /\ IsType(live[Root], "dir") /\ IsType(live[Folder], "dir")
  <2>1. \A p \in Paths : live[p] \in Entries \cup {None}
    BY <1>3, <1>4
  <2>2. live \in Trees
    BY <1>1, <2>1 DEF Trees
  <2>3. \A p \in Paths : live[p] # None =>
           live[p].type \in {"file", "dir"} /\ live[p].stamp = 0 /\ live[p].content = 0
    BY <1>3, <1>4
  <2>4. IsType(live[Root], "dir") /\ IsType(live[Folder], "dir")
    BY <1>3, <1>4, PathFacts DEF IsType
  <2> QED BY <2>2, <2>3, <2>4
<1>6. Empty \in Trees /\ NothingLeft = Empty /\ \A p \in Paths : Empty[p] = None
  BY EmptyTree DEF NothingLeft, Empty
<1>7. FileTypes
  <2>1. TreeTypes
    <3>1. past \in [instant: Trees, ended: Trees, begun: Trees, touched: SUBSET Paths,
                    during: SUBSET Paths, left: Trees]
      BY <1>2, <1>6
    <3>2. /\ live \in Trees /\ clock \in Nat /\ edits \in 0..MaxEdits /\ faults \in 0..MaxFaults
          /\ volume \in Trees \cup {None}
      BY <1>2, <1>5, TreeAssumption
    <3> QED BY <1>2, <3>1, <3>2 DEF TreeTypes
  <2>2. WalkTypes
    BY <1>2, NewWalkFacts DEF WalkTypes
  <2>3. CaptureTypes
    BY <1>2, <1>6 DEF CaptureTypes, NoCapture
  <2>4. SealTypes
    <3>1. NoChange \in Changes
      BY DEF NoChange, Changes
    <3>2. NoChanges \in [Paths -> Changes]
      BY <3>1 DEF NoChanges
    <3> QED BY <1>2, <3>2 DEF SealTypes, NotSealed
  <2>5. JobTypes
    BY <1>2, <1>6 DEF JobTypes, Jobs, NoJob, Plans, Statuses
  <2> QED BY <2>1, <2>2, <2>3, <2>4, <2>5 DEF FileTypes
<1>8. TreeInv
  <2>1. Stamped(live)
    BY <1>2, <1>5 DEF Stamped
  <2>2. WellFormed(live)
    BY <1>5, PathFacts DEF WellFormed
  <2> QED BY <1>5, <2>1, <2>2 DEF TreeInv
<1>9. WalkInv
  BY <1>2, NewWalkFacts, PathFacts DEF WalkInv, Walking, Stamped, IsType
<1>10. PlainInv
  BY <1>2, <1>5 DEF PlainInv, Plain, Captured, Restorable, IsType
<1>11. SealedInv
  <2>1. \A p \in Paths : sealed.changes[p] = NoChange
    BY <1>2 DEF NotSealed, NoChanges
  <2>2. NoChange.kind = "none" /\ NoChange.source = "none" /\ NoChange.after = None
    BY DEF NoChange
  <2> QED BY <1>2, <2>1, <2>2 DEF SealedInv, Restorable
<1>12. JobInv /\ PlanInv /\ FolderInv
  BY <1>2, <1>6 DEF JobInv, NoJob, PlanInv, FolderInv
<1>13. LeftInv
  BY <1>2, <1>6 DEF LeftInv, LeftFile, IsType
<1>14. /\ GuardInv /\ InstantInv /\ BaselineInv /\ ObservedInv /\ CaptureExact /\ EndedInv
       /\ ChangeListExact
  BY <1>2 DEF GuardInv, InstantInv, BaselineInv, ObservedInv, CaptureExact, EndedInv, ChangeListExact, Captured,
              Restorable
<1>15. RestoreInv
  BY <1>2, <1>6 DEF RestoreInv, NoJob, ResultInv, ReadyInv, KeptInv, DoneInv, OrderInv, UnselectedKept,
                    RestoredIsBaseline
<1> QED BY <1>7, <1>8, <1>9, <1>10, <1>11, <1>12, <1>13, <1>14, <1>15 DEF FileInv, EditInv

\* The invariant holds in every state.
LEMMA FileInvariant == Spec => [](FileInv /\ EditInv /\ RestoreInv)
<1>1. Init => FileInv /\ EditInv /\ RestoreInv
  BY InitFile
<1>2. FileInv /\ EditInv /\ RestoreInv /\ [Next]_vars => (FileInv /\ EditInv /\ RestoreInv)'
  <2> SUFFICES ASSUME FileInv, EditInv, RestoreInv, [Next]_vars
               PROVE  (FileInv /\ EditInv /\ RestoreInv)'
    OBVIOUS
  <2> USE DEF FileInv, EditInv, RestoreInv
  <2>1. FileTypes' /\ TreeInv' /\ WalkInv' /\ InstantInv'
    BY TypesKept, TreeKept, WalkKept, InstantKept
  <2>2. GuardInv' /\ BaselineInv' /\ ObservedInv' /\ CaptureExact'
    BY GuardKept, BaselineKept
  <2>3. PlainInv' /\ EndedInv' /\ ChangeListExact'
    BY PlainKept, EndedKept, ChangesKept
  <2>4. SealedInv' /\ JobInv'
    BY SealedKept, JobKept
  <2>5. LeftInv' /\ FolderInv' /\ PlanInv'
    BY LeftKept, FolderKept, PlanKept
  <2>6. ResultInv' /\ ReadyInv' /\ KeptInv' /\ UnselectedKept'
    BY ResultKept, ReadyKept, KeptKept, UnselectedStays
  <2>7. DoneInv' /\ OrderInv' /\ RestoredIsBaseline'
    BY DoneKept, OrderKept, RestoredStays
  <2> QED BY <2>1, <2>2, <2>3, <2>4, <2>5, <2>6, <2>7
<1> QED BY <1>1, <1>2, PTL DEF Spec

(***************************************************************************)
(* Every variable keeps its type, whatever is edited while captureRootContext, *)
(* sealContext and the restore read and write the tree.                    *)
(***************************************************************************)
THEOREM FilesWellTyped == Spec => []FilesTypeOK
<1>1. FileInv => FilesTypeOK
  BY FileParts, WalkParts DEF FileInv, FileTypes, TreeTypes, WalkTypes, CaptureTypes, FilesTypeOK,
                              Walking, Restorable, Plans
<1> QED BY <1>1, FileInvariant, PTL

(***************************************************************************)
(* The baseline is the tree of one instant: what captureRootContext records *)
(* and clones of a path is what was there when the first guard ended, or    *)
(* reconcileCapture has put the path under one that is not captured.        *)
(***************************************************************************)
THEOREM BaselineIsExact == Spec => []CaptureExact
<1>1. FileInv => CaptureExact
  BY DEF FileInv
<1> QED BY <1>1, FileInvariant, PTL

(***************************************************************************)
(* The changes that sealContext publishes are those between the baseline    *)
(* and the end of the session, for every path that nobody edits after the   *)
(* end and that no gap covers, whatever is edited around it; an interrupted *)
(* scan publishes none.                                                     *)
(***************************************************************************)
THEOREM ChangesAreExact == Spec => []ChangeListExact
<1>1. FileInv => ChangeListExact
  BY DEF FileInv
<1> QED BY <1>1, FileInvariant, PTL

(***************************************************************************)
(* A restore without --force leaves a file that was written after the       *)
(* session: restoreOne and prepareVolumeRestore refuse it, and where they   *)
(* do not, a folder is to be made again and os.Mkdir fails.                 *)
(***************************************************************************)
THEOREM LaterEditsAreKept == Spec => []EditsKept
<1>1. EditInv => EditsKept
  BY DEF EditInv, LeftInv, LeftFile, EditsKept
<1> QED BY <1>1, FileInvariant, PTL

(***************************************************************************)
(* What a restore is not asked to restore, refuses or finds unavailable is  *)
(* at its end as it was at its start, unless somebody edits it meanwhile:   *)
(* ensureParentDirectories remembers the mode of a folder that it makes     *)
(* writable, and finishRestoreExecution gives it back.                      *)
(***************************************************************************)
THEOREM UnselectedAreKept == Spec => []UnselectedKept
<1>1. RestoreInv => UnselectedKept
  BY DEF RestoreInv
<1> QED BY <1>1, FileInvariant, PTL

(***************************************************************************)
(* What a restore from the clone reports as restored has the type and the   *)
(* contents of the baseline, and the mode when the scan was complete, for   *)
(* every path that nobody edits meanwhile: orderRestoreChanges restores a   *)
(* folder after what is in it, and the modes that ensureParentDirectories   *)
(* changes are given back by finishRestoreExecution.                        *)
(***************************************************************************)
THEOREM RestoredAsBaseline == Spec => []RestoredIsBaseline
<1>1. RestoreInv => RestoredIsBaseline
  BY DEF RestoreInv
<1> QED BY <1>1, FileInvariant, PTL
=============================================================================
