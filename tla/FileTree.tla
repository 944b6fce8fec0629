---- MODULE FileTree ----
(* The files below one watched root while unring captures, scans and restores them: a    *)
(* folder with a few names, edited by the child, by the user and by unring.              *)
(* localrollback.go, restore.go.                                                         *)
EXTENDS Naturals, FiniteSets

CONSTANTS Root,     \* the watched root, which stays where it was and is not itself edited
          Folder,   \* its one folder
          Names,    \* the names below the folder
          NewNames, \* the names that may not be there before the session
          Backstops, \* the answers of Time Machine to the request for a volume snapshot
          MaxEarly, \* bound on the edits before the clone is done
          MaxEdits, \* bound on all edits, of the child, the user and other programs
          MaxFaults, \* bound on the reads that fail and the walks that are interrupted
          None

ASSUME TreeAssumption ==
  /\ Root \notin Names /\ Folder \notin Names /\ Root # Folder
  /\ NewNames \subseteq Names /\ Backstops \subseteq BOOLEAN /\ Backstops # {}
  /\ MaxEdits \in Nat /\ MaxEarly \in 0..MaxEdits /\ MaxFaults \in Nat

Paths == {Root, Folder} \cup Names

VARIABLES
  live,      \* the tree
  clock,     \* the latest ctime given out; the contents of a write is named by it
  edits,     \* how many edits the child and the user made
  phase,     \* what unring is doing
  walk,      \* its walk of a tree: the paths left, listed, seen, failed
  capture,   \* the manifest of the clone: guard, clone, before, uncaptured, observed
  volume,    \* the volume snapshot, when there is one
  sealed,    \* what SealContext published: changes, after, gaps, complete, scanned
  job,       \* the restore in progress: what is left, plans, execution, results
  faults,
  past       \* history: the tree at the first guard, when the child ended, when the
             \* restore began; the paths edited since then; what edits left behind

diskVars == <<live, clock>>
vars == <<live, clock, edits, phase, walk, capture, volume, sealed, job, faults, past>>

----
(* Entries *)

\* What lstat says of a path: its type, its mode and its ctime. "content" is what reading a
\* file gives; all contents are of one size, so that only the ctime tells them apart.
Entries == [type: {"file", "dir", "other"}, mode: {"open", "closed"}, content: Nat, stamp: Nat]
ASSUME EntryAssumption == None \notin Entries
Trees == [Paths -> Entries \cup {None}]
Empty == [p \in Paths |-> None]

Entry(type, mode, content, stamp) ==
  [type |-> type, mode |-> mode, content |-> content, stamp |-> stamp]

IsType(e, type) == e # None /\ e.type = type

\* coveredBy: a path and everything above it.
Above == [p \in Paths |-> {Root, p} \cup (IF p \in Names THEN {Folder} ELSE {})]
Below == [p \in Paths |-> {q \in Paths : p \in Above[q]}]
CoveredBy(p, prefixes) == Above[p] \cap prefixes # {}
Parent(p) == IF p \in Names THEN Folder ELSE Root
InFolder(p) == {q \in Paths \ {p} : Parent(q) = p}
Present(tree) == {p \in Paths : tree[p] # None}

\* The restriction of a tree to some paths.
Only(tree, S) == [p \in Paths |-> IF p \in S THEN tree[p] ELSE None]

\* An entry of the tree is made, replaced or removed: the folder that holds it gets a new
\* ctime too, unless the file is only written in place.
Renewed(tree, p) == IF p = Root THEN tree ELSE [tree EXCEPT ![Parent(p)].stamp = clock + 1]
Put(tree, p, e) == [(IF tree[p] = None THEN Renewed(tree, p) ELSE tree) EXCEPT ![p] = e]
Drop(tree, p) == [q \in Paths |-> IF q \in Below[p] THEN None ELSE Renewed(tree, p)[q]]

\* Whether names can be made, replaced and removed in the folder that holds p.
Writable(tree, p) == IsType(tree[Parent(p)], "dir") /\ tree[Parent(p)].mode = "open"

\* entriesDiffer, and whether there is an entry at all: directories differ by their mode.
EntriesDiffer(a, b) ==
  IF IsType(a, "dir") /\ IsType(b, "dir") THEN a.mode # b.mode ELSE a # b

----
(* The edits of the child, of the user and of any other program *)

NothingLeft == [p \in Paths |-> None]

\* The histories after an edit that makes live' of live: the paths it changed are touched,
\* and the last edit of a path the after-scan no longer reads leaves it as it is, unless
\* restore has compared the path and not yet acted.
Remember(S) ==
  past' = [past EXCEPT
    !.touched = IF phase \in {"after", "sealed", "restoring", "done"} THEN @ \cup S ELSE @,
    !.during = IF phase = "restoring" THEN @ \cup S ELSE @,
    !.left = [p \in Paths |->
      IF p \notin S THEN @[p]
      ELSE IF \/ phase \in {"sealed", "done"}
              \/ phase = "after" /\ p \notin walk.todo
              \/ phase = "restoring" /\ job.plans[p] = "none"
           THEN live'[p] ELSE None]]

Edit(p, tree) ==
  /\ edits < (IF phase \in {"backstop", "guard", "clone", "recheck"} THEN MaxEarly ELSE MaxEdits)
  /\ phase \notin {"stopped", "done"} /\ p # Root
  /\ live' = tree /\ clock' = clock + 1 /\ edits' = edits + 1
  /\ Remember({q \in Paths : EntriesDiffer(live[q], tree[q])})
  /\ UNCHANGED <<phase, walk, capture, volume, sealed, job, faults>>

\* A file is written in place, or its metadata alone is changed and changed back.
Write(p) ==
  /\ IsType(live[p], "file")
  /\ \E contents \in {live[p].content, clock + 1} :
       Edit(p, [live EXCEPT ![p] = Entry("file", "open", contents, clock + 1)])

Chmod(p) ==
  /\ IsType(live[p], "dir")
  /\ \E mode \in {"open", "closed"} \ {live[p].mode} :
       Edit(p, [live EXCEPT ![p] = Entry("dir", mode, 0, clock + 1)])

Make(p) ==
  /\ live[p] = None /\ Writable(live, p)
  /\ \E type \in IF p = Folder THEN {"dir", "file"} ELSE {"file", "other"} :
       Edit(p, Put(live, p, Entry(type, "open", IF type = "file" THEN clock + 1 ELSE 0, clock + 1)))

Remove(p) ==
  /\ live[p] # None /\ Writable(live, p)
  /\ InFolder(p) \cap Present(live) # {} => live[p].mode = "open"
  /\ Edit(p, Drop(live, p))

Edits == \E p \in Paths : Write(p) \/ Chmod(p) \/ Make(p) \/ Remove(p)
====
