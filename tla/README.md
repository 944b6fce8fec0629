# A verification development of unring

unring runs a command, most often an autonomous agent, and holds back what it does
until a person decides: its PostgreSQL work runs in one open transaction, its HTTPS
calls are staged, approved or compensated, its `gh` invocations need an approval, and
its file changes can be restored. This directory states what that promises in TLA+,
checks it with TLC on small instances and proves most of its safety with TLAPS.

`PROJECT.json` lists every component, run, property, hazard and theorem, and for every
definition of a model the lines of the code it stands for.

## 1. Inventory

| component | state | operations | hard because |
|---|---|---|---|
| pgproxy: transactions, escapes (`proxy.go client.go query.go extended.go`) | one backend connection in one transaction; per client: open transaction, its savepoints, batch, extended cycle; `activeTransaction`, `escapeClient` | simple query, batch, transaction control, extended protocol, escape to a second connection, disconnect, Seal, Finalize | many clients share one transaction and every one of them must see its own; the lock is released for approvals |
| pgproxy: change summary (`summary.go truncate.go sqlguard.go`) | row ledger, last sample of PostgreSQL's counters, uncertain effects | sample after every statement, restore on rollback, freeze at Seal | counters never go down on rollback, so one sample too few or too many is wrong for good |
| httpsproxy (`proxy.go`) | staged calls, forwarded requests with their undo, approvals, list of undos | intercept, stage, ask, forward, Seal, Finalize: replay or discard and compensate | handlers run on while the session ends; every effect must be on disk before it happens |
| ghshim (`ghshim.go`) | records of invocations with their undo | ask, run, report, Seal, Finalize: compensate | gh runs in the child's processes and may outlive them |
| cli, one session (`runCommand`) | phase, decision, `interrupted`, errors of every interceptor, exit code | start, supervise the child, scan, seal, decide, finalize, record, deferred function | a signal, a failed save or a crash between any two of them |
| runner (`runner.go`) | the child, the one approval on the screen | run, forward signals, present approvals | an answer, a signal and the child's end race |
| audit (`audit.go`) | one record per session, in memory and on disk | Begin, Update, Save, Load, List, Delete | the file is what is left after a crash; several processes read and write it |
| localrollback: capture and seal (`localrollback.go`) | a clone of the watched root, its manifest with the baseline, the paths that could not be captured, a volume snapshot | backstop, guard, clone, guard again, reconcile; scan after the session, compare, publish | files change while they are read, and nothing stops the writer |
| localrollback: restore (`restore.go`) | the selection, the plan of every path, folders made or made writable for others | select, compare, remove, write, mount the volume snapshot, set the folders back | compared first, replaced later; folders and what is in them depend on each other |
| localrollback: retention (`localrollback.go lock.go`) | the stores, the byte cap, the plan of what goes | plan by age and bytes, remove entry by entry, record | a plan is applied when it is no longer true; a removal may stop half-way |
| statelock (`lock.go`) | flock on one file per session and one for retention | shared, exclusive, wait, release | several unring processes; a killed one gives its locks back |
| prune, restore, log, snapshots commands (`cli.go`) | saved previews with a token, the record a restore loaded | preview, confirm, restore, list | a preview is confirmed hours later; a record is written back from memory |
| adapter, gh parser, childenv, ca, review screen, terminal and process control, scope of the watched roots | none, or the platform's | | pure functions, cryptography, user interface, configuration |

How they interact: `runCommand` captures the watched root, removes what retention has
planned, starts the gh shim, the PostgreSQL proxy and the HTTPS proxy, and then the child. The interceptors serve the child concurrently; when one needs an approval it calls
back into the CLI, which hands the question to the runner and records the answer. After
the child, `runCommand` scans the files again, seals the interceptors in the order gh,
HTTPS, PostgreSQL, reads their summaries, decides, and finalizes in the same order. Every
change of the audit record goes through `audit.Session.Update`, from `runCommand`, from the
approval callbacks and from HTTPS finalization. `restore` and `prune` are processes of their
own, which meet a running session only in the state directory, through its files and locks.

What makes each component correct:

- *pgproxy*: clients never lose or gain work through each other's rollback; the summary
  counts what is staged; a commit keeps exactly what a complete summary showed; a
  statement outside of the transaction never runs beside uncommitted changes; Seal ends.
- *httpsproxy*: nothing is sent, or compensated, that the file on disk does not know of;
  nothing approved is sent without its approval on record; what is sent is what was
  reviewed.
- *ghshim*: what ran is compensated on discard or named.
- *session*: the recorded outcome is what happened; services and database agree; a signal
  discards; the session ends.
- *capture and seal*: the baseline is the tree of one instant, and what is not is named;
  the list of changes is what the session did, gaps excepted.
- *restore*: what it says it restored is as it was; what was written after the session
  stays; what was not selected is left alone.
- *state directory*: the newest session is never removed; a store that looks whole is
  whole; what a restore reads does not change under it; a removed record does not come
  back; confirming a preview removes what it showed.

## 2. Modules

| module | models |
|---|---|
| `PgState` | state of the PostgreSQL session, PostgreSQL's savepoints, the row ledger's helpers |
| `PgStatement` | `query.go`: Query messages, batches, BEGIN, COMMIT, ROLLBACK, AND CHAIN, SAVEPOINT, RELEASE, ROLLBACK TO, ordinary statements |
| `PgEscape` | `executeIrreversibleLocked`: approval, check, dispatch on the second connection, result |
| `PgExtended` | `extended.go`: the cycle from its first message to Sync, with transaction control and escapes inside |
| `PgProxy` | disconnects, fatal errors, Seal, Finalize; composition, fairness, properties |
| `Session` | the abstract specification of a PostgreSQL session: a log that grows by one client's unit at a time, kept or dropped as a whole |
| `PgProxyProofs` | theorems about `PgProxy`: its types, the one open transaction |
| `PgNestingProofs` | ... savepoints, whose work a rollback takes, escapes, the refinement of `Session` |
| `PgLedgerProofs` | ... the change summary |
| `RunState` | state of one `unring run`: `runCommand`, audit record in memory and on disk, proxy, shim |
| `HttpsStaging` | handlers of the HTTPS proxy, its Seal and Finalize |
| `GhShim` | invocations of gh, Seal and Finalize of the shim |
| `RunSession` | `runCommand`, the runner's approval, signals, crash; composition, fairness, properties |
| `RunSessionProofs` | theorems about `RunSession`: its types, its phases, what its handlers may still do |
| `RunEffectsProofs` | ... what the services did, against the file, the approvals and the database |
| `RunOutcomeProofs` | ... the recorded outcome |
| `StateDir` | the files and locks of the state directory, `statelock`, `audit.Store` |
| `Retention` | the plan of the age and byte limits, its validation and its application |
| `SessionStore` | `run`, `restore` and `prune` as processes on one state directory; kills, time; properties |
| `SessionStoreProofs` | theorems about `SessionStore` |
| `FileTree` | one watched root, the edits of the child and of others |
| `FileCapture` | guards, clone, reconciliation; the scan after the session and the manifest it publishes |
| `FileRestore` | selection, comparison, removal, writing, the mounted volume snapshot, folders set back |
| `FileRollback` | the files through one session and one restore; properties |
| `FileRollbackProofs` | theorems about `FileRollback`: types, the baseline, the list of changes, what a restore keeps and what it restores |
| `MCPgProxy`, `MCRunSession`, `MCSessionStore`, `MCFileRollback` | the instances TLC checks |

`PgProxy` extends the chain `PgState`, `PgStatement`, `PgEscape`, `PgExtended`;
`RunSession` the chain `RunState`, `HttpsStaging`, `GhShim`; `SessionStore` the chain
`StateDir`, `Retention`; `FileRollback` the chain `FileTree`, `FileCapture`, `FileRestore`.
The handlers of a chain share one state, so each of its modules adds actions and states
what they leave alone.

### The PostgreSQL session

*State.* `rows` is the sequence of staged changes, each with its author and whether its
effect can be counted; `stack` the backend's savepoints with the length of `rows` they
return to; `attempted` PostgreSQL's counter of the transaction, which a rollback does not
lower. The rest is the proxy's: `queryMu` with its holder, `activeTransaction`,
`escapeClient`, `rowStats`, `rowLedger`, `uncertain`, and every `clientState`. A
savepoint's generated name is abstracted to its client, its kind and its number.

*Actions.* One action is one critical section. `relayQuery` holds `queryMu` through a
whole simple query, and `relayExtended` from the first message of a cycle to its Sync, so
a client's handler is a little automaton (`pc`) whose steps other clients see only where
the lock is free: between exchanges, and around an approval and the second connection of
an escape. Inside a held lock the steps are separate as well (statement by statement,
rotation out, control, rotation in), because the properties are about the order there.
What SQL does is chosen, not parsed: a statement adds a row, fails, needs an escape, or
only reads; whether a statement is a read or has a countable effect is an input.

*Not modelled there:* the handshake, cancel requests, COPY, portals and prepared
statements as objects, sequences, the catalog diff, counts per table and of TRUNCATE.

### The end of a session

*State.* `at` is the phase of `runCommand`, `todo` the indexes a loop has left; `record` is
the audit record in memory and `disk` the file; `hpc` and `gpc` say where the handler of
every request and the process of every gh invocation are; `origin` and `ghWorld` what
really happened at the services, which no component of unring can read. Of PostgreSQL only
its fate and the summary's completeness are kept, as `Session` promises them.

*Actions.* Each save of the record and each call of a service is one step, with its
success chosen, so the process may die (`Crash`) or a signal may arrive (`Signal`) between
any two; after a crash what was in memory is kept only as history. A retry after a
cancelled context is part of the step it repeats: Seal of the HTTPS proxy and every
Finalize only return their first error again (`sync.Once`), Seal of the shim waits again.
`Respond`, `ReplaySend`, `UndoSend`, `UndoGh` and `GhFinish` choose apart whether the
service acted and whether unring learns it.

*Not modelled there:* sessions with no database or with outbound interception switched
off, panics, the file scan's results, a second signal (it could only cancel the file scan
earlier), requests that only read, tunnels and upgrades, approvals of PostgreSQL
statements (they are part of `PgEscape`), a client's retry of a request.

### The state directory

*State.* For every session its audit record (`record`), its directory below `snapshots`
(`store`: the directory, the manifest, the clone), and the holders of its lock (`excl`,
`shared`); for retention its own lock and the byte cap; for every user of prune the preview
that was saved. A session is its rank by `StartedAt`, every store is one unit of bytes. Of
each process `pc`, the session it is about and what it has in memory: the list it read, the
removals it planned, the record it loaded. Two variables are histories: `saved`, the sessions
ever recorded, and `overtaken`, those that a removal began to remove while their run had not
ended.

*Actions.* A step is what happens between two points at which another process can get in:
a lock is taken or given back, one file is renamed into place, one entry of a store is
removed. `Save` takes the session's lock and gives it back within its step, as
`audit.Store.Save` does. `Plan` reads all stores in one step, because the code holds their
locks while it does; the list of records is read before, without a lock, and may be old.
A run publishes its store (`Capture`), measures it where it is and writes its manifest again
(`Measure`); when that fails it removes what it published, under no lock and without looking
at the result (`FailMeasure`).
`FailRun`, `FailRemoval` and `Kill` let a step fail or the process die anywhere; the kernel
gives the locks of a dead process back. Sessions and previews grow old at any moment.

*Not modelled there:* sizes in bytes and blocks shared between stores, restores that
cross-check several sessions, the list of restore events in a record, `log` and
`snapshots`, which only read.

### The files

*State.* `live` is the tree below the watched root: a folder and its names, each absent, or
a file, a directory or something else, with a mode, contents and a ctime. `walk` is the walk
in progress, `capture` the manifest of the clone (the two guards, the clone, what was
recorded, what was not), `volume` the volume snapshot, `sealed` what the scan after the
session published, `job` the restore in progress. `past` keeps the tree at the instants the
properties speak of.

*Actions.* A walk reads one path at a time and edits come between any two reads. The clone
is taken path by path, or at once where the system has `clonefile`. A restore compares a
path in one step and replaces it in another; what the volume snapshot restores gets the
folders above it made where they are missing, the watched root included. All contents have one size, so that only the
ctime and a second read tell files apart, the hard case of the comparison. Reads fail,
walks are interrupted. The volume snapshot may be gone, or its mount may fail: its changes
are then unavailable or errors. When it cannot be unmounted, all results of its group become
errors, whatever was restored (`Mount`, `Unmount`).

*Not modelled there:* several watched roots, or a root that is retargeted or edited itself;
symbolic links and hard links as such (they are "other", which cannot be captured); the
scan of the home directory beyond the roots; agent state and exclusions; the sidecars that
keep a replaced file; a second restore, or one that dies in the middle. A path that is there
now and was not recorded before is only reported by the code, so restore of the model does
not touch it. What the clone has of a path that was not captured is never read, and
`Reconcile` drops it.

## 3. Runs

| run | question | bounds | result |
|---|---|---|---|
| `session` | all safety of the PostgreSQL session and its refinement of `Session` | 2 clients (one simple with batches, one extended with escapes), 2 rows, 1 escape, no client savepoints | holds, 1.0 million states |
| `transactions` | nested client savepoints, names reused, and the refinement with them | 2 clients (one simple with batches, one extended), 2 rows, 2 savepoints of 2 names, no escapes | holds, 1.8 million |
| `seal` | Seal ends (liveness) | 2 clients, 1 row, 1 escape | holds, 0.15 million |
| `outcome` | the recorded outcome without a signal, gh against the database and its approval | staged call, request with a compensation, gh invocation | holds, 2.1 million |
| `outbound` | what is on disk before an effect, what was reviewed, database against services | two staged calls, approved request with a compensation, no gh; with signals | holds, 2.3 million |
| `run_ends` | the session ends (liveness) | with signals; an approved request with a compensation, gh invocation without one | holds, 0.85 million |
| `store` | processes on one state directory | two runs, a restore and a user of prune; a session from before and two new ones; caps of 0 and 2 stores; 1 failed step or killed process | holds, 1.5 million |
| `files` | capture, change list and restore under edits | a folder with 2 names, one of them perhaps new; 2 edits, 1 of them before the clone is done; 1 failed read, walk, mount or unmount; with a volume snapshot | holds, 1.2 million |
| `batch_escape`, `late_signal`, `evicted_running`, `removed_before` | what a document says of the program | the smallest instance that shows it | violated, section 4 |

*Bounds.* `MaxRows`, `MaxSaves` and `MaxEscapes` bound the rows written, the savepoints
alive and the statements sent outside of the transaction. Two clients are enough for every
lease to have a holder and a competitor. Two rows let one survive a rollback that
removes the other; two savepoints of two names give the same name twice, in order and
shadowed. In a session every request and invocation happens at most once; `outbound` has two
staged calls, so that one of them can fail while the other is delivered. In `store`,
`OldSessions` and `MaxSessions` give three ranks: one from before, one that supersedes it, and
a third that supersedes the second while that one is still being recorded; `Caps` has a cap
that lets nothing stay but what is protected and one that lets something stay; `MaxCutoff`
lets two sessions pass the age limit, the newest among them; one fault is enough for a
removal, a run and a preview to stop half-way and for the rest to find it so. The constraint
`MCSecondRun` keeps the instance small: from the begin of the second run until both have
ended the cap is zero, which plans to remove everything unprotected, and beside the two runs
either time passes, or the restore and the fault take part, or the user of prune does.
With one run, and once both have ended, no process is kept out. The two runs are
interchangeable (`MCRuns`), as they have no order and no name in the state directory. More
processes, and the combinations that the constraint leaves out, more than two clients of PostgreSQL and
more than three calls of a session are left to the theorems, which hold for any number of
each. In `files`, a folder with two names has everything
the order of a restore depends on: a parent, a child, a sibling that is not selected;
`MaxEdits` lets one edit be the session's and one come during the capture, the scan or the
restore. Deadlock is checked in every run: a state without a step is an error unless
everything has finished (`Terminated`).

*Instances of the passing runs.* `session` gives escapes to one client and keeps them out of
batches, and `outcome` has no signal: the other behaviours break properties, and runs of
their own show them (section 4). `seal` has the escapes as well, and `run_ends`
the signals.

*Fairness.* `seal` assumes that a handler which holds the backend finishes its exchange
(Seal puts a deadline on the connection), that a free mutex is acquired, that a cancelled
context ends an approval, a connection attempt and a statement on the second connection
(`stopClients` cancels every client's context), and strong fairness of `cleanupClient`,
because its lock may be taken by others any number of times first: Go's mutex is
starvation free. `run_ends` assumes that `runCommand`'s own next step is taken: every
wait of it after the child has a deadline of 10 or 30 seconds. Nothing is assumed of
clients, requests, gh processes, the child and the person at the terminal. `store` and
`files` state no liveness: a lock there may be waited for as long as its holder lives, and
`flock` is polled without a queue, so the code promises none.

*Properties.* The comment above each says what it means. The less obvious ones:

- `SavepointsNested` is an equation between the backend's stack and what the proxy remembers
  about its clients; `AcknowledgedSettled` says that work of a client that has been told it
  is done is under no savepoint; `ForeignWorkKept` that a step removes only rows of the
  client that takes it; `LedgerExact` and `SummaryExact` that arithmetic on samples agrees
  with what is staged; `EscapeReserved` that nothing was written in the transaction while a
  statement runs beside it.
- `NothingBehindReview`: no handler is at work once the decision is asked for;
  `OutcomeTruthful` relates the file to what really happened.
- `NewestKept`, `SealedMeansWhole`, `UnretainedMeansGone` relate a record, a manifest and a
  clone, which are written and removed at different times by different processes. A run
  writes its manifest and its record without looking whether retention has been there
  (`evicted_running`, section 4), and each property excepts no more than that makes
  necessary: `SealedMeansWhole` the sessions in `overtaken`, of which a removal began while
  their own run had not ended; `UnretainedMeansGone` those whose record does not say yet that
  they ended; `PrunedStaysPruned` those whose run has not ended (`Recording`), because the
  `Save` of a stalled run writes a removed record again. A run has not ended while its
  process is neither done nor dead.
- `ReadsStable`: between a restore's look at its store and the record of its outcome nobody
  else touches either. `ConfirmsShown`: prune --confirm removes what its own preview named,
  in the way it was shown, however many sessions came and went since.
- `CaptureExact` names one instant, the end of the first guard, and says that all that was
  recorded and cloned, path by path, is of that instant, or is named as not captured.
  `ChangeListExact` compares the published list with what really differs, for paths that
  nobody edits after the child and that no gap covers; a file whose metadata alone was
  changed and changed back may be listed or not.
- `EditsKept`: a file written after the session, or after the scan has read it, survives a
  restore without `--force`. The exception is a write between the comparison and the rename
  of that very path, which no file system call closes. `RestoredIsBaseline` says what
  "restored" means, whatever the order in which a folder and its children were made again.
  It leaves out changes restored from the volume snapshot, which is of the end of the capture
  and not of the baseline's instant, and the modes of incomplete scans (section 4).
  `UnselectedKept` is about the folders that restore makes writable for a while.

## 4. Where a document and the code disagree

- `batch_escape`: a batch outside of a transaction that contains a statement to be run
  outside gives the backend away with its savepoint open; its failure undoes another
  client's acknowledged work.
- `late_signal`: a signal after the commit, or after an unknown outcome, is recorded as
  "discarded".
- `evicted_running`: a run keeps in memory that its clone is retained and writes it again
  after the retention of a second run removed the clone and marked the record.
- `removed_before`: a path that changed while it was captured counts as absent before the
  session. It is listed as created, and restore removes it.

Each is an entry of `findings` in `PROJECT.json` with the line of the code and the line it
contradicts. The models contain some further behaviours that were met in the code and have
no run of their own:

- A second escape overwrites the first one's reservation (`query.go:571`, `query.go:535`),
  and a third statement may then write beside a statement that was promised none. `session`
  therefore has one client that escapes.
- A signal that comes after the decision does not stop the commit (`cli.go:946`,
  `cli.go:1010`).
- A gh process that reports after Seal is neither compensated nor named (`ghshim.go:269`),
  and the compensation of a gh invocation is recorded only after all of them ran
  (`ghshim.go:298`).
- In the restore of an incomplete session a folder that was restored from the list of
  changes and is made writable again for a recorded baseline stays writable
  (`restore.go:1277`, `restore.go:1426`). `RestoredIsBaseline` asks for modes only of
  complete sessions.
- A sealed manifest whose clone is gone. The retention of a second run removes the manifest
  of a session that is still being recorded (`localrollback.go:2382`). The first run's Seal
  writes `manifest.json` back into the directory, under no lock
  (`localrollback.go:2007-2038`). The clone goes, and `os.Remove` of the directory, which is
  not empty now, fails (`localrollback.go:2390`). The first run ends, and leaves a finished
  session, recorded as retained and sealed, without its clone. This is what TLC answers in
  `store` when `SealedMeansWhole` excepts only sessions that a run is still recording, and no
  failed step is needed for it. `SealedMeansWhole` therefore excepts the sessions in
  `overtaken`, and nothing else.
- `Save` locks the session and does not look whether its record is still there, so a run
  that was overtaken by prune writes it again; the comment at `audit.go:166` says that the
  lock prevents it.

## 5. Theorems

Every theorem holds for all values of the constants that satisfy the assumptions named in
the models, and is the conclusion of one argument: an inductive invariant made of named
parts, one lemma for every action (or for the few actions that treat a part alike), and one
step in it for each part that the action can disturb. None of the properties below is
inductive as it stands, but for `OneOpenTransaction`, which needs only the types. Where a
theorem has a hypothesis, it is stated as ASSUME in the theorem, and section 4 has the run
or the behaviour that shows the property false without it.

### The PostgreSQL session

From the assumptions in `PgState` (`None` is not a client, `NoRisk` not a risk, the risks
are finitely many, the bounds are natural numbers), for every set of clients and every
choice of their roles. `PgProxyProofs`:

- `TypeCorrect`: `Spec => []TypeOK`. A rollback cuts `rows` at the length its savepoint
  remembers, and the result is a sequence of the same kind only if that length is not beyond
  the end; and a row ledger that is a difference of samples is a natural number only if the
  last sample is not above the counter. `TypeInv` therefore adds `StackOrdered` (lengths
  within `rows` and growing with the stack) and `rowStats <= attempted`. One lemma for each
  operation of the backend (`CutStack`, `SavepointBackend`, `ReleaseBackend`, ...) and of the
  ledger (`RestoreLedgerOK`, `ReconcileOK`).
- `SingleTransaction`: `Spec => []OneOpenTransaction`.

`PgNestingProofs`, without a hypothesis:

- `EscapesAlwaysRecorded`: no result of a statement outside of the transaction is missing
  once the session is sealed. `ResultInv` ties every open entry to the handler that
  remembers its index, `EndInv` says that Seal waits for all handlers.

With one client that asks for such statements (`OneEscaper`; a second one overwrites the
reservation):

- `EscapeAlwaysReserved`, by `LeaseInv`: who is at a label between the check and the answer
  has the reservation, and nothing was written before.

With such statements kept out of batches (`~EscapeInBatch`; run `batch_escape`):

- `SavepointsAlwaysNested`, `AcknowledgedAlwaysSettled`, `ForeignWorkAlwaysKept` and
  `ProxyImplementsSession`. The invariant is `ProxyInv`. `LockInv` says who holds `queryMu`
  at which label, and that a batch is open only under it; `NestInv` gives the shape of the
  backend's stack, name by name: the savepoints of the one open transaction and on top of
  them the batch or cycle of the client that holds the backend; `OwnInv` that what a
  savepoint could still undo was written by the client that made it. From these, the rows
  above a savepoint that a step rolls back to are the stepping client's (`RemovedOwn`), and
  the rows below the lowest savepoint are settled (`AcknowledgedState`).
  `ProxyImplementsSession` maps the log of `Session` to those settled rows: Init maps to its
  Init, and a step of the proxy is a stutter unless it gives the backend back with its work
  done (`Settle`), seals, or ends the session (`ClientRefines`, `StepRefines`).

`PgLedgerProofs`, with `~EscapeInBatch` as well:

- `LedgerAlwaysExact` and `SummaryAlwaysExact`. The proxy never counts rows; it subtracts
  samples of counters that do not go down, and restores what it noted beside a savepoint.
  `CountInv` says that ledger and unseen difference together are the rows, inside of an
  extended cycle too, where nothing is sampled; `MarkInv` that what is noted beside each
  savepoint was exact for the rows below it, if nothing was uncertain then, and grows with
  the stack, so that any rollback restores a smaller truth; `SealInv` that a summary once
  complete stays so.

### The end of a session

For every set of requests and invocations, of which any may be stageable, approvable or
undoable, and with signals and crashes wherever nothing else is said. `RunSessionProofs`:

- `RunTypes` and `ReviewIsWhole` (`NothingBehindReview`). `RunInv` has the types, the phases
  of `runCommand` and what is sealed in each (`PhaseInv`, `GateInv`, `StartInv`), the one
  question on the screen (`PromptInv`), what a loop has left (`TodoInv`), and for every
  handler what is listed of it (`HandlerInv`, `ListInv`); `QuietInv` is the heart: once HTTPS
  is sealed and not given up, no handler is left that could stage anything.

`RunEffectsProofs`, by `EffectInv`:

- `ApprovedFirst`, `SendsRecorded`, `UndosRecorded`: what is on disk before an effect. Each
  state of a call is kept three times, by the proxy, in the record and in the file, and
  updated in this order; `SendInv` and `UndoInv` say of all three that they know of what is
  being sent or has had an effect, which no update of one of them takes back.
- `CommitFollowsDelivery`: `ReplayInv` splits the staged calls into those left, of which
  none had an effect, and those done, delivered unless an error was kept.
- `NoHalfSession`: `UndoneInv`, compensating excludes committing.

`RunOutcomeProofs`, by `OutcomesInv`:

- `OutcomeWithoutSignal`: `Spec => [](~signalled => OutcomeTruthful)`, in any instance. What
  is compensated is followed through both loops (`GhUndoInv`, `HttpsUndoInv`) to the errors
  from which the outcome is written (`FateInv`), and from there to the file
  (`PendingInv`, `OutcomeInv`). A signal breaks this (run `late_signal`).
- `OutcomeOnDisk`: `Spec => []OutcomeTruthful`, the property of the run `outcome`, where no
  signal comes (`MaySignal = FALSE`).
- `CommittedIsCommitted`: what remains true after any signal and any crash. A file that says
  "committed" is that of a session whose database is committed and whose staged calls were
  all delivered. Only "discarded" may be wrong.

### The state directory

In `SessionStoreProofs`, for all sets of runs, restores and users of prune, all caps and all
bounds, from `ProcAssumption` (a process is of one kind) and `StoreBounds` of `StateDir`:

- `StoreInvariant`: `Spec => []StoreInv`, and from it `StoreTypeCorrect`, `NewestIsKept`,
  `SealedIsWhole` and `UnretainedIsGone`, each of the property the run `store` checks.
- `RestoreReadsStable`, `PrunedRecordsStay` and `ConfirmRemovesShown`: the three action
  properties. They follow from `StoreInv` and one lemma, `StepWritten`, which lists who
  writes a record or a store in a step, and under which lock.

`StoreInv` adds, in named parts:

- *locks*: an exclusive lock has one holder and no sharer and belongs to a pass that applies
  removals (`ExclusiveInv`), which holds that of the session it is at (`RemovalLockInv`); a
  restore shares its session's from the look to the record (`RestoreLockInv`);
- *ranks*: a session has one run, only a session that was recorded has anything on disk, and
  what was overtaken was superseded when it was (`RankInv`, `RunnerInv`, `SavedInv`,
  `EndedInv`);
- *memory against disk*: what a run or a restore believes of its session, and how far that
  may be from the files (`RunMemoryInv`, `RunDiskInv`, `RestoreInv`);
- *removals*: every removal that is planned, shown, saved or confirmed is about a session
  that is not the newest (`TodoInv`, `PreviewInv`, `OrderInv`, `ConfirmInv`). This is the
  heart of `NewestIsKept`: a plan is made from a list that may be old, and it stays harmless
  because the sessions ever recorded only grow, so what is superseded stays superseded.
  While a removal has the clone before it, the manifest is gone and nobody can write it back,
  unless the session is in `overtaken`: this is what `SealedIsWhole` rests on.


### The files

In `FileRollbackProofs`, for any names below the folder, any number of edits, failed reads
and interrupted walks, with or without `clonefile` and a volume snapshot, from
`TreeAssumption` (the root, the folder and the names are different, the bounds numbers) and
`EntryAssumption` (no entry is `None`):

- `FilesWellTyped`, `BaselineIsExact`, `ChangesAreExact`, from `FileInv`;
- `LaterEditsAreKept`, from `FileInv` and `EditInv`;
- `UnselectedAreKept` and `RestoredAsBaseline`, from `FileInv`, `EditInv` and `RestoreInv`.

`FileInv` adds to the types and to the two properties:

- *the tree* (`TreeInv`): what is there is in a directory and has a ctime of the past. An
  edit takes a new ctime, and so two reads that agree have nothing between them; this is
  what every guard relies on;
- *a walk* (`WalkInv`): it lists a directory when it reads it; while the directory is as it
  was read, every name in it is listed;
- *the capture* (`GuardInv`): a path that is still as the first guard saw it was so at the
  instant of the baseline, and when it was cloned. With `InstantInv`, `CaptureExact`
  follows for what was recorded, and, for what was not, from the first path above it that
  differs;
- *the scan* (`EndedInv`, `PlainInv`): of an untouched path the scan sees what the session
  left, up to a ctime, and every path above one that is there is listed unless its folder is
  to come or failed. From this and `CaptureExact` follows `ChangeListExact`;
- *the restore* (`SealedInv`, `BaselineInv`, `JobInv`): which kind of plan an item of the
  queue may have, and which source it then has.

`EditInv` follows a file that was written after it was scanned: `LeftInv` says that no entry
of the published list is that file, and that no restore without `--force` has changed it;
`PlanInv` that its own item, if there is one, is at most planned to become a directory,
which fails on a file; `FolderInv` that no folder which restore made, or whose mode it set,
is mistaken for it.

`RestoreInv` says of every path what a restore has done to it so far. Its lemma
`RestoreSpares` bounds one step: a path that the step does not act upon stays as it is, or is
made again as a folder for what is below it, or is the folder and is made writable, its mode
remembered. The parts:

- `ResultInv`: what has a result has left the queue, what is finalized is restored, or an
  error after a failed unmount, and only the folder is readied for others; `ReadyInv`: a folder
  that was made writable is still a
  folder;
- `KeptInv`, for `UnselectedAreKept`: what has no result, is refused or unavailable is as it
  was when the restore began, but for the mode of a folder that was made writable, and that
  mode is the remembered one;
- `DoneInv`, for `RestoredAsBaseline`: what is restored is as it was in the baseline, where
  the mode of a readied folder is the one that the end of the restore will give it;
- `OrderInv`: once a folder of the baseline is restored, and the scan was complete, no name in
  it waits but for the volume snapshot, which makes no folder writable. This is where
  `orderRestoreChanges` is needed (`FirstItemFacts`: the first item has the least weight, and
  directories weigh more than what is in them). For an incomplete scan the part is false, and
  so is the mode (section 4), which is why the property asks for modes of complete ones.

### Only model-checked

- `SealCompletes` and `RunEnds`: liveness under fairness is beyond the prover, and so are
  the ENABLED of `WF_` and `SF_`.
- The four violated properties of section 4.

## 6. Plan

1. *Done:* the PostgreSQL session with its abstract specification, the end of a session
   with the HTTPS proxy, the gh shim and the audit record, and the state directory with its
   processes, and the capture and the restore of one watched root: all their safety
   properties are proved, and the refinement.
2. *Files, the rest:* the scan of the home directory, several roots, sidecars, a restore
   that dies and is repeated, the restore events of two restores of one session.
3. *Row ledger per table:* TRUNCATE with its closure, sequences, samples per relation.
4. *Connections:* cancel requests and their race, COPY, prepared statements across DDL.
5. *Pure functions:* classification of requests by adapters, of gh arguments, of SQL
   transaction control, against reference definitions.
6. *Composition:* `RunSession` with its PostgreSQL part replaced by an instance of `Session`,
   and with its audit record in `StateDir`.

*Not modelled, and why.* The certificate authority (keys and certificates), the review
screen, the terminal and process groups and the platform layers are I/O or system calls
whose only results, a decision, a signal, a failure, are inputs of the models. `childenv`
and the scope of the watched roots build strings before a session starts. The adapters and
the gh parser are pure functions, planned above. The demonstration and the test support are
not part of the program.

## 7. Running

    tlc -config session.cfg MCPgProxy.tla
    tlc -config outcome.cfg MCRunSession.tla
    tlc -config store.cfg MCSessionStore.tla
    tlc -config files.cfg MCFileRollback.tla
    tlapm PgProxyProofs.tla
    tlapm PgNestingProofs.tla
    tlapm PgLedgerProofs.tla
    tlapm RunSessionProofs.tla
    tlapm RunEffectsProofs.tla
    tlapm RunOutcomeProofs.tla
    tlapm SessionStoreProofs.tla
    tlapm FileRollbackProofs.tla
