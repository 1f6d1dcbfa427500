# taskport: formal models and proofs

taskport runs named functions on remote workers. A server keeps functions, calls,
ownership and results in one SQLite database and in content-addressed files; worker
processes poll it, execute one call at a time and upload the outputs; clients submit
calls and poll for their end. This directory holds TLA+ models of that code, the TLC
configurations that check them on small instances, and proofs checked by TLAPS.
Paths such as `store.py:359` are under `src/taskport/` of the repository.

## Inventory

| Component | Source | State | Operations | Hard because of |
| --- | --- | --- | --- | --- |
| Store | `store.py` | tables `definitions`, `functions`, `workers`, `tasks`, `artifacts` | publish, submit, cancel, expire (also in every read), claim, heartbeat, add_artifact, complete | handlers race for one write lock; two of them read the clock before they have it; leases run out before anyone notices |
| Server | `server.py` | the handlers in progress; the reaper task | one handler per operation; `receive_file`, `install_blob` | lock timeouts, restarts, lease check before and after a long upload |
| Blob storage | `server.py` | files under `packages/`, `artifacts/`, `incoming/` | receive, install, serve | file and row are written in two steps; crash and power loss |
| Worker run loop | `worker.py` | claim id, current call, completion, run directory, `stopped` | claim, execute, run process, upload, complete | lost and late responses, lease loss, failed process cleanup, being killed |
| LeaseKeeper | `worker.py` | deadline, `lost` | heartbeat thread | runs beside the run loop; clock against server's clock |
| Client SDK | `client.py` | retry budget, deadline | request with retries, submit, wait, retry, cancel, download | lost acknowledgments, deadlines |
| Packages | `packages.py` | none | safe_name, inspect, pack, extract | portable names, collisions ignoring case, other disks |
| Wire models | `protocol.py` | none | manifest and argument validation | accepted arguments must always make a command |
| Command line | `cli.py` | none | argument parsing, exit codes, signals | flags are typed by a schema that may change before the submission |

Interaction: clients and workers send HTTP requests, each is one handler, each handler
one or two `BEGIN IMMEDIATE` transactions. The worker's two threads share the deadline
and the two flags `lost` and `stopped`. Scripts are processes that outlive a killed worker.

What makes each part correct:

- **Store**: a call is owned by one worker for ever; one running call per worker; an
  ended call never changes; a lease that has run out is dead at once; `lost` only after
  the lease; oldest first; a call stays with the package it was validated against; the
  default version never moves back; artifact names are unique ignoring case.
- **Worker**: a script is started at most once per call; success means exit code 0 and
  all outputs on the server; no further call beside a living script; the outputs of an
  uncertain call are kept; a cancelled call's script is stopped.
- **Blob storage**: each artifact and package row names a complete file, flushed to its
  directory; `.part` files belong to a handler. **Client**: a call that is accepted is the
  call that was asked for; a retry repeats its original; `wait` ends, with the true end.
- **Packages, manifest**: what is accepted can be unpacked and executed, and nothing is
  lost, added or overwritten on the way. **Command line**: repeating an invocation under
  its GUID is recognised.

`PROJECT.json` lists the hazards of this code, each at its line, with the properties that
cover them.

## Modules

| Module | What it is |
| --- | --- |
| `Store` | the database: one action per transaction, in an open environment |
| `TaskLifecycle` | what taskport promises of a call, without clock, leases, tokens or requests |
| `StoreRefinement` | `Store` mapped onto `TaskLifecycle`; `ImplementsLifecycle` |
| `Execution` | what taskport promises of running a call: `TaskLifecycle` with the script and its directory |
| `WorkerRefinement` | `Worker` mapped onto `Execution`; `ImplementsExecution` |
| `Filing` | what taskport promises of an upload: one moment, or never |
| `UploadsRefinement` | `Uploads` mapped onto `Filing`; `ImplementsFiling` |
| `Worker` | `Store` composed with worker processes, LeaseKeepers, scripts and a lossy network |
| `Uploads` | `Store` composed with the handlers that receive files, and the server's disk |
| `Client` | `Store` composed with users' sessions, late submissions and a mortal reaper |
| `Manifest`, `Packages` | operators: manifests and arguments; paths, archives and directories |
| `Transit` | packages and outputs on their way from disk to disk, entry by entry |
| `StoreProofs`, `StoreRefinementProofs`, `WorkerProofs`, `WorkerRefinementProofs`, `UploadsProofs`, `ClientProofs`, `TransitProofs` | the theorems |
| `MCStore`, `MCWorker`, `MCUploads`, `MCClient`, `MCTransit` | instances for TLC |

`Worker`, `Uploads` and `Client` extend `Store` and take its actions as conjuncts of their
own. Each is shown to make only steps of `Store`, so that the theorems about `Store` hold of
all three.

### Store

The variables are the tables: `definitions` and `latest` (functions), `serves`
(workers), `tasks`, `artifacts`. A row of `tasks` is a record with the columns of the
schema; a missing row has status `absent`, and a NULL time is 0. `inputs` and `version`
are kept as the submission and its resolved version.

A transaction runs under SQLite's write lock and a `Problem` rolls it back, so an
operation is one atomic action and a refused one is a stuttering step. `claim` and
`heartbeat` read `time.time()` before they wait for the lock (store.py:288, 359): each is
an `Arrive` action, which records the reading in `claims` or `beats`, and a `Commit`
action, at any later time and in any order. Among them are late commits of requests
whose sender has long given up. `LockTimeout` is SQLite's 5 s timeout, `Restart` the
death of the server: the handlers are gone, the tables are not.

The environment is open: any request may come at any time, with any arguments, any number
of times. What holds of `Store` thus holds whatever clients and workers do, with one
assumption: a lease token cannot be guessed, so heartbeats bear a token that was issued,
and two tokens are never equal.

`Publish`, `Submit`, `Cancel`, `Expire`, `AddArtifact`, `Complete` and the six outcomes
of a claim (replay, assign, nothing queued, not admissible, id in use, slot in use)
correspond to the methods of those names. `_expire` is `Expired(now)`, applied to the
table before anything else where the code calls it; `_check_lease` is `LeaseHeld`, which
reads the present clock, also in a heartbeat. A refused claim keeps neither the expiry
nor the registration it made, since both roll back.

Left out: `last_seen`, which only views read; the views; the order of errors; error
texts. `Fold` stands for casefold. The index on names is NOCASE, which folds ASCII letters only:
what it finds equal casefold does too, and the row's id has decided it before.
The clock is `time.time()` in ticks, and assumed never to go back. A transaction
takes no time: the several readings of the clock within one (`complete` checks the lease
and then dates the end) are the same.

### TaskLifecycle and StoreRefinement

Status, owner, result and outputs of each call, and six actions: accept, cancel, lose
(any set of running calls), assign, upload, finish. A claim first loses other calls and
then assigns one: `Assign` has the set of calls lost with it. The mapping projects the
tables; heartbeats, arrivals, registrations, publications and time are stuttering steps.

### Worker

`agent[w]` is the run loop of worker `w` with its program counter `pc`: `poll`,
`claiming`, `starting`, `prepare`, `launching`, `script`, `report`, `upload`, `recheck`,
`complete`, `exited`. Between the last look at the lease (`CheckLease`) and the start of the
script (`Launch`) the lease may go; the loop over the running script notices. `keeper[w]` is its LeaseKeeper. `scripts` are the living processes, `launched`
counts their starts, `exits` holds their exit codes, `workspaces` the run directories.

A request goes from `InTransit` to a handler of `Store` (`Handled`) to `Answered`; the
sender may give up at each point. Given up in transit, it may become one of `strays` and
reach the server later. This gives lost requests, lost responses, late requests and
retries under the same id. Uploads and completions, which have one handler each and no
early reading of the clock, are made directly and repeated at will until the worker takes
one for answered; one whose sender gave up may arrive late too (`StrayUploadReaches`,
`StrayCompletionReaches`).

`Crash` is a kill or an exception that leaves `run()`: the script, the handlers and the
strays go on. `Stop` is SIGTERM. A restarted worker has a new identity, so `exited` is
final. `Others` holds the rest of `Store`: clients, administrators, reaper, clock, restart.

`Kills` is what `stop_process_tree` may come to: `killed`, `cleanup error`
(ProcessCleanupError), `other error` (TimeoutExpired, PermissionError). A script stands
for its whole process tree; descendants that survive a script which ended by itself are
not modelled. The download, the package and the inputs are one step that may fail
(`PrepareFails`). The worker's monotonic clock runs at the rate of the server's.

### Execution and WorkerRefinement

`Execution` extends `TaskLifecycle` with one script and one run directory for each call.
Directories are prepared, scripts start, end and are killed, outputs and results arrive,
directories are discarded. Its guards are the promises: a script starts at most once, for
a call that has no result, beside no other of its worker; outputs and results arrive when
the script is at rest; a success has exit code 0 and all outputs; a directory goes only
after a result. Cancellation and loss may come at any time, also before the start: the
worker has yet to learn of them.

The mapping reads `script` off `scripts`, `launched` and `exits` (`ScriptOf`), `kept` off
`workspaces`, and the calls off the tables, as `StoreRefinement` does. Claims, heartbeats,
answers, threads and time are stuttering steps, and so is nearly all of the run loop.
Where `stop_process_tree` may fail in a way the worker does not notice (`CleanKills` is
false), only the promises about rest are waived.

### Uploads

`stage[h]` is how far handler `h` has come with its `request`: `receiving`, `placing`,
`syncing`, `recording`, then `answered` or `failed`; `killed` and `unsynced` are how it
stood when the server died or an exception ended it between the renaming of the file and
the fsync of the directory. `parts` are the `.part` files, `files` the installed contents,
`synced` those whose directory entry is on the disk. `Windows` says that directories cannot be
flushed (server.py:37): there `synced` stays empty and nothing is promised of it. A file is identified with its
contents, as its name is their hash; packages and artifacts are in two directories.

The steps are those of `receive_file`, `install_blob` and `add_artifact` or `publish`.
`Received` ends with the test whether the file exists; `Place` may come after another
handler has installed the same contents, and on Windows may then be refused. A handler that finds the file there does not wait for
the one that is still to flush its directory (server.py:28): `FlushedUnlessInstalling` does
not exclude that window but shows it to be the only one. `Record` and
`Refuse` are the transaction, which checks the lease again. `Abort` is any exception:
disconnection, length, checksum, a bad package, a full disk, SQLite's lock. `StoreGoesOn`
is every other operation of the store. A handler is used once; a client that repeats an
upload uses another.

### Filing and UploadsRefinement

`Filing` has uploads that begin, fail or are filed. To be filed is one step: the thing is
recorded, can be downloaded, and, if it is new, becomes the newest on its shelf. Things
that clash are not filed both, and nothing filed ever goes. The mapping takes the rows of
`artifacts` and `definitions` for what is filed, those whose file is there for what is
readable, names that are equal ignoring case and versions for the spots that clash, and
the default version of a function for the newest. Four stages of a handler are one
abstract `underway`; `Record` is the step that files, a restart fails all at once.

### Client

`session[s]` is a user at work: `new`, `typing` (the command line has asked for the schema
that types its flags), `submitting`, `uncertain` (gave up on the acknowledgment),
`accepted`, `refused`, `conflict`, `waiting`, `ended`. A PUT that creates the call
(`SubmitReaches`) and its acknowledgment (`SubmitAccepted`) are two steps, as the response
may be lost and the PUT repeated; `GiveUp` may leave the PUT on its way, as one of
`strays`. `Repeat` is the same invocation under the same GUID, its flags typed anew.
GUIDs are not assumed fresh. `origin` records which invocation created each call; nothing
reads it but the properties. `Retry` is `Client.retry`, of any call the session knows.

`reaper` is whether the server's reaper task lives: an exception of `store.expire` ends
it for good (server.py:64); a restart of the server brings it back. Retry budgets and the
deadline of `wait` have no clock here: giving up and stopping are possible at any time.

### Manifest, Packages and Transit

A manifest is reduced to the names its schema and command mention: properties, required,
whether additional properties are allowed, placeholders. Paths are sequences of
components. `Fold` is casefold, `Unsafe` the components that `safe_name` refuses, and a
disk is a map of components to what the disk knows them by: the identity, or folding.
`inspect_package`, `validate_arguments`, `check_schema` and `check_command` are operators.

`Transit` follows one tree. A package is packed from a directory, or is an archive of any
origin; it is inspected by the server, submitted to, inspected again, unpacked entry by
entry (`Deliver`, where a file may be in the way of a directory, or the reverse, or be
overwritten), and its command is made. Outputs are collected behind the logs, uploaded
one by one, perhaps not all of them, and downloaded into an empty directory. The disk
distinguishes at least the names that differ when casefolded (`TransitAssumption`).
That files get lost or repeated on the way is the matter of the other modules.

## Runs

Bounds are in the cfg files and appear in guards: `MaxClock` ends time, `MaxClaims` and
`MaxBeats` bound the handlers that wait for the lock, `MaxStrays` the stray requests.
Symmetry is used where only safety is checked.

| Run | Bounds | Shows |
| --- | --- | --- |
| StoreContention | 2 calls, 2 workers, 2 claim ids, lease 2, clock 3, 2 claims waiting | one slot per worker, one call per claim id and token, `lost` only after the lease, oldest first, no reassignment; refines `TaskLifecycle` |
| StoreLease | one call and worker, 2 functions, lease 2, clock 5, 2 heartbeats waiting, two artifact names equal ignoring case, two contents | types, the lease's floor, one function per worker, unique names, final ends, dead leases |
| WorkerTurns | one worker, one call with two output files, 2 claim ids, one heartbeat and one claim waiting, one stray, lease 1, clock 2 | types, no call beside a living script, earned success, uncertain runs kept; refines `Execution` |
| WorkerRivals | 2 workers with `--once`, one call, 2 claims waiting, lease 1, clock 2 | at most one start |
| WorkerCancel | one worker, one call, lease 2, clock 3, fairness below | a cancelled script is stopped |
| ClientCalls | one session, 2 calls, 2 versions, 2 packages that type the same flags differently, one of which admits only one of the two inputs, one stray, lease 1, clock 2 | what is accepted is what was asked; retries repeat; versioned repetition is recognised; pinned packages |
| ClientWaits | one session, one call, one heartbeat waiting, lease 1, clock 2, fairness below | types; the end that is reported; every wait for a running call ends |
| Uploads | 3 handlers, one call, 2 artifacts' and 2 packages' contents, one name, 2 versions, lease 1, clock 2, not on Windows | types; rows have files; `.part` files have owners; flushed files; only steps of `Store`; refines `Filing`, the default version included |
| Transit | trees of up to 12 candidate nodes with `a`, `A`, `a/b`, `A/b`, links, unsafe and ignored names; archives of up to 3 of 13 entries, and one of 4 files; every manifest over 3 names; a disk that ignores case and one that does not; limits of 3 files and 3 bytes | unpacking and downloads succeed, commands are complete, only declared inputs reach them, nothing is overwritten, round trip, limits |
| WorkerReservation | one worker, 2 calls, one stray | violation: a late claim reserves a second call |
| WorkerKill | `other error` may happen | violation: a claim beside a living script |
| ClientRepeat | one session, one call, 2 versions | violation: an invocation conflicts with itself |

The bounds are enough for each race to occur: two handlers suffice for every pair to
commit in either order, with a tick between; in every passing run the clock starts at 1
and ticks at least as often as a lease is long, so that leases run out, and may be reaped
late; two calls are the least for overtaking and double slots, two workers for a rivalry. Two packages and one late
publication are the least for a default that moves between two requests; two handlers of
one content, and a third, for a row that relies on another's file; a node, its namesake in
the other case, and a child of each for every clash of paths. With one call, WorkerTurns
does not exercise that a script of `Execution` starts beside no other of its worker:
`NoSlotWhileScriptLives` sees that there, and the theorem covers any number of calls. `MCTransit` stops when its
story ends, so deadlock is not checked there; it is in all other runs.

### Fairness

- `WaitEnds` assumes that time goes on and that a client that polls is answered again and
  again: `wait` repeats its GET for as long as it lives (client.py:207-228). Nothing is
  assumed of the reaper, which may be dead, of workers, which may have vanished, or of
  other readers: the poll itself expires leases (store.py:272-276). Leases that outlast
  the bounded clock are excepted, and so are calls that no worker has claimed.
- `CancelStopsScript` assumes weak fairness of the run loop's poll (every 50 ms), of the
  LeaseKeeper's steps, of its request timeout and of handlers waiting for the lock, and
  strong fairness of the delivery of heartbeats and their answers: the worker is
  connected, the case the repository's README speaks of. There `stop_process_tree`
  succeeds. Without an answer the lease runs out instead.

### Disagreements the runs show

1. A claim that timed out may still reach the store after its retry was answered 204, and
   reserve a call under an id the worker has dropped (`NoSecondReservation`; README.md:245).
   The call is not executed, the slot is taken, and both last until the lease runs out.
2. Only `ProcessCleanupError` makes a worker stop; a timeout or PermissionError in
   `stop_process_tree` lets it claim again beside the script (`NoSlotWhileScriptLives`;
   the comment in worker.py:311). With the first two outcomes only it holds (WorkerTurns,
   and the theorem `SlotHeldByScript`).
3. A command line with flags, repeated under its GUID after a publication, has its flags
   typed by another schema and may conflict with the call it created itself
   (`RepeatIsRecognised`; README.md:122-124). Naming the version avoids it.

Noticed, but not stated as runs: `heartbeat` writes the reading of the clock it took
before the lock, so one that waited long can move an expiry backwards, though never below
what the claim granted (`LeaseFloor`). A link or an unsafe name among the outputs is met
before any upload, so that the logs stay behind too (worker.py:326-337), where
README.md:214-215 says that a failed script's logs are still uploaded. The server admits
artifacts `A` and `a/b` of one call, which a disk that ignores case cannot hold together:
`taskport artifacts` stops there with an error.

## Proofs

Every theorem is for all values of the constants that satisfy the modules' assumptions
(`StoreAssumption`, `WorkerAssumption`, `UploadsAssumption`, `ClientAssumption`,
`PackagesAssumption`, `TransitAssumption`). No bound is needed:
`MaxClock`, `MaxClaims`, `MaxBeats` and `MaxStrays` are arbitrary.

**Store** (`StoreProofs`, `StoreRefinementProofs`).

- The base is what each operation does to a row (`RowStep`): a row is as it was, or
  expires, is cancelled, submitted, claimed, renewed or completed. `TableStep` says how
  each action of `Next` acts on the tables.
- No property is inductive alone. `Inductive` adds four facts: the columns of a row agree
  with its status (`RowsWellFormed`); accepted calls name a published package
  (`CallsDefined`, which `PinnedToPackage` needs); nothing is dated in the future
  (`TimesPast`: without it a claim that read the clock early could overtake); a heartbeat
  that bears a call's token is younger than its claim (`BeatsFollowClaims`: without it a
  late heartbeat could undercut the lease the claim granted). `NextInductive` has one
  lemma per conjunct; `Invariance` is `Spec => []Inductive`, and the invariants the runs
  check are its conjuncts.
- The action properties follow from `RowStep` and `Inductive`.
- `Implementation` proves `Spec => ImplementsLifecycle`: every step of the store is a step
  of the lifecycle or leaves it alone. `WorkerSlotUnique` and `RowsWellFormed` are what
  makes a claim an `Assign`.

**Compositions.** `UploadsImplementStore`, `ClientDrivesStore` and `WorkerDrivesStore`
prove that each composition makes only steps of `Store`; the invariant of `Store` is then
part of each inductive invariant.

- `UploadsProofs`: `RowsHaveFiles` is inductive only with the fact that a handler in
  `syncing` or `recording` has its file installed; `FlushedUnlessInstalling` with the same
  for unflushed files, since a handler that found the file there does not flush.
- `ClientProofs`: `AcceptedAsAsked` rests on a row's submission never changing (`RowStep`);
  `RetryRepeats` on the original having been accepted, so that its version stands, and on
  packages of a version never changing; `WaitIsTrue` on ends being final.
  `VersionedRepeats` has an invariant of its own (`Meanings`): what flags mean is fixed
  once their version is named, and a call bears out the invocation that created it.
- `WorkerProofs`: the invariant says, of each pair of run loop and LeaseKeeper, which
  fields go with which `pc` (`AgentOK`, `KeeperOK`, `ScriptOK`), and of the whole that a
  script is started only by the worker that owns the call (`Launches`), that its run
  directory stands until a completion is recorded (`Kept`), that a worker with a living
  script watches it or has stopped (`ScriptsWatched`), and that a completion with exit
  code 0, wherever it is on its way, was earned (`Earnings`). The step is argued once per
  worker (`Turn`) and not once per property; `RecordStep` says who may record a completion. `SlotHeldByScript` has the hypothesis that
  `stop_process_tree` raises nothing but `ProcessCleanupError`; without it the property
  is false (run WorkerKill).
- `TransitProofs`: `UnpackingSucceeds` and `DeliveredIntact` follow from keys that are
  apart and files that are leaves, through the disk's map: two paths that the disk takes
  for one fold to one. `RoundTrip` adds that what was packed is a tree, `DownloadsSucceed`
  that outputs and logs together are one. `UnpackedWithinLimits` speaks of the bytes of an
  archive as a set, each byte with its entry (`Bytes`), since about a sum the provers cannot
  argue by induction: what is on the disk is then a subset of what was inspected.
  `UndeclaredStayOut` rests on every published manifest having been inspected: what
  `check_command` admits is a placeholder of a declared property or of a reserved name,
  and `validate_arguments` may let other names in, where the schema is open.

**Refinements.** Each is proved as the initial states and one lemma per action, under the
inductive invariant; the lemmas say of each action which abstract action it is.

- `ExecutionImplemented` (`WorkerRefinementProofs`) needs more than `WorkerInductive`: what
  no worker does *any more*. `Settled` says that of a call whose result is recorded its
  worker only awaits the answer (otherwise a directory could be prepared, or a script
  started, after the end); that a completion whose sender gave up is of a call that worker
  has left as it was, directory included; that an upload whose sender gave up is of a call
that worker is reporting on or has left, its directory there while there is no result; that
an exit code is of a script that has run and
  runs no more; that a directory belongs to the worker that owns the call. TLC checked
  `Settled` as an invariant, on the instances of WorkerTurns and WorkerRivals and on one of
  two calls, before it was proved. The theorem makes no assumption about `Kills`: what
  fails without clean kills is in `Execution`, by name.
- `UploadsAreAtomic` (`UploadsProofs`) rests on `Installed` and `RowsHaveFiles`: by them what
  is filed is what is readable in each state, and the row's transaction adds to both.
- `WorkersKeepLifecycle`, `UploadsKeepLifecycle` and `ClientsKeepLifecycle` carry
  `Implementation` over to the compositions.

`WorkerAssumption` says that exit codes are integers and `None`, which stands for the lack
of one, is none of them.

Every safety property of a passing run is a theorem, refinements included. Only
model-checked are the liveness properties `WaitEnds` and `CancelStopsScript`, which with
fairness and ENABLED are beyond the proof system; the violations are TLC's. The reverse is
`DefaultNeverMovesBack`, a theorem (`DefaultMovesForward`) that no run checks, as
`ImplementsFiling` says it of the default of each function.

## Not modelled

The ZIP and HTTP formats, JSON Schema beyond the names it mentions, authentication,
printing, argparse and exit codes, the lengths of names, `last_seen` and the views, the
worker's package cache (its hash is checked at each use), the restarts of
`download_file` (its temporary file is replaced atomically when the hash is right), and
wall-clock budgets, in place of which giving up is possible at any time. Descendants that
survive a script which ended by itself, clocks that run backwards or at different rates.
The examples and tests are not part of the running system.

## Plan

1. A power failure in `Uploads`: what is not in `synced` may go, and which rows then name
   no file (410 in `download_artifact`).
2. Several concurrent downloads into one directory, with the restarts of `download_file`.
3. A session that acts through several handles at once, with `cancel` among them.
4. An abstract specification of submissions (asked, accepted, ended), which sessions and
   their late PUTs implement.
