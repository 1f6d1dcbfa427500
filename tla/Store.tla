------------------------------- MODULE Store -------------------------------
(***************************************************************************)
(* The taskport store (src/taskport/store.py): one SQLite database that is *)
(* the authority for definitions, submissions, ownership and completion.   *)
(* Every operation is one BEGIN IMMEDIATE transaction, so it is one atomic *)
(* action; an operation that raises Problem rolls back, which leaves every *)
(* table as it was, and is a stuttering step.  Two handlers, claim and     *)
(* heartbeat, read time.time() BEFORE they wait for the write lock: each   *)
(* is two actions, Arrive (read the clock) and Commit (the transaction),   *)
(* and between them time passes and other transactions commit.             *)
(*                                                                         *)
(* The environment is open: any request may arrive at any time, with any   *)
(* arguments, any number of times.  Only lease tokens are constrained:     *)
(* secrets.token_urlsafe(32) cannot be guessed, so a request bears a token *)
(* the store has issued.                                                   *)
(***************************************************************************)
EXTENDS Integers, FiniteSets

CONSTANTS
    Functions,      \* function names
    Versions,       \* version labels
    Packages,       \* package contents: a manifest and its digest
    Inputs,         \* canonical input documents
    Valid,          \* the pairs <<package, inputs>> the manifest's schema accepts
    TaskIds,        \* client-generated call GUIDs
    WorkerIds,      \* worker process identities
    RequestIds,     \* claim request GUIDs
    Tokens,         \* lease tokens
    Names,          \* artifact names
    Fold,           \* name.casefold(), which alone decides an artifact's id
    Blobs,          \* artifact contents: a digest and a size
    Completions,    \* completion documents
    LeaseSeconds,   \* lease duration, in clock ticks
    MaxClock,       \* bound: the clock stops here
    MaxClaims,      \* bound: claim handlers that wait for the lock at once
    MaxBeats,       \* bound: heartbeat handlers that wait for the lock at once
    None            \* SQL NULL

ASSUME StoreAssumption ==
    /\ Valid \subseteq Packages \X Inputs
    /\ Fold \in [Names -> Names]
    /\ \A c \in Completions : c.exit_code \in Int /\ c.error \in BOOLEAN
    /\ LeaseSeconds \in Nat \ {0}
    /\ MaxClock \in Nat
    /\ MaxClaims \in Nat
    /\ MaxBeats \in Nat
    /\ None \notin UNION {Versions, Packages, WorkerIds, RequestIds, Tokens,
                          Functions, Completions}

VARIABLES
    definitions,    \* table definitions: the package published as each function@version
    latest,         \* table functions: the default version of each function
    serves,         \* table workers: the function a registered worker serves
    tasks,          \* table tasks
    artifacts,      \* table artifacts, per task
    claims,         \* claim handlers that have read the clock and await the lock
    beats,          \* heartbeat handlers that have read the clock and await the lock
    clock           \* the server's time.time()

catalog == <<definitions, latest>>
pending == <<claims, beats>>
vars == <<definitions, latest, serves, tasks, artifacts, claims, beats, clock>>

Submissions == [function : Functions, version : Versions \cup {None}, inputs : Inputs]

Terminal == {"succeeded", "failed", "lost", "cancelled"}
Status == {"absent", "queued", "running"} \cup Terminal

Row == [submission : Submissions \cup {None},
        version : Versions \cup {None},
        status : Status,
        created : Nat,
        started : Nat,
        finished : Nat,
        worker : WorkerIds \cup {None},
        claim : RequestIds \cup {None},
        token : Tokens \cup {None},
        expires : Nat,
        completion : Completions \cup {None}]

\* No row with this id.  A NULL time is 0: the clock starts at 1.
NoRow == [submission |-> None, version |-> None, status |-> "absent",
          created |-> 0, started |-> 0, finished |-> 0,
          worker |-> None, claim |-> None, token |-> None, expires |-> 0,
          completion |-> None]

Artifact == [name : Names, blob : Blobs]
ClaimCall == [worker : WorkerIds, function : Functions, request : RequestIds, now : Nat]
Beat == [task : TaskIds, token : Tokens, now : Nat]

TypeOK ==
    /\ definitions \in [Functions -> [Versions -> Packages \cup {None}]]
    /\ latest \in [Functions -> Versions \cup {None}]
    /\ serves \in [WorkerIds -> Functions \cup {None}]
    /\ tasks \in [TaskIds -> Row]
    /\ artifacts \in [TaskIds -> SUBSET Artifact]
    /\ claims \in SUBSET ClaimCall
    /\ beats \in SUBSET Beat
    /\ clock \in Nat

Init ==
    /\ definitions = [f \in Functions |-> [v \in Versions |-> None]]
    /\ latest = [f \in Functions |-> None]
    /\ serves = [w \in WorkerIds |-> None]
    /\ tasks = [t \in TaskIds |-> NoRow]
    /\ artifacts = [t \in TaskIds |-> {}]
    /\ claims = {}
    /\ beats = {}
    /\ clock = 1

-----------------------------------------------------------------------------
(* What the operations share.                                              *)

\* Mutant: the comparison the wrong way round, so that fresh leases are reaped.
LapsedSwapped(row, now) == row.status = "running" /\ now <= row.expires

\* A running row whose lease has run out becomes lost.
Lapsed(row, now) == row.status = "running" /\ row.expires <= now

\* Mutant: an expired call is put back in the queue.
LoseIfLapsedByRequeue(row, now) ==
    IF Lapsed(row, now) THEN [row EXCEPT !.status = "queued"] ELSE row

\* Mutant: a status that nothing else knows of.
LoseIfLapsedAsExpired(row, now) ==
    IF Lapsed(row, now) THEN [row EXCEPT !.status = "expired", !.finished = now] ELSE row

LoseIfLapsed(row, now) ==
    IF Lapsed(row, now)
    THEN [row EXCEPT !.status = "lost", !.finished = now]
    ELSE row

\* The tasks table after _expire(connection, now).
Expired(now) == [t \in TaskIds |-> LoseIfLapsed(tasks[t], now)]

\* The version a submission resolves to, None when there is no such function.
Resolve(s) == IF s.version = None THEN latest[s.function] ELSE s.version

Defined(f, v) == v # None /\ definitions[f][v] # None

\* Mutant: the lease counts as held until someone marks the call lost.
LeaseHeldUntilReaped(t, k) == tasks[t].status = "running" /\ tasks[t].token = k

\* _check_lease: the state, the token and the time, read inside the transaction.
LeaseHeld(t, k) ==
    /\ tasks[t].status = "running"
    /\ tasks[t].token = k
    /\ tasks[t].expires > clock

Issued == {tasks[t].token : t \in TaskIds} \ {None}

RunningOn(rows, w) == {t \in TaskIds : rows[t].status = "running" /\ rows[t].worker = w}

Queue(rows, f) ==
    {t \in TaskIds : rows[t].status = "queued" /\ rows[t].submission.function = f}

\* Mutant: ORDER BY created DESC.
OldestDescending(rows, f) ==
    {t \in Queue(rows, f) : \A u \in Queue(rows, f) : rows[t].created >= rows[u].created}

\* ORDER BY created, id LIMIT 1.  Ids are random, so ties are broken arbitrarily.
Oldest(rows, f) ==
    {t \in Queue(rows, f) : \A u \in Queue(rows, f) : rows[t].created <= rows[u].created}

\* Mutant: only claims still running are remembered.
ClaimedRunning(rows, r) == {t \in TaskIds : rows[t].claim = r /\ rows[t].status = "running"}

Claimed(rows, r) == {t \in TaskIds : rows[t].claim = r}

-----------------------------------------------------------------------------
(* Definitions.                                                            *)

\* Mutants: a version published over; an old publication made the default again.
PublishableAlways(f, v, p) == p \in Packages
DefaultAfterAny(f, v) == [latest EXCEPT ![f] = v]

\* A version is immutable: it can be published again only as it was.
Publishable(f, v, p) == definitions[f][v] \in {None, p}

\* Repeating a publication does not move the default back to it.
DefaultAfter(f, v) ==
    IF definitions[f][v] = None THEN [latest EXCEPT ![f] = v] ELSE latest

Publish(f, v, p) ==
    /\ Publishable(f, v, p)
    /\ definitions' = [definitions EXCEPT ![f][v] = p]
    /\ latest' = DefaultAfter(f, v)
    /\ UNCHANGED <<serves, tasks, artifacts, pending, clock>>

-----------------------------------------------------------------------------
(* Calls.                                                                  *)

\* A known id returns the existing call (or 409), whatever the arguments.
Submit(t, s) ==
    /\ tasks[t].status = "absent"
    /\ Defined(s.function, Resolve(s))
    /\ <<definitions[s.function][Resolve(s)], s.inputs>> \in Valid
    /\ tasks' = [tasks EXCEPT ![t] = [NoRow EXCEPT !.submission = s,
                                                   !.version = Resolve(s),
                                                   !.status = "queued",
                                                   !.created = clock]]
    /\ UNCHANGED <<catalog, serves, artifacts, pending, clock>>

\* Mutant: any known call.
CancellableAlways(t) == tasks[t].status # "absent"

Cancellable(t) == tasks[t].status \in {"queued", "running"}

Cancel(t) ==
    /\ Cancellable(t)
    /\ tasks' = [tasks EXCEPT ![t].status = "cancelled", ![t].finished = clock]
    /\ UNCHANGED <<catalog, serves, artifacts, pending, clock>>

\* The reaper, and every read (get, tasks, functions, workers): they expire first.
Expire ==
    /\ tasks' = Expired(clock)
    /\ UNCHANGED <<catalog, serves, artifacts, pending, clock>>

-----------------------------------------------------------------------------
(* Workers and ownership.                                                  *)

ClaimArrive(w, f, r) ==
    /\ Cardinality(claims) < MaxClaims
    /\ claims' = claims \cup {[worker |-> w, function |-> f, request |-> r, now |-> clock]}
    /\ UNCHANGED <<catalog, serves, tasks, artifacts, beats, clock>>

\* Mutant: a worker may ask for another function than the one it registered for.
AdmissibleForAny(c) == Defined(c.function, latest[c.function])

\* The checks every claim passes before it may register the worker.
Admissible(c) ==
    /\ Defined(c.function, latest[c.function])
    /\ serves[c.worker] \in {None, c.function}

\* INSERT ... ON CONFLICT(id) leaves the function of a known worker alone.
Register(c) ==
    serves' = [serves EXCEPT ![c.worker] = IF @ = None THEN c.function ELSE @]

\* The request id already has an assignment, still running: it is returned again.
ClaimReplay(c) ==
    /\ Admissible(c)
    /\ \E t \in Claimed(Expired(c.now), c.request) :
           /\ tasks[t].worker = c.worker
           /\ tasks[t].submission.function = c.function
           /\ Expired(c.now)[t].status = "running"
    /\ Register(c)
    /\ tasks' = Expired(c.now)

\* Mutant: the slot is left to the unique index.
FreeToClaimAnySlot(c) == Admissible(c) /\ Claimed(Expired(c.now), c.request) = {}

FreeToClaim(c) ==
    /\ Admissible(c)
    /\ Claimed(Expired(c.now), c.request) = {}
    /\ RunningOn(Expired(c.now), c.worker) = {}

\* 204: nothing queued.  The request id leaves no trace.
ClaimNothing(c) ==
    /\ FreeToClaim(c)
    /\ Queue(Expired(c.now), c.function) = {}
    /\ Register(c)
    /\ tasks' = Expired(c.now)

ClaimAssign(c, t, k) ==
    /\ FreeToClaim(c)
    /\ t \in Oldest(Expired(c.now), c.function)
    /\ k \notin Issued
    /\ Register(c)
    /\ tasks' = [Expired(c.now) EXCEPT
                     ![t].status = "running",
                     ![t].started = c.now,
                     ![t].worker = c.worker,
                     ![t].claim = c.request,
                     ![t].token = k,
                     ![t].expires = c.now + LeaseSeconds]

ClaimSucceeds(c) ==
    \/ ClaimReplay(c)
    \/ ClaimNothing(c)
    \/ \E t \in TaskIds, k \in Tokens : ClaimAssign(c, t, k)

\* 404 or 409: the transaction rolls back, its _expire and its registration included.
ClaimRefused(c) ==
    /\ \/ ~Admissible(c)
       \/ \E t \in Claimed(Expired(c.now), c.request) :
              \/ tasks[t].worker # c.worker
              \/ tasks[t].submission.function # c.function
              \/ Expired(c.now)[t].status # "running"
       \/ /\ Claimed(Expired(c.now), c.request) = {}
          /\ RunningOn(Expired(c.now), c.worker) # {}
    /\ UNCHANGED <<serves, tasks>>

ClaimCommit(c) ==
    /\ claims' = claims \ {c}
    /\ ClaimSucceeds(c) \/ ClaimRefused(c)
    /\ UNCHANGED <<catalog, artifacts, beats, clock>>

BeatArrive(t, k) ==
    /\ Cardinality(beats) < MaxBeats
    /\ k \in Issued
    /\ beats' = beats \cup {[task |-> t, token |-> k, now |-> clock]}
    /\ UNCHANGED <<catalog, serves, tasks, artifacts, claims, clock>>

\* Mutant: renewed to the time of arrival, not past it.
RenewedToNow(b) == b.now

\* The lease is checked against the present, and renewed from the time of arrival.
RenewedTo(b) == b.now + LeaseSeconds

BeatCommit(b) ==
    /\ beats' = beats \ {b}
    /\ tasks' = IF LeaseHeld(b.task, b.token)
                THEN [tasks EXCEPT ![b.task].expires = RenewedTo(b)]
                ELSE tasks
    /\ UNCHANGED <<catalog, serves, artifacts, claims, clock>>

\* Mutant: names are compared as they are.
FitsCaseSensitive(t, a) == \A other \in artifacts[t] : other.name = a.name => other = a

\* artifacts.id is uuid5(task, casefolded name): one row for each folded name.  The
\* index is NOCASE, which folds ASCII only and finds nothing that casefold does not.
Fits(t, a) == \A other \in artifacts[t] : Fold[other.name] = Fold[a.name] => other = a

AddArtifact(t, k, a) ==
    /\ LeaseHeld(t, k)
    /\ Fits(t, a)
    /\ artifacts' = [artifacts EXCEPT ![t] = @ \cup {a}]
    /\ UNCHANGED <<catalog, serves, tasks, pending, clock>>

OutcomeOf(c) == IF c.exit_code = 0 /\ ~c.error THEN "succeeded" ELSE "failed"

\* Mutant: the token alone authorises a completion.
MayCompleteByToken(t, k) == tasks[t].completion = None /\ tasks[t].token = k

\* Repeating a recorded completion with its token returns the row; another one is 409.
MayComplete(t, k) == tasks[t].completion = None /\ LeaseHeld(t, k)

Complete(t, k, c) ==
    /\ MayComplete(t, k)
    /\ tasks' = [tasks EXCEPT ![t].status = OutcomeOf(c),
                              ![t].completion = c,
                              ![t].finished = clock]
    /\ UNCHANGED <<catalog, serves, artifacts, pending, clock>>

-----------------------------------------------------------------------------
(* The environment of the store.                                           *)

\* Time passes; it never goes back.
Tick ==
    /\ clock < MaxClock
    /\ clock' = clock + 1
    /\ UNCHANGED <<catalog, serves, tasks, artifacts, pending>>

\* A handler gives up on the lock after SQLite's timeout, and answers 500.
LockTimeout ==
    /\ \/ \E c \in claims : claims' = claims \ {c} /\ UNCHANGED beats
       \/ \E b \in beats : beats' = beats \ {b} /\ UNCHANGED claims
    /\ UNCHANGED <<catalog, serves, tasks, artifacts, clock>>

\* The server process dies and restarts: the tables survive, its handlers do not.
Restart ==
    /\ claims' = {}
    /\ beats' = {}
    /\ UNCHANGED <<catalog, serves, tasks, artifacts, clock>>

Next ==
    \/ \E f \in Functions, v \in Versions, p \in Packages : Publish(f, v, p)
    \/ \E t \in TaskIds, s \in Submissions : Submit(t, s)
    \/ \E t \in TaskIds : Cancel(t)
    \/ Expire
    \/ \E w \in WorkerIds, f \in Functions, r \in RequestIds : ClaimArrive(w, f, r)
    \/ \E c \in claims : ClaimCommit(c)
    \/ \E t \in TaskIds, k \in Tokens : BeatArrive(t, k)
    \/ \E b \in beats : BeatCommit(b)
    \/ \E t \in TaskIds, k \in Tokens, a \in Artifact : AddArtifact(t, k, a)
    \/ \E t \in TaskIds, k \in Tokens, c \in Completions : Complete(t, k, c)
    \/ Tick
    \/ LockTimeout
    \/ Restart

Spec == Init /\ [][Next]_vars

-----------------------------------------------------------------------------
(* Invariants.                                                             *)

\* A worker identity owns at most one running call: the claim's own check
\* keeps the partial unique index worker_slot from ever being hit, so no claim
\* ends in an IntegrityError.
WorkerSlotUnique ==
    \A w \in WorkerIds : \A t, u \in RunningOn(tasks, w) : t = u

\* A claim request id and a lease token belong to one call for ever: a replayed
\* or delayed claim can never reserve a second call under the same id, and the
\* token of one execution never opens another.
ClaimUnique ==
    \A t, u \in TaskIds :
        /\ tasks[t].claim = tasks[u].claim /\ tasks[t].claim # None => t = u
        /\ tasks[t].token = tasks[u].token /\ tasks[t].token # None => t = u

\* However late a heartbeat commits, and in whatever order heartbeats commit,
\* the lease lasts at least as long as the claim granted.
LeaseFloor ==
    \A t \in TaskIds :
        tasks[t].claim # None => tasks[t].expires >= tasks[t].started + LeaseSeconds

\* "lost" means the lease expired: no reader, reaper or claim with an old
\* reading of the clock declares a call lost before its lease has run out.
LostOnlyAfterLease ==
    \A t \in TaskIds : tasks[t].status = "lost" => tasks[t].expires <= tasks[t].finished

\* Calls of a function are assigned oldest first: no younger call is ever
\* assigned while an older one waits.
NoOvertaking ==
    \A t, u \in TaskIds :
        /\ tasks[t].status # "absent"
        /\ tasks[u].claim # None
        /\ tasks[t].submission.function = tasks[u].submission.function
        /\ tasks[t].created < tasks[u].created
        => tasks[t].status # "queued"

\* A call only ever runs on a worker registered for its function, whatever
\* functions other claims by that worker name.
WorkerServesOneFunction ==
    \A t \in TaskIds :
        tasks[t].claim # None => serves[tasks[t].worker] = tasks[t].submission.function

\* Artifact names of a call are unique ignoring case.
ArtifactNamesUnique ==
    \A t \in TaskIds : \A a, b \in artifacts[t] : Fold[a.name] = Fold[b.name] => a = b

\* The columns of a row agree with its status: what a claim writes is there from
\* the claim on and not before, and a result is there exactly after completion.
WellFormed(row) ==
    /\ (row.worker = None) = (row.claim = None)
    /\ (row.token = None) = (row.claim = None)
    /\ row.status \in {"absent", "queued"} => row.claim = None
    /\ row.status \in {"running", "lost", "succeeded", "failed"} => row.claim # None
    /\ (row.completion # None) = (row.status \in {"succeeded", "failed"})
    /\ row.status # "absent" => row.submission \in Submissions /\ row.version \in Versions

RowsWellFormed == \A t \in TaskIds : WellFormed(tasks[t])

\* Each accepted call names a published package whose schema accepts its inputs.
PackageOf(t) == definitions[tasks[t].submission.function][tasks[t].version]

CallsDefined ==
    \A t \in TaskIds :
        tasks[t].status # "absent" => <<PackageOf(t), tasks[t].submission.inputs>> \in Valid

\* Nothing is dated in the future, handlers that wait for the lock included.
TimesPast ==
    /\ \A t \in TaskIds : tasks[t].created <= clock /\ tasks[t].started <= clock
    /\ \A c \in claims : c.now <= clock
    /\ \A b \in beats : b.now <= clock

\* A heartbeat bears the token of an earlier claim: it cannot precede the claim
\* whose lease it renews, however long it waits.
BeatsFollowClaims ==
    \A b \in beats :
        /\ b.token \in Issued
        /\ tasks[b.task].token = b.token => tasks[b.task].started <= b.now

\* The inductive invariant.
Inductive ==
    /\ TypeOK
    /\ RowsWellFormed
    /\ CallsDefined
    /\ TimesPast
    /\ BeatsFollowClaims
    /\ WorkerSlotUnique
    /\ ClaimUnique
    /\ LeaseFloor
    /\ LostOnlyAfterLease
    /\ NoOvertaking
    /\ WorkerServesOneFunction
    /\ ArtifactNamesUnique

-----------------------------------------------------------------------------
(* Action properties.                                                      *)

\* Terminal calls are immutable: no late completion, heartbeat, upload, cancel
\* or expiry changes the row or its artifacts.
TerminalImmutable ==
    [][\A t \in TaskIds :
          tasks[t].status \in Terminal =>
              tasks'[t] = tasks[t] /\ artifacts'[t] = artifacts[t]]_vars

\* The server never requeues or reassigns: once claimed, a call keeps its
\* worker, its claim and its token, whatever becomes of the lease.
NeverReassigned ==
    [][\A t \in TaskIds :
          tasks[t].claim # None =>
              /\ tasks'[t].status # "queued"
              /\ tasks'[t].worker = tasks[t].worker
              /\ tasks'[t].claim = tasks[t].claim
              /\ tasks'[t].token = tasks[t].token
              /\ tasks'[t].started = tasks[t].started]_vars

\* A lease that has run out stays dead before anyone has marked the call lost:
\* it is not renewed, and it lets no artifact and no completion in.
LapsedLeaseIsDead ==
    [][\A t \in TaskIds :
          Lapsed(tasks[t], clock) =>
              /\ tasks'[t].status \in {"running", "lost", "cancelled"}
              /\ tasks'[t].expires = tasks[t].expires
              /\ artifacts'[t] = artifacts[t]]_vars

\* Each call is pinned to one package when it is accepted, one whose schema
\* accepts its inputs; later publications do not change what it will execute.
PinnedToPackage ==
    [][\A t \in TaskIds :
          tasks[t].status # "absent" =>
              /\ <<PackageOf(t), tasks[t].submission.inputs>> \in Valid
              /\ tasks'[t].submission = tasks[t].submission
              /\ PackageOf(t)' = PackageOf(t)]_vars

\* The default version only ever moves to a version first published in that
\* very step: repeating an old publication does not move it backwards.
DefaultNeverMovesBack ==
    [][\A f \in Functions :
          latest'[f] # latest[f] =>
              /\ definitions[f][latest'[f]] = None
              /\ definitions'[f][latest'[f]] # None]_vars

=============================================================================
