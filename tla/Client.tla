------------------------------- MODULE Client -------------------------------
(***************************************************************************)
(* Users' invocations (src/taskport/client.py, src/taskport/cli.py) of a   *)
(* server whose reaper (src/taskport/server.py) may have died.  A session  *)
(* is a user at work: a call by the SDK or a command line, repeated under  *)
(* the same GUID if its acknowledgment is lost, waited for, and retried.   *)
(*                                                                         *)
(* A submission is one PUT, sent again until it is answered or the retry   *)
(* budget is spent; a PUT in transit may arrive after its sender has given *)
(* up.  The command line first types its --flags by the schema that GET    *)
(* /functions/{name} returns, so an invocation is two requests.            *)
(*                                                                         *)
(* GUIDs are not assumed fresh: --request-id lets a user choose one that   *)
(* names another call.                                                     *)
(***************************************************************************)
EXTENDS Store

CONSTANTS
    Sessions,   \* users at work
    Flags,      \* the --flags of a command line, as text
    Typed,      \* what parse_arguments makes of flags by a package's schema
    Asks,       \* bound: the invocations users make
    MaxStrays   \* bound: submissions in transit whose sender has given up

\* What a user asks for: a function, a version or the default, and inputs, as such (the
\* SDK, --input-json) or as flags that are yet to be typed.
Invocation ==
    [function : Functions, version : Versions \cup {None}, flags : {None}, inputs : Inputs]
    \cup [function : Functions, version : Versions \cup {None}, flags : Flags, inputs : {None}]

ASSUME ClientAssumption ==
    /\ Typed \in [Packages \X Flags -> Inputs \cup {None}]
    /\ None \notin Inputs \cup Flags \cup TaskIds \cup Invocation
    /\ Asks \subseteq Invocation
    /\ MaxStrays \in Nat

VARIABLES
    session,    \* what each user is doing
    strays,     \* submissions in transit whose sender has given up
    origin,     \* the invocation that created each call
    reaper      \* the server's reaper task is alive

store == vars
users == <<session, strays, origin>>
cvars == <<store, users, reaper>>

Session == [pc : {"new", "typing", "submitting", "uncertain", "refused", "conflict",
                  "accepted", "waiting", "ended"},
            task : TaskIds \cup {None},
            asked : Invocation \cup {None},
            inputs : Inputs \cup {None},
            seen : Terminal \cup {None},
            original : TaskIds \cup {None}]

New == [pc |-> "new", task |-> None, asked |-> None, inputs |-> None, seen |-> None,
        original |-> None]

Put == [task : TaskIds, asked : Invocation, inputs : Inputs]

ClientTypeOK ==
    /\ session \in [Sessions -> Session]
    /\ strays \in SUBSET Put
    /\ origin \in [TaskIds -> Invocation \cup {None}]
    /\ reaper \in BOOLEAN

ClientInit ==
    /\ Init
    /\ session = [s \in Sessions |-> New]
    /\ strays = {}
    /\ origin = [t \in TaskIds |-> None]
    /\ reaper = TRUE

-----------------------------------------------------------------------------
(* Invocations.                                                            *)

\* The submission that is sent: its version is as the user gave it.
Submission(m) == [function |-> m.asked.function, version |-> m.asked.version,
                  inputs |-> m.inputs]

Move(s, new) == session' = [session EXCEPT ![s] = new]

\* Flags are typed first; anything else is submitted as it is.
Begun(m, a) == [m EXCEPT !.pc = IF a.flags = None THEN "submitting" ELSE "typing",
                         !.asked = a, !.inputs = a.inputs]

\* Client.submit or `taskport call`, under a new GUID or one of the user's choice.
Call(s, t, a) ==
    /\ session[s].pc = "new"
    /\ Move(s, [Begun(New, a) EXCEPT !.task = t])
    /\ UNCHANGED <<store, strays, origin, reaper>>

\* The package whose schema types the flags: that of the version asked for, or of the default.
Described(q) == definitions[q.function][Resolve(q)]

\* parse_arguments: describe, then a value for each flag.
Type(s) ==
    /\ session[s].pc = "typing"
    /\ Defined(session[s].asked.function, Resolve(session[s].asked))
    /\ LET inputs == Typed[<<Described(session[s].asked), session[s].asked.flags>>] IN
       /\ inputs # None
       /\ Move(s, [session[s] EXCEPT !.pc = "submitting", !.inputs = inputs])
    /\ UNCHANGED <<store, strays, origin, reaper>>

\* 404, a flag the schema does not know, or an outage: nothing is submitted.
TypingFails(s) ==
    /\ session[s].pc = "typing"
    /\ Move(s, [session[s] EXCEPT !.pc = "refused"])
    /\ UNCHANGED <<store, strays, origin, reaper>>

\* A PUT that creates the call.  Its sender learns of it later, or never.
Create(m) ==
    /\ Submit(m.task, Submission(m))
    /\ origin' = [origin EXCEPT ![m.task] = m.asked]

SubmitReaches(s) ==
    /\ session[s].pc = "submitting"
    /\ Create(session[s])
    /\ UNCHANGED <<session, strays, reaper>>

\* Mutant: a known id is enough.
KnownId(m) == tasks[m.task].status # "absent"

\* existing["submission"] == request
Known(m) == tasks[m.task].status # "absent" /\ tasks[m.task].submission = Submission(m)

SubmitAccepted(s) ==
    /\ session[s].pc = "submitting"
    /\ Known(session[s])
    /\ Move(s, [session[s] EXCEPT !.pc = "accepted"])
    /\ UNCHANGED <<store, strays, origin, reaper>>

\* 409: "Request ID already exists with different arguments".
SubmitConflicts(s) ==
    /\ session[s].pc = "submitting"
    /\ tasks[session[s].task].status # "absent"
    /\ ~Known(session[s])
    /\ Move(s, [session[s] EXCEPT !.pc = "conflict"])
    /\ UNCHANGED <<store, strays, origin, reaper>>

\* 404, 422, or SQLite's lock timeout as a 500.
SubmitRefused(s) ==
    /\ session[s].pc = "submitting"
    /\ Move(s, [session[s] EXCEPT !.pc = "refused"])
    /\ UNCHANGED <<store, strays, origin, reaper>>

\* Unavailable, or the process is killed: the PUT may be lost or still on its way.
GiveUp(s) ==
    /\ session[s].pc = "submitting"
    /\ Move(s, [session[s] EXCEPT !.pc = "uncertain"])
    /\ \/ UNCHANGED strays
       \/ /\ Cardinality(strays) < MaxStrays
          /\ strays' = strays \cup {[task |-> session[s].task, asked |-> session[s].asked,
                                     inputs |-> session[s].inputs]}
    /\ UNCHANGED <<store, origin, reaper>>

StrayReaches(m) ==
    /\ Create(m)
    /\ strays' = strays \ {m}
    /\ UNCHANGED <<session, reaper>>

\* Lost, or refused with no one to hear of it.
StrayEnds(m) ==
    /\ strays' = strays \ {m}
    /\ UNCHANGED <<store, session, origin, reaper>>

\* "repeat the same invocation with `--request-id <original-guid>`": flags are typed anew.
Repeat(s) ==
    /\ session[s].pc = "uncertain"
    /\ Move(s, Begun(session[s], session[s].asked))
    /\ UNCHANGED <<store, strays, origin, reaper>>

-----------------------------------------------------------------------------
(* Waiting and retrying.                                                   *)

\* Mutant: a read shows the rows as they are.
ReadAsIs == tasks

\* Every read of a call expires leases first.
Read == Expired(clock)

StartWait(s) ==
    /\ session[s].pc = "accepted"
    /\ Move(s, [session[s] EXCEPT !.pc = "waiting"])
    /\ UNCHANGED <<store, strays, origin, reaper>>

\* Mutant: the row is read before the leases are expired.
PollReadsFirst(s) ==
    /\ session[s].pc = "waiting"
    /\ tasks' = Read
    /\ IF Read[session[s].task].status \in Terminal
       THEN Move(s, [session[s] EXCEPT !.pc = "ended", !.seen = tasks[session[s].task].status])
       ELSE UNCHANGED session
    /\ UNCHANGED <<catalog, serves, artifacts, pending, clock, strays, origin, reaper>>

\* A poll that is answered.
Poll(s) ==
    /\ session[s].pc = "waiting"
    /\ tasks' = Read
    /\ IF Read[session[s].task].status \in Terminal
       THEN Move(s, [session[s] EXCEPT !.pc = "ended",
                                       !.seen = Read[session[s].task].status])
       ELSE UNCHANGED session
    /\ UNCHANGED <<catalog, serves, artifacts, pending, clock, strays, origin, reaper>>

\* WaitTimeout, an interrupt, or a 500, which is not retried: nothing is cancelled.
StopWaiting(s) ==
    /\ session[s].pc = "waiting"
    /\ Move(s, [session[s] EXCEPT !.pc = "accepted"])
    /\ UNCHANGED <<store, strays, origin, reaper>>

\* Mutant: retried with the version selection of the original.
RetriedAsAsked(row) == row.submission.version

\* task["version"]: the resolved version of the original.
RetriedVersion(row) == row.version

\* Client.retry: read the call, which must have ended, and submit it anew.
Retry(s, t) ==
    /\ session[s].pc \in {"uncertain", "accepted", "ended"}
    /\ LET old == session[s].task
           q == tasks[old].submission
       IN /\ Read[old].status \in Terminal
          /\ Move(s, [Begun(New, [function |-> q.function,
                                  version |-> RetriedVersion(tasks[old]),
                                  flags |-> None, inputs |-> q.inputs])
                          EXCEPT !.task = t, !.original = old])
    /\ tasks' = Read
    /\ UNCHANGED <<catalog, serves, artifacts, pending, clock, strays, origin, reaper>>

-----------------------------------------------------------------------------
(* The server, its administrators and the workers.                         *)

Reap == reaper /\ Expire /\ UNCHANGED <<users, reaper>>

\* store.expire raises (SQLite's lock timeout): the exception ends the task for good.
ReaperDies ==
    /\ reaper
    /\ reaper' = FALSE
    /\ UNCHANGED <<store, users>>

RestartServer ==
    /\ Restart
    /\ reaper' = TRUE
    /\ UNCHANGED users

StoreGoesOn ==
    /\ \/ \E f \in Functions, v \in Versions, p \in Packages : Publish(f, v, p)
       \/ \E t \in TaskIds : Cancel(t)
       \/ \E w \in WorkerIds, f \in Functions, r \in RequestIds : ClaimArrive(w, f, r)
       \/ \E c \in claims : ClaimCommit(c)
       \/ \E t \in TaskIds, k \in Tokens : BeatArrive(t, k)
       \/ \E b \in beats : BeatCommit(b)
       \/ \E t \in TaskIds, k \in Tokens, a \in Artifact : AddArtifact(t, k, a)
       \/ \E t \in TaskIds, k \in Tokens, c \in Completions : Complete(t, k, c)
       \/ LockTimeout
    /\ UNCHANGED <<users, reaper>>

Passes == Tick /\ UNCHANGED <<users, reaper>>

SessionStep(s) ==
    \/ \E t \in TaskIds, a \in Asks : Call(s, t, a)
    \/ Type(s) \/ TypingFails(s)
    \/ SubmitReaches(s) \/ SubmitAccepted(s) \/ SubmitConflicts(s) \/ SubmitRefused(s)
    \/ GiveUp(s) \/ Repeat(s)
    \/ StartWait(s) \/ Poll(s) \/ StopWaiting(s)
    \/ \E t \in TaskIds : Retry(s, t)

ClientNext ==
    \/ \E s \in Sessions : SessionStep(s)
    \/ \E m \in strays : StrayReaches(m) \/ StrayEnds(m)
    \/ Reap
    \/ ReaperDies
    \/ RestartServer
    \/ StoreGoesOn
    \/ Passes

ClientSpec == ClientInit /\ [][ClientNext]_cvars

-----------------------------------------------------------------------------
(* Safety.                                                                 *)

Acknowledged(s) == session[s].pc \in {"accepted", "waiting", "ended"}

\* "verifies the original function, version selection, and inputs" (README.md:123-124): a
\* user who is told that a call was accepted has the call that was asked for, whoever
\* else used the id, and however often and late submissions arrive.
AcceptedAsAsked ==
    \A s \in Sessions :
        Acknowledged(s) => tasks[session[s].task].submission = Submission(session[s])

\* "A retry creates a new GUID and new execution using the original resolved version
\* and inputs" (docs/protocol.md): what was accepted as a retry runs the package and the
\* inputs of the original, whatever has been published since.
RetryRepeats ==
    \A s \in Sessions :
        LET t == session[s].task
            old == session[s].original
        IN Acknowledged(s) /\ old # None =>
               /\ PackageOf(t) = PackageOf(old)
               /\ tasks[t].submission.inputs = tasks[old].submission.inputs

\* The end that wait reports is the end of the call, and stays it.
WaitIsTrue ==
    \A s \in Sessions :
        session[s].pc = "ended" => tasks[session[s].task].status = session[s].seen

\* "repeat the same invocation with `--request-id <original-guid>`. The server
\* deduplicates that GUID" (README.md:122-123): the invocation that created a call is never
\* in conflict with it.
RepeatIsRecognised ==
    \A s \in Sessions :
        session[s].pc = "conflict" => origin[session[s].task] # session[s].asked

\* It holds of the invocations that name their version.
VersionedRepeatIsRecognised ==
    \A s \in Sessions :
        session[s].pc = "conflict" /\ session[s].asked.version # None =>
            origin[session[s].task] # session[s].asked

-----------------------------------------------------------------------------
(* Liveness.                                                               *)

\* Time goes on, and a client that polls is answered again and again.  Nothing is
\* assumed of the reaper, of workers, or of other readers.
FairClientSpec ==
    /\ ClientSpec
    /\ WF_cvars(Passes)
    /\ \A s \in Sessions : WF_cvars(Poll(s))

\* A wait for a running call ends, even if its worker has vanished and the reaper has
\* died; only leases that outlast the bounded clock are left open.
WaitEnds ==
    \A s \in Sessions, t \in TaskIds :
        (session[s].pc = "waiting" /\ session[s].task = t /\ tasks[t].status = "running")
            ~> (session[s].pc # "waiting" \/ tasks[t].expires > MaxClock)

=============================================================================
