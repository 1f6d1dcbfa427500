------------------------------- MODULE Worker -------------------------------
(***************************************************************************)
(* Worker processes (src/taskport/worker.py) driving the store over a      *)
(* network that loses and delays requests and responses.  A worker has two *)
(* threads: the run loop (`agent`), which claims a call, executes it,      *)
(* uploads its outputs and completes it, and the LeaseKeeper (`keeper`),   *)
(* which sends heartbeats while the call executes.  Scripts are processes  *)
(* of their own and outlive a worker that is killed.                       *)
(*                                                                         *)
(* A request is in transit, then a handler of the store, then an answer;   *)
(* its sender may give up at any of these points (TransportError,          *)
(* timeout), which does not stop the request.  A process that dies never   *)
(* comes back: a restarted worker has another identity.  Monotonic clocks  *)
(* run at the rate of the server's clock.  Exit codes 124, 125 and 127     *)
(* are all 1 here: what matters is that they are not 0.                    *)
(***************************************************************************)
EXTENDS Store

CONSTANTS
    FunctionOf,     \* the one function each worker process serves
    Files,          \* the artifacts an execution uploads: its logs and its outputs
    ExitCodes,      \* the exit codes of scripts
    Kills,          \* what stop_process_tree may come to
    Once,           \* --once: exit after one turn
    MaxStrays       \* bound: requests in transit whose sender has given up

ASSUME WorkerAssumption ==
    /\ FunctionOf \in [WorkerIds -> Functions]
    /\ Files \subseteq Artifact
    /\ ExitCodes \subseteq Int /\ None \notin Int
    /\ [exit_code |-> 1, error |-> TRUE] \in Completions
    /\ \A code \in ExitCodes :
           /\ [exit_code |-> code, error |-> FALSE] \in Completions
           /\ [exit_code |-> IF code = 0 THEN 1 ELSE code, error |-> TRUE] \in Completions
    /\ Kills \subseteq {"killed", "cleanup error", "other error"}
    /\ "killed" \in Kills
    /\ Once \in BOOLEAN
    /\ MaxStrays \in Nat

VARIABLES
    agent,      \* the run loop of each worker
    keeper,     \* its LeaseKeeper
    scripts,    \* the scripts that are executing
    launched,   \* how often a script was started for each call
    exits,      \* the exit code of each call's script, once it ended by itself
    strays,     \* requests in transit whose sender has given up
    workspaces  \* the run directories, <<worker, call>>

store == vars
outside == <<scripts, launched, exits, workspaces>>
wvars == <<store, agent, keeper, outside, strays>>

\* Where a request is.
NoCall == [at |-> "nowhere"]
InTransit == [at |-> "network"]
Handled(h) == [at |-> "server", handler |-> h]
Answered(a) == [at |-> "client", answer |-> a]

Polling == [pc |-> "poll", claim |-> None, since |-> 0, call |-> NoCall, task |-> None,
            token |-> None, left |-> 0, completion |-> None, todo |-> {}, stopped |-> FALSE]

KeeperOff == [on |-> FALSE, lost |-> FALSE, deadline |-> 0, since |-> 0, call |-> NoCall]

Claiming == {"poll", "claiming"}
Executing == {"starting", "prepare", "launching", "script", "report", "upload", "recheck",
              "complete"}

\* Readings of a clock, and what they differ by.
Time == Nat
Span == Int

\* The answers to a claim, and to a heartbeat.
Assignment == [status : {200}, task : TaskIds, token : Tokens, left : Span]
Refusal == [status : {204, 404, 409, 500}]
Renewal == [status : {200, 409, 500}]

Calls(handlers, answers) ==
    [at : {"nowhere", "network"}]
    \cup [at : {"server"}, handler : handlers]
    \cup [at : {"client"}, answer : answers]

Agent == [pc : Claiming \cup Executing \cup {"exited"},
          claim : RequestIds \cup {None},
          since : Time,
          call : Calls(ClaimCall, Assignment \cup Refusal),
          task : TaskIds \cup {None},
          token : Tokens \cup {None},
          left : Span,
          completion : Completions \cup {None},
          todo : SUBSET Files,
          stopped : BOOLEAN]

Keeper == [on : BOOLEAN, lost : BOOLEAN, deadline : Span, since : Time,
           call : Calls(Beat, Renewal)]

Message ==
    [kind : {"claim"}, worker : WorkerIds, request : RequestIds]
    \cup [kind : {"complete"}, task : TaskIds, token : Tokens, completion : Completions]
    \cup [kind : {"beat"}, task : TaskIds, token : Tokens]
    \cup [kind : {"upload"}, task : TaskIds, token : Tokens, artifact : Files]

WorkerTypeOK ==
    /\ agent \in [WorkerIds -> Agent]
    /\ keeper \in [WorkerIds -> Keeper]
    /\ scripts \in SUBSET [worker : WorkerIds, task : TaskIds]
    /\ launched \in [TaskIds -> Nat]
    /\ exits \in [TaskIds -> ExitCodes \cup {None}]
    /\ strays \in SUBSET Message
    /\ workspaces \in SUBSET (WorkerIds \X TaskIds)

WorkerInit ==
    /\ Init
    /\ agent = [w \in WorkerIds |-> Polling]
    /\ keeper = [w \in WorkerIds |-> KeeperOff]
    /\ scripts = {}
    /\ launched = [t \in TaskIds |-> 0]
    /\ exits = [t \in TaskIds |-> None]
    /\ strays = {}
    /\ workspaces = {}

-----------------------------------------------------------------------------
(* What the steps share.                                                   *)

\* LeaseKeeper.valid(), by the worker's own clock.
Holds(w) == ~keeper[w].lost /\ clock < keeper[w].deadline

Script(w) == [worker |-> w, task |-> agent[w].task]

Without(w) == workspaces \ {<<w, agent[w].task>>}

\* uuid4(): an id that nothing bears.
FreshIds ==
    RequestIds \ ({tasks[t].claim : t \in TaskIds}
                  \cup {c.request : c \in claims}
                  \cup {s.request : s \in {m \in strays : m.kind = "claim"}}
                  \cup {agent[w].claim : w \in WorkerIds})

Failure == [exit_code |-> 1, error |-> TRUE]

\* Mutants: the failed upload is only logged; exit code 0 stands.
FailedIgnored(c) == c
FailedWithZero(c) == [c EXCEPT !.error = TRUE]

\* exit_code=completion.exit_code or 1, error="Artifact upload failed: ..."
Failed(c) == [exit_code |-> IF c.exit_code = 0 THEN 1 ELSE c.exit_code, error |-> TRUE]

Move(w, new) == agent' = [agent EXCEPT ![w] = new]

Gone(w) == [Polling EXCEPT !.pc = "exited", !.stopped = agent[w].stopped]

\* The next turn of the run loop has a claim id of its own, made when it is sent.
AnotherTurn(w) == [Polling EXCEPT !.stopped = agent[w].stopped]

NextTurn(w) == IF Once THEN Gone(w) ELSE AnotherTurn(w)

\* The end of execute(): the keeper is closed.
EndTurn(w) ==
    /\ Move(w, NextTurn(w))
    /\ keeper' = [keeper EXCEPT ![w] = KeeperOff]

ClaimMessage(w) == [kind |-> "claim", worker |-> w, request |-> agent[w].claim]

CompletionMessage(w) == [kind |-> "complete", task |-> agent[w].task,
                         token |-> agent[w].token, completion |-> agent[w].completion]

UploadMessage(w, a) == [kind |-> "upload", task |-> agent[w].task,
                        token |-> agent[w].token, artifact |-> a]

BeatMessage(w) == [kind |-> "beat", task |-> agent[w].task, token |-> agent[w].token]

\* A request whose sender gives up while it is in transit may still arrive.
Stray(call, message) ==
    \/ strays' = strays
    \/ /\ call.at = "network"
       /\ Cardinality(strays) < MaxStrays
       /\ strays' = strays \cup {message}

-----------------------------------------------------------------------------
(* The run loop: claiming.                                                 *)

SendClaim(w) ==
    /\ agent[w].pc = "poll"
    /\ ~agent[w].stopped
    /\ \E r \in IF agent[w].claim = None THEN FreshIds ELSE {agent[w].claim} :
           Move(w, [agent[w] EXCEPT !.pc = "claiming", !.claim = r, !.since = clock,
                                    !.call = InTransit])
    /\ UNCHANGED <<store, keeper, outside, strays>>

ClaimReaches(w) ==
    /\ agent[w].call = InTransit /\ agent[w].pc = "claiming"
    /\ ClaimArrive(w, FunctionOf[w], agent[w].claim)
    /\ Move(w, [agent[w] EXCEPT !.call =
           Handled([worker |-> w, function |-> FunctionOf[w], request |-> agent[w].claim,
                    now |-> clock])])
    /\ UNCHANGED <<keeper, outside, strays>>

StrayClaimReaches(s) ==
    /\ s.kind = "claim"
    /\ ClaimArrive(s.worker, FunctionOf[s.worker], s.request)
    /\ strays' = strays \ {s}
    /\ UNCHANGED <<agent, keeper, outside>>

\* The response goes to the agent that still waits for it, and is lost otherwise.
AnswerClaim(c, a) ==
    agent' = [agent EXCEPT ![c.worker].call = IF @ = Handled(c) THEN Answered(a) ELSE @]

Grant(c, t) ==
    [status |-> 200, task |-> t, token |-> tasks'[t].token, left |-> tasks'[t].expires - c.now]

ServeClaim(c) ==
    /\ ClaimCommit(c)
    /\ \/ /\ ClaimReplay(c)
          /\ \E t \in Claimed(tasks, c.request) : AnswerClaim(c, Grant(c, t))
       \/ \E t \in TaskIds, k \in Tokens :
              ClaimAssign(c, t, k) /\ AnswerClaim(c, Grant(c, t))
       \/ ClaimNothing(c) /\ AnswerClaim(c, [status |-> 204])
       \/ /\ ClaimRefused(c)
          /\ AnswerClaim(c, [status |-> IF Defined(c.function, latest[c.function])
                                        THEN 409 ELSE 404])
    /\ UNCHANGED <<keeper, outside, strays>>

\* Unavailable: the claim id is kept, a lost response may have reserved a call.
GiveUpClaim(w) ==
    /\ agent[w].pc = "claiming"
    /\ Move(w, [agent[w] EXCEPT !.pc = "poll", !.call = NoCall, !.since = 0])
    /\ Stray(agent[w].call, ClaimMessage(w))
    /\ UNCHANGED <<store, keeper, outside>>

\* 204 ends the turn; 409 does not; any other error ends the process.
ReadRefusal(w) ==
    /\ agent[w].pc = "claiming" /\ agent[w].call.at = "client"
    /\ \/ agent[w].call.answer.status = 204 /\ Move(w, NextTurn(w))
       \/ agent[w].call.answer.status = 409 /\ Move(w, AnotherTurn(w))
       \/ agent[w].call.answer.status \in {404, 500} /\ Move(w, Gone(w))
    /\ UNCHANGED <<store, keeper, outside, strays>>

\* lease_remaining, less the time since the claim was sent.
ReadGrant(w) ==
    /\ agent[w].pc = "claiming" /\ agent[w].call.at = "client"
    /\ agent[w].call.answer.status = 200
    /\ LET grant == agent[w].call.answer IN
       Move(w, [agent[w] EXCEPT !.pc = "starting", !.call = NoCall, !.since = 0,
                                !.task = grant.task, !.token = grant.token,
                                !.left = grant.left - (clock - agent[w].since)])
    /\ UNCHANGED <<store, keeper, outside, strays>>

-----------------------------------------------------------------------------
(* The run loop: executing.                                                *)

\* output_dir.mkdir(parents=True) refuses a directory that exists.
StartKeeper(w) ==
    /\ agent[w].pc = "starting"
    /\ <<w, agent[w].task>> \notin workspaces
    /\ workspaces' = workspaces \cup {<<w, agent[w].task>>}
    /\ Move(w, [agent[w] EXCEPT !.pc = "prepare", !.left = 0])
    /\ keeper' = [keeper EXCEPT ![w] = [KeeperOff EXCEPT !.on = TRUE,
                                                         !.deadline = clock + agent[w].left]]
    /\ UNCHANGED <<store, scripts, launched, exits, strays>>

Report(w, completion) == Move(w, [agent[w] EXCEPT !.pc = "report", !.completion = completion])

\* The download, the package, the inputs or the start of the process fails, or
\* the lease has gone before the script starts.
PrepareFails(w) ==
    /\ agent[w].pc \in {"prepare", "launching"}
    /\ Report(w, Failure)
    /\ UNCHANGED <<store, keeper, outside, strays>>

\* The last look at the lease before the process starts.
CheckLease(w) ==
    /\ agent[w].pc = "prepare"
    /\ Holds(w) /\ ~agent[w].stopped
    /\ Move(w, [agent[w] EXCEPT !.pc = "launching"])
    /\ UNCHANGED <<store, keeper, outside, strays>>

\* Popen: the lease may have gone since.
Launch(w) ==
    /\ agent[w].pc = "launching"
    /\ Move(w, [agent[w] EXCEPT !.pc = "script"])
    /\ scripts' = scripts \cup {Script(w)}
    /\ launched' = [launched EXCEPT ![agent[w].task] = @ + 1]
    /\ UNCHANGED <<store, keeper, exits, workspaces, strays>>

\* A script ends by itself, whether or not its worker still watches.
ScriptEnds(s) ==
    /\ scripts' = scripts \ {s}
    /\ \E code \in ExitCodes : exits' = [exits EXCEPT ![s.task] = code]
    /\ UNCHANGED <<store, agent, keeper, launched, workspaces, strays>>

\* The exit code, unless the result file is no JSON or too big.
ExitCompletions(w) == {[exit_code |-> exits[agent[w].task], error |-> FALSE], Failure}

CollectExit(w) ==
    /\ agent[w].pc = "script"
    /\ Script(w) \notin scripts
    /\ \E c \in ExitCompletions(w) : Report(w, c)
    /\ UNCHANGED <<store, keeper, outside, strays>>

\* Mutant: a failed cleanup is only logged.
StopAfterNever(w, outcomes) == agent[w].stopped

\* ProcessCleanupError stops the worker; any other exception does not.
StopAfter(w, outcomes) == agent[w].stopped \/ "cleanup error" \in outcomes

\* stop_process_tree, and once more in `finally` if it failed.
KillScript(w) ==
    /\ agent[w].pc = "script"
    /\ Script(w) \in scripts
    /\ \E first, second \in Kills :
           LET outcomes == {first} \cup (IF first = "killed" THEN {} ELSE {second}) IN
           /\ scripts' = IF "killed" \in outcomes THEN scripts \ {Script(w)} ELSE scripts
           /\ Move(w, [agent[w] EXCEPT !.pc = "report", !.completion = Failure,
                                       !.stopped = StopAfter(w, outcomes)])
    /\ UNCHANGED <<store, keeper, launched, exits, workspaces, strays>>

StopOnLoss(w) == (~Holds(w) \/ agent[w].stopped) /\ KillScript(w)

\* manifest.timeout_seconds may run out at any time.
StopOnTimeout(w) == KillScript(w)

-----------------------------------------------------------------------------
(* The run loop: uploading and completing.                                 *)

\* "Execution ownership lost/stopped", "Lease expired during uploads".
Abandon(w) ==
    /\ \/ agent[w].pc = "report" /\ (~Holds(w) \/ agent[w].stopped)
       \/ agent[w].pc = "recheck" /\ ~Holds(w)
    /\ EndTurn(w)
    /\ UNCHANGED <<store, outside, strays>>

\* Mutant: a stopped worker still reports.
BeginUploadStopped(w) ==
    /\ agent[w].pc = "report"
    /\ Holds(w)
    /\ Move(w, [agent[w] EXCEPT !.pc = "upload", !.todo = Files])
    /\ UNCHANGED <<store, keeper, outside, strays>>

BeginUpload(w) ==
    /\ agent[w].pc = "report"
    /\ Holds(w) /\ ~agent[w].stopped
    /\ Move(w, [agent[w] EXCEPT !.pc = "upload", !.todo = Files])
    /\ UNCHANGED <<store, keeper, outside, strays>>

\* The server stores a file; the worker learns of it, or sends it again.
UploadFile(w, a) ==
    /\ agent[w].pc = "upload" /\ a \in agent[w].todo
    /\ Holds(w) /\ ~agent[w].stopped
    /\ AddArtifact(agent[w].task, agent[w].token, a)
    /\ \/ agent' = agent
       \/ Move(w, [agent[w] EXCEPT !.todo = @ \ {a}])
    /\ UNCHANGED <<keeper, outside, strays>>

\* A bad output name or link, a refusal, a lost lease, or an outage that outlasts the
\* retries, the last of which may still arrive.
UploadFails(w) ==
    /\ agent[w].pc = "upload"
    /\ \E a \in agent[w].todo : Stray(InTransit, UploadMessage(w, a))
    /\ Move(w, [agent[w] EXCEPT !.pc = "recheck", !.todo = {}, !.completion = Failed(@)])
    /\ UNCHANGED <<store, keeper, outside>>

StrayUploadReaches(s) ==
    /\ s.kind = "upload"
    /\ AddArtifact(s.task, s.token, s.artifact)
    /\ strays' = strays \ {s}
    /\ UNCHANGED <<agent, keeper, outside>>

UploadEnds(w) ==
    /\ agent[w].pc = "upload"
    /\ agent[w].todo = {}
    /\ Move(w, [agent[w] EXCEPT !.pc = "recheck"])
    /\ UNCHANGED <<store, keeper, outside, strays>>

SendCompletion(w) ==
    /\ agent[w].pc = "recheck"
    /\ Holds(w)
    /\ Move(w, [agent[w] EXCEPT !.pc = "complete", !.call = InTransit])
    /\ UNCHANGED <<store, keeper, outside, strays>>

CompletionReaches(w) ==
    /\ agent[w].pc = "complete"
    /\ Complete(agent[w].task, agent[w].token, agent[w].completion)
    /\ UNCHANGED <<agent, keeper, outside, strays>>

\* 200, at once or to a retry: the run directory goes, unless --keep-work or an
\* error of rmtree keeps it.
CompletionRecorded(w) ==
    /\ agent[w].pc = "complete"
    /\ tasks[agent[w].task].completion = agent[w].completion
    /\ tasks[agent[w].task].token = agent[w].token
    /\ workspaces' \in {workspaces, Without(w)}
    /\ EndTurn(w)
    /\ UNCHANGED <<store, scripts, launched, exits, strays>>

\* Mutant: the run directory goes in any case.
CompletionFailsButCleans(w) ==
    /\ agent[w].pc = "complete"
    /\ Stray(agent[w].call, CompletionMessage(w))
    /\ workspaces' = Without(w)
    /\ EndTurn(w)
    /\ UNCHANGED <<store, scripts, launched, exits>>

\* 409, or an outage that outlasts the retries: "Could not record".
CompletionFails(w) ==
    /\ agent[w].pc = "complete"
    /\ Stray(agent[w].call, CompletionMessage(w))
    /\ EndTurn(w)
    /\ UNCHANGED <<store, outside>>

StrayCompletionReaches(s) ==
    /\ s.kind = "complete"
    /\ Complete(s.task, s.token, s.completion)
    /\ strays' = strays \ {s}
    /\ UNCHANGED <<agent, keeper, outside>>

-----------------------------------------------------------------------------
(* The LeaseKeeper.                                                        *)

Keep(w, new) == keeper' = [keeper EXCEPT ![w] = new]

\* Once the lease is lost its deadline no longer matters.
KeeperLoses(w) == Keep(w, [KeeperOff EXCEPT !.lost = TRUE])

KeeperExpires(w) ==
    /\ keeper[w].on /\ keeper[w].call = NoCall
    /\ ~Holds(w)
    /\ KeeperLoses(w)
    /\ UNCHANGED <<store, agent, outside, strays>>

SendBeat(w) ==
    /\ keeper[w].on /\ keeper[w].call = NoCall
    /\ Holds(w)
    /\ Keep(w, [keeper[w] EXCEPT !.call = InTransit, !.since = clock])
    /\ UNCHANGED <<store, agent, outside, strays>>

BeatReaches(w) ==
    /\ keeper[w].call = InTransit
    /\ BeatArrive(agent[w].task, agent[w].token)
    /\ Keep(w, [keeper[w] EXCEPT !.call =
           Handled([task |-> agent[w].task, token |-> agent[w].token, now |-> clock])])
    /\ UNCHANGED <<agent, outside, strays>>

AnswerBeat(b, a) ==
    keeper' = [w \in WorkerIds |->
        IF keeper[w].call = Handled(b) THEN [keeper[w] EXCEPT !.call = Answered(a)]
                                       ELSE keeper[w]]

ServeBeat(b) ==
    /\ BeatCommit(b)
    /\ AnswerBeat(b, [status |-> IF LeaseHeld(b.task, b.token) THEN 200 ELSE 409])
    /\ UNCHANGED <<agent, outside, strays>>

BeatAccepted(w) ==
    /\ keeper[w].call = Answered([status |-> 200])
    /\ Keep(w, [keeper[w] EXCEPT !.call = NoCall, !.since = 0,
                                 !.deadline = keeper[w].since + LeaseSeconds])
    /\ UNCHANGED <<store, agent, outside, strays>>

\* Mutant: a refused heartbeat is retried like a lost one.
BeatRefusedRetries(w) ==
    /\ keeper[w].call.at = "client" /\ keeper[w].call # Answered([status |-> 200])
    /\ Keep(w, [keeper[w] EXCEPT !.call = NoCall, !.since = 0])
    /\ UNCHANGED <<store, agent, outside, strays>>

BeatRefused(w) ==
    /\ keeper[w].call.at = "client" /\ keeper[w].call # Answered([status |-> 200])
    /\ KeeperLoses(w)
    /\ UNCHANGED <<store, agent, outside, strays>>

GiveUpBeat(w) ==
    /\ keeper[w].call # NoCall
    /\ Keep(w, [keeper[w] EXCEPT !.call = NoCall, !.since = 0])
    /\ Stray(keeper[w].call, BeatMessage(w))
    /\ UNCHANGED <<store, agent, outside>>

StrayBeatReaches(s) ==
    /\ s.kind = "beat"
    /\ BeatArrive(s.task, s.token)
    /\ strays' = strays \ {s}
    /\ UNCHANGED <<agent, keeper, outside>>

-----------------------------------------------------------------------------
(* The world.                                                              *)

\* SQLite's lock timeout is an unhandled exception: the answer is 500.
ServeTimeout ==
    /\ LockTimeout
    /\ \/ \E c \in claims : claims' = claims \ {c} /\ AnswerClaim(c, [status |-> 500])
                            /\ UNCHANGED keeper
       \/ \E b \in beats : beats' = beats \ {b} /\ AnswerBeat(b, [status |-> 500])
                            /\ UNCHANGED agent
    /\ UNCHANGED <<outside, strays>>

\* SIGTERM or Ctrl-C: Worker.stop().
Stop(w) ==
    /\ ~agent[w].stopped /\ agent[w].pc # "exited"
    /\ Move(w, [agent[w] EXCEPT !.stopped = TRUE])
    /\ UNCHANGED <<store, keeper, outside, strays>>

Leave(w) ==
    /\ agent[w].pc = "poll" /\ agent[w].stopped
    /\ Move(w, Gone(w))
    /\ UNCHANGED <<store, keeper, outside, strays>>

\* The process is killed, or an exception leaves run(); a script may go on, and so
\* may a request in transit: that is giving up on it, and then dying.
Crash(w) ==
    /\ agent[w].pc # "exited"
    /\ Move(w, Gone(w))
    /\ keeper' = [keeper EXCEPT ![w] = KeeperOff]
    /\ UNCHANGED <<store, outside, strays>>

\* Clients, administrators, the reaper, the clock and the server process.
Others ==
    /\ \/ \E f \in Functions, v \in Versions, p \in Packages : Publish(f, v, p)
       \/ \E t \in TaskIds, s \in Submissions : Submit(t, s)
       \/ \E t \in TaskIds : Cancel(t)
       \/ Expire
       \/ Tick
       \/ Restart
    /\ UNCHANGED <<agent, keeper, outside, strays>>

AgentStep(w) ==
    \/ SendClaim(w) \/ ReadRefusal(w) \/ ReadGrant(w) \/ StartKeeper(w)
    \/ PrepareFails(w) \/ CheckLease(w) \/ Launch(w) \/ CollectExit(w) \/ StopOnLoss(w)
    \/ Abandon(w) \/ BeginUpload(w) \/ UploadEnds(w) \/ UploadFails(w)
    \/ \E a \in Files : UploadFile(w, a)
    \/ SendCompletion(w) \/ CompletionReaches(w) \/ CompletionRecorded(w) \/ CompletionFails(w)
    \/ Leave(w)

KeeperStep(w) == KeeperExpires(w) \/ SendBeat(w) \/ BeatAccepted(w) \/ BeatRefused(w)

WorkerNext ==
    \/ \E w \in WorkerIds :
           \/ AgentStep(w) \/ KeeperStep(w)
           \/ ClaimReaches(w) \/ GiveUpClaim(w) \/ StopOnTimeout(w)
           \/ BeatReaches(w) \/ GiveUpBeat(w)
           \/ Stop(w) \/ Crash(w)
    \/ \E s \in scripts : ScriptEnds(s)
    \/ \E s \in strays :
           \/ StrayClaimReaches(s) \/ StrayCompletionReaches(s)
           \/ StrayUploadReaches(s) \/ StrayBeatReaches(s)
    \/ \E c \in claims : ServeClaim(c)
    \/ \E b \in beats : ServeBeat(b)
    \/ ServeTimeout
    \/ Others

WorkerSpec == WorkerInit /\ [][WorkerNext]_wvars

-----------------------------------------------------------------------------
(* Properties.                                                             *)

\* No implicit retry: a call's script is started at most once, however claims
\* are lost, delayed, repeated and replayed, whichever process dies.
AtMostOnce == \A t \in TaskIds : launched[t] <= 1

\* A successful call has run to its own end with exit code 0, and all its outputs
\* had reached the server before.
SuccessIsEarned ==
    \A t \in TaskIds :
        tasks[t].status = "succeeded" => exits[t] = 0 /\ Files \subseteq artifacts[t]

\* "Never take another slot if a prior script could still be executing."
\* (src/taskport/worker.py:311)
NoSlotWhileScriptLives ==
    \A w \in WorkerIds :
        agent[w].pc \in {"claiming", "starting", "prepare", "launching"} =>
            \A s \in scripts : s.worker # w

\* "Workers delete acknowledged run directories [...], preserve uncertain executions"
\* (README.md:270-271): while the server has no completion of a call whose script was
\* started, its outputs are still somewhere.
UncertainRunsKept ==
    \A t \in TaskIds :
        launched[t] > 0 /\ tasks[t].completion = None =>
            \E w \in WorkerIds : <<w, t>> \in workspaces

\* "A lost claim response cannot reserve a second task" (README.md:245): once a
\* worker has been given a call, another call is only ever reserved for it under
\* the claim id that it is still using.
NoSecondReservation ==
    [][\A t, u \in TaskIds :
          LET w == tasks'[t].worker IN
          tasks[t].claim = None /\ w # None /\ tasks[u].worker = w =>
              agent[w].pc = "exited" \/ agent[w].claim = tasks'[t].claim]_wvars

\* Whatever workers and the network do, the store only ever makes steps of Store:
\* the theorems about Store hold of the composed system.
DrivesStore == Spec

-----------------------------------------------------------------------------
(* Liveness.                                                               *)

ServeLiveBeat(w) == \E b \in beats : keeper[w].call = Handled(b) /\ ServeBeat(b)

\* Both threads keep running, requests time out, handlers get the lock, and a
\* worker that keeps sending heartbeats keeps getting answers: it is connected.
Fairness ==
    /\ \A w \in WorkerIds : /\ WF_wvars(StopOnLoss(w))
                            /\ WF_wvars(KeeperStep(w))
                            /\ WF_wvars(GiveUpBeat(w))
                            /\ SF_wvars(BeatReaches(w))
                            /\ SF_wvars(ServeLiveBeat(w))
                            /\ SF_wvars(BeatAccepted(w))
                            /\ SF_wvars(BeatRefused(w))
    /\ WF_wvars(\E b \in beats : ServeBeat(b))

FairWorkerSpec == WorkerSpec /\ Fairness

\* "A connected worker stops its process tree when it detects cancellation"
\* (README.md:250-251): a script whose call was cancelled does not run on.
CancelStopsScript ==
    \A w \in WorkerIds, t \in TaskIds :
        (agent[w].pc = "script" /\ agent[w].task = t /\ tasks[t].status = "cancelled")
            ~> ([worker |-> w, task |-> t] \notin scripts \/ agent[w].pc = "exited")

=============================================================================
