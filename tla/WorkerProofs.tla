---------------------------- MODULE WorkerProofs ----------------------------
(***************************************************************************)
(* Theorems about Worker: whatever workers, scripts and the network do,    *)
(* the store makes the steps of Store, no call is started twice, and what  *)
(* the server holds to be successful was.                                  *)
(***************************************************************************)
EXTENDS Worker, StoreProofs

-----------------------------------------------------------------------------
(* The inductive invariant: what a worker believes of the table is true.   *)

\* The call is the worker's, under this claim and this token.
Owns(w, request, t, k, rows) ==
    /\ request \in RequestIds /\ t \in TaskIds /\ k \in Tokens
    /\ rows[t].worker = w /\ rows[t].claim = request /\ rows[t].token = k

Reports == {Failure} \cup {[exit_code |-> code, error |-> FALSE] : code \in ExitCodes}

\* The claim that is under way, and its answer.
RequestOK(w, a, rows) ==
    /\ a.call.at \in {"server", "client"} => a.pc = "claiming"
    /\ a.call.at = "server" =>
           a.call.handler.worker = w /\ a.call.handler.request = a.claim
    /\ a.call.at = "client" /\ a.call.answer.status = 200 =>
           Owns(w, a.claim, a.call.answer.task, a.call.answer.token, rows)

\* The call that is being executed.
TurnOK(w, a, rows) ==
    /\ a.pc = "claiming" => a.claim \in RequestIds
    /\ a.pc \in Executing => Owns(w, a.claim, a.task, a.token, rows)
    /\ a.pc \in {"report", "upload"} => a.completion \in Reports
    /\ a.pc \in {"recheck", "complete"} =>
           a.completion \in Reports \cup {Failed(c) : c \in Reports}

AgentOK(w, a, rows) == RequestOK(w, a, rows) /\ TurnOK(w, a, rows)

\* The keeper is on only while the call it keeps is executing.
KeeperOK(k, a) == IF k.on THEN a.pc \in Executing \ {"starting"} ELSE k.call = NoCall

\* Whose script is not there has its exit code.
ScriptOK(a, s, table, codes) ==
    a.pc = "script" => s \in table \/ codes[a.task] \in ExitCodes

WorkerBase ==
    /\ Inductive
    /\ WorkerTypeOK
    /\ \A w \in WorkerIds :
           /\ AgentOK(w, agent[w], tasks)
           /\ KeeperOK(keeper[w], agent[w])
           /\ ScriptOK(agent[w], Script(w), scripts, exits)

-----------------------------------------------------------------------------
(* The steps of Worker are steps of Store.                                 *)

LEMMA ReportsTyped ==
    /\ Reports \subseteq Completions
    /\ \A c \in Reports : Failed(c) \in Completions
<1>1. Failure \in Completions
  BY WorkerAssumption DEF Failure
<1>2. ASSUME NEW code \in ExitCodes
      PROVE  /\ [exit_code |-> code, error |-> FALSE] \in Completions
             /\ Failed([exit_code |-> code, error |-> FALSE]) \in Completions
  BY WorkerAssumption DEF Failed
<1>3. Failed(Failure) = Failure
  BY DEF Failed, Failure
<1> QED
  BY <1>1, <1>2, <1>3 DEF Reports

\* What an executing worker holds.
LEMMA Executes ==
    ASSUME WorkerBase, NEW w \in WorkerIds, agent[w].pc \in Executing
    PROVE  /\ agent[w] \in Agent
           /\ Owns(w, agent[w].claim, agent[w].task, agent[w].token, tasks)
           /\ agent[w].task \in TaskIds /\ agent[w].token \in Tokens
           /\ agent[w].token \in Issued
           /\ agent[w].pc \in {"report", "upload", "recheck", "complete"} =>
                  agent[w].completion \in Completions
<1>1. agent[w] \in Agent /\ TurnOK(w, agent[w], tasks)
  BY DEF WorkerBase, WorkerTypeOK, AgentOK
<1>2. Owns(w, agent[w].claim, agent[w].task, agent[w].token, tasks)
  BY <1>1 DEF TurnOK
<1>3. agent[w].token \in Issued
  BY <1>2, NoneIsNull DEF Owns, Issued
<1>4. agent[w].pc \in {"report", "upload", "recheck", "complete"} =>
          agent[w].completion \in Completions
  BY <1>1, ReportsTyped DEF TurnOK
<1> QED
  BY <1>1, <1>2, <1>3, <1>4 DEF Owns

LEMMA AgentDrives ==
    ASSUME WorkerBase, NEW w \in WorkerIds, AgentStep(w)
    PROVE  [Next]_vars
<1>1. ASSUME NEW a \in Files, UploadFile(w, a) PROVE Next
  <2>1. agent[w].task \in TaskIds /\ agent[w].token \in Tokens /\ a \in Artifact
    BY <1>1, Executes, WorkerAssumption DEF UploadFile, Executing
  <2> QED
    BY <1>1, <2>1 DEF UploadFile, Next
<1>2. CASE CompletionReaches(w)
  <2>1. /\ agent[w].task \in TaskIds /\ agent[w].token \in Tokens
        /\ agent[w].completion \in Completions
    BY <1>2, Executes DEF CompletionReaches, Executing
  <2> QED
    BY <1>2, <2>1 DEF CompletionReaches, Next
<1>3. CASE \/ SendClaim(w) \/ ReadRefusal(w) \/ ReadGrant(w) \/ StartKeeper(w)
           \/ PrepareFails(w) \/ CheckLease(w) \/ Launch(w) \/ CollectExit(w)
           \/ StopOnLoss(w) \/ Abandon(w) \/ BeginUpload(w) \/ UploadEnds(w)
           \/ UploadFails(w) \/ SendCompletion(w) \/ CompletionRecorded(w)
           \/ CompletionFails(w) \/ Leave(w)
  BY <1>3 DEF SendClaim, ReadRefusal, ReadGrant, StartKeeper, PrepareFails, CheckLease,
              Launch, CollectExit, StopOnLoss, KillScript, Abandon, BeginUpload, UploadEnds,
              UploadFails, SendCompletion, CompletionRecorded, CompletionFails, Leave, store
<1> QED
  BY <1>1, <1>2, <1>3 DEF AgentStep

LEMMA RequestsDrive ==
    ASSUME WorkerBase, NEW w \in WorkerIds,
           \/ KeeperStep(w) \/ ClaimReaches(w) \/ GiveUpClaim(w) \/ StopOnTimeout(w)
           \/ BeatReaches(w) \/ GiveUpBeat(w) \/ Stop(w) \/ Crash(w)
    PROVE  [Next]_vars
<1>1. CASE ClaimReaches(w)
  <2>1. agent[w].claim \in RequestIds /\ FunctionOf[w] \in Functions
    BY <1>1, WorkerAssumption DEF ClaimReaches, WorkerBase, AgentOK, TurnOK
  <2> QED
    BY <1>1, <2>1 DEF ClaimReaches, Next
<1>2. CASE BeatReaches(w)
  <2>1. agent[w].pc \in Executing
    <3>1. keeper[w].call = InTransit /\ KeeperOK(keeper[w], agent[w])
      BY <1>2 DEF BeatReaches, WorkerBase
    <3>2. InTransit # NoCall
      BY DEF InTransit, NoCall
    <3> QED
      BY <3>1, <3>2 DEF KeeperOK
  <2>2. agent[w].task \in TaskIds /\ agent[w].token \in Tokens
    BY <2>1, Executes
  <2> QED
    BY <1>2, <2>2 DEF BeatReaches, Next
<1>3. CASE \/ KeeperStep(w) \/ GiveUpClaim(w) \/ StopOnTimeout(w) \/ GiveUpBeat(w)
           \/ Stop(w) \/ Crash(w)
  BY <1>3 DEF KeeperStep, KeeperExpires, SendBeat, BeatAccepted, BeatRefused, GiveUpClaim,
              StopOnTimeout, KillScript, GiveUpBeat, Stop, Crash, store
<1> QED
  BY <1>1, <1>2, <1>3

LEMMA WorldDrives ==
    ASSUME WorkerBase,
           \/ \E s \in scripts : ScriptEnds(s)
           \/ \E s \in strays :
                  \/ StrayClaimReaches(s) \/ StrayCompletionReaches(s)
                  \/ StrayUploadReaches(s) \/ StrayBeatReaches(s)
           \/ \E c \in claims : ServeClaim(c)
           \/ \E b \in beats : ServeBeat(b)
           \/ ServeTimeout
           \/ Others
    PROVE  [Next]_vars
<1>1. ASSUME NEW s \in strays,
             \/ StrayClaimReaches(s) \/ StrayCompletionReaches(s)
             \/ StrayUploadReaches(s) \/ StrayBeatReaches(s)
      PROVE  Next
  <2>1. s \in Message
    BY DEF WorkerBase, WorkerTypeOK
  <2>2. CASE StrayClaimReaches(s)
    <3>1. s.worker \in WorkerIds /\ s.request \in RequestIds /\ FunctionOf[s.worker] \in Functions
      BY <2>1, <2>2, WorkerAssumption DEF StrayClaimReaches, Message
    <3> QED
      BY <2>2, <3>1 DEF StrayClaimReaches, Next
  <2>3. CASE StrayCompletionReaches(s)
    <3>1. s.task \in TaskIds /\ s.token \in Tokens /\ s.completion \in Completions
      BY <2>1, <2>3 DEF StrayCompletionReaches, Message
    <3> QED
      BY <2>3, <3>1 DEF StrayCompletionReaches, Next
  <2>4. CASE StrayBeatReaches(s)
    <3>1. s.task \in TaskIds /\ s.token \in Tokens
      BY <2>1, <2>4 DEF StrayBeatReaches, Message
    <3> QED
      BY <2>4, <3>1 DEF StrayBeatReaches, Next
  <2>5. CASE StrayUploadReaches(s)
    <3>1. s.task \in TaskIds /\ s.token \in Tokens /\ s.artifact \in Artifact
      BY <2>1, <2>5, WorkerAssumption DEF StrayUploadReaches, Message
    <3> QED
      BY <2>5, <3>1 DEF StrayUploadReaches, Next
  <2> QED
    BY <1>1, <2>2, <2>3, <2>4, <2>5
<1>2. CASE \E s \in scripts : ScriptEnds(s)
  BY <1>2 DEF ScriptEnds, store
<1>3. CASE (\E c \in claims : ServeClaim(c)) \/ (\E b \in beats : ServeBeat(b)) \/ ServeTimeout
  BY <1>3 DEF ServeClaim, ServeBeat, ServeTimeout, Next
<1>4. CASE Others
  BY <1>4 DEF Others, Next
<1> QED
  BY <1>1, <1>2, <1>3, <1>4

LEMMA WorkerDrives ==
    ASSUME WorkerBase, [WorkerNext]_wvars
    PROVE  [Next]_vars
<1>1. CASE UNCHANGED wvars
  BY <1>1 DEF wvars, store
<1> QED
  BY <1>1, AgentDrives, RequestsDrive, WorldDrives DEF WorkerNext

-----------------------------------------------------------------------------
(* What a step leaves of what workers know.                                *)

LEMMA OwnsKept ==
    ASSUME Inductive, [Next]_vars, NEW w, NEW r, NEW t, NEW k, Owns(w, r, t, k, tasks)
    PROVE  Owns(w, r, t, k, tasks')
<1>1. t \in TaskIds /\ tasks[t].claim # None
  BY NoneIsNull DEF Owns
<1>2. SameClaim(tasks'[t], tasks[t])
  BY <1>1, TokensKept DEF Inductive
<1> QED
  BY <1>2 DEF Owns, SameClaim

LEMMA AgentKept ==
    ASSUME Inductive, [Next]_vars, NEW w, NEW a, AgentOK(w, a, tasks)
    PROVE  AgentOK(w, a, tasks')
<1>1. RequestOK(w, a, tasks')
  BY OwnsKept DEF AgentOK, RequestOK
<1>2. TurnOK(w, a, tasks')
  BY OwnsKept DEF AgentOK, TurnOK
<1> QED
  BY <1>1, <1>2 DEF AgentOK

\* What is left of WorkerBase to show of a step.
Fitting ==
    /\ agent' \in [WorkerIds -> Agent]
    /\ keeper' \in [WorkerIds -> Keeper]
    /\ \A w \in WorkerIds :
           AgentOK(w, agent'[w], tasks') /\ KeeperOK(keeper'[w], agent'[w])

\* One worker moves, and its keeper with it.
LEMMA OneMoves ==
    ASSUME WorkerBase, [Next]_vars, NEW w \in WorkerIds, NEW n \in Agent, NEW k \in Keeper,
           Move(w, n), keeper' = [keeper EXCEPT ![w] = k],
           AgentOK(w, n, tasks'), KeeperOK(k, n)
    PROVE  Fitting
<1>1. agent \in [WorkerIds -> Agent] /\ keeper \in [WorkerIds -> Keeper]
  BY DEF WorkerBase, WorkerTypeOK
<1>2. agent' = [agent EXCEPT ![w] = n]
  BY DEF Move
<1>3. agent' \in [WorkerIds -> Agent] /\ keeper' \in [WorkerIds -> Keeper]
  BY <1>1, <1>2
<1>4. agent'[w] = n /\ keeper'[w] = k
  BY <1>1, <1>2
<1>5. ASSUME NEW v \in WorkerIds, v # w
      PROVE  AgentOK(v, agent'[v], tasks') /\ KeeperOK(keeper'[v], agent'[v])
  <2>1. agent'[v] = agent[v] /\ keeper'[v] = keeper[v]
    BY <1>1, <1>2, <1>5
  <2> QED
    BY <2>1, AgentKept DEF WorkerBase
<1> QED
  BY <1>3, <1>4, <1>5 DEF Fitting

\* One worker moves, and its keeper stays as it is.
LEMMA AgentMoves ==
    ASSUME WorkerBase, [Next]_vars, NEW w \in WorkerIds, NEW n \in Agent,
           Move(w, n), keeper' = keeper, AgentOK(w, n, tasks'),
           agent[w].pc \in Executing \ {"starting"} => n.pc \in Executing \ {"starting"}
    PROVE  Fitting
<1>1. keeper \in [WorkerIds -> Keeper] /\ KeeperOK(keeper[w], agent[w])
  BY DEF WorkerBase, WorkerTypeOK
<1>2. keeper' = [keeper EXCEPT ![w] = keeper[w]] /\ keeper[w] \in Keeper
  BY <1>1
<1>3. KeeperOK(keeper[w], n)
  BY <1>1 DEF KeeperOK
<1> QED
  BY <1>2, <1>3, OneMoves

LEMMA AgentsStay ==
    ASSUME WorkerBase, [Next]_vars, agent' = agent, keeper' = keeper
    PROVE  Fitting
BY AgentKept DEF WorkerBase, WorkerTypeOK, Fitting

LEMMA Zero == 0 \in Time /\ 0 \in Span
BY DEF Time, Span

\* The end of a turn knows nothing.
LEMMA TurnOver ==
    ASSUME WorkerBase, NEW w \in WorkerIds, NEW n, n \in {Gone(w), AnotherTurn(w)}
    PROVE  /\ n \in Agent /\ n.pc \in {"poll", "exited"} /\ n.claim = None
           /\ n.call = NoCall /\ n.stopped = agent[w].stopped
           /\ AgentOK(w, n, tasks')
<1>1. agent[w].stopped \in BOOLEAN
  BY DEF WorkerBase, WorkerTypeOK, Agent
<1>2. NoCall \in Calls(ClaimCall, Assignment \cup Refusal)
  BY DEF NoCall, Calls
<1>3. Polling \in Agent /\ Polling.claim = None /\ Polling.call = NoCall /\ Polling.pc = "poll"
  <2>1. None \in Completions \cup {None} /\ {} \in SUBSET Files
    OBVIOUS
  <2> QED
    BY <1>2, <2>1, Zero DEF Polling, Agent, Claiming
<1> DEFINE free == [Polling EXCEPT !.stopped = agent[w].stopped]
<1>a. /\ free \in Agent /\ free.pc = "poll" /\ free.claim = None /\ free.call = NoCall
      /\ free.stopped = agent[w].stopped
  BY <1>1, <1>3 DEF Agent
<1>b. n = free \/ n = [free EXCEPT !.pc = "exited"]
  BY DEF Gone, AnotherTurn, Polling
<1> HIDE DEF free
<1>4. n \in Agent /\ n.stopped = agent[w].stopped /\ n.claim = None /\ n.call = NoCall
      /\ n.pc \in {"poll", "exited"}
  BY <1>a, <1>b DEF Agent
<1>5. RequestOK(w, n, tasks')
  <2>1. NoCall.at = "nowhere"
    BY DEF NoCall
  <2> QED
    BY <1>4, <2>1 DEF RequestOK
<1>6. TurnOK(w, n, tasks')
  BY <1>4 DEF TurnOK, Executing
<1> QED
  BY <1>4, <1>5, <1>6 DEF AgentOK

LEMMA OffTyped == KeeperOff \in Keeper /\ \A a : KeeperOK(KeeperOff, a)
<1>1. NoCall \in Calls(Beat, Renewal)
  BY DEF NoCall, Calls
<1>2. KeeperOff \in Keeper
  BY <1>1, Zero DEF KeeperOff, Keeper
<1>3. KeeperOff.on = FALSE /\ KeeperOff.call = NoCall
  BY DEF KeeperOff
<1> QED
  BY <1>2, <1>3 DEF KeeperOK

LEMMA TurnEnds ==
    ASSUME WorkerBase, [Next]_vars, NEW w \in WorkerIds, NEW n, n \in {Gone(w), AnotherTurn(w)},
           Move(w, n), keeper' = [keeper EXCEPT ![w] = KeeperOff]
    PROVE  Fitting
BY TurnOver, OffTyped, OneMoves

-----------------------------------------------------------------------------
(* The claims and heartbeats of workers fit.                               *)

LEMMA CallTyped ==
    /\ NoCall \in Calls(ClaimCall, Assignment \cup Refusal)
    /\ InTransit \in Calls(ClaimCall, Assignment \cup Refusal)
    /\ NoCall \in Calls(Beat, Renewal)
    /\ InTransit \in Calls(Beat, Renewal)
    /\ \A c \in ClaimCall : Handled(c) \in Calls(ClaimCall, Assignment \cup Refusal)
    /\ \A a \in Assignment \cup Refusal :
           Answered(a) \in Calls(ClaimCall, Assignment \cup Refusal)
    /\ \A b \in Beat : Handled(b) \in Calls(Beat, Renewal)
    /\ \A a \in Renewal : Answered(a) \in Calls(Beat, Renewal)
BY DEF NoCall, InTransit, Handled, Answered, Calls

LEMMA CallFields ==
    /\ NoCall.at = "nowhere" /\ InTransit.at = "network"
    /\ \A c : Handled(c).at = "server" /\ Handled(c).handler = c
    /\ \A a : Answered(a).at = "client" /\ Answered(a).answer = a
BY DEF NoCall, InTransit, Handled, Answered

\* Only the call under way changes, or where the worker is with it.
LEMMA Waits ==
    ASSUME NEW w, NEW n \in Agent, NEW rows,
           n.claim \in RequestIds, n.pc \in {"poll", "claiming"},
           n.call.at \in {"nowhere", "network"}
    PROVE  AgentOK(w, n, rows)
BY DEF AgentOK, RequestOK, TurnOK, Executing

LEMMA SendClaimFits ==
    ASSUME WorkerBase, [Next]_vars, NEW w \in WorkerIds, SendClaim(w)
    PROVE  Fitting
<1>1. agent[w] \in Agent /\ clock \in Time
  BY DEF WorkerBase, WorkerTypeOK, Inductive, TypeOK, Time
<1>2. PICK r \in RequestIds :
          Move(w, [agent[w] EXCEPT !.pc = "claiming", !.claim = r, !.since = clock,
                                   !.call = InTransit])
  BY <1>1 DEF SendClaim, FreshIds, Agent
<1> DEFINE n == [agent[w] EXCEPT !.pc = "claiming", !.claim = r, !.since = clock,
                                 !.call = InTransit]
<1>3. n \in Agent /\ n.pc = "claiming" /\ n.claim = r /\ n.call = InTransit
  BY <1>1, CallTyped DEF Agent, Claiming
<1>4. Move(w, n)
  BY <1>2
<1> HIDE DEF n
<1>5. AgentOK(w, n, tasks')
  BY <1>3, CallFields, Waits
<1>6. keeper' = keeper /\ agent[w].pc = "poll"
  BY DEF SendClaim
<1> QED
  BY <1>3, <1>4, <1>5, <1>6, AgentMoves DEF Executing

LEMMA GiveUpClaimFits ==
    ASSUME WorkerBase, [Next]_vars, NEW w \in WorkerIds, GiveUpClaim(w)
    PROVE  Fitting
<1> DEFINE n == [agent[w] EXCEPT !.pc = "poll", !.call = NoCall, !.since = 0]
<1>1. agent[w] \in Agent /\ agent[w].claim \in RequestIds /\ agent[w].pc = "claiming"
  BY DEF WorkerBase, WorkerTypeOK, AgentOK, TurnOK, GiveUpClaim
<1>2. n \in Agent /\ n.pc = "poll" /\ n.claim = agent[w].claim /\ n.call = NoCall
  BY <1>1, CallTyped, Zero DEF Agent, Claiming
<1>3. Move(w, n) /\ keeper' = keeper
  BY DEF GiveUpClaim
<1> HIDE DEF n
<1>4. AgentOK(w, n, tasks')
  BY <1>1, <1>2, CallFields, Waits
<1> QED
  BY <1>1, <1>2, <1>3, <1>4, AgentMoves DEF Executing

LEMMA ClaimReachesFits ==
    ASSUME WorkerBase, [Next]_vars, NEW w \in WorkerIds, ClaimReaches(w)
    PROVE  Fitting
<1> DEFINE h == [worker |-> w, function |-> FunctionOf[w], request |-> agent[w].claim,
                 now |-> clock]
           n == [agent[w] EXCEPT !.call = Handled(h)]
<1>1. agent[w] \in Agent /\ agent[w].claim \in RequestIds /\ agent[w].pc = "claiming"
  BY DEF WorkerBase, WorkerTypeOK, AgentOK, TurnOK, ClaimReaches
<1>2. h \in ClaimCall /\ h.worker = w /\ h.request = agent[w].claim
  BY <1>1, WorkerAssumption DEF ClaimCall, WorkerBase, Inductive, TypeOK
<1>3. Move(w, n) /\ keeper' = keeper
  BY DEF ClaimReaches
<1> HIDE DEF h
<1>4. n \in Agent /\ n.pc = "claiming" /\ n.claim = agent[w].claim /\ n.call = Handled(h)
  BY <1>1, <1>2, CallTyped DEF Agent
<1> HIDE DEF n
<1>5. RequestOK(w, n, tasks')
  BY <1>2, <1>4, CallFields DEF RequestOK
<1>6. TurnOK(w, n, tasks')
  BY <1>1, <1>4 DEF TurnOK, Executing
<1> QED
  BY <1>1, <1>3, <1>4, <1>5, <1>6, AgentMoves DEF AgentOK, Executing

\* An answer, to whoever still waits for it.
LEMMA AnswerFits ==
    ASSUME WorkerBase, [Next]_vars, NEW c \in ClaimCall, NEW a \in Assignment \cup Refusal,
           AnswerClaim(c, a), keeper' = keeper,
           a.status = 200 => Owns(c.worker, c.request, a.task, a.token, tasks')
    PROVE  Fitting
<1> DEFINE w == c.worker
           n == IF agent[w].call = Handled(c)
                THEN [agent[w] EXCEPT !.call = Answered(a)] ELSE agent[w]
<1>1. w \in WorkerIds
  BY DEF ClaimCall
<1>2. agent[w] \in Agent /\ AgentOK(w, agent[w], tasks) /\ agent \in [WorkerIds -> Agent]
  BY <1>1 DEF WorkerBase, WorkerTypeOK
<1>3. Move(w, n)
  <2>1. CASE agent[w].call = Handled(c)
    BY <1>1, <1>2, <2>1 DEF AnswerClaim, Move
  <2>2. CASE agent[w].call # Handled(c)
    BY <1>1, <1>2, <2>2 DEF AnswerClaim, Move, Agent
  <2> QED
    BY <2>1, <2>2
<1>4. CASE agent[w].call # Handled(c)
  <2>1. n = agent[w]
    BY <1>4
  <2> QED
    BY <1>1, <1>2, <1>3, <2>1, AgentKept, AgentMoves DEF WorkerBase
<1>5. CASE agent[w].call = Handled(c)
  <2>1. agent[w].pc = "claiming" /\ agent[w].claim = c.request /\ c.request \in RequestIds
    BY <1>2, <1>5, CallFields DEF AgentOK, RequestOK, ClaimCall
  <2>2. n \in Agent /\ n.pc = "claiming" /\ n.claim = c.request /\ n.call = Answered(a)
    BY <1>2, <1>5, <2>1, CallTyped DEF Agent
  <2> HIDE DEF n
  <2>3. RequestOK(w, n, tasks')
    BY <2>2, CallFields DEF RequestOK
  <2>4. TurnOK(w, n, tasks')
    BY <2>1, <2>2 DEF TurnOK, Executing
  <2> QED
    BY <1>1, <1>3, <2>1, <2>2, <2>3, <2>4, AgentMoves DEF AgentOK, Executing
<1> QED
  BY <1>4, <1>5

\* What a claim grants is the worker's.
LEMMA GrantOwned ==
    ASSUME WorkerBase, [Next]_vars, NEW c \in ClaimCall, NEW t \in TaskIds,
           \/ ClaimReplay(c) /\ t \in Claimed(tasks, c.request)
           \/ \E k \in Tokens : ClaimAssign(c, t, k)
    PROVE  /\ Owns(c.worker, c.request, t, tasks'[t].token, tasks')
           /\ Grant(c, t) \in Assignment
<1>1. c.request \in RequestIds /\ c.request # None /\ c.now \in Nat
  BY NoneIsNull DEF ClaimCall
<1>2. Owns(c.worker, c.request, t, tasks'[t].token, tasks')
  <2>1. CASE ClaimReplay(c) /\ t \in Claimed(tasks, c.request)
    <3>1. PICK u \in Claimed(Expired(c.now), c.request) : tasks[u].worker = c.worker
      BY <2>1 DEF ClaimReplay
    <3>2. u \in TaskIds /\ Expired(c.now)[u].claim = c.request
      BY DEF Claimed
    <3>3. tasks[u].claim = c.request
      BY <1>1, <3>2, ExpiredRow DEF WorkerBase, Inductive, RowLost, SameClaim
    <3>4. tasks[t].claim = c.request
      BY <2>1 DEF Claimed
    <3>5. t = u
      BY <1>1, <3>2, <3>3, <3>4 DEF WorkerBase, Inductive, ClaimUnique
    <3>6. tasks[t].token \in Tokens
      BY <1>1, <3>4 DEF WorkerBase, Inductive, TypeOK, Row, RowsWellFormed, WellFormed
    <3>7. SameClaim(tasks'[t], tasks[t])
      BY <1>1, <3>4, TokensKept DEF WorkerBase, Inductive
    <3> QED
      BY <1>1, <3>1, <3>4, <3>5, <3>6, <3>7 DEF Owns, SameClaim
  <2>2. ASSUME NEW k \in Tokens, ClaimAssign(c, t, k)
        PROVE  Owns(c.worker, c.request, t, tasks'[t].token, tasks')
    <3>1. RowAssigned(tasks'[t], tasks[t], c, k)
      BY <2>2, AssignedRows DEF WorkerBase, Inductive
    <3> QED
      BY <1>1, <3>1 DEF Owns, RowAssigned
  <2> QED
    BY <2>1, <2>2
<1>3. tasks'[t].expires - c.now \in Span
  <2>1. tasks'[t].expires \in Nat
    BY NextTypeOK DEF WorkerBase, Inductive, TypeOK, Row
  <2> QED
    BY <1>1, <2>1 DEF Span
<1>4. Grant(c, t) \in Assignment
  BY <1>2, <1>3 DEF Grant, Assignment, Owns
<1> QED
  BY <1>2, <1>4

LEMMA ServeClaimFits ==
    ASSUME WorkerBase, [Next]_vars, NEW c \in claims, ServeClaim(c)
    PROVE  Fitting
<1>1. c \in ClaimCall /\ keeper' = keeper
  BY DEF WorkerBase, Inductive, TypeOK, ServeClaim
<1>2. ASSUME NEW t \in TaskIds, AnswerClaim(c, Grant(c, t)),
             \/ ClaimReplay(c) /\ t \in Claimed(tasks, c.request)
             \/ \E k \in Tokens : ClaimAssign(c, t, k)
      PROVE  Fitting
  <2>1. /\ Owns(c.worker, c.request, t, tasks'[t].token, tasks')
        /\ Grant(c, t) \in Assignment
    BY <1>1, <1>2, GrantOwned
  <2>2. Grant(c, t).task = t /\ Grant(c, t).token = tasks'[t].token
    BY DEF Grant
  <2> QED
    BY <1>1, <1>2, <2>1, <2>2, AnswerFits
<1>3. ASSUME NEW status \in {204, 404, 409}, AnswerClaim(c, [status |-> status])
      PROVE  Fitting
  <2>1. [status |-> status] \in Refusal /\ [status |-> status].status # 200
    BY DEF Refusal
  <2> QED
    BY <1>1, <1>3, <2>1, AnswerFits
<1>4. CASE ClaimReplay(c) /\ \E t \in Claimed(tasks, c.request) : AnswerClaim(c, Grant(c, t))
  BY <1>2, <1>4 DEF Claimed
<1>5. CASE \E t \in TaskIds, k \in Tokens :
               ClaimAssign(c, t, k) /\ AnswerClaim(c, Grant(c, t))
  BY <1>2, <1>5
<1>6. CASE AnswerClaim(c, [status |-> 204])
  BY <1>3, <1>6
<1>7. CASE AnswerClaim(c, [status |-> IF Defined(c.function, latest[c.function])
                                      THEN 409 ELSE 404])
  BY <1>3, <1>7
<1> QED
  BY <1>4, <1>5, <1>6, <1>7 DEF ServeClaim

-----------------------------------------------------------------------------
(* The steps of the run loop fit.                                          *)

LEMMA ReadGrantFits ==
    ASSUME WorkerBase, [Next]_vars, NEW w \in WorkerIds, ReadGrant(w)
    PROVE  Fitting
<1> DEFINE grant == agent[w].call.answer
           left == grant.left - (clock - agent[w].since)
           n == [agent[w] EXCEPT !.pc = "starting", !.call = NoCall, !.since = 0,
                                 !.task = grant.task, !.token = grant.token, !.left = left]
<1>1. /\ agent[w] \in Agent /\ agent[w].pc = "claiming" /\ AgentOK(w, agent[w], tasks)
      /\ agent[w].call.at = "client" /\ grant.status = 200 /\ keeper' = keeper
  BY DEF WorkerBase, WorkerTypeOK, ReadGrant
<1>2. Owns(w, agent[w].claim, grant.task, grant.token, tasks)
  BY <1>1 DEF AgentOK, RequestOK
<1>3. agent[w].call \in Calls(ClaimCall, Assignment \cup Refusal)
  BY <1>1 DEF Agent
<1>4. grant \in Assignment \cup Refusal
  BY <1>1, <1>3 DEF Calls
<1>5. grant.left \in Span
  BY <1>1, <1>4 DEF Assignment, Refusal
<1>6. left \in Span
  <2>1. clock \in Nat /\ agent[w].since \in Nat /\ grant.left \in Int
    BY <1>1, <1>5 DEF Agent, Time, Span, WorkerBase, Inductive, TypeOK
  <2> QED
    BY <2>1 DEF Span
<1>7. Move(w, n)
  BY DEF ReadGrant
<1> HIDE DEF left
<1>8. grant.task \in TaskIds /\ grant.token \in Tokens
  BY <1>2 DEF Owns
<1> HIDE DEF grant
<1>9. /\ n \in Agent /\ n.pc = "starting" /\ n.claim = agent[w].claim /\ n.call = NoCall
      /\ n.task = grant.task /\ n.token = grant.token
  BY <1>1, <1>6, <1>8, CallTyped, Zero DEF Agent, Executing
<1> HIDE DEF n
<1>10. RequestOK(w, n, tasks')
  BY <1>9, CallFields DEF RequestOK
<1>11. TurnOK(w, n, tasks')
  BY <1>2, <1>9, OwnsKept DEF WorkerBase, TurnOK, Executing
<1> QED
  BY <1>1, <1>7, <1>9, <1>10, <1>11, AgentMoves DEF AgentOK, Executing

\* An executing worker goes on with its call.
LEMMA GoesOnOK ==
    ASSUME WorkerBase, [Next]_vars, NEW w \in WorkerIds, NEW n,
           agent[w].pc \in Executing,
           n.pc \in {"prepare", "launching", "script", "report", "upload", "recheck", "complete"},
           n.claim = agent[w].claim, n.task = agent[w].task, n.token = agent[w].token,
           n.call.at \in {"nowhere", "network"},
           n.pc \in {"report", "upload"} => n.completion \in Reports,
           n.pc \in {"recheck", "complete"} =>
               n.completion \in Reports \cup {Failed(c) : c \in Reports}
    PROVE  AgentOK(w, n, tasks')
<1>1. RequestOK(w, n, tasks')
  BY DEF RequestOK
<1>2. Owns(w, agent[w].claim, agent[w].task, agent[w].token, tasks')
  BY Executes, OwnsKept DEF WorkerBase
<1>3. TurnOK(w, n, tasks')
  BY <1>2 DEF TurnOK
<1> QED
  BY <1>1, <1>3 DEF AgentOK

LEMMA AtMostInTransit ==
    ASSUME WorkerBase, NEW w \in WorkerIds, agent[w].pc \in Executing
    PROVE  agent[w].call.at \in {"nowhere", "network"}
<1>1. agent[w] \in Agent /\ RequestOK(w, agent[w], tasks)
  BY DEF WorkerBase, WorkerTypeOK, AgentOK
<1>2. agent[w].call \in Calls(ClaimCall, Assignment \cup Refusal)
  BY <1>1 DEF Agent
<1>3. agent[w].call.at \in {"nowhere", "network", "server", "client"}
  BY <1>2 DEF Calls
<1> QED
  BY <1>1, <1>3 DEF RequestOK, Executing

LEMMA StartKeeperFits ==
    ASSUME WorkerBase, [Next]_vars, NEW w \in WorkerIds, StartKeeper(w)
    PROVE  Fitting
<1> DEFINE n == [agent[w] EXCEPT !.pc = "prepare", !.left = 0]
           deadline == clock + agent[w].left
           k == [KeeperOff EXCEPT !.on = TRUE, !.deadline = deadline]
<1>1. agent[w] \in Agent /\ agent[w].pc = "starting" /\ agent[w].pc \in Executing
  BY DEF WorkerBase, WorkerTypeOK, StartKeeper, Executing
<1>2. n \in Agent /\ n.pc = "prepare" /\ n.claim = agent[w].claim /\ n.task = agent[w].task
      /\ n.token = agent[w].token /\ n.call = agent[w].call
  BY <1>1, Zero DEF Agent, Executing
<1>3. deadline \in Span
  BY <1>1 DEF WorkerBase, Inductive, TypeOK, Agent, Span
<1>4. Move(w, n) /\ keeper' = [keeper EXCEPT ![w] = k]
  BY DEF StartKeeper
<1> HIDE DEF deadline, n
<1>5. k \in Keeper /\ k.on
  BY <1>3, OffTyped DEF Keeper
<1> HIDE DEF k
<1>6. KeeperOK(k, n)
  BY <1>2, <1>5 DEF KeeperOK, Executing
<1>7. AgentOK(w, n, tasks')
  BY <1>1, <1>2, AtMostInTransit, GoesOnOK
<1> QED
  BY <1>2, <1>4, <1>5, <1>6, <1>7, OneMoves

\* The steps that report an outcome.
LEMMA ReportFits ==
    ASSUME WorkerBase, [Next]_vars, NEW w \in WorkerIds, NEW c \in Reports, NEW stopped \in BOOLEAN,
           agent[w].pc \in Executing, keeper' = keeper,
           Move(w, [agent[w] EXCEPT !.pc = "report", !.completion = c, !.stopped = stopped])
    PROVE  Fitting
<1> DEFINE n == [agent[w] EXCEPT !.pc = "report", !.completion = c, !.stopped = stopped]
<1>1. agent[w] \in Agent /\ c \in Completions
  BY ReportsTyped DEF WorkerBase, WorkerTypeOK
<1>2. n \in Agent /\ n.pc = "report" /\ n.claim = agent[w].claim /\ n.task = agent[w].task
      /\ n.token = agent[w].token /\ n.call = agent[w].call /\ n.completion = c
  BY <1>1 DEF Agent, Executing
<1>3. Move(w, n)
  OBVIOUS
<1> HIDE DEF n
<1>4. AgentOK(w, n, tasks')
  BY <1>2, AtMostInTransit, GoesOnOK
<1> QED
  BY <1>2, <1>3, <1>4, AgentMoves DEF Executing

LEMMA ReportsFit ==
    ASSUME WorkerBase, [Next]_vars, NEW w \in WorkerIds,
           PrepareFails(w) \/ CollectExit(w) \/ StopOnLoss(w) \/ StopOnTimeout(w)
    PROVE  Fitting
<1>0. agent[w] \in Agent /\ agent[w].stopped \in BOOLEAN
  BY DEF WorkerBase, WorkerTypeOK, Agent
<1>1. ASSUME NEW c \in Reports, Report(w, c), agent[w].pc \in Executing, keeper' = keeper
      PROVE  Fitting
  <2>1. [agent[w] EXCEPT !.pc = "report", !.completion = c]
            = [agent[w] EXCEPT !.pc = "report", !.completion = c, !.stopped = agent[w].stopped]
    BY <1>0 DEF Agent
  <2> QED
    BY <1>0, <1>1, <2>1, ReportFits DEF Report
<1>2. Failure \in Reports
  BY DEF Reports
<1>3. CASE PrepareFails(w)
  BY <1>1, <1>2, <1>3 DEF PrepareFails, Executing
<1>4. CASE CollectExit(w)
  <2>1. PICK c \in ExitCompletions(w) : Report(w, c)
    BY <1>4 DEF CollectExit
  <2>2. exits[agent[w].task] \in ExitCodes
    BY <1>4 DEF CollectExit, WorkerBase, ScriptOK
  <2>3. c \in Reports
    BY <1>2, <2>2 DEF ExitCompletions, Reports
  <2> QED
    BY <1>1, <1>4, <2>1, <2>3 DEF CollectExit, Executing
<1>5. CASE StopOnLoss(w) \/ StopOnTimeout(w)
  <2>1. KillScript(w)
    BY <1>5 DEF StopOnLoss, StopOnTimeout
  <2>2. PICK outcomes : Move(w, [agent[w] EXCEPT !.pc = "report", !.completion = Failure,
                                                 !.stopped = StopAfter(w, outcomes)])
    BY <2>1 DEF KillScript
  <2>3. StopAfter(w, outcomes) \in BOOLEAN
    BY <1>0 DEF StopAfter
  <2>4. agent[w].pc \in Executing /\ keeper' = keeper
    BY <2>1 DEF KillScript, Executing
  <2> QED
    BY <1>2, <2>2, <2>3, <2>4, ReportFits
<1> QED
  BY <1>3, <1>4, <1>5

LEMMA LaunchFits ==
    ASSUME WorkerBase, [Next]_vars, NEW w \in WorkerIds, NEW pc \in {"launching", "script"},
           IF pc = "script" THEN Launch(w) ELSE CheckLease(w)
    PROVE  Fitting
<1> DEFINE n == [agent[w] EXCEPT !.pc = pc]
<1>1. agent[w] \in Agent /\ agent[w].pc \in Executing
  BY DEF WorkerBase, WorkerTypeOK, CheckLease, Launch, Executing
<1>2. n \in Agent /\ n.pc = pc /\ n.claim = agent[w].claim /\ n.task = agent[w].task
      /\ n.token = agent[w].token /\ n.call = agent[w].call
  BY <1>1 DEF Agent, Executing
<1>3. Move(w, n) /\ keeper' = keeper
  BY DEF CheckLease, Launch
<1> HIDE DEF n
<1>4. AgentOK(w, n, tasks')
  BY <1>1, <1>2, AtMostInTransit, GoesOnOK
<1> QED
  BY <1>2, <1>3, <1>4, AgentMoves DEF Executing

\* The steps of uploading and completing.
LEMMA UploadsFit ==
    ASSUME WorkerBase, [Next]_vars, NEW w \in WorkerIds, NEW pc, NEW call, NEW todo, NEW c,
           keeper' = keeper,
           Move(w, [agent[w] EXCEPT !.pc = pc, !.call = call, !.todo = todo, !.completion = c]),
           call \in {InTransit, agent[w].call}, todo \in SUBSET Files,
           \/ /\ agent[w].pc \in {"report", "upload"} /\ pc = "upload"
              /\ c = agent[w].completion
           \/ /\ agent[w].pc = "upload" /\ pc = "recheck"
              /\ c \in {agent[w].completion, Failed(agent[w].completion)}
           \/ /\ agent[w].pc = "recheck" /\ pc = "complete"
              /\ c = agent[w].completion
    PROVE  Fitting
<1> DEFINE n == [agent[w] EXCEPT !.pc = pc, !.call = call, !.todo = todo, !.completion = c]
<1>1. agent[w] \in Agent /\ agent[w].pc \in Executing /\ TurnOK(w, agent[w], tasks)
  BY DEF WorkerBase, WorkerTypeOK, AgentOK, Executing
<1>2. call \in Calls(ClaimCall, Assignment \cup Refusal) /\ call.at \in {"nowhere", "network"}
  <2>1. agent[w].call \in Calls(ClaimCall, Assignment \cup Refusal)
    BY <1>1 DEF Agent
  <2> QED
    BY <1>1, <2>1, CallTyped, CallFields, AtMostInTransit
<1>3. /\ pc \in {"upload", "recheck", "complete"}
      /\ pc = "upload" => c \in Reports
      /\ pc \in {"recheck", "complete"} => c \in Reports \cup {Failed(d) : d \in Reports}
  BY <1>1 DEF TurnOK
<1>4. c \in Completions
  BY <1>3, ReportsTyped
<1>5. n \in Agent /\ n.pc = pc /\ n.claim = agent[w].claim /\ n.task = agent[w].task
      /\ n.token = agent[w].token /\ n.call = call /\ n.completion = c
  BY <1>1, <1>2, <1>3, <1>4 DEF Agent, Executing
<1>6. Move(w, n)
  OBVIOUS
<1> HIDE DEF n
<1>7. AgentOK(w, n, tasks')
  BY <1>1, <1>2, <1>3, <1>5, GoesOnOK
<1> QED
  BY <1>3, <1>5, <1>6, <1>7, AgentMoves DEF Executing

LEMMA UploadStepsFit ==
    ASSUME WorkerBase, [Next]_vars, NEW w \in WorkerIds,
           \/ BeginUpload(w) \/ UploadFails(w) \/ UploadEnds(w) \/ SendCompletion(w)
           \/ \E a \in Files : UploadFile(w, a)
    PROVE  Fitting
<1> DEFINE m == agent[w]
           Steps(pc, call, todo, c) ==
               [agent[w] EXCEPT !.pc = pc, !.call = call, !.todo = todo, !.completion = c]
<1>1. m \in Agent /\ m.todo \in SUBSET Files
  BY DEF WorkerBase, WorkerTypeOK, Agent
<1>2. CASE BeginUpload(w)
  <2>1. [m EXCEPT !.pc = "upload", !.todo = Files] = Steps("upload", m.call, Files, m.completion)
    BY <1>1 DEF Agent
  <2>2. Move(w, Steps("upload", m.call, Files, m.completion)) /\ keeper' = keeper
        /\ m.pc = "report"
    BY <1>2, <2>1 DEF BeginUpload
  <2> QED
    BY <2>2, UploadsFit
<1>3. CASE UploadFails(w)
  <2>1. [m EXCEPT !.pc = "recheck", !.todo = {}, !.completion = Failed(@)]
            = Steps("recheck", m.call, {}, Failed(m.completion))
    BY <1>1 DEF Agent
  <2>2. Move(w, Steps("recheck", m.call, {}, Failed(m.completion))) /\ keeper' = keeper
        /\ m.pc = "upload"
    BY <1>3, <2>1 DEF UploadFails
  <2>3. {} \in SUBSET Files
    OBVIOUS
  <2> QED
    BY <2>2, <2>3, UploadsFit
<1>4. CASE UploadEnds(w)
  <2>1. [m EXCEPT !.pc = "recheck"] = Steps("recheck", m.call, m.todo, m.completion)
    BY <1>1 DEF Agent
  <2>2. Move(w, Steps("recheck", m.call, m.todo, m.completion)) /\ keeper' = keeper
        /\ m.pc = "upload"
    BY <1>4, <2>1 DEF UploadEnds
  <2> QED
    BY <1>1, <2>2, UploadsFit
<1>5. CASE SendCompletion(w)
  <2>1. [m EXCEPT !.pc = "complete", !.call = InTransit]
            = Steps("complete", InTransit, m.todo, m.completion)
    BY <1>1 DEF Agent
  <2>2. Move(w, Steps("complete", InTransit, m.todo, m.completion)) /\ keeper' = keeper
        /\ m.pc = "recheck"
    BY <1>5, <2>1 DEF SendCompletion
  <2> QED
    BY <1>1, <2>2, UploadsFit
<1>6. ASSUME NEW a \in Files, UploadFile(w, a) PROVE Fitting
  <2>1. CASE agent' = agent
    BY <1>6, <2>1, AgentsStay DEF UploadFile
  <2>2. CASE Move(w, [m EXCEPT !.todo = @ \ {a}])
    <3>1. [m EXCEPT !.todo = @ \ {a}] = Steps("upload", m.call, m.todo \ {a}, m.completion)
      BY <1>1, <1>6 DEF Agent, UploadFile
    <3>2. Move(w, Steps("upload", m.call, m.todo \ {a}, m.completion)) /\ keeper' = keeper
          /\ m.pc = "upload" /\ m.todo \ {a} \in SUBSET Files
      BY <1>1, <1>6, <2>2, <3>1 DEF UploadFile
    <3> QED
      BY <3>2, UploadsFit
  <2> QED
    BY <1>6, <2>1, <2>2 DEF UploadFile
<1> QED
  BY <1>2, <1>3, <1>4, <1>5, <1>6

LEMMA EndsFit ==
    ASSUME WorkerBase, [Next]_vars, NEW w \in WorkerIds,
           \/ ReadRefusal(w) \/ Leave(w) \/ Crash(w)
           \/ Abandon(w) \/ CompletionRecorded(w) \/ CompletionFails(w)
    PROVE  Fitting
<1>1. NextTurn(w) \in {Gone(w), AnotherTurn(w)}
  BY DEF NextTurn
<1>2. CASE Abandon(w) \/ CompletionRecorded(w) \/ CompletionFails(w)
  <2>1. EndTurn(w)
    BY <1>2 DEF Abandon, CompletionRecorded, CompletionFails
  <2> QED
    BY <1>1, <2>1, TurnEnds DEF EndTurn
<1>3. CASE Crash(w)
  BY <1>3, TurnEnds DEF Crash
<1>4. CASE ReadRefusal(w) \/ Leave(w)
  <2>1. PICK n \in {Gone(w), AnotherTurn(w)} : Move(w, n)
    BY <1>1, <1>4 DEF ReadRefusal, Leave
  <2>2. n \in Agent /\ AgentOK(w, n, tasks')
    BY TurnOver
  <2>3. keeper' = keeper /\ agent[w].pc \notin Executing
    BY <1>4 DEF ReadRefusal, Leave, Executing
  <2> QED
    BY <2>1, <2>2, <2>3, AgentMoves
<1> QED
  BY <1>2, <1>3, <1>4

LEMMA StopFits ==
    ASSUME WorkerBase, [Next]_vars, NEW w \in WorkerIds, Stop(w)
    PROVE  Fitting
<1> DEFINE n == [agent[w] EXCEPT !.stopped = TRUE]
<1>1. agent[w] \in Agent /\ AgentOK(w, agent[w], tasks')
  BY AgentKept DEF WorkerBase, WorkerTypeOK
<1>2. n \in Agent /\ n.pc = agent[w].pc /\ n.claim = agent[w].claim /\ n.task = agent[w].task
      /\ n.token = agent[w].token /\ n.call = agent[w].call
      /\ n.completion = agent[w].completion
  BY <1>1 DEF Agent
<1>3. Move(w, n) /\ keeper' = keeper
  BY DEF Stop
<1> HIDE DEF n
<1>4. RequestOK(w, n, tasks')
  BY <1>1, <1>2 DEF AgentOK, RequestOK
<1>5. TurnOK(w, n, tasks')
  BY <1>1, <1>2 DEF AgentOK, TurnOK
<1> QED
  BY <1>2, <1>3, <1>4, <1>5, AgentMoves DEF AgentOK

-----------------------------------------------------------------------------
(* The steps of keepers fit.                                               *)

\* Keepers change, and are on only if they were.
LEMMA KeepersMove ==
    ASSUME WorkerBase, [Next]_vars, agent' = agent,
           keeper' \in [WorkerIds -> Keeper],
           \A w \in WorkerIds : IF keeper'[w].on THEN keeper[w].on ELSE keeper'[w].call = NoCall
    PROVE  Fitting
<1>1. ASSUME NEW w \in WorkerIds
      PROVE  AgentOK(w, agent'[w], tasks') /\ KeeperOK(keeper'[w], agent'[w])
  <2>1. AgentOK(w, agent[w], tasks') /\ KeeperOK(keeper[w], agent[w])
    BY AgentKept DEF WorkerBase
  <2> QED
    BY <2>1 DEF KeeperOK
<1> QED
  BY <1>1 DEF Fitting, WorkerBase, WorkerTypeOK

LEMMA KeepFits ==
    ASSUME WorkerBase, [Next]_vars, NEW w \in WorkerIds, NEW k \in Keeper, Keep(w, k),
           agent' = agent, IF k.on THEN keeper[w].on ELSE k.call = NoCall
    PROVE  Fitting
<1>1. keeper \in [WorkerIds -> Keeper] /\ keeper' = [keeper EXCEPT ![w] = k]
  BY DEF WorkerBase, WorkerTypeOK, Keep
<1>2. keeper' \in [WorkerIds -> Keeper]
  BY <1>1
<1>3. ASSUME NEW v \in WorkerIds
      PROVE  IF keeper'[v].on THEN keeper[v].on ELSE keeper'[v].call = NoCall
  <2>1. KeeperOK(keeper[v], agent[v])
    BY DEF WorkerBase
  <2> QED
    BY <1>1, <2>1 DEF KeeperOK
<1> QED
  BY <1>2, <1>3, KeepersMove

LEMMA KeeperFits ==
    ASSUME WorkerBase, [Next]_vars, NEW w \in WorkerIds, KeeperStep(w) \/ GiveUpBeat(w)
    PROVE  Fitting
<1> DEFINE k == keeper[w]
<1>1. k \in Keeper /\ clock \in Time
  BY DEF WorkerBase, WorkerTypeOK, Inductive, TypeOK, Time
<1>2. CASE KeeperExpires(w) \/ BeatRefused(w)
  <2>1. [KeeperOff EXCEPT !.lost = TRUE] \in Keeper
        /\ ~[KeeperOff EXCEPT !.lost = TRUE].on
        /\ [KeeperOff EXCEPT !.lost = TRUE].call = NoCall
    <3>1. KeeperOff \in Keeper /\ ~KeeperOff.on /\ KeeperOff.call = NoCall
      BY OffTyped DEF KeeperOff
    <3> QED
      BY <3>1 DEF Keeper
  <2> QED
    BY <1>2, <2>1, KeepFits DEF KeeperExpires, BeatRefused, KeeperLoses
<1>3. CASE SendBeat(w)
  <2>1. [k EXCEPT !.call = InTransit, !.since = clock] \in Keeper
        /\ [k EXCEPT !.call = InTransit, !.since = clock].on = k.on
    BY <1>1, CallTyped DEF Keeper
  <2> QED
    BY <1>3, <2>1, KeepFits DEF SendBeat
<1>4. CASE BeatAccepted(w)
  <2> DEFINE deadline == k.since + LeaseSeconds
             n == [k EXCEPT !.call = NoCall, !.since = 0, !.deadline = deadline]
  <2>1. deadline \in Span
    <3>1. k.since \in Nat /\ LeaseSeconds \in Nat
      <4>1. k.since \in Time
        BY <1>1 DEF Keeper
      <4>2. LeaseSeconds \in Nat
        BY StoreAssumption
      <4> QED
        BY <4>1, <4>2 DEF Time
    <3> QED
      BY <3>1 DEF Span
  <2>2. Keep(w, n) /\ agent' = agent
    BY <1>4 DEF BeatAccepted
  <2> HIDE DEF deadline
  <2>3. n \in Keeper /\ n.on = k.on /\ n.call = NoCall
    BY <1>1, <2>1, CallTyped, Zero DEF Keeper
  <2> QED
    BY <2>2, <2>3, KeepFits
<1>5. CASE GiveUpBeat(w)
  <2>1. [k EXCEPT !.call = NoCall, !.since = 0] \in Keeper
        /\ [k EXCEPT !.call = NoCall, !.since = 0].on = k.on
        /\ [k EXCEPT !.call = NoCall, !.since = 0].call = NoCall
    BY <1>1, CallTyped, Zero DEF Keeper
  <2> QED
    BY <1>5, <2>1, KeepFits DEF GiveUpBeat
<1> QED
  BY <1>2, <1>3, <1>4, <1>5 DEF KeeperStep

LEMMA BeatReachesFits ==
    ASSUME WorkerBase, [Next]_vars, NEW w \in WorkerIds, BeatReaches(w)
    PROVE  Fitting
<1> DEFINE b == [task |-> agent[w].task, token |-> agent[w].token, now |-> clock]
           n == [keeper[w] EXCEPT !.call = Handled(b)]
<1>1. keeper[w] \in Keeper /\ keeper[w].on /\ agent[w].pc \in Executing
  <2>1. keeper[w].call = InTransit /\ KeeperOK(keeper[w], agent[w]) /\ keeper[w] \in Keeper
    BY DEF BeatReaches, WorkerBase, WorkerTypeOK
  <2> QED
    BY <2>1, CallFields DEF KeeperOK
<1>2. b \in Beat
  BY <1>1, Executes DEF Beat, WorkerBase, Inductive, TypeOK
<1>3. Keep(w, n) /\ agent' = agent
  BY DEF BeatReaches
<1> HIDE DEF b
<1>4. n \in Keeper /\ n.on
  BY <1>1, <1>2, CallTyped DEF Keeper
<1> QED
  BY <1>1, <1>3, <1>4, KeepFits

LEMMA AnswerBeatFits ==
    ASSUME WorkerBase, [Next]_vars, NEW b, NEW status \in {200, 409, 500},
           AnswerBeat(b, [status |-> status]), agent' = agent
    PROVE  Fitting
<1> DEFINE a == [status |-> status]
<1>1. a \in Renewal
  BY DEF Renewal
<1>2. Answered(a) \in Calls(Beat, Renewal)
  BY <1>1, CallTyped
<1>3. ASSUME NEW w \in WorkerIds
      PROVE  /\ keeper'[w] \in Keeper
             /\ IF keeper'[w].on THEN keeper[w].on ELSE keeper'[w].call = NoCall
  <2>1. keeper[w] \in Keeper /\ KeeperOK(keeper[w], agent[w])
    BY DEF WorkerBase, WorkerTypeOK
  <2>2. CASE keeper[w].call # Handled(b)
    <3>1. keeper'[w] = keeper[w]
      BY <2>2 DEF AnswerBeat
    <3> QED
      BY <2>1, <3>1 DEF KeeperOK
  <2>3. CASE keeper[w].call = Handled(b)
    <3>1. keeper'[w] = [keeper[w] EXCEPT !.call = Answered(a)]
      BY <2>3 DEF AnswerBeat
    <3>2. keeper[w].on
      BY <2>1, <2>3, CallFields DEF KeeperOK
    <3>3. keeper'[w] \in Keeper /\ keeper'[w].on = keeper[w].on
      BY <1>2, <2>1, <3>1 DEF Keeper
    <3> QED
      BY <3>2, <3>3
  <2> QED
    BY <2>2, <2>3
<1>4. keeper' \in [WorkerIds -> Keeper]
  <2>1. keeper' = [w \in WorkerIds |-> keeper'[w]]
    BY DEF AnswerBeat
  <2> QED
    BY <1>3, <2>1
<1> QED
  BY <1>3, <1>4, KeepersMove

LEMMA ServesFit ==
    ASSUME WorkerBase, [Next]_vars, (\E b \in beats : ServeBeat(b)) \/ ServeTimeout
    PROVE  Fitting
<1>1. ASSUME NEW b \in beats, ServeBeat(b) PROVE Fitting
  <2>1. AnswerBeat(b, [status |-> IF LeaseHeld(b.task, b.token) THEN 200 ELSE 409])
        /\ agent' = agent
    BY <1>1 DEF ServeBeat
  <2>2. CASE AnswerBeat(b, [status |-> 200])
    BY <2>1, <2>2, AnswerBeatFits
  <2>3. CASE AnswerBeat(b, [status |-> 409])
    BY <2>1, <2>3, AnswerBeatFits
  <2> QED
    BY <2>1, <2>2, <2>3
<1>2. ASSUME NEW c \in claims, AnswerClaim(c, [status |-> 500]), keeper' = keeper
      PROVE  Fitting
  <2>1. c \in ClaimCall
    BY DEF WorkerBase, Inductive, TypeOK
  <2>2. [status |-> 500] \in Refusal /\ [status |-> 500].status # 200
    BY DEF Refusal
  <2> QED
    BY <1>2, <2>1, <2>2, AnswerFits
<1>3. ASSUME NEW b \in beats, AnswerBeat(b, [status |-> 500]), agent' = agent
      PROVE  Fitting
  BY <1>3, AnswerBeatFits
<1> QED
  BY <1>1, <1>2, <1>3 DEF ServeTimeout

LEMMA StepFits ==
    ASSUME WorkerBase, [WorkerNext]_wvars
    PROVE  Fitting
<1>1. [Next]_vars
  BY WorkerDrives
<1>2. ASSUME NEW w \in WorkerIds, AgentStep(w) PROVE Fitting
  <2>1. CASE CompletionReaches(w)
    BY <1>1, <2>1, AgentsStay DEF CompletionReaches
  <2>2. CASE CheckLease(w) \/ Launch(w)
    BY <1>1, <2>2, LaunchFits
  <2> QED
    BY <1>1, <1>2, <2>1, <2>2, SendClaimFits, ReadGrantFits, StartKeeperFits, ReportsFit,
       UploadStepsFit, EndsFit
    DEF AgentStep
<1>3. ASSUME NEW w \in WorkerIds,
             \/ KeeperStep(w) \/ ClaimReaches(w) \/ GiveUpClaim(w) \/ StopOnTimeout(w)
             \/ BeatReaches(w) \/ GiveUpBeat(w) \/ Stop(w) \/ Crash(w)
      PROVE  Fitting
  BY <1>1, <1>3, KeeperFits, ClaimReachesFits, GiveUpClaimFits, ReportsFit, BeatReachesFits,
     StopFits, EndsFit
<1>4. CASE (\E c \in claims : ServeClaim(c)) \/ (\E b \in beats : ServeBeat(b)) \/ ServeTimeout
  BY <1>1, <1>4, ServeClaimFits, ServesFit
<1>5. CASE \/ \E s \in scripts : ScriptEnds(s)
           \/ \E s \in strays :
                  \/ StrayClaimReaches(s) \/ StrayCompletionReaches(s)
                  \/ StrayUploadReaches(s) \/ StrayBeatReaches(s)
           \/ Others
           \/ UNCHANGED wvars
  <2>1. agent' = agent /\ keeper' = keeper
    BY <1>5 DEF ScriptEnds, StrayClaimReaches, StrayCompletionReaches, StrayUploadReaches,
                StrayBeatReaches, Others, wvars
  <2> QED
    BY <1>1, <2>1, AgentsStay
<1> QED
  BY <1>2, <1>3, <1>4, <1>5 DEF WorkerNext

-----------------------------------------------------------------------------
(* What a step does to one worker, and to what is outside the workers.     *)

\* At most the request under way changes, or the worker is told to stop.
Stays(w) ==
    /\ agent'[w].pc = agent[w].pc
    /\ agent'[w].claim = agent[w].claim
    /\ agent'[w].task = agent[w].task
    /\ agent'[w].completion = agent[w].completion
    /\ agent'[w].todo = agent[w].todo
    /\ agent[w].stopped => agent'[w].stopped

\* The worker goes on with its call, at another point.
GoesOn(w, pc) ==
    /\ agent'[w].pc = pc
    /\ agent'[w].claim = agent[w].claim
    /\ agent'[w].task = agent[w].task

SameReport(w) == agent'[w].completion = agent[w].completion

Turn(w) ==
    \/ Stays(w)
    \/ agent[w].pc # "exited" /\ agent'[w] = Gone(w)
    \/ /\ agent[w].pc \in {"claiming", "report", "recheck", "complete"}
       /\ agent'[w] = AnotherTurn(w)
    \/ /\ SendClaim(w) /\ agent'[w].pc = "claiming"
       /\ IF agent[w].claim = None THEN agent'[w].claim \in FreshIds
                                   ELSE agent'[w].claim = agent[w].claim
    \/ GiveUpClaim(w) /\ GoesOn(w, "poll") /\ agent'[w].stopped = agent[w].stopped
    \/ ReadGrant(w) /\ agent'[w].pc = "starting" /\ agent'[w].claim = agent[w].claim
    \/ StartKeeper(w) /\ GoesOn(w, "prepare")
    \/ PrepareFails(w) /\ GoesOn(w, "report") /\ agent'[w].completion = Failure
    \/ CheckLease(w) /\ GoesOn(w, "launching")
    \/ Launch(w) /\ GoesOn(w, "script")
    \/ CollectExit(w) /\ GoesOn(w, "report") /\ agent'[w].completion \in ExitCompletions(w)
    \/ /\ KillScript(w) /\ GoesOn(w, "report") /\ agent'[w].completion = Failure
       /\ Script(w) \in scripts' => agent'[w].stopped \/ "other error" \in Kills
    \/ BeginUpload(w) /\ GoesOn(w, "upload") /\ SameReport(w) /\ agent'[w].todo = Files
    \/ \E a \in Files : /\ UploadFile(w, a) /\ GoesOn(w, "upload") /\ SameReport(w)
                        /\ agent'[w].todo = agent[w].todo \ {a}
    \/ UploadFails(w) /\ GoesOn(w, "recheck") /\ agent'[w].completion = Failed(agent[w].completion)
    \/ UploadEnds(w) /\ GoesOn(w, "recheck") /\ SameReport(w)
    \/ SendCompletion(w) /\ GoesOn(w, "complete") /\ SameReport(w)

LEMMA Moved ==
    ASSUME WorkerBase, NEW w \in WorkerIds, NEW n, Move(w, n)
    PROVE  agent'[w] = n /\ \A v \in WorkerIds \ {w} : agent'[v] = agent[v] /\ Turn(v)
<1>1. agent \in [WorkerIds -> Agent] /\ agent' = [agent EXCEPT ![w] = n]
  BY DEF WorkerBase, WorkerTypeOK, Move
<1>2. agent'[w] = n /\ \A v \in WorkerIds \ {w} : agent'[v] = agent[v]
  BY <1>1
<1> QED
  BY <1>2 DEF Turn, Stays

LEMMA Unmoved ==
    ASSUME agent' = agent, NEW v
    PROVE  Turn(v)
BY DEF Turn, Stays

LEMMA KillTurns ==
    ASSUME WorkerBase, NEW w \in WorkerIds, KillScript(w)
    PROVE  GoesOn(w, "report") /\ \A v \in WorkerIds : Turn(v)
<1>1. PICK first \in Kills, second \in Kills :
          LET outcomes == {first} \cup (IF first = "killed" THEN {} ELSE {second}) IN
          /\ scripts' = IF "killed" \in outcomes THEN scripts \ {Script(w)} ELSE scripts
          /\ Move(w, [agent[w] EXCEPT !.pc = "report", !.completion = Failure,
                                      !.stopped = StopAfter(w, outcomes)])
  BY DEF KillScript
<1> DEFINE outcomes == {first} \cup (IF first = "killed" THEN {} ELSE {second})
           n == [agent[w] EXCEPT !.pc = "report", !.completion = Failure,
                                 !.stopped = StopAfter(w, outcomes)]
<1>2. Move(w, n)
  BY <1>1
<1>3. Script(w) \in scripts' => "cleanup error" \in outcomes \/ "other error" \in Kills
  <2>1. Kills \subseteq {"killed", "cleanup error", "other error"}
    BY WorkerAssumption
  <2>2. Script(w) \in scripts' => "killed" \notin outcomes
    BY <1>1
  <2> QED
    BY <2>1, <2>2
<1> HIDE DEF outcomes
<1>4. agent[w] \in Agent
  BY DEF WorkerBase, WorkerTypeOK
<1>5. n.pc = "report" /\ n.claim = agent[w].claim /\ n.task = agent[w].task
      /\ n.completion = Failure /\ n.stopped = StopAfter(w, outcomes)
  BY <1>4 DEF Agent
<1> HIDE DEF n
<1>6. Script(w) \in scripts' => n.stopped \/ "other error" \in Kills
  BY <1>3, <1>5 DEF StopAfter
<1>7. agent'[w] = n => Turn(w) /\ GoesOn(w, "report")
  BY <1>5, <1>6 DEF Turn, GoesOn
<1> QED
  BY <1>2, <1>7, Moved

LEMMA AgentTurns ==
    ASSUME WorkerBase, NEW w \in WorkerIds, AgentStep(w)
    PROVE  \A v \in WorkerIds : Turn(v)
<1> DEFINE m == agent[w]
<1>0. m \in Agent
  BY DEF WorkerBase, WorkerTypeOK
<1>1. ASSUME NEW n, Move(w, n), agent'[w] = n => Turn(w)
      PROVE  \A v \in WorkerIds : Turn(v)
  BY <1>1, Moved
<1>2. CASE SendClaim(w)
  <2>1. PICK r \in IF agent[w].claim = None THEN FreshIds ELSE {agent[w].claim} :
            Move(w, [m EXCEPT !.pc = "claiming", !.claim = r, !.since = clock,
                              !.call = InTransit])
    BY <1>2 DEF SendClaim
  <2> DEFINE n == [m EXCEPT !.pc = "claiming", !.claim = r, !.since = clock,
                            !.call = InTransit]
  <2>2. n.pc = "claiming" /\ n.claim = r
    BY <1>0 DEF Agent
  <2>3. Move(w, n)
    BY <2>1
  <2> HIDE DEF n
  <2>4. agent'[w] = n => Turn(w)
    BY <1>2, <2>2 DEF Turn
  <2> QED
    BY <1>1, <2>3, <2>4
<1>3. CASE ReadGrant(w)
  <2> DEFINE grant == m.call.answer
             n == [m EXCEPT !.pc = "starting", !.call = NoCall, !.since = 0,
                            !.task = grant.task, !.token = grant.token,
                            !.left = grant.left - (clock - m.since)]
  <2>1. Move(w, n)
    BY <1>3 DEF ReadGrant
  <2>2. n.pc = "starting" /\ n.claim = m.claim
    BY <1>0 DEF Agent
  <2> HIDE DEF n
  <2>3. agent'[w] = n => Turn(w)
    BY <1>3, <2>2 DEF Turn
  <2> QED
    BY <1>1, <2>1, <2>3
<1>4. CASE StartKeeper(w)
  <2> DEFINE n == [m EXCEPT !.pc = "prepare", !.left = 0]
  <2>1. Move(w, n)
    BY <1>4 DEF StartKeeper
  <2>2. n.pc = "prepare" /\ n.claim = m.claim /\ n.task = m.task
    BY <1>0 DEF Agent
  <2> HIDE DEF n
  <2>3. agent'[w] = n => Turn(w)
    BY <1>4, <2>2 DEF Turn, GoesOn
  <2> QED
    BY <1>1, <2>1, <2>3
<1>5. ASSUME NEW pc \in {"launching", "script"},
             IF pc = "script" THEN Launch(w) ELSE CheckLease(w)
      PROVE  \A v \in WorkerIds : Turn(v)
  <2> DEFINE n == [m EXCEPT !.pc = pc]
  <2>1. Move(w, n)
    BY <1>5 DEF CheckLease, Launch
  <2>2. n.pc = pc /\ n.claim = m.claim /\ n.task = m.task
    BY <1>0 DEF Agent
  <2> HIDE DEF n
  <2>3. agent'[w] = n => Turn(w)
    BY <1>5, <2>2 DEF Turn, GoesOn
  <2> QED
    BY <1>1, <2>1, <2>3
<1>6. CASE PrepareFails(w) \/ CollectExit(w)
  <2>1. PICK c : /\ Report(w, c)
                 /\ \/ PrepareFails(w) /\ c = Failure
                    \/ CollectExit(w) /\ c \in ExitCompletions(w)
    BY <1>6 DEF PrepareFails, CollectExit
  <2> DEFINE n == [m EXCEPT !.pc = "report", !.completion = c]
  <2>2. Move(w, n)
    BY <2>1 DEF Report
  <2>3. n.pc = "report" /\ n.claim = m.claim /\ n.task = m.task /\ n.completion = c
    BY <1>0 DEF Agent
  <2> HIDE DEF n
  <2>4. agent'[w] = n => Turn(w)
    BY <2>1, <2>3 DEF Turn, GoesOn
  <2> QED
    BY <1>1, <2>2, <2>4
<1>7. CASE StopOnLoss(w)
  BY <1>7, KillTurns DEF StopOnLoss
<1>8. CASE BeginUpload(w)
  <2> DEFINE n == [m EXCEPT !.pc = "upload", !.todo = Files]
  <2>1. Move(w, n)
    BY <1>8 DEF BeginUpload
  <2>2. n.pc = "upload" /\ n.claim = m.claim /\ n.task = m.task /\ n.completion = m.completion
        /\ n.todo = Files
    BY <1>0 DEF Agent
  <2> HIDE DEF n
  <2>3. agent'[w] = n => Turn(w)
    BY <1>8, <2>2 DEF Turn, GoesOn, SameReport
  <2> QED
    BY <1>1, <2>1, <2>3
<1>9. ASSUME NEW a \in Files, UploadFile(w, a) PROVE \A v \in WorkerIds : Turn(v)
  <2>1. CASE agent' = agent
    BY <2>1, Unmoved
  <2>2. CASE Move(w, [m EXCEPT !.todo = @ \ {a}])
    <3> DEFINE n == [m EXCEPT !.todo = @ \ {a}]
    <3>1. n.pc = "upload" /\ n.claim = m.claim /\ n.task = m.task /\ n.completion = m.completion
          /\ n.todo = m.todo \ {a}
      BY <1>0, <1>9 DEF Agent, UploadFile
    <3>2. Move(w, n)
      BY <2>2
    <3> HIDE DEF n
    <3>3. agent'[w] = n => Turn(w)
      BY <1>9, <3>1 DEF Turn, GoesOn, SameReport
    <3> QED
      BY <1>1, <3>2, <3>3
  <2> QED
    BY <1>9, <2>1, <2>2 DEF UploadFile
<1>10. CASE UploadFails(w)
  <2> DEFINE n == [m EXCEPT !.pc = "recheck", !.todo = {}, !.completion = Failed(@)]
  <2>1. Move(w, n)
    BY <1>10 DEF UploadFails
  <2>2. n.pc = "recheck" /\ n.claim = m.claim /\ n.task = m.task
        /\ n.completion = Failed(m.completion)
    BY <1>0 DEF Agent
  <2> HIDE DEF n
  <2>3. agent'[w] = n => Turn(w)
    BY <1>10, <2>2 DEF Turn, GoesOn
  <2> QED
    BY <1>1, <2>1, <2>3
<1>11. CASE UploadEnds(w)
  <2> DEFINE n == [m EXCEPT !.pc = "recheck"]
  <2>1. Move(w, n)
    BY <1>11 DEF UploadEnds
  <2>2. n.pc = "recheck" /\ n.claim = m.claim /\ n.task = m.task /\ n.completion = m.completion
    BY <1>0 DEF Agent
  <2> HIDE DEF n
  <2>3. agent'[w] = n => Turn(w)
    BY <1>11, <2>2 DEF Turn, GoesOn, SameReport
  <2> QED
    BY <1>1, <2>1, <2>3
<1>12. CASE SendCompletion(w)
  <2> DEFINE n == [m EXCEPT !.pc = "complete", !.call = InTransit]
  <2>1. Move(w, n)
    BY <1>12 DEF SendCompletion
  <2>2. n.pc = "complete" /\ n.claim = m.claim /\ n.task = m.task /\ n.completion = m.completion
    BY <1>0 DEF Agent
  <2> HIDE DEF n
  <2>3. agent'[w] = n => Turn(w)
    BY <1>12, <2>2 DEF Turn, GoesOn, SameReport
  <2> QED
    BY <1>1, <2>1, <2>3
<1>13. CASE ReadRefusal(w) \/ Leave(w) \/ Abandon(w) \/ CompletionRecorded(w)
            \/ CompletionFails(w)
  <2>1. PICK n :
            /\ Move(w, n)
            /\ \/ m.pc # "exited" /\ n = Gone(w)
               \/ m.pc \in {"claiming", "report", "recheck", "complete"} /\ n = AnotherTurn(w)
    BY <1>13 DEF ReadRefusal, Leave, Abandon, CompletionRecorded, CompletionFails, EndTurn,
                 NextTurn
  <2>2. agent'[w] = n => Turn(w)
    BY <2>1 DEF Turn
  <2> QED
    BY <1>1, <2>1, <2>2
<1>14. CASE CompletionReaches(w)
  BY <1>14, Unmoved DEF CompletionReaches
<1> QED
  BY <1>2, <1>3, <1>4, <1>5, <1>6, <1>7, <1>8, <1>9, <1>10, <1>11, <1>12, <1>13, <1>14
  DEF AgentStep

LEMMA AnswerTurns ==
    ASSUME WorkerBase, NEW c \in ClaimCall, NEW a, AnswerClaim(c, a)
    PROVE  \A v \in WorkerIds : Turn(v)
<1> SUFFICES ASSUME NEW v \in WorkerIds PROVE Stays(v)
  BY DEF Turn
<1>1. agent \in [WorkerIds -> Agent] /\ agent[v] \in Agent
  BY DEF WorkerBase, WorkerTypeOK
<1>2. \/ agent'[v] = agent[v]
      \/ agent'[v] = [agent[v] EXCEPT !.call = Answered(a)]
  <2>1. CASE v = c.worker
    BY <1>1, <2>1 DEF AnswerClaim, Agent
  <2>2. CASE v # c.worker
    BY <1>1, <2>2 DEF AnswerClaim
  <2> QED
    BY <2>1, <2>2
<1> QED
  BY <1>1, <1>2 DEF Stays, Agent

LEMMA RequestTurns ==
    ASSUME WorkerBase, NEW w \in WorkerIds,
           \/ KeeperStep(w) \/ ClaimReaches(w) \/ GiveUpClaim(w) \/ StopOnTimeout(w)
           \/ BeatReaches(w) \/ GiveUpBeat(w) \/ Stop(w) \/ Crash(w)
    PROVE  \A v \in WorkerIds : Turn(v)
<1> DEFINE m == agent[w]
<1>0. m \in Agent
  BY DEF WorkerBase, WorkerTypeOK
<1>1. ASSUME NEW n, Move(w, n), agent'[w] = n => Turn(w)
      PROVE  \A v \in WorkerIds : Turn(v)
  BY <1>1, Moved
<1>2. CASE ClaimReaches(w)
  <2> DEFINE h == [worker |-> w, function |-> FunctionOf[w], request |-> m.claim, now |-> clock]
             n == [m EXCEPT !.call = Handled(h)]
  <2>1. Move(w, n)
    BY <1>2 DEF ClaimReaches
  <2>2. n.pc = m.pc /\ n.claim = m.claim /\ n.task = m.task /\ n.completion = m.completion
        /\ n.todo = m.todo /\ n.stopped = m.stopped
    BY <1>0 DEF Agent
  <2> HIDE DEF n
  <2>3. agent'[w] = n => Turn(w)
    BY <2>2 DEF Turn, Stays
  <2> QED
    BY <1>1, <2>1, <2>3
<1>3. CASE GiveUpClaim(w)
  <2> DEFINE n == [m EXCEPT !.pc = "poll", !.call = NoCall, !.since = 0]
  <2>1. Move(w, n)
    BY <1>3 DEF GiveUpClaim
  <2>2. n.pc = "poll" /\ n.claim = m.claim /\ n.task = m.task /\ n.stopped = m.stopped
    BY <1>0 DEF Agent
  <2> HIDE DEF n
  <2>3. agent'[w] = n => Turn(w)
    BY <1>3, <2>2 DEF Turn, GoesOn
  <2> QED
    BY <1>1, <2>1, <2>3
<1>4. CASE Stop(w)
  <2> DEFINE n == [m EXCEPT !.stopped = TRUE]
  <2>1. Move(w, n)
    BY <1>4 DEF Stop
  <2>2. n.pc = m.pc /\ n.claim = m.claim /\ n.task = m.task /\ n.completion = m.completion
        /\ n.todo = m.todo /\ n.stopped
    BY <1>0 DEF Agent
  <2> HIDE DEF n
  <2>3. agent'[w] = n => Turn(w)
    BY <2>2 DEF Turn, Stays
  <2> QED
    BY <1>1, <2>1, <2>3
<1>5. CASE Crash(w)
  BY <1>1, <1>5 DEF Crash, Turn
<1>6. CASE StopOnTimeout(w)
  BY <1>6, KillTurns DEF StopOnTimeout
<1>7. CASE KeeperStep(w) \/ BeatReaches(w) \/ GiveUpBeat(w)
  <2>1. agent' = agent
    BY <1>7 DEF KeeperStep, KeeperExpires, SendBeat, BeatAccepted, BeatRefused, BeatReaches,
                GiveUpBeat
  <2> QED
    BY <2>1, Unmoved
<1> QED
  BY <1>2, <1>3, <1>4, <1>5, <1>6, <1>7

\* What any step does to any worker.
LEMMA TurnStep ==
    ASSUME WorkerBase, [WorkerNext]_wvars
    PROVE  \A v \in WorkerIds : Turn(v)
<1>1. \A c \in claims : c \in ClaimCall
  BY DEF WorkerBase, Inductive, TypeOK
<1>2. ASSUME NEW c \in claims, ServeClaim(c) PROVE \A v \in WorkerIds : Turn(v)
  <2>1. \E a : AnswerClaim(c, a)
    BY <1>2 DEF ServeClaim
  <2> QED
    BY <1>1, <2>1, AnswerTurns
<1>3. CASE ServeTimeout
  <2>1. (\E c \in claims : AnswerClaim(c, [status |-> 500])) \/ agent' = agent
    BY <1>3 DEF ServeTimeout
  <2> QED
    BY <1>1, <2>1, AnswerTurns, Unmoved
<1>4. CASE \/ \E s \in scripts : ScriptEnds(s)
           \/ \E s \in strays :
                  \/ StrayClaimReaches(s) \/ StrayCompletionReaches(s)
                  \/ StrayUploadReaches(s) \/ StrayBeatReaches(s)
           \/ \E b \in beats : ServeBeat(b)
           \/ Others
           \/ UNCHANGED wvars
  <2>1. agent' = agent
    BY <1>4 DEF ScriptEnds, StrayClaimReaches, StrayCompletionReaches, StrayUploadReaches,
                StrayBeatReaches, ServeBeat, Others, wvars
  <2> QED
    BY <2>1, Unmoved
<1> QED
  BY <1>2, <1>3, <1>4, AgentTurns, RequestTurns DEF WorkerNext

\* What any step does to the scripts, their records and the run directories.
LEMMA OutsideStep ==
    ASSUME [WorkerNext]_wvars
    PROVE  \/ UNCHANGED outside
           \/ \E w \in WorkerIds :
                  StartKeeper(w) \/ Launch(w) \/ KillScript(w) \/ CompletionRecorded(w)
           \/ \E s \in scripts : ScriptEnds(s)
<1>1. ASSUME NEW w \in WorkerIds, AgentStep(w)
      PROVE  \/ UNCHANGED outside
             \/ StartKeeper(w) \/ Launch(w) \/ KillScript(w) \/ CompletionRecorded(w)
  BY <1>1 DEF AgentStep, SendClaim, ReadRefusal, ReadGrant, PrepareFails, CheckLease,
              CollectExit, StopOnLoss, Abandon, BeginUpload, UploadEnds, UploadFails, UploadFile,
              SendCompletion, CompletionReaches, CompletionFails, Leave
<1>2. ASSUME NEW w \in WorkerIds,
             \/ KeeperStep(w) \/ ClaimReaches(w) \/ GiveUpClaim(w) \/ StopOnTimeout(w)
             \/ BeatReaches(w) \/ GiveUpBeat(w) \/ Stop(w) \/ Crash(w)
      PROVE  UNCHANGED outside \/ KillScript(w)
  BY <1>2 DEF KeeperStep, KeeperExpires, SendBeat, BeatAccepted, BeatRefused, ClaimReaches,
              GiveUpClaim, StopOnTimeout, BeatReaches, GiveUpBeat, Stop, Crash
<1>3. CASE \/ \E s \in strays :
                  \/ StrayClaimReaches(s) \/ StrayCompletionReaches(s)
                  \/ StrayUploadReaches(s) \/ StrayBeatReaches(s)
           \/ \E c \in claims : ServeClaim(c)
           \/ \E b \in beats : ServeBeat(b)
           \/ ServeTimeout \/ Others \/ UNCHANGED wvars
  BY <1>3 DEF StrayClaimReaches, StrayCompletionReaches, StrayUploadReaches,
              StrayBeatReaches, ServeClaim, ServeBeat, ServeTimeout, Others, wvars
<1> QED
  BY <1>1, <1>2, <1>3 DEF WorkerNext

LEMMA StraysStep ==
    ASSUME [WorkerNext]_wvars
    PROVE  \/ strays' \subseteq strays
           \/ \E w \in WorkerIds :
                  \/ GiveUpClaim(w) /\ strays' = strays \cup {ClaimMessage(w)}
                  \/ \E a \in agent[w].todo :
                         UploadFails(w) /\ strays' = strays \cup {UploadMessage(w, a)}
                  \/ CompletionFails(w) /\ strays' = strays \cup {CompletionMessage(w)}
                  \/ GiveUpBeat(w) /\ strays' = strays \cup {BeatMessage(w)}
<1>1. ASSUME NEW w \in WorkerIds, AgentStep(w)
      PROVE  \/ strays' \subseteq strays
             \/ \E a \in agent[w].todo :
                    UploadFails(w) /\ strays' = strays \cup {UploadMessage(w, a)}
             \/ CompletionFails(w) /\ strays' = strays \cup {CompletionMessage(w)}
  BY <1>1 DEF AgentStep, SendClaim, ReadRefusal, ReadGrant, StartKeeper, PrepareFails, CheckLease, Launch,
              CollectExit, StopOnLoss, KillScript, Abandon, BeginUpload, UploadEnds,
              UploadFails, UploadFile, SendCompletion, CompletionReaches, CompletionRecorded,
              CompletionFails, Leave, Stray
<1>2. ASSUME NEW w \in WorkerIds,
             \/ KeeperStep(w) \/ ClaimReaches(w) \/ GiveUpClaim(w) \/ StopOnTimeout(w)
             \/ BeatReaches(w) \/ GiveUpBeat(w) \/ Stop(w) \/ Crash(w)
      PROVE  \/ strays' \subseteq strays
             \/ GiveUpClaim(w) /\ strays' = strays \cup {ClaimMessage(w)}
             \/ GiveUpBeat(w) /\ strays' = strays \cup {BeatMessage(w)}
  BY <1>2 DEF KeeperStep, KeeperExpires, SendBeat, BeatAccepted, BeatRefused, ClaimReaches,
              GiveUpClaim, StopOnTimeout, KillScript, BeatReaches, GiveUpBeat, Stop, Crash, Stray
<1>3. CASE \/ \E s \in scripts : ScriptEnds(s)
           \/ \E s \in strays :
                  \/ StrayClaimReaches(s) \/ StrayCompletionReaches(s)
                  \/ StrayUploadReaches(s) \/ StrayBeatReaches(s)
           \/ \E c \in claims : ServeClaim(c)
           \/ \E b \in beats : ServeBeat(b)
           \/ ServeTimeout \/ Others \/ UNCHANGED wvars
  BY <1>3 DEF ScriptEnds, StrayClaimReaches, StrayCompletionReaches, StrayUploadReaches,
              StrayBeatReaches, ServeClaim, ServeBeat, ServeTimeout, Others, wvars
<1> QED
  BY <1>1, <1>2, <1>3 DEF WorkerNext

LEMMA StraysTyped ==
    ASSUME WorkerBase, [WorkerNext]_wvars
    PROVE  strays' \in SUBSET Message
<1>1. strays \in SUBSET Message
  BY DEF WorkerBase, WorkerTypeOK
<1>2. ASSUME NEW w \in WorkerIds, GiveUpClaim(w) PROVE ClaimMessage(w) \in Message
  <2>1. agent[w].claim \in RequestIds
    BY <1>2 DEF GiveUpClaim, WorkerBase, AgentOK, TurnOK
  <2> QED
    BY <2>1 DEF ClaimMessage, Message
<1>3. ASSUME NEW w \in WorkerIds, CompletionFails(w) PROVE CompletionMessage(w) \in Message
  <2>1. /\ agent[w].task \in TaskIds /\ agent[w].token \in Tokens
        /\ agent[w].completion \in Completions
    BY <1>3, Executes DEF CompletionFails, Executing
  <2> QED
    BY <2>1 DEF CompletionMessage, Message
<1>4. ASSUME NEW w \in WorkerIds, GiveUpBeat(w) PROVE BeatMessage(w) \in Message
  <2>1. agent[w].pc \in Executing
    BY <1>4 DEF GiveUpBeat, WorkerBase, KeeperOK
  <2>2. agent[w].task \in TaskIds /\ agent[w].token \in Tokens
    BY <2>1, Executes
  <2> QED
    BY <2>2 DEF BeatMessage, Message
<1>5. ASSUME NEW w \in WorkerIds, UploadFails(w), NEW a \in agent[w].todo
      PROVE  UploadMessage(w, a) \in Message
  <2>1. /\ agent[w].task \in TaskIds /\ agent[w].token \in Tokens
        /\ agent[w].todo \subseteq Files
    BY <1>5, Executes DEF UploadFails, Executing, Agent
  <2> QED
    BY <2>1 DEF UploadMessage, Message
<1> QED
  BY <1>1, <1>2, <1>3, <1>4, <1>5, StraysStep

LEMMA OutsideTyped ==
    ASSUME WorkerBase, [WorkerNext]_wvars
    PROVE  /\ scripts' \in SUBSET [worker : WorkerIds, task : TaskIds]
           /\ launched' \in [TaskIds -> Nat]
           /\ exits' \in [TaskIds -> ExitCodes \cup {None}]
           /\ workspaces' \in SUBSET (WorkerIds \X TaskIds)
<1> USE DEF WorkerBase, WorkerTypeOK
<1>1. CASE UNCHANGED outside
  BY <1>1 DEF outside
<1>2. ASSUME NEW w \in WorkerIds, StartKeeper(w)
      PROVE  workspaces' \in SUBSET (WorkerIds \X TaskIds) /\ UNCHANGED <<scripts, launched, exits>>
  <2>1. agent[w].task \in TaskIds
    BY <1>2, Executes DEF StartKeeper, Executing
  <2> QED
    BY <1>2, <2>1 DEF StartKeeper
<1>3. ASSUME NEW w \in WorkerIds, Launch(w)
      PROVE  /\ scripts' \in SUBSET [worker : WorkerIds, task : TaskIds]
             /\ launched' \in [TaskIds -> Nat]
             /\ UNCHANGED <<exits, workspaces>>
  <2>1. agent[w].task \in TaskIds
    BY <1>3, Executes DEF Launch, Executing
  <2>2. Script(w) \in [worker : WorkerIds, task : TaskIds]
    BY <2>1 DEF Script
  <2>3. launched' \in [TaskIds -> Nat]
    BY <1>3, <2>1 DEF Launch
  <2> QED
    BY <1>3, <2>2, <2>3 DEF Launch
<1>4. ASSUME NEW w \in WorkerIds, KillScript(w)
      PROVE  scripts' \subseteq scripts /\ UNCHANGED <<launched, exits, workspaces>>
  BY <1>4 DEF KillScript
<1>5. ASSUME NEW w \in WorkerIds, CompletionRecorded(w)
      PROVE  workspaces' \subseteq workspaces /\ UNCHANGED <<scripts, launched, exits>>
  BY <1>5 DEF CompletionRecorded, Without
<1>6. ASSUME NEW s \in scripts, ScriptEnds(s)
      PROVE  /\ scripts' \subseteq scripts
             /\ exits' \in [TaskIds -> ExitCodes \cup {None}]
             /\ UNCHANGED <<launched, workspaces>>
  <2>1. PICK code \in ExitCodes : exits' = [exits EXCEPT ![s.task] = code]
    BY <1>6 DEF ScriptEnds
  <2> QED
    BY <1>6, <2>1 DEF ScriptEnds
<1> QED
  BY <1>1, <1>2, <1>3, <1>4, <1>5, <1>6, OutsideStep

\* The scripts of other workers, and those of this one, but for the steps that end them.
LEMMA ScriptsKept ==
    ASSUME WorkerBase, [WorkerNext]_wvars, NEW s \in scripts, s \notin scripts'
    PROVE  \/ ScriptEnds(s)
           \/ KillScript(s.worker) /\ s = Script(s.worker)
<1>1. ASSUME NEW w \in WorkerIds, KillScript(w)
      PROVE  s = Script(w)
  BY <1>1 DEF KillScript
<1>2. ASSUME NEW w \in WorkerIds, StartKeeper(w) \/ Launch(w) \/ CompletionRecorded(w)
      PROVE  FALSE
  BY <1>2 DEF StartKeeper, Launch, CompletionRecorded
<1>3. ASSUME NEW r \in scripts, ScriptEnds(r) PROVE r = s
  BY <1>3 DEF ScriptEnds
<1>4. CASE UNCHANGED outside
  BY <1>4 DEF outside
<1>5. \A w : Script(w).worker = w
  BY DEF Script
<1> QED
  BY <1>1, <1>2, <1>3, <1>4, <1>5, OutsideStep

LEMMA ScriptsFit ==
    ASSUME WorkerBase, [WorkerNext]_wvars, NEW w \in WorkerIds
    PROVE  ScriptOK(agent[w], Script(w), scripts, exits)'
<1> SUFFICES ASSUME agent'[w].pc = "script"
             PROVE  Script(w)' \in scripts' \/ exits'[agent'[w].task] \in ExitCodes
  BY DEF ScriptOK
<1>1. Turn(w) /\ agent[w] \in Agent
  BY TurnStep DEF WorkerBase, WorkerTypeOK
<1>2. \/ Launch(w) /\ agent'[w].task = agent[w].task
      \/ agent[w].pc = "script" /\ agent'[w].task = agent[w].task
  <2>1. agent'[w] # Gone(w) /\ agent'[w] # AnotherTurn(w)
    BY TurnOver
  <2> QED
    BY <1>1, <2>1 DEF Turn, Stays, GoesOn
<1>3. CASE Launch(w)
  BY <1>2, <1>3 DEF Launch, Script
<1>4. CASE agent[w].pc = "script" /\ agent'[w].task = agent[w].task
  <2>1. Script(w)' = Script(w) /\ agent[w].task \in TaskIds
    BY <1>4, Executes DEF Script, Executing
  <2>2. CASE exits[agent[w].task] \in ExitCodes
    <3>1. CASE exits' = exits
      BY <1>4, <2>2, <3>1
    <3>2. ASSUME NEW s \in scripts, ScriptEnds(s) PROVE exits'[agent[w].task] \in ExitCodes
      <4>1. PICK code \in ExitCodes : exits' = [exits EXCEPT ![s.task] = code]
        BY <3>2 DEF ScriptEnds
      <4> QED
        BY <2>1, <2>2, <4>1 DEF WorkerBase, WorkerTypeOK
    <3>3. exits' = exits \/ \E s \in scripts : ScriptEnds(s)
      BY OutsideStep DEF outside, StartKeeper, Launch, KillScript, CompletionRecorded
    <3> QED
      BY <1>4, <3>1, <3>2, <3>3
  <2>3. CASE Script(w) \in scripts /\ Script(w) \notin scripts'
    <3>1. Script(w).worker = w /\ Script(w).task = agent[w].task
      BY DEF Script
    <3>2. CASE ScriptEnds(Script(w))
      <4>1. PICK code \in ExitCodes : exits' = [exits EXCEPT ![agent[w].task] = code]
        BY <3>1, <3>2 DEF ScriptEnds
      <4> QED
        BY <1>4, <2>1, <4>1 DEF WorkerBase, WorkerTypeOK
    <3>3. CASE KillScript(w)
      BY <3>3, KillTurns DEF GoesOn
    <3> QED
      BY <2>3, <3>1, <3>2, <3>3, ScriptsKept
  <2> QED
    BY <1>4, <2>1, <2>2, <2>3 DEF WorkerBase, ScriptOK
<1> QED
  BY <1>2, <1>3, <1>4

LEMMA NextWorkerBase ==
    ASSUME WorkerBase, [WorkerNext]_wvars
    PROVE  WorkerBase'
<1>1. Inductive'
  BY WorkerDrives, NextInductive DEF WorkerBase
<1>2. Fitting
  BY StepFits
<1>3. WorkerTypeOK'
  BY <1>2, OutsideTyped, StraysTyped DEF Fitting, WorkerTypeOK
<1> QED
  BY <1>1, <1>2, <1>3, ScriptsFit DEF WorkerBase, Fitting

LEMMA InitWorkerBase == WorkerInit => WorkerBase
<1> SUFFICES ASSUME WorkerInit PROVE WorkerBase
  OBVIOUS
<1>1. Inductive
  BY InitInductive DEF WorkerInit
<1>2. Polling \in Agent /\ Polling.pc = "poll" /\ Polling.call = NoCall
  <2>1. None \in Completions \cup {None} /\ {} \in SUBSET Files
    OBVIOUS
  <2> QED
    BY <2>1, Zero, CallTyped DEF Polling, Agent, Claiming
<1>3. WorkerTypeOK
  BY <1>2, OffTyped DEF WorkerInit, WorkerTypeOK
<1>4. ASSUME NEW w \in WorkerIds
      PROVE  /\ AgentOK(w, agent[w], tasks) /\ KeeperOK(keeper[w], agent[w])
             /\ ScriptOK(agent[w], Script(w), scripts, exits)
  <2>1. agent[w] = Polling /\ keeper[w] = KeeperOff
    BY DEF WorkerInit
  <2>2. RequestOK(w, Polling, tasks)
    BY <1>2, CallFields DEF RequestOK
  <2>3. TurnOK(w, Polling, tasks)
    BY <1>2 DEF TurnOK, Executing
  <2> QED
    BY <1>2, <2>1, <2>2, <2>3, OffTyped DEF AgentOK, ScriptOK
<1> QED
  BY <1>1, <1>3, <1>4 DEF WorkerBase

-----------------------------------------------------------------------------
(* A script is started at most once.                                       *)

Started == {"script", "report", "upload", "recheck", "complete"}

\* A worker that bears the claim of a call whose script was started is past starting it.
LaunchOK(t) ==
    /\ launched[t] <= 1
    /\ launched[t] > 0 =>
           /\ tasks[t].claim # None
           /\ \A w \in WorkerIds :
                  tasks[t].worker = w /\ agent[w].claim = tasks[t].claim =>
                      agent[w].pc \in Started /\ agent[w].task = t

Launches == \A t \in TaskIds : LaunchOK(t)

LEMMA LaunchIsFirst ==
    ASSUME WorkerBase, Launches, NEW w \in WorkerIds, Launch(w)
    PROVE  agent[w].task \in TaskIds /\ launched[agent[w].task] = 0
<1>1. agent[w].pc = "launching" /\ agent[w].pc \in Executing
  BY DEF Launch, Executing
<1>2. Owns(w, agent[w].claim, agent[w].task, agent[w].token, tasks)
  BY <1>1, Executes
<1>3. agent[w].task \in TaskIds /\ launched[agent[w].task] \in Nat
  BY <1>2 DEF Owns, WorkerBase, WorkerTypeOK
<1>4. ~(launched[agent[w].task] > 0)
  BY <1>1, <1>2, <1>3 DEF Launches, LaunchOK, Owns, Started
<1> QED
  BY <1>3, <1>4

\* How the count of starts changes.
LEMMA LaunchedStep ==
    ASSUME WorkerBase, Launches, [WorkerNext]_wvars, NEW t \in TaskIds
    PROVE  /\ launched[t] \in Nat
           /\ \/ launched'[t] = launched[t]
              \/ \E w \in WorkerIds : /\ Launch(w) /\ agent[w].task = t
                                      /\ launched[t] = 0 /\ launched'[t] = 1
<1>1. launched \in [TaskIds -> Nat]
  BY DEF WorkerBase, WorkerTypeOK
<1>2. launched' = launched \/ \E w \in WorkerIds : Launch(w)
  BY OutsideStep DEF outside, StartKeeper, KillScript, CompletionRecorded, ScriptEnds
<1>3. ASSUME NEW w \in WorkerIds, Launch(w)
      PROVE  \/ launched'[t] = launched[t]
             \/ /\ Launch(w) /\ agent[w].task = t
                /\ launched[t] = 0 /\ launched'[t] = 1
  <2>1. launched' = [launched EXCEPT ![agent[w].task] = @ + 1]
    BY <1>3 DEF Launch
  <2>2. agent[w].task \in TaskIds /\ launched[agent[w].task] = 0
    BY <1>3, LaunchIsFirst
  <2> QED
    BY <1>1, <1>3, <2>1, <2>2
<1> QED
  BY <1>1, <1>2, <1>3

LEMMA NextLaunches ==
    ASSUME WorkerBase, Launches, [WorkerNext]_wvars
    PROVE  Launches'
<1> SUFFICES ASSUME NEW t \in TaskIds PROVE LaunchOK(t)'
  BY DEF Launches
<1>0. /\ launched[t] \in Nat
      /\ launched[t] <= 1
      /\ launched[t] > 0 => tasks[t].claim # None
  BY LaunchedStep DEF Launches, LaunchOK
<1>1. /\ launched'[t] <= 1
      /\ launched'[t] > 0 =>
             launched[t] > 0 \/ \E w \in WorkerIds : Launch(w) /\ agent[w].task = t
  BY <1>0, LaunchedStep
<1>2. ASSUME NEW w \in WorkerIds, Launch(w), agent[w].task = t
      PROVE  /\ tasks'[t].claim # None
             /\ \A v \in WorkerIds :
                    tasks'[t].worker = v /\ agent'[v].claim = tasks'[t].claim =>
                        agent'[v].pc \in Started /\ agent'[v].task = t
  <2>1. tasks' = tasks
    BY <1>2 DEF Launch, store, vars
  <2>2. Owns(w, agent[w].claim, t, agent[w].token, tasks)
    BY <1>2, Executes DEF Launch, Executing
  <2>3. agent'[w].pc = "script" /\ agent'[w].task = t
    <3>1. Move(w, [agent[w] EXCEPT !.pc = "script"]) /\ agent[w] \in Agent
      BY <1>2 DEF Launch, WorkerBase, WorkerTypeOK
    <3>2. agent'[w] = [agent[w] EXCEPT !.pc = "script"]
      BY <3>1, Moved
    <3> QED
      BY <1>2, <3>1, <3>2 DEF Agent
  <2> QED
    BY <2>1, <2>2, <2>3, NoneIsNull DEF Owns, Started
<1>3. ASSUME launched[t] > 0
      PROVE  /\ tasks'[t].claim # None
             /\ \A v \in WorkerIds :
                    tasks'[t].worker = v /\ agent'[v].claim = tasks'[t].claim =>
                        agent'[v].pc \in Started /\ agent'[v].task = t
  <2>1. tasks[t].claim # None
    BY <1>0, <1>3
  <2>2. SameClaim(tasks'[t], tasks[t])
    BY <2>1, WorkerDrives, TokensKept DEF WorkerBase, Inductive
  <2>3. ASSUME NEW v \in WorkerIds, tasks'[t].worker = v, agent'[v].claim = tasks'[t].claim
        PROVE  agent'[v].pc \in Started /\ agent'[v].task = t
    <3>1. tasks[t].worker = v /\ agent'[v].claim = tasks[t].claim
      BY <2>2, <2>3 DEF SameClaim
    <3>2. agent[v].claim = tasks[t].claim => agent[v].pc \in Started /\ agent[v].task = t
      BY <1>3, <3>1 DEF Launches, LaunchOK
    <3>3. agent'[v] # Gone(v) /\ agent'[v] # AnotherTurn(v)
      BY <2>1, <3>1, TurnOver
    <3>4. tasks[t].claim \notin FreshIds
      BY DEF FreshIds
    <3>5. Turn(v)
      BY TurnStep
    <3> QED
      BY <2>1, <3>1, <3>2, <3>3, <3>4, <3>5
      DEF Turn, Stays, GoesOn, Started, SendClaim, GiveUpClaim, ReadGrant, StartKeeper,
          PrepareFails, CheckLease, Launch
  <2> QED
    BY <2>1, <2>2, <2>3 DEF SameClaim
<1> QED
  BY <1>1, <1>2, <1>3 DEF LaunchOK

-----------------------------------------------------------------------------
(* What an uncertain execution has put out is kept.                        *)

Kept ==
    /\ \A w \in WorkerIds :
           agent[w].pc \in Executing \ {"starting"} => <<w, agent[w].task>> \in workspaces
    /\ UncertainRunsKept

\* A run directory goes only when its call is recorded.
LEMMA WorkspaceGoes ==
    ASSUME WorkerBase, [WorkerNext]_wvars, NEW w \in WorkerIds, NEW t \in TaskIds,
           <<w, t>> \in workspaces, <<w, t>> \notin workspaces'
    PROVE  /\ agent[w].task = t /\ tasks[t].completion # None
           /\ agent'[w].pc \in {"poll", "exited"}
<1>1. PICK v \in WorkerIds : CompletionRecorded(v)
  BY OutsideStep DEF outside, StartKeeper, Launch, KillScript, ScriptEnds
<1>2. v = w /\ agent[v].task = t
  BY <1>1 DEF CompletionRecorded, Without
<1>3. tasks[t].completion = agent[w].completion /\ agent[w].completion \in Completions
  BY <1>1, <1>2, Executes DEF CompletionRecorded, Executing
<1>4. PICK n \in {Gone(w), AnotherTurn(w)} : Move(w, n)
  BY <1>1, <1>2 DEF CompletionRecorded, EndTurn, NextTurn
<1>5. agent'[w].pc \in {"poll", "exited"}
  BY <1>4, Moved, TurnOver
<1> QED
  BY <1>2, <1>3, <1>5, NoneIsNull

\* A result stays.
LEMMA ResultStays ==
    ASSUME WorkerBase, [WorkerNext]_wvars, NEW t \in TaskIds, tasks'[t].completion = None
    PROVE  tasks[t].completion = None
<1>1. CASE tasks[t].completion # None
  <2>1. tasks[t].status \in Terminal
    BY <1>1 DEF WorkerBase, Inductive, RowsWellFormed, WellFormed, Terminal
  <2> QED
    BY <1>1, <2>1, WorkerDrives, EndKept DEF WorkerBase, Inductive
<1> QED
  BY <1>1

LEMMA NextKept ==
    ASSUME WorkerBase, Launches, Kept, [WorkerNext]_wvars
    PROVE  Kept'
<1>1. ASSUME NEW w \in WorkerIds, agent'[w].pc \in Executing \ {"starting"}
      PROVE  <<w, agent'[w].task>> \in workspaces'
  <2>1. agent'[w] # Gone(w) /\ agent'[w] # AnotherTurn(w)
    BY <1>1, TurnOver DEF Executing
  <2>2. Turn(w)
    BY TurnStep
  <2>3. agent'[w].task = agent[w].task
    BY <1>1, <2>1, <2>2 DEF Turn, Stays, GoesOn, Executing
  <2>4. StartKeeper(w) \/ agent[w].pc \in Executing \ {"starting"}
    BY <1>1, <2>1, <2>2
    DEF Turn, Stays, GoesOn, Executing, PrepareFails, CheckLease, Launch, CollectExit,
        KillScript, BeginUpload, UploadFile, UploadFails, UploadEnds, SendCompletion
  <2>5. CASE StartKeeper(w)
    BY <2>3, <2>5 DEF StartKeeper
  <2>6. CASE agent[w].pc \in Executing \ {"starting"}
    <3>1. <<w, agent[w].task>> \in workspaces /\ agent[w].task \in TaskIds
      BY <2>6, Executes DEF Kept
    <3> QED
      BY <1>1, <2>3, <3>1, WorkspaceGoes DEF Executing
  <2> QED
    BY <2>4, <2>5, <2>6
<1>2. ASSUME NEW t \in TaskIds, launched'[t] > 0, tasks'[t].completion = None
      PROVE  \E w \in WorkerIds : <<w, t>> \in workspaces'
  <2>1. tasks[t].completion = None
    BY <1>2, ResultStays
  <2>2. \E w \in WorkerIds : <<w, t>> \in workspaces
    <3>1. CASE launched[t] > 0
      BY <2>1, <3>1 DEF Kept, UncertainRunsKept
    <3>2. ASSUME NEW w \in WorkerIds, Launch(w), agent[w].task = t
          PROVE  <<w, t>> \in workspaces
      BY <3>2 DEF Kept, Launch, Executing
    <3> QED
      BY <1>2, <3>1, <3>2, LaunchedStep
  <2> QED
    BY <2>1, <2>2, WorkspaceGoes
<1> QED
  BY <1>1, <1>2 DEF Kept, UncertainRunsKept

-----------------------------------------------------------------------------
(* Scripts that live are watched.                                          *)

Watched(a, t) ==
    \/ a.pc = "exited"
    \/ a.pc = "script" /\ a.task = t
    \/ a.stopped /\ a.pc \in {"report", "poll"}

ScriptsWatched ==
    "other error" \notin Kills => \A s \in scripts : Watched(agent[s.worker], s.task)

LEMMA NextScriptsWatched ==
    ASSUME WorkerBase, ScriptsWatched, [WorkerNext]_wvars
    PROVE  ScriptsWatched'
<1> SUFFICES ASSUME "other error" \notin Kills, NEW s \in scripts'
             PROVE  Watched(agent'[s.worker], s.task)
  BY DEF ScriptsWatched
<1> DEFINE w == s.worker
<1>1. CASE s \notin scripts
  <2>1. PICK v \in WorkerIds : Launch(v) /\ s = Script(v)
    BY <1>1, OutsideStep DEF outside, StartKeeper, Launch, KillScript, CompletionRecorded,
                             ScriptEnds
  <2>2. w = v /\ s.task = agent[v].task
    BY <2>1 DEF Script
  <2>3. Move(v, [agent[v] EXCEPT !.pc = "script"]) /\ agent[v] \in Agent
    BY <2>1 DEF Launch, WorkerBase, WorkerTypeOK
  <2>4. agent'[v] = [agent[v] EXCEPT !.pc = "script"]
    BY <2>3, Moved
  <2>5. agent'[v].pc = "script" /\ agent'[v].task = agent[v].task
    BY <2>3, <2>4 DEF Agent
  <2> QED
    BY <2>2, <2>5 DEF Watched
<1>2. CASE s \in scripts
  <2>1. /\ s \in [worker : WorkerIds, task : TaskIds] /\ w \in WorkerIds
        /\ Watched(agent[w], s.task)
    BY <1>2 DEF WorkerBase, WorkerTypeOK, ScriptsWatched
  <2>2. agent[w].pc = "script" /\ agent[w].task = s.task => s = Script(w)
    BY <2>1 DEF Script
  <2>3. Gone(w).pc = "exited" /\ AnotherTurn(w).pc = "poll"
        /\ AnotherTurn(w).stopped = agent[w].stopped
    BY DEF Gone, AnotherTurn, Polling
  <2>4. Turn(w)
    BY <2>1, TurnStep
  <2>5. CASE Stays(w)
    BY <2>1, <2>5 DEF Stays, Watched
  <2>6. CASE agent'[w] = Gone(w)
    BY <2>3, <2>6 DEF Watched
  <2>7. CASE /\ agent[w].pc \in {"claiming", "report", "recheck", "complete"}
             /\ agent'[w] = AnotherTurn(w)
    BY <2>1, <2>3, <2>7 DEF Watched
  <2>8. CASE /\ KillScript(w) /\ GoesOn(w, "report")
             /\ Script(w) \in scripts' => agent'[w].stopped \/ "other error" \in Kills
    <3>1. agent[w].pc = "script" /\ agent[w].task = s.task
      BY <2>1, <2>8 DEF Watched, KillScript
    <3> QED
      BY <2>2, <2>8, <3>1 DEF Watched, GoesOn
  <2>9. CASE CollectExit(w)
    BY <1>2, <2>1, <2>2, <2>9 DEF CollectExit, Watched
  <2> QED
    BY <2>1, <2>4, <2>5, <2>6, <2>7, <2>8, <2>9
    DEF Turn, Watched, SendClaim, GiveUpClaim, ReadGrant, StartKeeper, PrepareFails,
        CheckLease, Launch, BeginUpload, UploadFile, UploadFails, UploadEnds, SendCompletion
<1> QED
  BY <1>1, <1>2

-----------------------------------------------------------------------------
(* A success has been earned.                                              *)

Succeeds(c) == OutcomeOf(c) = "succeeded"

\* The call's script has ended by itself with exit code 0.
Earned(t) == launched[t] > 0 /\ exits[t] = 0 /\ \A s \in scripts : s.task # t

Reporting == {"report", "upload", "recheck", "complete"}

\* What the report of a worker rests on, and what it has uploaded.
ReportEarned(w) ==
    LET m == agent[w] IN
    /\ m.pc = "script" => launched[m.task] > 0
    /\ m.pc \in Reporting /\ Succeeds(m.completion) => Earned(m.task)
    /\ m.pc = "upload" => Files \ m.todo \subseteq artifacts[m.task]
    /\ m.pc \in {"recheck", "complete"} /\ Succeeds(m.completion) =>
           Files \subseteq artifacts[m.task]

StrayEarned(m) ==
    m.kind = "complete" /\ Succeeds(m.completion) =>
        Earned(m.task) /\ Files \subseteq artifacts[m.task]

CallEarned(t) ==
    tasks[t].status = "succeeded" => Earned(t) /\ Files \subseteq artifacts[t]

ScriptStarted(s) == launched[s.task] > 0 /\ tasks[s.task].worker = s.worker

Earnings ==
    /\ \A s \in scripts : ScriptStarted(s)
    /\ \A w \in WorkerIds : ReportEarned(w)
    /\ \A m \in strays : StrayEarned(m)
    /\ \A t \in TaskIds : CallEarned(t)

LEMMA EarnedKept ==
    ASSUME WorkerBase, Launches, [WorkerNext]_wvars, NEW t \in TaskIds, Earned(t)
    PROVE  Earned(t)'
<1>1. launched[t] \in Nat /\ launched[t] > 0 /\ exits[t] = 0 /\ \A s \in scripts : s.task # t
  BY LaunchedStep DEF Earned
<1>2. launched'[t] = launched[t] /\ ~\E w \in WorkerIds : Launch(w) /\ agent[w].task = t
  BY <1>1, LaunchedStep, LaunchIsFirst
<1>3. \A s \in scripts' : s.task # t
  <2>1. ASSUME NEW w \in WorkerIds, Launch(w) PROVE \A s \in scripts' : s.task # t
    <3>1. scripts' = scripts \cup {Script(w)} /\ Script(w).task = agent[w].task
      BY <2>1 DEF Launch, Script
    <3>2. agent[w].task # t
      BY <1>2, <2>1
    <3> QED
      BY <1>1, <3>1, <3>2
  <2>2. scripts' \subseteq scripts \/ \E w \in WorkerIds : Launch(w)
    BY OutsideStep DEF outside, StartKeeper, KillScript, CompletionRecorded, ScriptEnds
  <2> QED
    BY <1>1, <2>1, <2>2
<1>4. exits'[t] = 0
  <2>1. ASSUME NEW s \in scripts, ScriptEnds(s) PROVE exits'[t] = exits[t]
    <3>1. PICK code \in ExitCodes : exits' = [exits EXCEPT ![s.task] = code]
      BY <2>1 DEF ScriptEnds
    <3>2. s.task # t /\ exits \in [TaskIds -> ExitCodes \cup {None}]
      BY <1>1 DEF WorkerBase, WorkerTypeOK
    <3> QED
      BY <3>1, <3>2
  <2>2. exits' = exits \/ \E s \in scripts : ScriptEnds(s)
    BY OutsideStep DEF outside, StartKeeper, Launch, KillScript, CompletionRecorded
  <2> QED
    BY <1>1, <2>1, <2>2
<1> QED
  BY <1>1, <1>2, <1>3, <1>4 DEF Earned

LEMMA ArtifactsGrow ==
    ASSUME WorkerBase, [WorkerNext]_wvars, NEW t \in TaskIds
    PROVE  artifacts[t] \subseteq artifacts'[t]
<1>1. TypeOK /\ [Next]_vars
  BY WorkerDrives DEF WorkerBase, Inductive
<1> QED
  BY <1>1, ArtifactsStep

LEMMA NextScriptsStarted ==
    ASSUME WorkerBase, Launches, Earnings, [WorkerNext]_wvars, NEW s \in scripts'
    PROVE  ScriptStarted(s)'
<1>1. ASSUME NEW t \in TaskIds, launched[t] > 0
      PROVE  launched'[t] > 0 /\ tasks'[t].worker = tasks[t].worker
  <2>1. launched'[t] > 0
    BY <1>1, LaunchedStep
  <2>2. tasks[t].claim # None
    BY <1>1 DEF Launches, LaunchOK
  <2> QED
    BY <2>1, <2>2, WorkerDrives, TokensKept DEF WorkerBase, Inductive, SameClaim
<1>2. CASE s \in scripts
  <2>1. ScriptStarted(s) /\ s.task \in TaskIds
    BY <1>2 DEF Earnings, WorkerBase, WorkerTypeOK
  <2> QED
    BY <1>1, <2>1 DEF ScriptStarted
<1>3. CASE s \notin scripts
  <2>1. PICK w \in WorkerIds : Launch(w) /\ s = Script(w)
    BY <1>3, OutsideStep DEF outside, StartKeeper, Launch, KillScript, CompletionRecorded,
                             ScriptEnds
  <2>2. s.worker = w /\ s.task = agent[w].task
    BY <2>1 DEF Script
  <2>3. s.task \in TaskIds /\ launched[s.task] = 0 /\ launched \in [TaskIds -> Nat]
    BY <2>1, <2>2, LaunchIsFirst DEF WorkerBase, WorkerTypeOK
  <2>4. launched'[s.task] > 0
    <3>1. launched' = [launched EXCEPT ![s.task] = @ + 1]
      BY <2>1, <2>2 DEF Launch
    <3>2. launched'[s.task] = 1
      BY <2>3, <3>1
    <3> QED
      BY <3>2
  <2>5. tasks[s.task].worker = w /\ tasks' = tasks
    BY <2>1, <2>2, Executes DEF Owns, Launch, Executing, store, vars
  <2> QED
    BY <2>2, <2>4, <2>5 DEF ScriptStarted
<1> QED
  BY <1>2, <1>3

LEMMA FailuresFail ==
    /\ ~Succeeds(Failure)
    /\ \A c : ~Succeeds(Failed(c))
<1>1. Failure.error = TRUE
  BY DEF Failure
<1>2. \A c : Failed(c).error = TRUE
  BY DEF Failed
<1> QED
  BY <1>1, <1>2 DEF Succeeds, OutcomeOf

\* The exit code that is collected is that of a script that has ended.
LEMMA CollectedIsEarned ==
    ASSUME WorkerBase, Launches, Earnings, NEW w \in WorkerIds, CollectExit(w),
           NEW c \in ExitCompletions(w), Succeeds(c)
    PROVE  Earned(agent[w].task)
<1>1. agent[w].pc = "script" /\ Script(w) \notin scripts
  BY DEF CollectExit
<1>2. Owns(w, agent[w].claim, agent[w].task, agent[w].token, tasks)
  BY <1>1, Executes DEF Executing
<1>3. launched[agent[w].task] > 0
  BY <1>1 DEF Earnings, ReportEarned
<1>4. exits[agent[w].task] = 0
  <2>1. c = [exit_code |-> exits[agent[w].task], error |-> FALSE]
    BY FailuresFail DEF ExitCompletions
  <2>2. c.exit_code = exits[agent[w].task]
    BY <2>1
  <2> QED
    BY <2>2 DEF Succeeds, OutcomeOf
<1>5. ASSUME NEW s \in scripts, s.task = agent[w].task PROVE FALSE
  <2>1. s \in [worker : WorkerIds, task : TaskIds] /\ s.worker = w
    BY <1>2, <1>5 DEF Earnings, ScriptStarted, Owns, WorkerBase, WorkerTypeOK
  <2>2. s = Script(w)
    BY <1>5, <2>1 DEF Script
  <2> QED
    BY <1>1, <2>2
<1> QED
  BY <1>3, <1>4, <1>5 DEF Earned

LEMMA NextReportsEarned ==
    ASSUME WorkerBase, Launches, Earnings, [WorkerNext]_wvars, NEW w \in WorkerIds
    PROVE  ReportEarned(w)'
<1> DEFINE t == agent[w].task
<1>0. Turn(w) /\ ReportEarned(w)
  BY TurnStep DEF Earnings
<1>1. agent[w].pc \in Executing => t \in TaskIds
  BY Executes
<1>2. CASE agent'[w].pc \notin {"script"} \cup Reporting
  BY <1>2 DEF ReportEarned, Reporting
<1>3. ASSUME agent'[w].pc \in {"script"} \cup Reporting
      PROVE  agent'[w].task = t /\ agent[w].pc \in Executing /\ t \in TaskIds
  <2>1. agent'[w] # Gone(w) /\ agent'[w] # AnotherTurn(w)
    BY <1>3, TurnOver DEF Reporting
  <2>2. agent'[w].task = t /\ agent[w].pc \in Executing
    BY <1>0, <1>3, <2>1
    DEF Turn, Stays, GoesOn, Reporting, Executing, PrepareFails, Launch, CollectExit,
        KillScript, BeginUpload, UploadFile, UploadFails, UploadEnds, SendCompletion
  <2> QED
    BY <1>1, <2>2
<1>4. CASE agent'[w].pc = "script"
  <2>1. t \in TaskIds /\ agent'[w].task = t
    BY <1>3, <1>4
  <2>2. launched'[t] > 0
    <3>1. Launch(w) \/ agent[w].pc = "script"
      <4>1. agent'[w] # Gone(w) /\ agent'[w] # AnotherTurn(w)
        BY <1>4, TurnOver
      <4> QED
        BY <1>0, <1>4, <4>1 DEF Turn, Stays, GoesOn
    <3>2. CASE agent[w].pc = "script"
      BY <1>0, <2>1, <3>2, LaunchedStep DEF ReportEarned
    <3>3. CASE Launch(w)
      <4>1. launched' = [launched EXCEPT ![t] = @ + 1] /\ launched[t] = 0
            /\ launched \in [TaskIds -> Nat]
        BY <3>3, LaunchIsFirst DEF Launch, WorkerBase, WorkerTypeOK
      <4>2. launched'[t] = 1
        BY <2>1, <4>1
      <4> QED
        BY <4>2
    <3> QED
      BY <3>1, <3>2, <3>3
  <2> QED
    BY <1>4, <2>1, <2>2 DEF ReportEarned, Reporting
<1>5. CASE agent'[w].pc \in Reporting
  <2>0. /\ t \in TaskIds /\ agent'[w].task = t
        /\ agent'[w] # Gone(w) /\ agent'[w] # AnotherTurn(w)
    BY <1>3, <1>5, TurnOver DEF Reporting
  <2>1. ASSUME Succeeds(agent'[w].completion)
        PROVE  \/ /\ agent[w].pc \in Reporting
                  /\ agent'[w].completion = agent[w].completion
               \/ CollectExit(w) /\ agent'[w].completion \in ExitCompletions(w)
    BY <1>0, <1>5, <2>0, <2>1, FailuresFail
    DEF Turn, Stays, GoesOn, SameReport, Reporting, BeginUpload, UploadFile, UploadEnds,
        SendCompletion
  <2>2. ASSUME Succeeds(agent'[w].completion) PROVE Earned(t)'
    <3>1. Earned(t)
      BY <1>0, <2>1, <2>2, CollectedIsEarned DEF ReportEarned
    <3> QED
      BY <2>0, <3>1, EarnedKept
  <2>3. ASSUME agent'[w].pc = "upload" PROVE Files \ agent'[w].todo \subseteq artifacts'[t]
    <3>1. \/ Stays(w) /\ agent[w].pc = "upload"
          \/ BeginUpload(w) /\ agent'[w].todo = Files
          \/ \E a \in Files : UploadFile(w, a) /\ agent'[w].todo = agent[w].todo \ {a}
      BY <1>0, <2>0, <2>3 DEF Turn, Stays, GoesOn
    <3>2. artifacts[t] \subseteq artifacts'[t]
      BY <2>0, ArtifactsGrow
    <3>3. CASE Stays(w) /\ agent[w].pc = "upload"
      BY <1>0, <3>2, <3>3 DEF ReportEarned, Stays
    <3>4. ASSUME NEW a \in Files, UploadFile(w, a), agent'[w].todo = agent[w].todo \ {a}
          PROVE  Files \ agent'[w].todo \subseteq artifacts'[t]
      <4>1. a \in artifacts'[t]
        BY <2>0, <3>4 DEF UploadFile, AddArtifact, WorkerBase, Inductive, TypeOK
      <4>2. Files \ agent[w].todo \subseteq artifacts[t]
        BY <1>0, <3>4 DEF ReportEarned, UploadFile
      <4> QED
        BY <3>2, <3>4, <4>1, <4>2
    <3> QED
      BY <3>1, <3>3, <3>4
  <2>4. ASSUME agent'[w].pc \in {"recheck", "complete"}, Succeeds(agent'[w].completion)
        PROVE  Files \subseteq artifacts'[t]
    <3>1. \/ UploadEnds(w)
          \/ /\ agent[w].pc \in {"recheck", "complete"}
             /\ agent'[w].completion = agent[w].completion
      BY <1>0, <2>0, <2>4, FailuresFail DEF Turn, Stays, GoesOn, SameReport, SendCompletion
    <3>2. artifacts[t] \subseteq artifacts'[t]
      BY <2>0, ArtifactsGrow
    <3>3. CASE UploadEnds(w)
      BY <1>0, <3>2, <3>3 DEF ReportEarned, UploadEnds
    <3> QED
      BY <1>0, <2>4, <3>1, <3>2, <3>3 DEF ReportEarned
  <2> QED
    BY <1>5, <2>0, <2>2, <2>3, <2>4 DEF ReportEarned, Reporting
<1> QED
  BY <1>2, <1>4, <1>5

LEMMA NextStraysEarned ==
    ASSUME WorkerBase, Launches, Earnings, [WorkerNext]_wvars, NEW m \in strays'
    PROVE  StrayEarned(m)'
<1> SUFFICES ASSUME m.kind = "complete", Succeeds(m.completion)
             PROVE  Earned(m.task)' /\ Files \subseteq artifacts'[m.task]
  BY DEF StrayEarned
<1>1. m \in Message
  BY StraysTyped
<1>2. m.task \in TaskIds
  BY <1>1 DEF Message
<1>3. CASE m \in strays
  BY <1>2, <1>3, EarnedKept, ArtifactsGrow DEF Earnings, StrayEarned
<1>4. ASSUME NEW w \in WorkerIds, CompletionFails(w), m = CompletionMessage(w)
      PROVE  Earned(m.task)' /\ Files \subseteq artifacts'[m.task]
  <2>1. m.task = agent[w].task /\ m.completion = agent[w].completion /\ agent[w].pc = "complete"
    BY <1>4 DEF CompletionMessage, CompletionFails
  <2>2. Earned(m.task) /\ Files \subseteq artifacts[m.task]
    BY <2>1 DEF Earnings, ReportEarned, Reporting
  <2> QED
    BY <1>2, <2>2, EarnedKept, ArtifactsGrow
<1>5. \A w \in WorkerIds : \A a :
          /\ ClaimMessage(w).kind = "claim"
          /\ BeatMessage(w).kind = "beat"
          /\ UploadMessage(w, a).kind = "upload"
  BY DEF ClaimMessage, BeatMessage, UploadMessage
<1> QED
  BY <1>3, <1>4, <1>5, StraysStep

\* No result comes to a call, and it does not come to have succeeded.
NothingRecorded(t) ==
    /\ tasks'[t].completion = tasks[t].completion
    /\ tasks'[t].status = "succeeded" => tasks[t].status = "succeeded"

\* A call only gets a result, and only succeeds, when a completion that says so
\* reaches the server.
LEMMA RecordStep ==
    ASSUME WorkerBase, [WorkerNext]_wvars, NEW t \in TaskIds
    PROVE  \/ NothingRecorded(t)
           \/ \E w \in WorkerIds :
                  /\ CompletionReaches(w) /\ agent[w].task = t
                  /\ tasks'[t].status = "succeeded" => Succeeds(agent[w].completion)
           \/ \E m \in strays :
                  /\ StrayCompletionReaches(m) /\ m.task = t
                  /\ tasks'[t].status = "succeeded" => Succeeds(m.completion)
<1> SUFFICES ASSUME ~NothingRecorded(t)
             PROVE  \/ \E w \in WorkerIds :
                           /\ CompletionReaches(w) /\ agent[w].task = t
                           /\ tasks'[t].status = "succeeded" => Succeeds(agent[w].completion)
                    \/ \E m \in strays :
                           /\ StrayCompletionReaches(m) /\ m.task = t
                           /\ tasks'[t].status = "succeeded" => Succeeds(m.completion)
  OBVIOUS
<1>0. TypeOK /\ RowsWellFormed /\ tasks'[t] # tasks[t]
  BY DEF WorkerBase, Inductive, NothingRecorded
<1>1. ASSUME NEW u \in TaskIds, NEW k \in Tokens, NEW c \in Completions, Complete(u, k, c)
      PROVE  u = t /\ (tasks'[t].status = "succeeded" => Succeeds(c))
  BY <1>0, <1>1, CompletedRow DEF OnlyRow, RowCompleted, Succeeds
<1>2. ASSUME NEW w \in WorkerIds, CompletionReaches(w)
      PROVE  /\ agent[w].task = t
             /\ tasks'[t].status = "succeeded" => Succeeds(agent[w].completion)
  BY <1>1, <1>2, Executes DEF CompletionReaches, Executing
<1>3. ASSUME NEW m \in strays, StrayCompletionReaches(m)
      PROVE  m.task = t /\ (tasks'[t].status = "succeeded" => Succeeds(m.completion))
  <2>1. m.task \in TaskIds /\ m.token \in Tokens /\ m.completion \in Completions
    BY <1>3 DEF StrayCompletionReaches, WorkerBase, WorkerTypeOK, Message
  <2> QED
    BY <1>1, <1>3, <2>1 DEF StrayCompletionReaches
<1>4. ~\E now \in Nat : tasks' = Expired(now)
  BY <1>0, ExpiredRow DEF RowLost, NothingRecorded
<1>5. ASSUME NEW c \in claims, ServeClaim(c) PROVE FALSE
  <2>1. c \in ClaimCall /\ c.now \in Nat
    BY <1>0 DEF TypeOK, ClaimCall
  <2>2. \/ tasks' = Expired(c.now) \/ tasks' = tasks
        \/ \E u \in TaskIds, k \in Tokens : ClaimAssign(c, u, k)
    BY <1>5 DEF ServeClaim, ClaimReplay, ClaimNothing, ClaimRefused
  <2>3. ASSUME NEW u \in TaskIds, NEW k \in Tokens, ClaimAssign(c, u, k) PROVE FALSE
    <3>1. /\ \A v \in TaskIds \ {u} : tasks'[v] = Expired(c.now)[v]
          /\ RowAssigned(tasks'[u], tasks[u], c, k)
      BY <1>0, <2>1, <2>3, AssignedRows
    <3> QED
      BY <1>0, <2>1, <3>1, ExpiredRow DEF RowAssigned, RowLost, NothingRecorded
  <2> QED
    BY <1>0, <1>4, <2>1, <2>2, <2>3
<1>6. ASSUME NEW b \in beats, ServeBeat(b) PROVE FALSE
  <2>1. b \in Beat /\ BeatCommit(b)
    BY <1>0, <1>6 DEF TypeOK, ServeBeat
  <2>2. CASE LeaseHeld(b.task, b.token)
    BY <1>0, <2>1, <2>2, RenewedRow DEF OnlyRow, RowRenewed, NothingRecorded
  <2>3. CASE ~LeaseHeld(b.task, b.token)
    BY <1>0, <2>1, <2>3 DEF BeatCommit
  <2> QED
    BY <2>2, <2>3
<1>7. ~Others
  <2>1. ASSUME NEW u \in TaskIds, NEW s \in Submissions, Submit(u, s) PROVE FALSE
    BY <1>0, <2>1, SubmitRow DEF OnlyRow, RowSubmitted, RowsWellFormed, WellFormed,
                                NothingRecorded
  <2>2. ASSUME NEW u \in TaskIds, Cancel(u) PROVE FALSE
    BY <1>0, <2>2, CancelRow DEF OnlyRow, RowCancelled, NothingRecorded
  <2>3. ~Expire
    BY <1>0, <1>4 DEF Expire, TypeOK
  <2> QED
    BY <1>0, <2>1, <2>2, <2>3 DEF Others, Publish, Tick, Restart
<1>8. ASSUME NEW w \in WorkerIds, AgentStep(w), ~CompletionReaches(w) PROVE FALSE
  BY <1>0, <1>8 DEF AgentStep, SendClaim, ReadRefusal, ReadGrant, StartKeeper, PrepareFails,
              CheckLease, Launch, CollectExit, StopOnLoss, KillScript, Abandon, BeginUpload, UploadEnds,
              UploadFails, UploadFile, AddArtifact, SendCompletion, CompletionRecorded,
              CompletionFails, Leave, store, vars
<1>9. ASSUME NEW w \in WorkerIds,
             \/ KeeperStep(w) \/ ClaimReaches(w) \/ GiveUpClaim(w) \/ StopOnTimeout(w)
             \/ BeatReaches(w) \/ GiveUpBeat(w) \/ Stop(w) \/ Crash(w)
      PROVE  FALSE
  BY <1>0, <1>9 DEF KeeperStep, KeeperExpires, SendBeat, BeatAccepted, BeatRefused, ClaimReaches,
              ClaimArrive, GiveUpClaim, StopOnTimeout, KillScript, BeatReaches, BeatArrive,
              GiveUpBeat, Stop, Crash, store, vars
<1>10. ASSUME \/ \E s \in scripts : ScriptEnds(s)
              \/ \E m \in strays :
                     StrayClaimReaches(m) \/ StrayUploadReaches(m) \/ StrayBeatReaches(m)
              \/ ServeTimeout \/ UNCHANGED wvars
       PROVE  FALSE
  BY <1>0, <1>10 DEF ScriptEnds, StrayClaimReaches, ClaimArrive, StrayUploadReaches,
               AddArtifact, StrayBeatReaches, BeatArrive,
               ServeTimeout, LockTimeout, wvars, store, vars
<1> QED
  BY <1>2, <1>3, <1>5, <1>6, <1>7, <1>8, <1>9, <1>10 DEF WorkerNext

\* Only the worker's uploads change what the server has of a call.
LEMMA UploadStep ==
    ASSUME WorkerBase, [WorkerNext]_wvars
    PROVE  \/ artifacts' = artifacts
           \/ \E w \in WorkerIds, a \in Files : UploadFile(w, a)
           \/ \E m \in strays : StrayUploadReaches(m)
<1>1. ASSUME NEW w \in WorkerIds, AgentStep(w)
      PROVE  artifacts' = artifacts \/ \E a \in Files : UploadFile(w, a)
  BY <1>1 DEF AgentStep, SendClaim, ReadRefusal, ReadGrant, StartKeeper, PrepareFails,
              CheckLease, Launch, CollectExit, StopOnLoss, KillScript, Abandon, BeginUpload, UploadEnds,
              UploadFails, SendCompletion, CompletionReaches, Complete, CompletionRecorded,
              CompletionFails, Leave, store, vars
<1>2. ASSUME NEW w \in WorkerIds,
             \/ KeeperStep(w) \/ ClaimReaches(w) \/ GiveUpClaim(w) \/ StopOnTimeout(w)
             \/ BeatReaches(w) \/ GiveUpBeat(w) \/ Stop(w) \/ Crash(w)
      PROVE  artifacts' = artifacts
  BY <1>2 DEF KeeperStep, KeeperExpires, SendBeat, BeatAccepted, BeatRefused, ClaimReaches,
              ClaimArrive, GiveUpClaim, StopOnTimeout, KillScript, BeatReaches, BeatArrive,
              GiveUpBeat, Stop, Crash, store, vars
<1>3. CASE \/ \E s \in scripts : ScriptEnds(s)
           \/ \E m \in strays :
                  StrayClaimReaches(m) \/ StrayCompletionReaches(m) \/ StrayBeatReaches(m)
           \/ \E c \in claims : ServeClaim(c)
           \/ \E b \in beats : ServeBeat(b)
           \/ ServeTimeout \/ Others \/ UNCHANGED wvars
  BY <1>3 DEF ScriptEnds, StrayClaimReaches, ClaimArrive, StrayCompletionReaches, Complete,
              StrayBeatReaches, BeatArrive, ServeClaim, ClaimCommit, ServeBeat, BeatCommit,
              ServeTimeout, LockTimeout, Others, Publish, Submit, Cancel, Expire, Tick,
              Restart, wvars, store, vars
<1> QED
  BY <1>1, <1>2, <1>3 DEF WorkerNext

LEMMA NextCallsEarned ==
    ASSUME WorkerBase, Launches, Earnings, [WorkerNext]_wvars, NEW t \in TaskIds
    PROVE  CallEarned(t)'
<1> SUFFICES ASSUME tasks'[t].status = "succeeded"
             PROVE  Earned(t)' /\ Files \subseteq artifacts'[t]
  BY DEF CallEarned
<1>1. Earned(t) /\ Files \subseteq artifacts[t]
  <2>1. CASE tasks[t].status = "succeeded"
    BY <2>1 DEF Earnings, CallEarned
  <2>2. ASSUME NEW w \in WorkerIds, CompletionReaches(w), agent[w].task = t,
               Succeeds(agent[w].completion)
        PROVE  Earned(t) /\ Files \subseteq artifacts[t]
    BY <2>2 DEF CompletionReaches, Earnings, ReportEarned, Reporting
  <2>3. ASSUME NEW m \in strays, StrayCompletionReaches(m), m.task = t, Succeeds(m.completion)
        PROVE  Earned(t) /\ Files \subseteq artifacts[t]
    BY <2>3 DEF StrayCompletionReaches, Earnings, StrayEarned
  <2> QED
    BY <2>1, <2>2, <2>3, RecordStep DEF NothingRecorded
<1> QED
  BY <1>1, EarnedKept, ArtifactsGrow

LEMMA NextEarnings ==
    ASSUME WorkerBase, Launches, Earnings, [WorkerNext]_wvars
    PROVE  Earnings'
BY NextScriptsStarted, NextReportsEarned, NextStraysEarned, NextCallsEarned DEF Earnings

-----------------------------------------------------------------------------
(* Theorems.                                                               *)

WorkerInductive ==
    /\ WorkerBase
    /\ Launches
    /\ Kept
    /\ ScriptsWatched
    /\ Earnings

LEMMA InitWorkerInductive == WorkerInit => WorkerInductive
<1> SUFFICES ASSUME WorkerInit PROVE WorkerInductive
  OBVIOUS
<1>1. WorkerBase
  BY InitWorkerBase
<1>2. /\ \A w \in WorkerIds : agent[w].pc = "poll"
      /\ \A t \in TaskIds : launched[t] = 0 /\ tasks[t].status = "absent"
      /\ scripts = {} /\ strays = {}
  BY DEF WorkerInit, Polling, Init, NoRow
<1>3. Launches
  BY <1>2 DEF Launches, LaunchOK
<1>4. Kept
  BY <1>2 DEF Kept, UncertainRunsKept, Executing
<1>5. ScriptsWatched
  BY <1>2 DEF ScriptsWatched
<1>6. Earnings
  BY <1>2 DEF Earnings, ReportEarned, Reporting, CallEarned
<1> QED
  BY <1>1, <1>3, <1>4, <1>5, <1>6 DEF WorkerInductive

LEMMA NextWorkerInductive == WorkerInductive /\ [WorkerNext]_wvars => WorkerInductive'
<1> SUFFICES ASSUME WorkerInductive, [WorkerNext]_wvars PROVE WorkerInductive'
  OBVIOUS
<1>1. WorkerBase /\ Launches /\ Kept /\ ScriptsWatched /\ Earnings
  BY DEF WorkerInductive
<1>2. WorkerBase' /\ Launches'
  BY <1>1, NextWorkerBase, NextLaunches
<1>3. Kept' /\ ScriptsWatched' /\ Earnings'
  BY <1>1, NextKept, NextScriptsWatched, NextEarnings
<1> QED
  BY <1>2, <1>3 DEF WorkerInductive

\* What a worker believes of its call is true, whatever is lost, delayed or repeated.
THEOREM WorkerInvariance == WorkerSpec => []WorkerInductive
BY InitWorkerInductive, NextWorkerInductive, PTL DEF WorkerSpec

\* Whatever workers, scripts and the network do, the tables go through the steps of Store,
\* so all that is proved of Store holds of the composed system.
THEOREM WorkerDrivesStore == WorkerSpec => DrivesStore
<1>1. WorkerInit => Init
  BY DEF WorkerInit
<1>2. WorkerInductive /\ [WorkerNext]_wvars => [Next]_vars
  BY WorkerDrives DEF WorkerInductive
<1> QED
  BY <1>1, <1>2, WorkerInvariance, PTL DEF WorkerSpec, Spec, DrivesStore

\* The variables have their types: what completions bear is a valid result in particular.
THEOREM WorkerTypeCorrect == WorkerSpec => []WorkerTypeOK
<1>1. WorkerInductive => WorkerTypeOK
  BY DEF WorkerInductive, WorkerBase
<1> QED
  BY <1>1, WorkerInvariance, PTL

\* No implicit retry: no call's script is started twice, whatever claims are repeated.
THEOREM StartedOnce == WorkerSpec => []AtMostOnce
<1>1. WorkerInductive => AtMostOnce
  BY DEF WorkerInductive, Launches, LaunchOK, AtMostOnce
<1> QED
  BY <1>1, WorkerInvariance, PTL

\* A call that succeeded ran to exit code 0, with all its outputs at the server.
THEOREM SuccessEarned == WorkerSpec => []SuccessIsEarned
<1>1. WorkerInductive => SuccessIsEarned
  BY DEF WorkerInductive, Earnings, CallEarned, Earned, SuccessIsEarned
<1> QED
  BY <1>1, WorkerInvariance, PTL

\* Worker.execute keeps the run directory of every call that the server has no result of.
THEOREM OutputsKept == WorkerSpec => []UncertainRunsKept
<1>1. WorkerInductive => UncertainRunsKept
  BY DEF WorkerInductive, Kept
<1> QED
  BY <1>1, WorkerInvariance, PTL

\* A worker that goes on taking calls has no script left, provided that stop_process_tree
\* ends in success or in a ProcessCleanupError.
THEOREM SlotHeldByScript ==
    WorkerSpec => []("other error" \notin Kills => NoSlotWhileScriptLives)
<1>1. WorkerInductive => ("other error" \notin Kills => NoSlotWhileScriptLives)
  <2> SUFFICES ASSUME ScriptsWatched, "other error" \notin Kills PROVE NoSlotWhileScriptLives
    BY DEF WorkerInductive
  <2>1. \A s \in scripts : agent[s.worker].pc \notin {"claiming", "starting", "prepare", "launching"}
    BY DEF ScriptsWatched, Watched
  <2> QED
    BY <2>1 DEF NoSlotWhileScriptLives
<1> QED
  BY <1>1, WorkerInvariance, PTL

=============================================================================
