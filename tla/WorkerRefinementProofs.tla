----------------------- MODULE WorkerRefinementProofs -----------------------
(***************************************************************************)
(* Workers, scripts and the network implement the execution of calls, for  *)
(* every value of the constants: each step of Worker is one step of        *)
(* Execution, or none.                                                     *)
(***************************************************************************)
EXTENDS WorkerProofs, StoreRefinementProofs, WorkerRefinement

-----------------------------------------------------------------------------
(* The inductive invariant: what no worker does any more.                  *)

CleanKills == "other error" \notin Kills

\* No worker still bears the claim of the call.
Left(t) == \A w \in WorkerIds : tasks[t].worker = w => agent[w].claim # tasks[t].claim

\* Of a call whose result is at the server, its worker only awaits the answer.
CallSettled(t) ==
    tasks[t].completion # None =>
        \A w \in WorkerIds :
            tasks[t].worker = w /\ agent[w].claim = tasks[t].claim =>
                agent[w].pc = "complete" /\ agent[w].task = t

\* A completion whose sender has given up is of a call that was left as it is.
StraySettled(m) ==
    m.kind = "complete" =>
        /\ tasks[m.task].claim # None
        /\ Left(m.task)
        /\ <<tasks[m.task].worker, m.task>> \in workspaces
        /\ CleanKills => \A s \in scripts : s.task # m.task

\* An upload whose sender has given up is of a call that is reported on or was left.
UploadSettled(m) ==
    m.kind = "upload" =>
        /\ tasks[m.task].claim # None
        /\ \A w \in WorkerIds :
               tasks[m.task].worker = w /\ agent[w].claim = tasks[m.task].claim =>
                   agent[w].pc \in {"recheck", "complete"} /\ agent[w].task = m.task
        /\ tasks[m.task].completion = None => <<tasks[m.task].worker, m.task>> \in workspaces
        /\ CleanKills => \A s \in scripts : s.task # m.task

\* What has an exit code has run, and runs no more.
ExitKnown(t) == exits[t] # None => launched[t] > 0 /\ \A s \in scripts : s.task # t

\* A run directory is of a call that its worker was given.
DirOwned(d) == tasks[d[2]].claim # None /\ tasks[d[2]].worker = d[1]

Settled ==
    /\ \A t \in TaskIds : CallSettled(t)
    /\ \A m \in strays : StraySettled(m) /\ UploadSettled(m)
    /\ \A t \in TaskIds : ExitKnown(t)
    /\ \A d \in workspaces : DirOwned(d)

LEMMA ClaimKept ==
    ASSUME WorkerBase, [WorkerNext]_wvars, NEW t \in TaskIds, tasks[t].claim # None
    PROVE  SameClaim(tasks'[t], tasks[t])
BY WorkerDrives, TokensKept DEF WorkerBase, Inductive

\* Who bears the claim of a call bore it before, and goes on with its report.
LEMMA BearerStays ==
    ASSUME WorkerBase, [WorkerNext]_wvars, NEW t \in TaskIds, tasks[t].claim # None,
           NEW w \in WorkerIds, agent'[w].claim = tasks[t].claim
    PROVE  /\ agent[w].claim = tasks[t].claim
           /\ agent[w].pc \in {"recheck", "complete"} =>
                  /\ agent'[w].pc \in {"complete", agent[w].pc}
                  /\ agent'[w].task = agent[w].task
<1>1. Turn(w)
  BY TurnStep
<1>2. agent'[w] # Gone(w) /\ agent'[w] # AnotherTurn(w)
  BY TurnOver
<1>3. tasks[t].claim \notin FreshIds
  BY DEF FreshIds
<1> QED
  BY <1>1, <1>2, <1>3
  DEF Turn, Stays, GoesOn, SendClaim, GiveUpClaim, ReadGrant, StartKeeper, PrepareFails,
      CheckLease, Launch, CollectExit, KillScript, BeginUpload, UploadFile, UploadFails, UploadEnds,
      SendCompletion

\* What an executing worker knows of its call.
LEMMA OwnsCall ==
    ASSUME WorkerBase, NEW w \in WorkerIds, agent[w].pc \in Executing
    PROVE  /\ agent[w].task \in TaskIds
           /\ tasks[agent[w].task].worker = w
           /\ tasks[agent[w].task].claim = agent[w].claim
           /\ tasks[agent[w].task].claim # None
BY Executes, NoneIsNull DEF Owns

LEMMA ScriptsTyped ==
    ASSUME WorkerBase, NEW s \in scripts
    PROVE  s.worker \in WorkerIds /\ s.task \in TaskIds
           /\ s = [worker |-> s.worker, task |-> s.task]
BY DEF WorkerBase, WorkerTypeOK

\* A call has one script at a time.
LEMMA OneScript ==
    ASSUME WorkerBase, Earnings, NEW s \in scripts, NEW r \in scripts, s.task = r.task
    PROVE  s = r
<1>1. s.worker = r.worker
  BY DEF Earnings, ScriptStarted
<1> QED
  BY <1>1, ScriptsTyped

\* A worker that is not at its script has none that it could know of.
LEMMA AtRestNow ==
    ASSUME WorkerBase, ScriptsWatched, Earnings, CleanKills,
           NEW w \in WorkerIds, agent[w].pc \in Executing \ {"script", "report"},
           NEW s \in scripts
    PROVE  s.worker # w
BY DEF ScriptsWatched, Watched, CleanKills, Executing

-----------------------------------------------------------------------------
(* A step leaves what is settled.                                          *)

LEMMA NextCallSettled ==
    ASSUME WorkerBase, Settled, [WorkerNext]_wvars, NEW t \in TaskIds
    PROVE  CallSettled(t)'
<1> SUFFICES ASSUME tasks'[t].completion # None, NEW w \in WorkerIds,
                    tasks'[t].worker = w, agent'[w].claim = tasks'[t].claim
             PROVE  agent'[w].pc = "complete" /\ agent'[w].task = t
  BY DEF CallSettled
<1>1. CASE tasks[t].completion # None
  <2>1. tasks[t].claim # None
    BY <1>1 DEF WorkerBase, Inductive, RowsWellFormed, WellFormed
  <2>2. tasks[t].worker = w /\ agent'[w].claim = tasks[t].claim
    BY <2>1, ClaimKept DEF SameClaim
  <2>3. agent[w].pc = "complete" /\ agent[w].task = t
    BY <1>1, <2>1, <2>2, BearerStays DEF Settled, CallSettled
  <2> QED
    BY <2>1, <2>2, <2>3, BearerStays
<1>2. ASSUME NEW v \in WorkerIds, CompletionReaches(v), agent[v].task = t
      PROVE  agent'[w].pc = "complete" /\ agent'[w].task = t
  <2>1. agent[v].pc = "complete" /\ agent' = agent
    BY <1>2 DEF CompletionReaches
  <2>2. tasks[t].worker = v /\ tasks[t].claim # None
    BY <1>2, <2>1, OwnsCall DEF Executing
  <2>3. v = w
    BY <2>2, ClaimKept DEF SameClaim
  <2> QED
    BY <1>2, <2>1, <2>3
<1>3. ASSUME NEW m \in strays, StrayCompletionReaches(m), m.task = t
      PROVE  FALSE
  <2>1. tasks[t].claim # None /\ Left(t) /\ agent' = agent
    BY <1>3 DEF StrayCompletionReaches, Settled, StraySettled
  <2> QED
    BY <2>1, ClaimKept DEF SameClaim, Left
<1> QED
  BY <1>1, <1>2, <1>3, RecordStep DEF NothingRecorded

\* Nobody starts the script of a call that was left.
LEMMA NoLaunchOfLeft ==
    ASSUME WorkerBase, NEW t \in TaskIds, Left(t), NEW w \in WorkerIds,
           agent[w].pc \in Executing
    PROVE  agent[w].task # t
BY OwnsCall DEF Left

\* The scripts after a step were there before, or have just been started.
LEMMA ScriptsAfter ==
    ASSUME [WorkerNext]_wvars, NEW s \in scripts', s \notin scripts
    PROVE  \E w \in WorkerIds : Launch(w) /\ s = Script(w)
BY OutsideStep DEF outside, StartKeeper, Launch, KillScript, CompletionRecorded, ScriptEnds

LEMMA NextStraySettled ==
    ASSUME WorkerBase, ScriptsWatched, Kept, Earnings, Settled, [WorkerNext]_wvars,
           NEW m \in strays'
    PROVE  StraySettled(m)'
<1> DEFINE t == m.task
<1> SUFFICES ASSUME m.kind = "complete"
             PROVE  /\ tasks'[t].claim # None
                    /\ Left(t)'
                    /\ <<tasks'[t].worker, t>> \in workspaces'
                    /\ CleanKills => \A s \in scripts' : s.task # t
  BY DEF StraySettled, CleanKills
<1>0. m \in Message /\ t \in TaskIds
  BY StraysTyped DEF Message
<1>1. CASE m \in strays
  <2>1. /\ tasks[t].claim # None /\ Left(t) /\ <<tasks[t].worker, t>> \in workspaces
        /\ CleanKills => \A s \in scripts : s.task # t
    BY <1>1 DEF Settled, StraySettled
  <2>2. SameClaim(tasks'[t], tasks[t])
    BY <1>0, <2>1, ClaimKept
  <2>3. Left(t)'
    BY <1>0, <2>1, <2>2, BearerStays DEF Left, SameClaim
  <2>4. <<tasks[t].worker, t>> \in workspaces'
    <3>1. tasks[t].worker \in WorkerIds
      BY <2>1 DEF WorkerBase, WorkerTypeOK
    <3>2. CASE <<tasks[t].worker, t>> \notin workspaces'
      <4>1. PICK v \in WorkerIds : CompletionRecorded(v)
        BY <2>1, <3>2, OutsideStep DEF outside, StartKeeper, Launch, KillScript, ScriptEnds
      <4>2. agent[v].task # t
        BY <1>0, <2>1, <4>1, NoLaunchOfLeft DEF CompletionRecorded, Executing
      <4> QED
        BY <2>1, <3>2, <4>1, <4>2 DEF CompletionRecorded, Without
    <3> QED
      BY <3>2
  <2>5. ASSUME CleanKills, NEW s \in scripts' PROVE s.task # t
    <3>1. ASSUME NEW w \in WorkerIds, Launch(w), s = Script(w) PROVE s.task # t
      BY <1>0, <2>1, <3>1, NoLaunchOfLeft DEF Launch, Executing, Script
    <3> QED
      BY <2>1, <2>5, <3>1, ScriptsAfter
  <2> QED
    BY <2>1, <2>2, <2>3, <2>4, <2>5 DEF SameClaim
<1>2. ASSUME NEW w \in WorkerIds, CompletionFails(w), m = CompletionMessage(w)
      PROVE  /\ tasks'[t].claim # None
             /\ Left(t)'
             /\ <<tasks'[t].worker, t>> \in workspaces'
             /\ CleanKills => \A s \in scripts' : s.task # t
  <2>1. t = agent[w].task /\ agent[w].pc = "complete" /\ agent[w].pc \in Executing
    BY <1>2 DEF CompletionMessage, CompletionFails, Executing
  <2>2. tasks[t].worker = w /\ tasks[t].claim # None
    BY <2>1, OwnsCall
  <2>3. tasks' = tasks /\ scripts' = scripts /\ workspaces' = workspaces
    BY <1>2 DEF CompletionFails, store, vars, outside
  <2>4. <<w, t>> \in workspaces
    BY <2>1 DEF Kept
  <2>5. Left(t)'
    <3>1. PICK n \in {Gone(w), AnotherTurn(w)} : Move(w, n)
      BY <1>2 DEF CompletionFails, EndTurn, NextTurn
    <3>2. agent'[w].claim = None
      BY <3>1, Moved, TurnOver
    <3> QED
      BY <2>2, <2>3, <3>2 DEF Left
  <2>6. ASSUME CleanKills, NEW s \in scripts PROVE s.task # t
    <3>1. s.worker # w
      BY <2>1, <2>6, AtRestNow
    <3> QED
      BY <2>2, <3>1 DEF Earnings, ScriptStarted
  <2> QED
    BY <2>2, <2>3, <2>4, <2>5, <2>6
<1>3. \A w \in WorkerIds : \A a :
          /\ ClaimMessage(w).kind = "claim"
          /\ BeatMessage(w).kind = "beat"
          /\ UploadMessage(w, a).kind = "upload"
  BY DEF ClaimMessage, BeatMessage, UploadMessage
<1> QED
  BY <1>1, <1>2, <1>3, StraysStep

LEMMA NextUploadSettled ==
    ASSUME WorkerBase, ScriptsWatched, Kept, Earnings, Settled, [WorkerNext]_wvars,
           NEW m \in strays'
    PROVE  UploadSettled(m)'
<1> DEFINE t == m.task
           Goal == /\ tasks'[t].claim # None
                   /\ \A w \in WorkerIds :
                          tasks'[t].worker = w /\ agent'[w].claim = tasks'[t].claim =>
                              agent'[w].pc \in {"recheck", "complete"} /\ agent'[w].task = t
                   /\ tasks'[t].completion = None => <<tasks'[t].worker, t>> \in workspaces'
                   /\ CleanKills => \A s \in scripts' : s.task # t
<1> SUFFICES ASSUME m.kind = "upload" PROVE Goal
  BY DEF UploadSettled, CleanKills
<1>0. m \in Message /\ t \in TaskIds
  BY StraysTyped DEF Message
<1>1. CASE m \in strays
  <2>1. /\ tasks[t].claim # None
        /\ \A w \in WorkerIds :
               tasks[t].worker = w /\ agent[w].claim = tasks[t].claim =>
                   agent[w].pc \in {"recheck", "complete"} /\ agent[w].task = t
        /\ tasks[t].completion = None => <<tasks[t].worker, t>> \in workspaces
        /\ CleanKills => \A s \in scripts : s.task # t
    BY <1>1 DEF Settled, UploadSettled
  <2>2. SameClaim(tasks'[t], tasks[t])
    BY <1>0, <2>1, ClaimKept
  <2>3. ASSUME NEW w \in WorkerIds, tasks'[t].worker = w, agent'[w].claim = tasks'[t].claim
        PROVE  agent'[w].pc \in {"recheck", "complete"} /\ agent'[w].task = t
    <3>1. tasks[t].worker = w /\ agent'[w].claim = tasks[t].claim
      BY <2>2, <2>3 DEF SameClaim
    <3>2. agent[w].claim = tasks[t].claim
      BY <1>0, <2>1, <3>1, BearerStays
    <3>3. agent[w].pc \in {"recheck", "complete"} /\ agent[w].task = t
      BY <2>1, <3>1, <3>2
    <3> QED
      BY <1>0, <2>1, <3>1, <3>3, BearerStays
  <2>4. ASSUME tasks'[t].completion = None PROVE <<tasks[t].worker, t>> \in workspaces'
    <3>1. tasks[t].completion = None /\ <<tasks[t].worker, t>> \in workspaces
      BY <1>0, <2>1, <2>4, ResultStays
    <3>2. tasks[t].worker \in WorkerIds
      BY <3>1 DEF WorkerBase, WorkerTypeOK
    <3> QED
      BY <1>0, <3>1, <3>2, WorkspaceGoes
  <2>5. ASSUME CleanKills, NEW s \in scripts' PROVE s.task # t
    <3>1. ASSUME NEW w \in WorkerIds, Launch(w), s = Script(w), s.task = t PROVE FALSE
      <4>1. agent[w].task = t /\ agent[w].pc = "launching" /\ agent[w].pc \in Executing
        BY <3>1 DEF Launch, Executing, Script
      <4> QED
        BY <2>1, <4>1, OwnsCall
    <3> QED
      BY <2>1, <2>5, <3>1, ScriptsAfter
  <2> QED
    BY <2>1, <2>2, <2>3, <2>4, <2>5 DEF SameClaim
<1>2. ASSUME NEW w \in WorkerIds, NEW a \in agent[w].todo, UploadFails(w),
             m = UploadMessage(w, a)
      PROVE  Goal
  <2>1. t = agent[w].task /\ agent[w].pc = "upload" /\ agent[w].pc \in Executing
    BY <1>2 DEF UploadMessage, UploadFails, Executing
  <2>2. tasks[t].worker = w /\ tasks[t].claim # None
    BY <2>1, OwnsCall
  <2>3. tasks' = tasks /\ scripts' = scripts /\ workspaces' = workspaces
    BY <1>2 DEF UploadFails, store, vars, outside
  <2>4. <<w, t>> \in workspaces
    BY <2>1 DEF Kept
  <2>5. agent'[w].pc = "recheck" /\ agent'[w].task = t
    <3> DEFINE n == [agent[w] EXCEPT !.pc = "recheck", !.todo = {}, !.completion = Failed(@)]
    <3>1. Move(w, n) /\ agent[w] \in Agent
      BY <1>2 DEF UploadFails, WorkerBase, WorkerTypeOK
    <3>2. n.pc = "recheck" /\ n.task = t
      BY <2>1, <3>1 DEF Agent
    <3> HIDE DEF n
    <3> QED
      BY <3>1, <3>2, Moved
  <2>6. ASSUME CleanKills, NEW s \in scripts PROVE s.task # t
    <3>1. s.worker # w
      BY <2>1, <2>6, AtRestNow
    <3> QED
      BY <2>2, <3>1 DEF Earnings, ScriptStarted
  <2> QED
    BY <2>2, <2>3, <2>4, <2>5, <2>6
<1>3. \A w \in WorkerIds : /\ ClaimMessage(w).kind = "claim" /\ BeatMessage(w).kind = "beat"
                          /\ CompletionMessage(w).kind = "complete"
  BY DEF ClaimMessage, BeatMessage, CompletionMessage
<1> HIDE DEF Goal
<1> QED
  BY <1>1, <1>2, <1>3, StraysStep

LEMMA NextExitKnown ==
    ASSUME WorkerBase, Launches, Earnings, Settled, [WorkerNext]_wvars, NEW t \in TaskIds
    PROVE  ExitKnown(t)'
<1> SUFFICES ASSUME exits'[t] # None
             PROVE  launched'[t] > 0 /\ \A s \in scripts' : s.task # t
  BY DEF ExitKnown
<1>1. /\ launched[t] \in Nat
      /\ launched[t] > 0 => launched'[t] > 0
  BY LaunchedStep
<1>2. CASE exits[t] # None
  <2>1. launched[t] > 0 /\ \A s \in scripts : s.task # t
    BY <1>2 DEF Settled, ExitKnown
  <2>2. ASSUME NEW s \in scripts' PROVE s.task # t
    <3>1. ASSUME NEW w \in WorkerIds, Launch(w), s = Script(w) PROVE s.task # t
      BY <1>1, <2>1, <3>1, LaunchIsFirst DEF Script
    <3> QED
      BY <2>1, <3>1, ScriptsAfter
  <2> QED
    BY <1>1, <2>1, <2>2
<1>3. CASE exits[t] = None
  <2>1. PICK r \in scripts : ScriptEnds(r)
    BY <1>3, OutsideStep DEF outside, StartKeeper, Launch, KillScript, CompletionRecorded
  <2>2. r.task = t
    <3>1. PICK code \in ExitCodes : exits' = [exits EXCEPT ![r.task] = code]
      BY <2>1 DEF ScriptEnds
    <3> QED
      BY <1>3, <3>1 DEF WorkerBase, WorkerTypeOK
  <2>3. scripts' = scripts \ {r}
    BY <2>1 DEF ScriptEnds
  <2>4. \A s \in scripts' : s.task # t
    BY <2>2, <2>3, OneScript
  <2>5. launched[t] > 0
    BY <2>2 DEF Earnings, ScriptStarted
  <2> QED
    BY <1>1, <2>4, <2>5
<1> QED
  BY <1>2, <1>3

LEMMA NextDirOwned ==
    ASSUME WorkerBase, Settled, [WorkerNext]_wvars, NEW d \in workspaces'
    PROVE  DirOwned(d)'
<1>1. d[1] \in WorkerIds /\ d[2] \in TaskIds
  BY OutsideTyped
<1>2. CASE d \in workspaces
  BY <1>1, <1>2, ClaimKept DEF Settled, DirOwned, SameClaim
<1>3. CASE d \notin workspaces
  <2>1. PICK w \in WorkerIds : StartKeeper(w)
    BY <1>3, OutsideStep DEF outside, Launch, KillScript, CompletionRecorded, Without, ScriptEnds
  <2>2. d = <<w, agent[w].task>> /\ tasks' = tasks /\ agent[w].pc \in Executing
    BY <1>3, <2>1 DEF StartKeeper, store, vars, Executing
  <2> QED
    BY <2>2, OwnsCall DEF DirOwned
<1> QED
  BY <1>2, <1>3

LEMMA NextSettled ==
    ASSUME WorkerInductive, Settled, [WorkerNext]_wvars
    PROVE  Settled'
BY NextCallSettled, NextStraySettled, NextUploadSettled, NextExitKnown, NextDirOwned
DEF WorkerInductive, Settled

-----------------------------------------------------------------------------
(* The steps of Worker are steps of Execution.                             *)

WorkerSettled == WorkerInductive /\ Settled

\* The abstract state of the machines.
absScript == [t \in TaskIds |-> ScriptOf(t)]
absKept == {t \in TaskIds : \E w \in WorkerIds : <<w, t>> \in workspaces}

LEMMA MachineStays ==
    ASSUME UNCHANGED outside
    PROVE  UNCHANGED Runs!machine
BY DEF outside, ScriptOf, Runs!machine

LEMMA CallsStay ==
    ASSUME UNCHANGED store
    PROVE  UNCHANGED Runs!vars
BY DEF store, vars, Runs!vars

\* The directory of an executing call is there, and no script is seen to live
\* unless its worker is at it.
LEMMA ExecutingHere ==
    ASSUME WorkerSettled, NEW w \in WorkerIds, agent[w].pc \in Executing \ {"starting"}
    PROVE  agent[w].task \in absKept
BY OwnsCall DEF WorkerSettled, WorkerInductive, Kept, absKept

LEMMA ScriptAtRest ==
    ASSUME WorkerSettled, NEW w \in WorkerIds, NEW t \in TaskIds, tasks[t].worker = w,
           agent[w].pc \in Executing \ {"script", "report"}
    PROVE  Runs!AtRest(t)
<1>1. CleanKills => ~\E s \in scripts : s.task = t
  BY AtRestNow DEF WorkerSettled, WorkerInductive, Earnings, ScriptStarted
<1>2. CleanKills => ScriptOf(t) # "alive"
  BY <1>1 DEF ScriptOf
<1> QED
  BY <1>2 DEF Runs!AtRest, CleanKills

LEMMA PrepareImplements ==
    ASSUME WorkerSettled, NEW w \in WorkerIds, StartKeeper(w)
    PROVE  \E t \in TaskIds : Runs!Prepare(t)
<1>0. PICK t \in TaskIds : t = agent[w].task
  BY OwnsCall DEF WorkerSettled, WorkerInductive, StartKeeper, Executing
<1>1. agent[w].pc = "starting" /\ agent[w].pc \in Executing /\ UNCHANGED store
  BY DEF StartKeeper, Executing
<1>2. /\ t \in TaskIds /\ tasks[t].worker = w /\ tasks[t].claim = agent[w].claim
  BY <1>0, <1>1, OwnsCall DEF WorkerSettled, WorkerInductive
<1>3. tasks[t].completion = None
  BY <1>0, <1>1, <1>2 DEF WorkerSettled, Settled, CallSettled
<1>4. ScriptOf(t) = "none"
  <2>1. ~(launched[t] > 0) /\ launched[t] \in Nat
    BY <1>0, <1>1, <1>2 DEF WorkerSettled, WorkerInductive, WorkerBase, WorkerTypeOK, Launches,
                      LaunchOK, Started
  <2>2. \A s \in scripts : s.task # t
    BY <2>1 DEF WorkerSettled, WorkerInductive, Earnings, ScriptStarted
  <2> QED
    BY <2>1, <2>2 DEF ScriptOf
<1>5. t \notin absKept
  <2>1. ASSUME NEW v \in WorkerIds, <<v, t>> \in workspaces PROVE FALSE
    <3>1. v = w
      BY <1>2, <2>1 DEF WorkerSettled, Settled, DirOwned
    <3> QED
      BY <1>0, <2>1, <3>1 DEF StartKeeper
  <2> QED
    BY <2>1 DEF absKept
<1>6. absKept' = absKept \cup {t}
  BY <1>0, <1>2 DEF absKept, StartKeeper
<1>7. absScript' = absScript /\ exits' = exits
  BY DEF absScript, ScriptOf, StartKeeper
<1>8. w # None
  BY NoneIsNull
<1>9. Runs!Prepare(t)
  BY <1>1, <1>2, <1>3, <1>4, <1>5, <1>6, <1>7, <1>8, CallsStay
  DEF Runs!Prepare, absKept, absScript
<1> QED
  BY <1>2, <1>9

LEMMA StartImplements ==
    ASSUME WorkerSettled, NEW w \in WorkerIds, Launch(w)
    PROVE  \E t \in TaskIds : Runs!Start(t)
<1> DEFINE t == agent[w].task
<1>1. agent[w].pc = "launching" /\ agent[w].pc \in Executing /\ UNCHANGED store
  BY DEF Launch, Executing
<1>2. /\ t \in TaskIds /\ tasks[t].worker = w /\ tasks[t].claim = agent[w].claim
  BY <1>1, OwnsCall DEF WorkerSettled, WorkerInductive
<1>3. tasks[t].completion = None
  BY <1>1, <1>2 DEF WorkerSettled, Settled, CallSettled
<1>4. launched \in [TaskIds -> Nat] /\ launched[t] = 0
  BY LaunchIsFirst DEF WorkerSettled, WorkerInductive, WorkerBase, WorkerTypeOK
<1>5. \A s \in scripts : s.task # t
  BY <1>2, <1>4 DEF WorkerSettled, WorkerInductive, Earnings, ScriptStarted
<1>6. absScript[t] = "none" /\ t \in absKept
  BY <1>1, <1>2, <1>4, <1>5, ExecutingHere DEF absScript, ScriptOf
<1>7. \A u \in TaskIds : tasks[u].worker = w => Runs!AtRest(u)
  BY <1>1, ScriptAtRest
<1>8. absScript' = [absScript EXCEPT ![t] = "alive"]
  <2>1. scripts' = scripts \cup {Script(w)} /\ Script(w).task = t
    BY DEF Launch, Script
  <2>2. exits' = exits /\ \A u \in TaskIds \ {t} : launched'[u] = launched[u]
    BY <1>4 DEF Launch
  <2>3. \A u \in TaskIds : ScriptOf(u)' = IF u = t THEN "alive" ELSE ScriptOf(u)
    BY <2>1, <2>2 DEF ScriptOf
  <2> QED
    BY <1>2, <2>3 DEF absScript
<1>9. exits' = exits /\ absKept' = absKept
  BY DEF Launch, absKept
<1> HIDE DEF t
<1>10. Runs!Start(t)
  BY <1>1, <1>2, <1>3, <1>6, <1>7, <1>8, <1>9, CallsStay
  DEF Runs!Start, absKept, absScript
<1> QED
  BY <1>2, <1>10

\* One script ends, in one of the two ways.
LEMMA ScriptGoes ==
    ASSUME WorkerSettled, NEW s \in scripts, scripts' = scripts \ {s},
           launched' = launched, NEW c,
           exits' = IF c = None THEN exits ELSE [exits EXCEPT ![s.task] = c]
    PROVE  /\ s.task \in TaskIds /\ absScript[s.task] = "alive"
           /\ absScript' = [absScript EXCEPT ![s.task] = IF c = None THEN "killed" ELSE "ended"]
<1> DEFINE t == s.task
<1>1. t \in TaskIds /\ exits \in [TaskIds -> ExitCodes \cup {None}]
  BY DEF WorkerSettled, WorkerInductive, WorkerBase, WorkerTypeOK
<1>2. \A r \in scripts' : r.task # t
  BY OneScript DEF WorkerSettled, WorkerInductive
<1>3. launched[t] \in Nat /\ launched[t] > 0
  BY <1>1 DEF WorkerSettled, WorkerInductive, WorkerBase, WorkerTypeOK, Earnings, ScriptStarted
<1>4. exits[t] = None
  BY <1>1 DEF WorkerSettled, Settled, ExitKnown
<1>5. ScriptOf(t)' = IF c = None THEN "killed" ELSE "ended"
  BY <1>1, <1>2, <1>3, <1>4 DEF ScriptOf
<1>6. \A u \in TaskIds \ {t} : ScriptOf(u)' = ScriptOf(u)
  <2>1. ASSUME NEW u \in TaskIds, u # t
        PROVE  /\ (\E r \in scripts' : r.task = u) <=> (\E r \in scripts : r.task = u)
               /\ exits'[u] = exits[u] /\ launched'[u] = launched[u]
    BY <1>1, <2>1
  <2> QED
    BY <2>1 DEF ScriptOf
<1>7. absScript[t] = "alive"
  BY <1>1 DEF absScript, ScriptOf
<1> QED
  BY <1>1, <1>5, <1>6, <1>7 DEF absScript

LEMMA EndImplements ==
    ASSUME WorkerSettled, NEW s \in scripts, ScriptEnds(s)
    PROVE  \E t \in TaskIds, c \in ExitCodes : Runs!End(t, c)
<1>1. PICK c \in ExitCodes : exits' = [exits EXCEPT ![s.task] = c]
  BY DEF ScriptEnds
<1>2. c # None
  BY WorkerAssumption
<1>3. scripts' = scripts \ {s} /\ launched' = launched /\ workspaces' = workspaces
      /\ UNCHANGED store
  BY DEF ScriptEnds
<1>4. /\ s.task \in TaskIds /\ absScript[s.task] = "alive"
      /\ absScript' = [absScript EXCEPT ![s.task] = "ended"]
  BY <1>1, <1>2, <1>3, ScriptGoes
<1>5. absKept' = absKept
  BY <1>3 DEF absKept
<1>6. Runs!End(s.task, c)
  BY <1>1, <1>3, <1>4, <1>5, CallsStay DEF Runs!End, absKept, absScript
<1> QED
  BY <1>4, <1>6

LEMMA KillImplements ==
    ASSUME WorkerSettled, NEW w \in WorkerIds, KillScript(w)
    PROVE  (\E t \in TaskIds : Runs!Kill(t)) \/ UNCHANGED Runs!evars
<1>1. /\ Script(w) \in scripts /\ UNCHANGED store
      /\ launched' = launched /\ exits' = exits /\ workspaces' = workspaces
  BY DEF KillScript
<1>2. absKept' = absKept /\ UNCHANGED Runs!vars
  BY <1>1, CallsStay DEF absKept
<1>3. CASE scripts' = scripts
  BY <1>1, <1>2, <1>3, MachineStays DEF outside, Runs!evars, Runs!machine
<1>4. CASE scripts' = scripts \ {Script(w)}
  <2>1. /\ Script(w).task \in TaskIds /\ absScript[Script(w).task] = "alive"
        /\ absScript' = [absScript EXCEPT ![Script(w).task] = "killed"]
    BY <1>1, <1>4, ScriptGoes
  <2>2. Runs!Kill(Script(w).task)
    BY <1>1, <1>2, <2>1 DEF Runs!Kill, absKept, absScript
  <2> QED
    BY <2>1, <2>2
<1> QED
  BY <1>3, <1>4 DEF KillScript

LEMMA DiscardImplements ==
    ASSUME WorkerSettled, NEW w \in WorkerIds, CompletionRecorded(w)
    PROVE  (\E t \in TaskIds : Runs!Discard(t)) \/ UNCHANGED Runs!evars
<1>0. PICK t \in TaskIds : t = agent[w].task
  BY OwnsCall DEF WorkerSettled, WorkerInductive, CompletionRecorded, Executing
<1>1. /\ agent[w].pc = "complete" /\ agent[w].pc \in Executing /\ UNCHANGED store
      /\ scripts' = scripts /\ launched' = launched /\ exits' = exits
      /\ tasks[t].completion = agent[w].completion
      /\ workspaces' = workspaces \/ workspaces' = workspaces \ {<<w, t>>}
  BY <1>0 DEF CompletionRecorded, Without, Executing
<1>2. t \in TaskIds /\ tasks[t].worker = w
  BY <1>0, <1>1, OwnsCall DEF WorkerSettled, WorkerInductive
<1>3. tasks[t].completion # None
  BY <1>0, <1>1, Executes, NoneIsNull DEF WorkerSettled, WorkerInductive
<1>4. t \in absKept /\ UNCHANGED Runs!vars
  BY <1>0, <1>1, ExecutingHere, CallsStay
<1>5. CASE workspaces' = workspaces
  BY <1>1, <1>4, <1>5, MachineStays DEF outside, Runs!evars, Runs!machine
<1>6. CASE workspaces' = workspaces \ {<<w, t>>}
  <2>1. \A v \in WorkerIds : <<v, t>> \in workspaces => v = w
    BY <1>2 DEF WorkerSettled, Settled, DirOwned
  <2>2. absKept' = absKept \ {t}
    BY <1>6, <2>1 DEF absKept
  <2>3. absScript' = absScript
    BY <1>1 DEF absScript, ScriptOf
  <2>4. Runs!Discard(t)
    BY <1>1, <1>2, <1>3, <1>4, <2>2, <2>3 DEF Runs!Discard, absKept, absScript
  <2> QED
    BY <1>2, <2>4
<1> QED
  BY <1>1, <1>5, <1>6

\* What the lifecycle sees, the execution sees.
LEMMA SameCalls ==
    /\ \A t \in TaskIds :
           /\ Runs!Accept(t) = Lifecycle!Accept(t)
           /\ Runs!Cancel(t) = Lifecycle!Cancel(t)
           /\ \A o \in Artifact : Runs!Upload(t, o) = Lifecycle!Upload(t, o)
           /\ \A r \in Completions : Runs!Finish(t, r) = Lifecycle!Finish(t, r)
    /\ \A gone \in SUBSET TaskIds :
           /\ Runs!Lose(gone) = Lifecycle!Lose(gone)
           /\ \A t \in TaskIds, w \in WorkerIds :
                  Runs!Assign(t, w, gone) = Lifecycle!Assign(t, w, gone)
<1>1. ASSUME NEW t \in TaskIds
      PROVE  /\ Runs!Accept(t) = Lifecycle!Accept(t)
             /\ Runs!Cancel(t) = Lifecycle!Cancel(t)
  BY DEF Runs!Accept, Lifecycle!Accept, Runs!Cancel, Lifecycle!Cancel
<1>2. ASSUME NEW t \in TaskIds, NEW o \in Artifact
      PROVE  Runs!Upload(t, o) = Lifecycle!Upload(t, o)
  BY DEF Runs!Upload, Lifecycle!Upload
<1>3. ASSUME NEW t \in TaskIds, NEW r \in Completions
      PROVE  Runs!Finish(t, r) = Lifecycle!Finish(t, r)
  BY DEF Runs!Finish, Lifecycle!Finish
<1>4. ASSUME NEW gone \in SUBSET TaskIds
      PROVE  Runs!Lose(gone) = Lifecycle!Lose(gone)
  BY DEF Runs!Lose, Lifecycle!Lose, Runs!RunningTasks, Lifecycle!RunningTasks
<1>5. ASSUME NEW gone \in SUBSET TaskIds, NEW t \in TaskIds, NEW w \in WorkerIds
      PROVE  Runs!Assign(t, w, gone) = Lifecycle!Assign(t, w, gone)
  BY DEF Runs!Assign, Lifecycle!Assign, Runs!RunningTasks, Lifecycle!RunningTasks,
         Runs!Running, Lifecycle!Running
<1> QED
  BY <1>1, <1>2, <1>3, <1>4, <1>5

\* A completion that reaches the server finds the script at rest, and its success earned.
LEMMA FinishAtRest ==
    ASSUME WorkerSettled, UNCHANGED outside,
           NEW t \in TaskIds, NEW k \in Tokens, NEW c \in Completions, Complete(t, k, c),
           t \in absKept, Runs!AtRest(t),
           Succeeds(c) => Earned(t) /\ Files \subseteq artifacts[t]
    PROVE  Runs!FinishAtRest(t, c)
<1>1. Runs!Finish(t, c)
  BY FinishImplements, SameCalls DEF WorkerSettled, WorkerInductive, WorkerBase, Inductive
<1>2. ASSUME c \in GoodCompletions
      PROVE  absScript[t] = "ended" /\ exits[t] = 0 /\ Files \subseteq artifacts[t]
  <2>1. Earned(t) /\ Files \subseteq artifacts[t]
    BY <1>2 DEF GoodCompletions, Succeeds
  <2>2. launched[t] # 0 /\ exits[t] = 0 /\ ~\E s \in scripts : s.task = t
    <3>1. launched[t] > 0 /\ launched[t] \in Nat
      BY <2>1 DEF Earned, WorkerSettled, WorkerInductive, WorkerBase, WorkerTypeOK
    <3>2. exits[t] = 0 /\ \A s \in scripts : s.task # t
      BY <2>1 DEF Earned
    <3>3. launched[t] # 0
      BY <3>1
    <3> QED
      BY <3>2, <3>3
  <2>3. 0 # None
    <3>1. None \notin Int
      BY WorkerAssumption
    <3>2. 0 \in Int
      OBVIOUS
    <3> QED
      BY <3>1, <3>2, Zenon
  <2>4. ScriptOf(t) = "ended"
    BY <2>2, <2>3 DEF ScriptOf
  <2> QED
    BY <2>1, <2>2, <2>4 DEF absScript
<1> QED
  BY <1>1, <1>2, MachineStays DEF Runs!FinishAtRest, absKept, absScript

LEMMA CompletionImplements ==
    ASSUME WorkerSettled, NEW w \in WorkerIds, CompletionReaches(w)
    PROVE  \E t \in TaskIds, c \in Completions : Runs!FinishAtRest(t, c)
<1>0. WorkerBase
  BY DEF WorkerSettled, WorkerInductive
<1>1. PICK t \in TaskIds, k \in Tokens, c \in Completions :
          t = agent[w].task /\ k = agent[w].token /\ c = agent[w].completion
  BY <1>0, Executes DEF CompletionReaches, Executing
<1>2. agent[w].pc = "complete" /\ Complete(t, k, c) /\ UNCHANGED outside
  BY <1>1 DEF CompletionReaches
<1>3. t \in absKept
  BY <1>1, <1>2, ExecutingHere DEF Executing
<1>4. Runs!AtRest(t)
  BY <1>0, <1>1, <1>2, OwnsCall, ScriptAtRest DEF Executing
<1>5. Succeeds(c) => Earned(t) /\ Files \subseteq artifacts[t]
  BY <1>1, <1>2 DEF WorkerSettled, WorkerInductive, Earnings, ReportEarned, Reporting
<1>6. Runs!FinishAtRest(t, c)
  BY <1>2, <1>3, <1>4, <1>5, FinishAtRest
<1> QED
  BY <1>6

LEMMA StrayCompletionImplements ==
    ASSUME WorkerSettled, NEW m \in strays, StrayCompletionReaches(m)
    PROVE  \E t \in TaskIds, c \in Completions : Runs!FinishAtRest(t, c)
<1>0. WorkerBase
  BY DEF WorkerSettled, WorkerInductive
<1>1. PICK t \in TaskIds, k \in Tokens, c \in Completions :
          t = m.task /\ k = m.token /\ c = m.completion
  BY <1>0 DEF StrayCompletionReaches, WorkerBase, WorkerTypeOK, Message
<1>2. m.kind = "complete" /\ Complete(t, k, c) /\ UNCHANGED outside
  BY <1>1 DEF StrayCompletionReaches
<1>3. /\ <<tasks[t].worker, t>> \in workspaces
      /\ CleanKills => ~\E s \in scripts : s.task = t
  BY <1>1, <1>2 DEF WorkerSettled, Settled, StraySettled
<1>4. t \in absKept
  BY <1>0, <1>3 DEF absKept, WorkerBase, WorkerTypeOK
<1>5. Runs!AtRest(t)
  <2>1. CleanKills => ScriptOf(t) # "alive"
    BY <1>3 DEF ScriptOf
  <2> QED
    BY <2>1 DEF Runs!AtRest, CleanKills
<1>6. Succeeds(c) => Earned(t) /\ Files \subseteq artifacts[t]
  BY <1>1, <1>2 DEF WorkerSettled, WorkerInductive, Earnings, StrayEarned
<1>7. Runs!FinishAtRest(t, c)
  BY <1>2, <1>4, <1>5, <1>6, FinishAtRest
<1> QED
  BY <1>7

LEMMA UploadAtRest ==
    ASSUME WorkerSettled, NEW w \in WorkerIds, NEW a \in Files, UploadFile(w, a)
    PROVE  \E t \in TaskIds, o \in Artifact : Runs!UploadAtRest(t, o)
<1>0. WorkerBase
  BY DEF WorkerSettled, WorkerInductive
<1>1. PICK t \in TaskIds, k \in Tokens : t = agent[w].task /\ k = agent[w].token
  BY <1>0, Executes DEF UploadFile, Executing
<1>2. agent[w].pc = "upload" /\ AddArtifact(t, k, a) /\ a \in Artifact /\ UNCHANGED outside
  BY <1>1, WorkerAssumption DEF UploadFile
<1>3. t \in absKept /\ Runs!AtRest(t)
  BY <1>0, <1>1, <1>2, ExecutingHere, OwnsCall, ScriptAtRest DEF Executing
<1>4. Runs!Upload(t, a)
  BY <1>2, UploadImplements, SameCalls
<1>5. Runs!UploadAtRest(t, a)
  BY <1>2, <1>3, <1>4, MachineStays DEF Runs!UploadAtRest, absKept
<1> QED
  BY <1>2, <1>5

\* An upload that arrives late finds its call running, so its directory is still there.
LEMMA StrayUploadImplements ==
    ASSUME WorkerSettled, NEW m \in strays, StrayUploadReaches(m)
    PROVE  \E t \in TaskIds, o \in Artifact : Runs!UploadAtRest(t, o)
<1>0. WorkerBase
  BY DEF WorkerSettled, WorkerInductive
<1>1. PICK t \in TaskIds, k \in Tokens, a \in Artifact :
          t = m.task /\ k = m.token /\ a = m.artifact
  BY <1>0, WorkerAssumption DEF StrayUploadReaches, WorkerBase, WorkerTypeOK, Message
<1>2. m.kind = "upload" /\ AddArtifact(t, k, a) /\ UNCHANGED outside
  BY <1>1 DEF StrayUploadReaches
<1>3. tasks[t].completion = None
  BY <1>0, <1>2 DEF AddArtifact, LeaseHeld, WorkerBase, Inductive, RowsWellFormed, WellFormed
<1>4. /\ <<tasks[t].worker, t>> \in workspaces
      /\ CleanKills => ~\E s \in scripts : s.task = t
  BY <1>1, <1>2, <1>3 DEF WorkerSettled, Settled, UploadSettled
<1>5. t \in absKept
  BY <1>0, <1>4 DEF absKept, WorkerBase, WorkerTypeOK
<1>6. Runs!AtRest(t)
  <2>1. CleanKills => ScriptOf(t) # "alive"
    BY <1>4 DEF ScriptOf
  <2> QED
    BY <2>1 DEF Runs!AtRest, CleanKills
<1>7. Runs!Upload(t, a)
  BY <1>2, UploadImplements, SameCalls
<1>8. Runs!UploadAtRest(t, a)
  BY <1>2, <1>5, <1>6, <1>7, MachineStays DEF Runs!UploadAtRest, absKept
<1> QED
  BY <1>8

\* Any other step of the store only submits, cancels, loses or assigns calls.
LEMMA ProceedImplements ==
    ASSUME WorkerSettled, [Next]_vars, UNCHANGED outside, artifacts' = artifacts,
           \A t \in TaskIds : tasks'[t].completion = tasks[t].completion
    PROVE  Runs!Proceed \/ UNCHANGED Runs!evars
<1>1. TypeOK /\ RowsWellFormed
  BY DEF WorkerSettled, WorkerInductive, WorkerBase, Inductive
<1>2. [Lifecycle!Next]_(Lifecycle!vars)
  BY <1>1, NextImplements
<1>3. UNCHANGED Runs!machine
  BY MachineStays
<1>4. ASSUME NEW t \in TaskIds, NEW o \in Artifact, Lifecycle!Upload(t, o)
      PROVE  UNCHANGED Lifecycle!vars
  BY <1>4 DEF Lifecycle!Upload, Lifecycle!vars
<1>5. ASSUME NEW t \in TaskIds, NEW r \in Completions, Lifecycle!Finish(t, r)
      PROVE  FALSE
  <2>1. absResult' = [absResult EXCEPT ![t] = r] /\ tasks[t].status = "running"
    BY <1>5 DEF Lifecycle!Finish, absResult
  <2>2. absResult'[t] = r
    BY <2>1 DEF absResult
  <2>3. tasks'[t].completion = r
    BY <2>2 DEF absResult
  <2>4. tasks[t].completion = None
    BY <1>1, <2>1 DEF RowsWellFormed, WellFormed
  <2> QED
    BY <2>3, <2>4, NoneIsNull
<1>6. ASSUME UNCHANGED Lifecycle!vars PROVE UNCHANGED Runs!evars
  <2>1. UNCHANGED Runs!vars
    BY <1>6 DEF Runs!vars, Lifecycle!vars
  <2> QED
    BY <1>3, <2>1 DEF Runs!evars, Runs!machine
<1>7. ASSUME \/ \E t \in TaskIds : Lifecycle!Accept(t) \/ Lifecycle!Cancel(t)
             \/ \E gone \in SUBSET TaskIds : Lifecycle!Lose(gone)
             \/ \E t \in TaskIds, w \in WorkerIds, gone \in SUBSET TaskIds :
                    Lifecycle!Assign(t, w, gone)
      PROVE  Runs!Proceed
  BY <1>3, <1>7, SameCalls DEF Runs!Proceed
<1> QED
  BY <1>2, <1>4, <1>5, <1>6, <1>7 DEF Lifecycle!Next

LEMMA StepImplements ==
    ASSUME WorkerSettled, [WorkerNext]_wvars
    PROVE  [Runs!ExecNext]_(Runs!evars)
<1>0. WorkerBase
  BY DEF WorkerSettled, WorkerInductive
<1>1. ASSUME NEW w \in WorkerIds,
             \/ StartKeeper(w) \/ Launch(w) \/ KillScript(w) \/ CompletionRecorded(w)
      PROVE  Runs!ExecNext \/ UNCHANGED Runs!evars
  BY <1>1, PrepareImplements, StartImplements, KillImplements, DiscardImplements
  DEF Runs!ExecNext
<1>2. ASSUME NEW s \in scripts, ScriptEnds(s) PROVE Runs!ExecNext
  BY <1>2, EndImplements DEF Runs!ExecNext
<1>3. CASE UNCHANGED outside
  <2>1. ASSUME NEW w \in WorkerIds, CompletionReaches(w) PROVE Runs!ExecNext
    BY <2>1, CompletionImplements DEF Runs!ExecNext
  <2>2. ASSUME NEW m \in strays, StrayCompletionReaches(m) PROVE Runs!ExecNext
    BY <2>2, StrayCompletionImplements DEF Runs!ExecNext
  <2>3. ASSUME NEW w \in WorkerIds, NEW a \in Files, UploadFile(w, a) PROVE Runs!ExecNext
    BY <2>3, UploadAtRest DEF Runs!ExecNext
  <2>4. ASSUME NEW m \in strays, StrayUploadReaches(m) PROVE Runs!ExecNext
    BY <2>4, StrayUploadImplements DEF Runs!ExecNext
  <2>5. ASSUME artifacts' = artifacts, \A t \in TaskIds : NothingRecorded(t)
        PROVE  Runs!ExecNext \/ UNCHANGED Runs!evars
    <3>1. [Next]_vars
      BY <1>0, WorkerDrives
    <3>2. Runs!Proceed \/ UNCHANGED Runs!evars
      BY <1>3, <2>5, <3>1, ProceedImplements DEF NothingRecorded
    <3> QED
      BY <3>2 DEF Runs!ExecNext
  <2> QED
    BY <1>0, <2>1, <2>2, <2>3, <2>4, <2>5, RecordStep, UploadStep
<1> QED
  BY <1>1, <1>2, <1>3, OutsideStep

LEMMA InitSettled == WorkerInit => Settled
BY DEF WorkerInit, Init, NoRow, Settled, CallSettled, ExitKnown

LEMMA InitExecutes == WorkerInit => Runs!ExecInit
<1> SUFFICES ASSUME WorkerInit PROVE Runs!ExecInit
  OBVIOUS
<1>1. Lifecycle!Init
  BY InitImplements DEF WorkerInit
<1>2. Runs!Init
  BY <1>1 DEF Runs!Init, Lifecycle!Init
<1>3. \A t \in TaskIds : ScriptOf(t) = "none" /\ t \notin absKept
  BY DEF WorkerInit, ScriptOf, absKept
<1>4. absKept = {} /\ absScript = [t \in TaskIds |-> "none"]
  BY <1>3 DEF absKept, absScript
<1>5. exits = [t \in TaskIds |-> None]
  BY DEF WorkerInit
<1> QED
  BY <1>2, <1>4, <1>5 DEF Runs!ExecInit, absKept, absScript

-----------------------------------------------------------------------------
(* Theorems.                                                               *)

\* No worker goes back to a call that it has reported on, nor another to its directory.
THEOREM SettledInvariance == WorkerSpec => []WorkerSettled
<1>1. WorkerInit => WorkerSettled
  BY InitWorkerInductive, InitSettled DEF WorkerSettled
<1>2. WorkerSettled /\ [WorkerNext]_wvars => WorkerSettled'
  BY NextWorkerInductive, NextSettled DEF WorkerSettled
<1> QED
  BY <1>1, <1>2, PTL DEF WorkerSpec

\* Workers, scripts, the network and the store implement the execution of calls: one script
\* per call, at rest when its outputs and its result arrive, and its directory kept till then.
THEOREM ExecutionImplemented == WorkerSpec => ImplementsExecution
<1>1. WorkerSettled /\ [WorkerNext]_wvars => [Runs!ExecNext]_(Runs!evars)
  BY StepImplements
<1> QED
  BY <1>1, InitExecutes, SettledInvariance, PTL
  DEF WorkerSpec, ImplementsExecution, Runs!ExecSpec

\* What the store alone promises of calls holds of the composed system.
THEOREM WorkersKeepLifecycle == WorkerSpec => ImplementsLifecycle
BY WorkerDrivesStore, Implementation, PTL DEF DrivesStore

=============================================================================
