-------------------------- MODULE WorkerRefinement --------------------------
(***************************************************************************)
(* Workers that drive the store implement the execution of calls: the      *)
(* tables, the scripts and the run directories are all of a step that the  *)
(* abstract specification sees.                                            *)
(***************************************************************************)
EXTENDS Worker, StoreRefinement

ScriptOf(t) ==
    IF \E s \in scripts : s.task = t THEN "alive"
    ELSE IF launched[t] = 0 THEN "none"
    ELSE IF exits[t] = None THEN "killed"
    ELSE "ended"

Runs == INSTANCE Execution WITH
    Tasks <- TaskIds, Workers <- WorkerIds, Results <- Completions,
    GoodResults <- GoodCompletions, Outputs <- Artifact,
    Nobody <- None, NoResult <- None,
    Codes <- ExitCodes, GoodCode <- 0, NoCode <- None, Needed <- Files,
    CleanKills <- "other error" \notin Kills,
    status <- [t \in TaskIds |-> tasks[t].status],
    owner <- [t \in TaskIds |-> tasks[t].worker],
    result <- [t \in TaskIds |-> tasks[t].completion],
    outputs <- artifacts,
    script <- [t \in TaskIds |-> ScriptOf(t)],
    code <- exits,
    kept <- {t \in TaskIds : \E w \in WorkerIds : <<w, t>> \in workspaces}

\* However claims, heartbeats, uploads and completions are lost, repeated and overtaken,
\* and whichever process dies when, calls are executed as promised.
ImplementsExecution == Runs!ExecSpec

=============================================================================
