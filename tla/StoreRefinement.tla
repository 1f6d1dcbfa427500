-------------------------- MODULE StoreRefinement --------------------------
(***************************************************************************)
(* The store implements the lifecycle of a call: projecting the tasks and  *)
(* artifacts tables on status, worker, completion and artifacts maps every *)
(* transaction to one abstract step, or to none.                           *)
(***************************************************************************)
EXTENDS Store

GoodCompletions == {c \in Completions : OutcomeOf(c) = "succeeded"}

Lifecycle == INSTANCE TaskLifecycle WITH
    Tasks <- TaskIds, Workers <- WorkerIds, Results <- Completions,
    GoodResults <- GoodCompletions, Outputs <- Artifact,
    Nobody <- None, NoResult <- None,
    status <- [t \in TaskIds |-> tasks[t].status],
    owner <- [t \in TaskIds |-> tasks[t].worker],
    result <- [t \in TaskIds |-> tasks[t].completion],
    outputs <- artifacts

\* The store does nothing to a call that the lifecycle does not allow, in any
\* interleaving of claims, heartbeats, uploads, completions and expiries.
ImplementsLifecycle == Lifecycle!Spec

=============================================================================
