------------------------------ MODULE MCWorker ------------------------------
(***************************************************************************)
(* Instances of Worker for TLC.                                            *)
(***************************************************************************)
EXTENDS WorkerRefinement, TLC

CONSTANTS f1, v1, p1, i1, t1, t2, w1, w2, r1, r2, r3, k1, k2, out, log, b1

MCValid == {<<p1, i1>>}

MCFold == [n \in Names |-> n]

MCFunctionOf == [w \in WorkerIds |-> f1]

MCFiles == [name : Names, blob : {b1}]

\* A script that ran well, one that failed, and everything that is the worker's failure.
MCCompletions == {[exit_code |-> 0, error |-> FALSE],
                  [exit_code |-> 1, error |-> FALSE],
                  [exit_code |-> 1, error |-> TRUE]}

MCSymmetry == Permutations(TaskIds) \cup Permutations(WorkerIds)
              \cup Permutations(RequestIds) \cup Permutations(Tokens)
              \cup Permutations(Names)

=============================================================================
