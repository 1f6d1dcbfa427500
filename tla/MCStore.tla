------------------------------ MODULE MCStore ------------------------------
(***************************************************************************)
(* Instances of Store for TLC.                                             *)
(***************************************************************************)
EXTENDS StoreRefinement, TLC

CONSTANTS f1, f2, v1, v2, p1, p2, i1, i2, t1, t2, w1, w2, r1, r2, k1, k2,
          x, X, b1, b2

\* A script that ran well, one that failed, and an upload that did.
MCCompletions == {[exit_code |-> 0, error |-> FALSE],
                  [exit_code |-> 0, error |-> TRUE],
                  [exit_code |-> 7, error |-> FALSE]}

MCSuccess == {[exit_code |-> 0, error |-> FALSE]}

\* p1 accepts both inputs, any other package only the first.
MCValid == {<<p, i>> \in Packages \X Inputs : p = p1 \/ i = i1}

\* x and X are the same name ignoring case.
MCFold == [n \in Names |-> x]

MCSymmetry == Permutations(TaskIds) \cup Permutations(WorkerIds)
              \cup Permutations(RequestIds) \cup Permutations(Tokens)

=============================================================================
