------------------------------ MODULE MCClient ------------------------------
(***************************************************************************)
(* Instances of Client for TLC.                                            *)
(***************************************************************************)
EXTENDS Client, TLC

CONSTANTS f1, v1, v2, p1, p2, i1, i2, t1, t2, w1, r1, k1, x, b1, s1, flags

\* p1 accepts i1 only.
MCValid == (Packages \X Inputs) \ {<<p1, i2>>}

MCFold == [n \in Names |-> n]

MCCompletions == {[exit_code |-> 0, error |-> FALSE]}

\* The schemas of p1 and p2 read the same flags as a string and as a number.
MCTyped == [d \in Packages \X Flags |-> IF d[1] = p1 THEN i1 ELSE i2]

\* Flags for the default version and for v1, and inputs that need no typing.
MCAsks == {[function |-> f1, version |-> v, flags |-> flags, inputs |-> None] : v \in {v1, None}}
          \cup {[function |-> f1, version |-> None, flags |-> None, inputs |-> i1]}

MCSymmetry == Permutations(TaskIds)

=============================================================================
