----------------------------- MODULE MCUploads -----------------------------
(***************************************************************************)
(* Instances of Uploads for TLC.                                           *)
(***************************************************************************)
EXTENDS UploadsRefinement, TLC

CONSTANTS f1, v1, v2, p1, p2, i1, t1, w1, r1, k1, x, b1, b2, h1, h2, h3

MCValid == {<<p, i1>> : p \in Packages}

MCFold == [n \in Names |-> n]

MCCompletions == {[exit_code |-> 0, error |-> FALSE]}

MCSymmetry == Permutations(Transfers) \cup Permutations(Blobs)
              \cup Permutations(Packages) \cup Permutations(Versions)

=============================================================================
