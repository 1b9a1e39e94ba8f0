----------------------------- MODULE MCReviews -----------------------------
(* Instances of Reviews for TLC. *)
EXTENDS Reviews, TLC

CONSTANTS w1, w2, h1, h2, c1

Symmetry == Permutations(Worker) \cup Permutations(Sha)
=============================================================================
