------------------------------ MODULE MCConfer ------------------------------
(* Instances of Confer for TLC. *)
EXTENDS Confer, TLC

CONSTANTS w1, w2, j1, j2, j3, h1, h2

Symmetry == Permutations(Worker) \cup Permutations(Row) \cup Permutations(Sha)
=============================================================================
