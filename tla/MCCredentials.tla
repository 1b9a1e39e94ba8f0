--------------------------- MODULE MCCredentials ---------------------------
(* Instances of Credentials for TLC. *)
EXTENDS Credentials, TLC

CONSTANTS c1, c2

Symmetry == Permutations(Caller)
=============================================================================
