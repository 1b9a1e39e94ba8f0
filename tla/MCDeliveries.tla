---------------------------- MODULE MCDeliveries ----------------------------
(* Instances of Deliveries for TLC. *)
EXTENDS Deliveries, TLC

CONSTANTS d1, d2, r1, r2

Symmetry == Permutations(Body) \cup Permutations(Handler)
=============================================================================
