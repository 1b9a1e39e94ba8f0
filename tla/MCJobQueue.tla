----------------------------- MODULE MCJobQueue -----------------------------
(* Instances of JobQueue for TLC. *)
EXTENDS JobQueue, TLC

CONSTANTS w1, w2, p1, p2

\* The real backoff is 60, 300 and 1500 s; here the first retry waits longer
\* than a push's debounce.
MCBackoff == [n \in 0 .. MaxAttempts - 1 |-> n + 1]

Symmetry == Permutations(Worker)
=============================================================================
