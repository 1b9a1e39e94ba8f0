---------------------------- MODULE EventLedger ----------------------------
(***************************************************************************)
(* What the job queue promises, with no table, lease or clock in it.       *)
(*                                                                         *)
(* Every webhook event barry accepts is owed a run.  A worker sets out     *)
(* with some of the events that are owed, never with one that another      *)
(* worker is carrying, and it can settle only what it set out with: an     *)
(* event that arrives while a run is under way stays owed.  Closing a pull *)
(* request writes off events nobody is carrying.                           *)
(*                                                                         *)
(* A lease ends by the clock, and the run it was given to may go on.  Then *)
(* what the run carries is loose: another worker may set out with it, an   *)
(* event that joins it is loose too, a run of it may settle more of it     *)
(* than it set out with, and a closed pull request may write it off.  All  *)
(* other events keep the promise.                                          *)
(***************************************************************************)
CONSTANTS
    Event,   \* webhook events and the follow-ups of commands
    Worker   \* the workers of the pool

VARIABLES
    owed,      \* accepted events no run has settled
    carried,   \* carried[w]: the events the run of worker w set out with
    loose      \* events a run of which outlasted its lease

vars == <<owed, carried, loose>>

Init ==
    /\ owed = {}
    /\ carried = [w \in Worker |-> {}]
    /\ loose = {}

(* An event is accepted.  It is loose only if it joins loose ones. *)
Accept ==
    /\ \E e \in Event \ owed :
          /\ owed' = owed \cup {e}
          /\ loose' \subseteq loose \cup (IF loose = {} THEN {} ELSE {e})
          /\ loose \subseteq loose'
    /\ UNCHANGED carried

(* Nobody but the holders of loose events carries any of S. *)
Untaken(S) == \A v \in Worker : S \cap carried[v] \subseteq loose

(* A worker sets out with owed events that nobody else carries. *)
SetOut(w) ==
    /\ carried[w] = {}
    /\ \E S \in SUBSET owed :
          /\ S # {}
          /\ Untaken(S)
          /\ carried' = [carried EXCEPT ![w] = S]
    /\ UNCHANGED <<owed, loose>>

(* A run ends and settles exactly the events it set out with, or, if these *)
(* are loose, others that are loose as well.                               *)
Settle(w) ==
    /\ carried[w] # {}
    /\ \E S \in SUBSET loose :
          /\ carried[w] \cap loose = {} => S = {}
          /\ owed' = owed \ (carried[w] \cup S)
    /\ carried' = [carried EXCEPT ![w] = {}]
    /\ loose' \subseteq loose

(* A run ends and leaves its events owed. *)
PutBack(w) ==
    /\ carried' = [carried EXCEPT ![w] = {}]
    /\ loose' \subseteq loose
    /\ UNCHANGED owed

(* A closed pull request writes off events that nobody carries. *)
WriteOff ==
    /\ \E S \in SUBSET owed :
          /\ Untaken(S)
          /\ owed' = owed \ S
    /\ loose' \subseteq loose
    /\ UNCHANGED carried

(* Some runs outlast their leases. *)
Overrun ==
    /\ \E W \in SUBSET Worker : loose' = loose \cup (UNION {carried[w] : w \in W})
    /\ UNCHANGED <<owed, carried>>

(* The process ends, and every run with it; whatever was carried and is    *)
(* not settled is owed again, and nothing is loose.                        *)
Stop ==
    /\ carried' = [w \in Worker |-> {}]
    /\ loose' = {}
    /\ UNCHANGED owed

Next ==
    \/ Accept
    \/ \E w \in Worker : SetOut(w) \/ Settle(w) \/ PutBack(w)
    \/ WriteOff
    \/ Overrun
    \/ Stop

Spec == Init /\ [][Next]_vars
=============================================================================
