----------------------------- MODULE UniquePost -----------------------------
(***************************************************************************)
(* What a write to GitHub promises its caller, with no retry, lookup or    *)
(* clock in it: a write that GitHub would hold two of lands once at most,  *)
(* an answer of "ok" means that its text is there, and an answer of        *)
(* "failed" means nothing at all.                                          *)
(***************************************************************************)
EXTENDS Naturals

CONSTANTS
    Call,     \* calls of the client's writes
    Unique,   \* those that GitHub would hold two of if they were sent twice
    Text      \* what each call writes

VARIABLES
    landed,   \* landed[c]: how many copies GitHub holds of call c's own
    result    \* what each call has returned

Init ==
    /\ landed = [c \in Call |-> 0]
    /\ result = [c \in Call |-> "none"]

(* A copy of a call's own lands, or not, and the call returns, or not.     *)
Step(c) ==
    /\ result[c] = "none"
    /\ \/ UNCHANGED landed
       \/ /\ c \in Unique => landed[c] = 0
          /\ landed' = [landed EXCEPT ![c] = @ + 1]
    /\ \E r \in {"none", "ok", "failed"} : result' = [result EXCEPT ![c] = r]
    /\ result'[c] = "ok" => \E d \in Call : Text[d] = Text[c] /\ landed'[d] > 0

Next == \E c \in Call : Step(c)

Spec == Init /\ [][Next]_<<landed, result>>
=============================================================================
