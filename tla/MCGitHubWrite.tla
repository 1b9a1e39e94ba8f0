--------------------------- MODULE MCGitHubWrite ---------------------------
(* Instances of GitHubWrite for TLC. *)
EXTENDS GitHubWrite

CONSTANTS review1, review2

\* A review that is posted again by a later call.
MCText == [c \in Call |-> "review"]
=============================================================================
