------------------------------ MODULE MCRelay ------------------------------
(* Instances of Relay for TLC: a delivery for each check of the endpoint.  *)
EXTENDS Relay

Delivery(header, action, author, body) ==
    [frame |-> "message", header |-> header, action |-> action, author |-> author,
     sender |-> author, body |-> body, on_pr |-> TRUE, listed |-> TRUE,
     age |-> "fresh", signed |-> TRUE, wellformed |-> TRUE, wide |-> FALSE]

Push    == Delivery("pull_request", "synchronize", "stranger", "")
Opened  == Delivery("pull_request", "opened", "brayniac", "")
Closed  == Delivery("pull_request", "closed", "stranger", "")
Labeled == Delivery("pull_request", "labeled", "stranger", "")
Said(who, what) == Delivery("issue_comment", "created", who, what)

Comments ==
    {Said(who, what) : who \in {"brayniac", "stranger"},
                       what \in {"/barry confer", "/barry ?", "@barry-dylan", "hello"}}

MCEvent ==
    {Push, Opened, Closed, Labeled,
     [Push EXCEPT !.wide = TRUE], [Push EXCEPT !.age = "stale"],
     [Push EXCEPT !.signed = FALSE], [Opened EXCEPT !.listed = FALSE],
     [Opened EXCEPT !.wellformed = FALSE], [Push EXCEPT !.header = "ping"],
     [Push EXCEPT !.header = "none"], [Push EXCEPT !.frame = "ping"],
     [Said("brayniac", "/barry review") EXCEPT !.listed = FALSE],
     [Said("brayniac", "hello") EXCEPT !.listed = FALSE],
     [Said("brayniac", "/barry approve") EXCEPT !.on_pr = FALSE],
     [Said("brayniac", "/barry approve") EXCEPT !.age = "undated"]}
    \cup Comments
=============================================================================
