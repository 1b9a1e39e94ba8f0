----------------------------- MODULE MCRackJob -----------------------------
(* An instance of RackJob for TLC. *)
EXTENDS RackJob

Barry      == [identity |-> "barry", model |-> "m1", window |-> 0]
SameModel  == [identity |-> "other_barry", model |-> "m1", window |-> 4]
OtherModel == [identity |-> "other_barry", model |-> "m2", window |-> 4]
TieBreaker == [identity |-> "other_other_barry", model |-> "m1", window |-> 0]
Unknown    == [identity |-> "nobody", model |-> "m2", window |-> 0]

\* Window 8, an image, and arguments that are plain words.
Rack(rs, bare, placement, judge, packages, timeouts) ==
    [reviewers |-> rs, bare |-> bare, placement |-> placement, judge |-> judge,
     window |-> 8, image |-> TRUE, packages |-> packages, plain |-> TRUE,
     timeouts |-> timeouts]

Lists ==
    {<<Barry>>, <<OtherModel>>, <<Barry, OtherModel>>, <<Barry, SameModel>>,
     <<OtherModel, Barry>>, <<Barry, TieBreaker>>, <<Barry, TieBreaker, OtherModel>>}

\* What no check refuses: an unknown name, and a name listed twice.
OddLists ==
    {<<Barry, Unknown>>, <<Unknown, Barry, SameModel>>, <<Barry, Barry, OtherModel>>}

MCConfig ==
    [rack : {Rack(rs, bare, placement, judge, packages, timeouts) :
                rs \in Lists \cup OddLists, bare \in BOOLEAN,
                placement \in {"sequential", "concurrent"}, judge \in BOOLEAN,
                packages \in {{}, {"slipway", "llama-server"}}, timeouts \in BOOLEAN},
     llm  : {{}, {"judge"}}]
=============================================================================
