---------------------------- MODULE Orchestrator ----------------------------
(***************************************************************************)
(* One review reached in this process: the persona drafts of Barry and     *)
(* Other Barry, their first reviews, the peer round and the judge          *)
(* (checker/multi_review/orchestrator.rs, synthesis.rs, judge.rs), over    *)
(* the model calls they are made of: the turns personas take to fit one    *)
(* context window, the permits that bound the requests in flight           *)
(* (clients.rs), the retries (llm/mod.rs) and what the two providers'      *)
(* replies become (llm/openai.rs, llm/anthropic.rs).                       *)
(*                                                                         *)
(* Other reviews of the process are there as holders of permits.  What a   *)
(* reply says is reduced to whether it holds the JSON that was asked for.  *)
(***************************************************************************)
EXTENDS Integers, Sequences, FiniteSets, FiniteSetsExt

CONSTANTS
    Prompt,        \* bytes of each persona's prompt and diff, in order
    MaxTokens,     \* the output budget of a request
    Contexts,      \* windows an endpoint may have; Hosted: none to run out of
    Hosted,
    LlmInFlight,   \* permits
    MaxAttempts,   \* attempts of a call, 7 in the code
    MaxOthers,     \* bound: requests of other reviews at once
    Provider       \* "openai" or "anthropic"

ASSUME OrchestratorAssumption ==
    /\ Prompt \in Seq(Nat) /\ Prompt # <<>>
    /\ MaxTokens \in Nat /\ Contexts \subseteq Nat \cup {Hosted}
    /\ LlmInFlight \in Nat \ {0}     \* Config::validate
    /\ MaxAttempts \in Nat \ {0} /\ MaxOthers \in Nat

VARIABLES
    way,       \* run, run_barry_only, or judge_reviews over the rack's reviews
    window,    \* the context size of each endpoint
    phase,
    call,      \* each model call the phase makes
    line,      \* who waits for a permit, in order
    others,    \* permits other reviews hold
    drafts,    \* what came of each identity's drafts
    review,    \* each identity's review so far
    verdict

orchestratorVars == <<way, window, phase, call, line, others, drafts, review, verdict>>

Barry      == "barry"
OtherBarry == "other_barry"
Both       == {Barry, OtherBarry}
Peer(i)    == CHOOSE j \in Both : j # i
Outcome    == {"approve", "comment", "request_changes"}

Persona  == DOMAIN Prompt
Drafter  == Both \X Persona
Writer   == Both \X {0}
Judge    == <<"judge", 0>>
Caller   == Drafter \cup Writer \cup {Judge}
Elsewhere == <<"others", 0>>      \* a request of another review

(* A review as it was written: by whom and in which round.  Round 0 is the *)
(* drafts, unreconciled.                                                   *)
Opinion  == [by : Both, round : 0 .. 2, outcome : Outcome]
NoReview == [by |-> Barry, round |-> 0, outcome |-> "comment"]

-----------------------------------------------------------------------------
(* Replies.                                                                *)

Text   == {"empty", "prose", "json"}
Finish == {"stop", "length"}      \* any other reason is as good as "stop"
Answer == [block : BOOLEAN, text : Text, finish : Finish]

\* What an endpoint may do with a request: no connection, no answer in
\* request_timeout_secs, a status, a body that is not its JSON, or an answer.
Failure == {"refused", "timeout", "502-504", "status", "malformed"}

Transient(e) == e \in {"refused", "502-504"}

\* OpenAI's answer needs a choice; content that is null is empty.
OpenAiAnswers(a) == a.block

\* Anthropic's answer to a request with a schema needs its tool_use block.
AnthropicAnswers(a, schema) == schema => a.block

Misshapen(a, schema) ==
    IF Provider = "openai" THEN ~OpenAiAnswers(a) ELSE ~AnthropicAnswers(a, schema)

\* Synthesis and the judge ask for a schema, personas for JSON in prose.
Schema(c) == c \notin Drafter

-----------------------------------------------------------------------------
(* Turns and permits.                                                      *)

Largest == Max({Prompt[p] : p \in Persona})

EstimateTokens(bytes) == bytes \div 3

Cost(bytes) == MaxTokens + EstimateTokens(bytes)

\* Variant: the prompts are not counted.
FitOutput(context) ==
    Max({1, Min({context \div Max({MaxTokens, 1}), Len(Prompt)})})

Fit(context) == Max({1, Min({context \div Max({Cost(Largest), 1}), Len(Prompt)})})

PersonaConcurrency(context) ==
    IF context = Hosted THEN Len(Prompt) ELSE Fit(context)

At(state) == {c \in Caller : call[c].at = state}
Done(c)   == call[c].at = "done"

\* A call keeps its permit while it waits between attempts.
Holders == At("sent") \cup At("waiting")

Started(i) ==
    {p \in Persona : call[<<i, p>>].at \in {"line", "sent", "waiting"}}

Idle == [at |-> "idle", attempt |-> 1, again |-> "no", got |-> "nothing"]

\* The calls of a phase, all others forgotten: drafters take turns first.
Calls(C) ==
    [c \in Caller |->
        IF c \notin C THEN Idle
        ELSE [Idle EXCEPT !.at = IF c \in Drafter THEN "gate" ELSE "line"]]

(* A persona gets its turn; the turns go in persona order.                 *)
TakeTurn(i, p) ==
    /\ call[<<i, p>>].at = "gate"
    /\ \A q \in 1 .. p - 1 : call[<<i, q>>].at # "gate"
    /\ Cardinality(Started(i)) < PersonaConcurrency(window[i])
    /\ call' = [call EXCEPT ![<<i, p>>].at = "line"]
    /\ line' = Append(line, <<i, p>>)
    /\ UNCHANGED <<way, window, phase, others, drafts, review, verdict>>

Permit == Cardinality(Holders) + others < LlmInFlight

Acquire ==
    /\ line # <<>> /\ Permit
    /\ line' = Tail(line)
    /\ IF Head(line) = Elsewhere
       THEN others' = others + 1 /\ UNCHANGED call
       ELSE call' = [call EXCEPT ![Head(line)].at = "sent"] /\ UNCHANGED others
    /\ UNCHANGED <<way, window, phase, drafts, review, verdict>>

OtherAsks ==
    /\ phase # "done"
    /\ others + Cardinality({n \in DOMAIN line : line[n] = Elsewhere}) < MaxOthers
    /\ line' = Append(line, Elsewhere)
    /\ UNCHANGED <<way, window, phase, call, others, drafts, review, verdict>>

OtherEnds ==
    /\ others > 0
    /\ others' = others - 1
    /\ UNCHANGED <<way, window, phase, call, line, drafts, review, verdict>>

-----------------------------------------------------------------------------
(* One call.                                                               *)

Ended(c, got) ==
    /\ call' = [call EXCEPT ![c] = [Idle EXCEPT !.at = "done", !.got = got]]
    /\ UNCHANGED line

\* The caller asks the model once more, behind whoever waits by now.
AskAgain(c, why) ==
    /\ call' = [call EXCEPT ![c] = [Idle EXCEPT !.at = "line", !.again = why]]
    /\ line' = Append(line, c)

(* retry_transient: the permit is kept over the wait.                      *)
Fails(c, e) ==
    IF Transient(e) /\ call[c].attempt < MaxAttempts
    THEN /\ call' = [call EXCEPT ![c].at = "waiting"]
         /\ UNCHANGED line
    ELSE Ended(c, "error")

Wake(c) ==
    /\ call[c].at = "waiting"
    /\ call' = [call EXCEPT ![c].at = "sent", ![c].attempt = @ + 1]
    /\ UNCHANGED <<way, window, phase, line, others, drafts, review, verdict>>

(* run_persona: an empty draft is not a draft; one that is cut short is.   *)
Drafted(c, a) ==
    Ended(c, CASE a.text = "empty" -> "error"
               [] a.text = "prose" -> "unusable"
               [] a.text = "json"  -> "usable")

\* Variant: a review cut short twice is asked for until it is whole.
AsksUntilWhole(c, a) ==
    \/ a.finish = "length" /\ AskAgain(c, "cut")
    \/ a.finish # "length" /\ a.text # "json" /\ Ended(c, "unparsed")
    \/ a.finish # "length" /\ a.text = "json" /\ \E o \in Outcome : Ended(c, o)

(* synthesize: once more for a reply cut short, once more for one that     *)
(* does not parse.                                                         *)
Synthesized(c, a) ==
    \/ /\ a.finish = "length"
       /\ IF call[c].again = "no" THEN AskAgain(c, "cut") ELSE Ended(c, "truncated")
    \/ /\ a.finish # "length" /\ a.text # "json"
       /\ IF call[c].again = "unparsed" THEN Ended(c, "unparsed")
                                        ELSE AskAgain(c, "unparsed")
    \/ /\ a.finish # "length" /\ a.text = "json"
       /\ \E o \in Outcome : Ended(c, o)

(* judge: once more for no content, or for a reply that does not parse.    *)
Judged(c, a) ==
    IF a.text = "json" THEN \E w \in {"agree", "disagree"} : Ended(c, w)
    ELSE IF call[c].again = "no" THEN AskAgain(c, "unparsed")
    ELSE Ended(c, "unparsed")

(* The endpoint answers, or does not.                                      *)
Reply(c) ==
    /\ call[c].at = "sent"
    /\ \/ \E e \in Failure : Fails(c, e)
       \/ \E a \in Answer :
             IF Misshapen(a, Schema(c)) THEN Ended(c, "error")
             ELSE \/ c \in Drafter /\ Drafted(c, a)
                  \/ c \in Writer  /\ Synthesized(c, a)
                  \/ c = Judge     /\ Judged(c, a)
    /\ UNCHANGED <<way, window, phase, others, drafts, review, verdict>>

-----------------------------------------------------------------------------
(* One review.                                                             *)

Reviewers == IF way = "run" THEN Both ELSE {Barry}

\* run_persona_drafts: one failure fails them all.
DraftsOf(i) ==
    LET got == {call[<<i, p>>].got : p \in Persona}
    IN  IF "error" \in got THEN "error"
        ELSE IF "usable" \in got THEN "usable" ELSE "unusable"

Got(i)     == call[<<i, 0>>].got
Written(i) == Got(i) \in Outcome

Verdict(kind, barry, other, reason) ==
    [kind |-> kind, barry |-> barry, other |-> other, reason |-> reason]
Failed   == Verdict("failed", NoReview, NoReview, "none")
Alone(r, reason) == Verdict("alone", r, NoReview, reason)

\* review_from_drafts
FromDrafts == NoReview

\* barry_from_drafts
BarryFromDrafts ==
    IF drafts[Barry] = "usable" THEN Alone(FromDrafts, "synthesis") ELSE Failed

Conclude(v) ==
    /\ phase' = "done" /\ verdict' = v
    /\ call' = Calls({}) /\ UNCHANGED line

\* Barry is among the reviewers of every round.
InOrder(I) ==
    IF I = Both THEN << <<Barry, 0>>, <<OtherBarry, 0>> >> ELSE << <<Barry, 0>> >>

\* The reviewers of a round begin together, Barry first in line.
Begin(round, I) ==
    /\ phase' = round
    /\ call' = Calls({<<i, 0>> : i \in I})
    /\ line' = line \o InOrder(I)
    /\ UNCHANGED verdict

BeginJudge ==
    /\ phase' = "judge"
    /\ call' = Calls({Judge}) /\ line' = Append(line, Judge)
    /\ UNCHANGED verdict

(* The drafts of all are in, however they came out.  Without Barry's there *)
(* is no review; without Other Barry's, Barry goes on alone.               *)
DraftsIn ==
    /\ phase = "drafts"
    /\ \A i \in Reviewers, p \in Persona : Done(<<i, p>>)
    /\ drafts' = [i \in Both |->
                     IF i \in Reviewers THEN DraftsOf(i) ELSE "none"]
    /\ IF drafts'[Barry] = "error" THEN Conclude(Failed)
       ELSE Begin("first", {i \in Reviewers : drafts'[i] # "error"})
    /\ UNCHANGED <<way, window, others, review>>

Writers == {i \in Reviewers : drafts[i] # "error"}

Wrote(i, round) == [by |-> i, round |-> round, outcome |-> Got(i)]

(* The first reviews are in.  Barry's decides what is left: cut short or   *)
(* unparsable, his drafts stand in; failed, there is no review.            *)
FirstsIn ==
    /\ phase = "first"
    /\ \A i \in Writers : Done(<<i, 0>>)
    /\ review' = [i \in Both |->
                     IF i \in Writers /\ Written(i) THEN Wrote(i, 1) ELSE NoReview]
    /\ CASE Got(Barry) \in {"truncated", "unparsed"} -> Conclude(BarryFromDrafts)
         [] Got(Barry) = "error" -> Conclude(Failed)
         [] Written(Barry) /\ ~Written(OtherBarry) ->
                Conclude(Alone(review'[Barry], IF way = "run" THEN "other" ELSE "asked"))
         [] Written(Barry) /\ Written(OtherBarry) -> Begin("peer", Both)
    /\ UNCHANGED <<way, window, others, drafts>>

\* Variant: a reviewer whose second round fails loses its first.
SettleAnew(i) == IF Written(i) THEN Wrote(i, 2) ELSE FromDrafts

\* A reviewer whose second round fails keeps its first.
Settle(i) == IF Written(i) THEN Wrote(i, 2) ELSE review[i]

PeersIn ==
    /\ phase = "peer"
    /\ \A i \in Both : Done(<<i, 0>>)
    /\ review' = [i \in Both |-> Settle(i)]
    /\ BeginJudge
    /\ UNCHANGED <<way, window, others, drafts>>

\* verdict_from
VerdictFrom(agree) ==
    IF agree THEN Verdict("agree", review[Barry], NoReview, "judged")
             ELSE Verdict("disagree", review[Barry], review[OtherBarry], "judged")

(* A judge that fails is not fatal: Barry posts alone.                     *)
JudgeIn ==
    /\ phase = "judge"
    /\ Done(Judge)
    /\ LET got == call[Judge].got
       IN  Conclude(IF got \in {"agree", "disagree"} THEN VerdictFrom(got = "agree")
                  ELSE Alone(review[Barry], "judge"))
    /\ UNCHANGED <<way, window, others, drafts, review>>

\* Verdict::check_outcome
CheckOutcome(v) == IF v.kind = "disagree" THEN "comment" ELSE v.barry.outcome

\* Outcome::check_conclusion
CheckConclusion(o) ==
    CASE o = "approve" -> "success" [] o = "comment" -> "neutral"
      [] o = "request_changes" -> "failure"

-----------------------------------------------------------------------------
OrchestratorInit ==
    /\ way \in {"run", "run_barry_only", "judge_reviews"}
    /\ window \in [Both -> Contexts]
    /\ others = 0
    /\ drafts = [i \in Both |-> "none"]
    /\ verdict = Verdict("none", NoReview, NoReview, "none")
    /\ IF way = "judge_reviews"
       THEN /\ phase = "judge" /\ call = Calls({Judge}) /\ line = <<Judge>>
            /\ \E o \in [Both -> Outcome] :
                  review = [i \in Both |->
                     [by |-> i, round |-> 1, outcome |-> o[i]]]
       ELSE /\ phase = "drafts" /\ call = Calls(Reviewers \X Persona) /\ line = <<>>
            /\ review = [i \in Both |-> NoReview]

OrchestratorNext ==
    \/ \E i \in Both, p \in Persona : TakeTurn(i, p)
    \/ Acquire
    \/ OtherAsks \/ OtherEnds
    \/ \E c \in Caller : Reply(c) \/ Wake(c)
    \/ DraftsIn \/ FirstsIn \/ PeersIn \/ JudgeIn

OrchestratorSpec == OrchestratorInit /\ [][OrchestratorNext]_orchestratorVars

(* Every request has a timeout, every wait an end, and the futures of a    *)
(* review are polled as they wake.                                         *)
OrchestratorFairness ==
    /\ \A i \in Both, p \in Persona : WF_orchestratorVars(TakeTurn(i, p))
    /\ WF_orchestratorVars(Acquire) /\ WF_orchestratorVars(OtherEnds)
    /\ \A c \in Caller : WF_orchestratorVars(Reply(c)) /\ WF_orchestratorVars(Wake(c))
    /\ WF_orchestratorVars(DraftsIn \/ FirstsIn \/ PeersIn \/ JudgeIn)

OrchestratorFairSpec == OrchestratorSpec /\ OrchestratorFairness

-----------------------------------------------------------------------------
(* Properties.                                                             *)

InFlight(i) == {p \in Persona : call[<<i, p>>].at = "sent"}

(* The persona requests of one review for one identity fit its endpoint's  *)
(* window together, prompts and output budgets, unless there is only one:  *)
(* turns are counted so that a request that waits for a permit, or between *)
(* attempts, keeps its turn (orchestrator.rs, persona_concurrency).  The   *)
(* window is of every request in flight (config/mod.rs:105); two           *)
(* identities of one endpoint, or two reviews, are not counted together.   *)
FitsTogether ==
    \A i \in Both :
        \/ window[i] = Hosted
        \/ Cardinality(InFlight(i)) <= 1
        \/ MapThenSumSet(LAMBDA p : Cost(Prompt[p]), InFlight(i)) <= window[i]

(* A verdict is no more than was reached, and the reason posted with it is *)
(* true.  An approving check needs Barry's own synthesis to approve.  A    *)
(* judged verdict is of two finished reviews, each by its own reviewer.    *)
(* Other Barry's finished review is dropped only for want of a judge, or   *)
(* of a synthesis by Barry (orchestrator.rs, run).                         *)
VerdictIsEarned ==
    phase = "done" =>
        /\ CheckConclusion(CheckOutcome(verdict)) = "success" =>
              /\ verdict.barry.by = Barry /\ verdict.barry.round > 0
              /\ verdict.barry.outcome = "approve"
        /\ verdict.reason \in {"judged", "judge"} =>
              \A i \in Both : review[i].by = i /\ review[i].round > 0
        /\ verdict.reason = "other" => review[OtherBarry].round = 0
        /\ verdict.reason = "synthesis" => verdict.barry.round = 0
        /\ verdict.kind = "disagree" =>
              verdict.other.by = OtherBarry /\ verdict.other = review[OtherBarry]

(* A review ends, in a verdict or in an error, whatever the endpoints do   *)
(* and whoever else wants permits: no persona waits for a turn that never  *)
(* comes, and no model is asked for ever.                                  *)
ReviewEnds == <>(phase = "done")
=============================================================================
