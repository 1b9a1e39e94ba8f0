------------------------------ MODULE RackJob ------------------------------
(***************************************************************************)
(* What a rack review is made of: the configuration and what it is checked *)
(* for (rack/config.rs, config/mod.rs), the experiment built from it, the  *)
(* script of each of its jobs and the artifacts it uploads (rack/job.rs),  *)
(* and what barry makes of them (rack/mod.rs, multi_review/mod.rs).        *)
(*                                                                         *)
(* The script is built as payload builds it, a sequence of commands, and   *)
(* run as bash runs it under set -e.  ReviewJob has the life of an         *)
(* experiment that barry polls, remembers, resumes and cancels.            *)
(***************************************************************************)
EXTENDS Integers, Sequences, FiniteSets, SequencesExt

CONSTANT Config    \* the configurations barry may be started with

\* The slugs of the identities.  A reviewer's is whatever word it is given.
Slug      == {"barry", "other_barry", "other_other_barry"}
Placement == {"sequential", "concurrent"}

\* A window of 0 is none of the reviewer's own.
Reviewer == [identity : STRING, model : STRING, window : Nat]

\* image: an image and a shape are given; plain: arguments, packages and
\* paths are words that mean themselves to a shell; timeouts: the wait for a
\* host is no longer than the wait for the job.
RackSection ==
    [reviewers : Seq(Reviewer), bare : BOOLEAN, placement : Placement,
     judge : BOOLEAN, window : Nat, packages : SUBSET {"slipway", "llama-server"},
     image : BOOLEAN, plain : BOOLEAN, timeouts : BOOLEAN]

(* With a rack section, and the llm profiles there are.                    *)
ASSUME RackAssumption ==
    \A g \in Config : g.rack \in RackSection /\ g.llm \subseteq Slug \cup {"judge"}

VARIABLES
    config,    \* the configuration barry started with
    ask,       \* what is asked of the rack
    spec,      \* the experiment: of each job, its script and its uploads
    at,        \* of a job: running, waiting, uploading, done, failed
    pc,        \* of a job: the next command of its script, then the next upload
    servers,   \* of a job: the llama-server processes it has started
    pid,       \* of a job: SERVER_PID
    files,     \* of a job: the files in its directory
    made,      \* of a job: the server each review was made against
    verdict,   \* of a job: what its verdict file says
    foreign,   \* of a job: something else answers on port 8080 of its host
    hung,      \* of a job: it is in a command that does not return
    result,    \* what the caller got
    faults     \* history: what failed

job   == <<at, pc, servers, pid, files, made, verdict, foreign, hung>>
asked == <<config, ask, spec>>
vars  == <<asked, job, result, faults>>

-----------------------------------------------------------------------------
(* The configuration.                                                      *)

\* The reviewers of these names, in their order.
Only(rs, names) ==
    FlattenSeq([n \in DOMAIN rs |-> IF rs[n].identity \in names THEN <<rs[n]>> ELSE <<>>])

\* Other Other Barry never runs in the main job; whoever else is listed does.
InMain  == STRING \ {"other_other_barry"}
InAlone == InMain \ {"other_barry"}

Pair(c) == Len(Only(c.reviewers, InMain)) >= 2

ValidRack(c) ==
    /\ c.image \/ c.bare
    /\ c.bare => c.placement = "sequential" /\ "llama-server" \notin c.packages
    /\ c.plain
    /\ c.timeouts
    /\ c.judge => c.placement = "sequential" /\ Pair(c)

Required(g) == IF g.rack.judge THEN {} ELSE {"judge"}

Valid(g) == ValidRack(g.rack) /\ Required(g) \subseteq g.llm

HasReviewer(c, slug) == \E n \in DOMAIN c.reviewers : c.reviewers[n].identity = slug

Window(c, r) == IF r.window = 0 THEN c.window ELSE r.window

\* Variant: Other Other Barry reviews with the other two.
MainReviewOfAll(c, installed) ==
    [c EXCEPT !.reviewers = Only(@, IF installed THEN STRING ELSE STRING \ {"other_barry"}),
              !.judge = @ /\ installed]

MainReviewJob(c, installed) ==
    [c EXCEPT !.reviewers = Only(@, IF installed THEN InMain ELSE InAlone),
              !.judge = @ /\ installed]

ReviewAs(c, slug) ==
    [c EXCEPT !.reviewers = Only(@, {slug}), !.judge = FALSE]

(* What is asked: Barry's and Other Barry's review, Other Barry installed  *)
(* or not, or one reviewer's own.                                          *)
Ask == {"main", "main_alone", "other_other_barry"}

Asked == CASE ask = "main"        -> MainReviewJob(config.rack, TRUE)
           [] ask = "main_alone" -> MainReviewJob(config.rack, FALSE)
           [] OTHER               -> ReviewAs(config.rack, ask)

-----------------------------------------------------------------------------
(* The experiment.                                                         *)

(* A job of its own is named for its reviewer, and the last of a name is   *)
(* the one that is kept.                                                   *)
LastOfName(rs) ==
    {n \in DOMAIN rs : \A m \in DOMAIN rs : rs[m].identity = rs[n].identity => m <= n}

Jobs(c) == IF c.placement = "sequential"
           THEN <<c.reviewers>>
           ELSE [n \in LastOfName(c.reviewers) |-> <<c.reviewers[n]>>]

Judging(c, rs) == c.judge /\ Len(rs) >= 2

StartsServer(c, rs, n) == c.bare \/ n = 1 \/ rs[n - 1].model # rs[n].model

\* Variant: a server is stopped where the next reviewer's model is another.
StopsAtChange(c, rs, n) == n = Len(rs) \/ rs[n + 1].model # rs[n].model

StopsServer(c, rs, n) == c.bare \/ n = Len(rs) \/ rs[n + 1].model # rs[n].model

Start(c, r, log, fail) ==
    [op |-> "start", model |-> r.model, window |-> Window(c, r),
     log |-> log, fail |-> fail]

Stop == [op |-> "stop"]

\* The part of the script for the n-th reviewer.
Section(c, rs, n) ==
    LET judging == Judging(c, rs) /\ n = Len(rs)
        server  == IF StartsServer(c, rs, n)
                   THEN <<Start(c, rs[n], rs[n].identity, "exit")>> ELSE <<>>
        review  == <<[op |-> "review", of |-> rs[n].identity]>>
        own     == IF judging /\ c.bare
                   THEN <<Stop, Start(c, rs[n], "judge", "return")>> ELSE <<>>
        judge   == IF judging
                   THEN <<[op |-> "judge", of |-> <<rs[1].identity, rs[2].identity>>]>>
                   ELSE <<>>
        stop    == IF StopsServer(c, rs, n) \/ judging THEN <<Stop>> ELSE <<>>
    IN  server \o review \o own \o judge \o stop

Payload(c, rs) == FlattenSeq([n \in DOMAIN rs |-> Section(c, rs, n)])

ReviewFile(identity) == <<"review", identity>>
ServerLog(identity)  == <<"log", identity>>
Verdict == <<"verdict", "">>

\* The upload steps.  rezolus.rez is the action's own file.
Uploads(c, rs) ==
    FlattenSeq([n \in DOMAIN rs |-> <<ReviewFile(rs[n].identity), ServerLog(rs[n].identity)>>])
    \o (IF ~Judging(c, rs) THEN <<>>
        ELSE IF c.bare THEN <<Verdict, ServerLog("judge")>> ELSE <<Verdict>>)

-----------------------------------------------------------------------------
(* A job runs its script.                                                  *)

Job == DOMAIN spec

Command(j) == spec[j].script[pc[j]]

At(j, state, op) ==
    /\ at[j] = state /\ ~hung[j]
    /\ pc[j] <= Len(spec[j].script) /\ Command(j).op = op

Stranger == [id |-> 0, model |-> "another", window |-> 0]

Alive(j) == \E s \in servers[j] : s.id = pid[j]

\* What answers on the port.
Answering(j) == IF foreign[j] THEN {Stranger}
                ELSE {[id |-> s.id, model |-> s.model, window |-> s.window] :
                         s \in {s \in servers[j] : s.up}}

\* Variant: the port is not looked at.
PortUnseen(j) == FALSE

PortTaken(j) == Answering(j) # {}

\* stop_server: SIGTERM, then SIGKILL.
Stopped(j) == {s \in servers[j] : s.id # pid[j]}

\* Variant: a script that ends leaves its server.
NoTrap(j) == servers[j]

Trap(j) == Stopped(j)

GoesOn(j) == pc' = [pc EXCEPT ![j] = @ + 1] /\ at' = [at EXCEPT ![j] = "running"]

Exit(j) ==
    /\ at' = [at EXCEPT ![j] = "failed"]
    /\ servers' = [servers EXCEPT ![j] = Trap(j)]
    /\ pid' = [pid EXCEPT ![j] = 0]

(* A server does not come up.  A reviewer's ends the script; the judge's   *)
(* is written into the verdict, and the judge is left out.                 *)
StartFails(j, why) ==
    /\ \/ /\ Command(j).fail = "exit"
          /\ Exit(j)
          /\ UNCHANGED <<pc, files, verdict>>
       \/ /\ Command(j).fail = "return"
          /\ verdict' = [verdict EXCEPT ![j] = [of |-> <<>>, says |-> "error"]]
          /\ files' = [files EXCEPT ![j] = @ \cup {Verdict}]
          /\ pc' = [pc EXCEPT ![j] = @ + 2]
          /\ at' = [at EXCEPT ![j] = "running"]
          /\ UNCHANGED <<servers, pid>>
    /\ faults' = faults \cup {<<w, Command(j).fail>> : w \in why}
    /\ UNCHANGED <<asked, made, foreign, hung, result>>

(* The model cannot be read or pulled.                                     *)
NoModel(j) ==
    /\ At(j, "running", "start")
    /\ StartFails(j, {"model"})

RefusePort(j) ==
    /\ At(j, "running", "start") /\ PortTaken(j)
    /\ StartFails(j, IF foreign[j] THEN {"port"} ELSE {})

Launch(j) ==
    /\ At(j, "running", "start") /\ ~PortTaken(j)
    /\ LET c == Command(j)
       IN  /\ servers' = [servers EXCEPT ![j] = @ \cup
                 {[id |-> pc[j], model |-> c.model, window |-> c.window, up |-> FALSE]}]
           /\ files' = [files EXCEPT ![j] = @ \cup {ServerLog(c.log)}]
    /\ pid' = [pid EXCEPT ![j] = pc[j]]
    /\ at' = [at EXCEPT ![j] = "waiting"]
    /\ UNCHANGED <<pc, made, verdict, foreign, hung, result, faults, asked>>

(* The server is alive and the port answers.                               *)
Healthy(j) ==
    /\ At(j, "waiting", "start") /\ Alive(j)
    /\ servers' = [servers EXCEPT ![j] =
          {[s EXCEPT !.up = @ \/ (s.id = pid[j] /\ ~foreign[j])] : s \in servers[j]}]
    /\ GoesOn(j)
    /\ UNCHANGED <<pid, files, made, verdict, foreign, hung, result, faults, asked>>

\* Variant: only a server's death ends the wait.
WaitOn(j) ==
    /\ At(j, "waiting", "start") /\ ~Alive(j)
    /\ StartFails(j, {"start"})

(* The server has died, or 240 polls came back without its answer.         *)
GiveUp(j) ==
    /\ At(j, "waiting", "start")
    /\ StartFails(j, {"start"})

ServerDies(j) ==
    /\ at[j] \in {"running", "waiting"} /\ Alive(j)
    /\ servers' = [servers EXCEPT ![j] = Stopped(j)]
    /\ hung' = [hung EXCEPT ![j] = FALSE]
    /\ UNCHANGED <<asked, at, pc, pid, files, made, verdict, foreign, result, faults>>

(* A command of a start does not return: an installation or a pull that    *)
(* makes no progress, or a curl, which has no time limit, of a server that *)
(* takes the connection and does not answer.  A poll of the wait returns   *)
(* when that server dies.                                                  *)
Hang(j) ==
    /\ At(j, "running", "start") \/ (At(j, "waiting", "start") /\ Alive(j))
    /\ hung' = [hung EXCEPT ![j] = TRUE]
    /\ UNCHANGED <<asked, at, pc, servers, pid, files, made, verdict, foreign, result, faults>>

(* review-offline against whatever answers; its log is touched first.      *)
Review(j) ==
    /\ At(j, "running", "review")
    /\ LET of == Command(j).of
       IN  \E s \in Answering(j) :
              /\ made' = [made EXCEPT ![j] = @ \cup {<<of, s>>}]
              /\ files' = [files EXCEPT ![j] = @ \cup {ReviewFile(of), ServerLog(of)}]
    /\ GoesOn(j)
    /\ UNCHANGED <<servers, pid, verdict, foreign, hung, result, faults, asked>>

(* The model fails the review, or its server is gone.  That no server was  *)
(* started for it is not a failure of either.                              *)
ReviewFails(j) ==
    /\ At(j, "running", "review")
    /\ Exit(j)
    /\ files' = [files EXCEPT ![j] = @ \cup {ServerLog(Command(j).of)}]
    /\ faults' = IF pid[j] = 0 THEN faults ELSE faults \cup {<<"review", "exit">>}
    /\ UNCHANGED <<pc, made, verdict, foreign, hung, result, asked>>

(* judge-offline of the first two reviews; its failure goes into the file. *)
Judge(j) ==
    /\ At(j, "running", "judge")
    /\ \E says \in {"agree", "disagree", "error"} :
          /\ says # "error" => Answering(j) # {}
          /\ verdict' = [verdict EXCEPT ![j] = [of |-> Command(j).of, says |-> says]]
    /\ files' = [files EXCEPT ![j] = @ \cup {Verdict}]
    /\ GoesOn(j)
    /\ UNCHANGED <<servers, pid, made, foreign, hung, result, faults, asked>>

StopServer(j) ==
    /\ At(j, "running", "stop")
    /\ servers' = [servers EXCEPT ![j] = Stopped(j)]
    /\ pid' = [pid EXCEPT ![j] = 0]
    /\ GoesOn(j)
    /\ UNCHANGED <<files, made, verdict, foreign, hung, result, faults, asked>>

ScriptOver(j) ==
    /\ at[j] = "running" /\ pc[j] > Len(spec[j].script)
    /\ at' = [at EXCEPT ![j] = "uploading"]
    /\ pc' = [pc EXCEPT ![j] = 1]
    /\ servers' = [servers EXCEPT ![j] = Trap(j)]
    /\ pid' = [pid EXCEPT ![j] = 0]
    /\ UNCHANGED <<files, made, verdict, foreign, hung, result, faults, asked>>

(* The next upload; a file that was never written fails it, and the job.   *)
Upload(j) ==
    LET uploads == spec[j].uploads
    IN  /\ at[j] = "uploading"
        /\ at' = [at EXCEPT ![j] =
                     IF pc[j] > Len(uploads) THEN "done"
                     ELSE IF uploads[pc[j]] \notin files[j] THEN "failed" ELSE @]
        /\ pc' = [pc EXCEPT ![j] = @ + 1]
        /\ UNCHANGED <<servers, pid, files, made, verdict, foreign, hung, result, faults, asked>>

(* The runner ends the job: cancelled, out of time, its host lost.  The    *)
(* server is in the job's process group, or in the guest.                  *)
Killed(j) ==
    /\ at[j] \in {"running", "waiting", "uploading"}
    /\ at' = [at EXCEPT ![j] = "failed"]
    /\ servers' = [servers EXCEPT ![j] = {}]
    /\ faults' = faults \cup {<<"killed", "exit">>}
    /\ hung' = [hung EXCEPT ![j] = FALSE]
    /\ UNCHANGED <<asked, pc, pid, files, made, verdict, foreign, result>>

(* What else answers on a bare host's port goes away, and with it a curl   *)
(* that it kept; not a pull.                                               *)
StrangerLeaves(j) ==
    /\ foreign[j]
    /\ foreign' = [foreign EXCEPT ![j] = FALSE]
    /\ hung' \in {hung, [hung EXCEPT ![j] = FALSE]}
    /\ UNCHANGED <<asked, at, pc, servers, pid, files, made, verdict, result, faults>>

-----------------------------------------------------------------------------
(* barry.                                                                  *)

Waiting == [is |-> "waiting", by |-> "nobody"]

\* spec: the experiment, or why there is none.
Refusal(c) ==
    IF ask # "other_other_barry" /\ ~HasReviewer(c, "barry") THEN "no_barry"
    ELSE IF c.reviewers = <<>> \/ ~ValidRack(c) THEN "refused"
    ELSE "none"

Experiment(c) ==
    [n \in DOMAIN Jobs(c) |-> [script  |-> Payload(c, Jobs(c)[n]),
                              uploads |-> Uploads(c, Jobs(c)[n])]]

(* A bare job's host may have something on the port already.               *)
Submit ==
    /\ result = Waiting /\ spec = <<>>
    /\ Refusal(Asked) = "none"
    /\ spec' = Experiment(Asked)
    /\ LET jobs == DOMAIN Jobs(Asked)
       IN  /\ at' = [j \in jobs |-> "running"]
           /\ pc' = [j \in jobs |-> 1]
           /\ servers' = [j \in jobs |-> {}]
           /\ pid' = [j \in jobs |-> 0]
           /\ files' = [j \in jobs |-> {}]
           /\ made' = [j \in jobs |-> {}]
           /\ verdict' = [j \in jobs |-> [of |-> <<>>, says |-> "nothing"]]
           /\ foreign' \in [jobs -> IF Asked.bare THEN BOOLEAN ELSE {FALSE}]
           /\ hung' = [j \in jobs |-> FALSE]
    /\ UNCHANGED <<config, ask, result, faults>>

Refuse ==
    /\ result = Waiting /\ spec = <<>>
    /\ Refusal(Asked) # "none"
    /\ result' = [is |-> Refusal(Asked), by |-> "nobody"]
    /\ UNCHANGED <<asked, job, faults>>

\* judge_reviews: by [llm.judge], which may fail or not be configured.
JudgedHere ==
    {[is |-> "alone", by |-> "nobody"]} \cup
    (IF "judge" \in config.llm
     THEN {[is |-> "agree", by |-> "here"], [is |-> "disagree", by |-> "here"]} ELSE {})

\* read_verdict: a verdict, or none.
ReadVerdict == {verdict[j] : j \in {j \in Job : /\ Verdict \in files[j]
                                                /\ verdict[j].says # "error"}}

(* collect, and run_on_rack's or review_as's use of it.  Every job is over;*)
(* an experiment with a failed job has failed.                             *)
Collect ==
    /\ result = Waiting /\ spec # <<>>
    /\ \A j \in Job : at[j] \in {"done", "failed"}
    /\ result' \in
          IF \E j \in Job : at[j] = "failed" THEN {[is |-> "failed", by |-> "nobody"]}
          ELSE IF ~HasReviewer(Asked, "other_barry")
          THEN {[is |-> "alone", by |-> "nobody"]}
          ELSE IF Asked.judge /\ ReadVerdict # {}
          THEN {[is |-> v.says, by |-> "rack"] : v \in ReadVerdict}
          ELSE JudgedHere
    /\ UNCHANGED <<asked, job, faults>>

(* barry stops waiting: no host in time, no answer in time, a poll that    *)
(* fails, or a review it abandons.  It asks once for the experiment to be  *)
(* cancelled; the request arrives, or is lost or refused.                  *)
Abandon ==
    /\ result = Waiting /\ spec # <<>>
    /\ result' \in {[is |-> "cancelled", by |-> "nobody"], [is |-> "given_up", by |-> "nobody"]}
    /\ UNCHANGED <<asked, job, faults>>

-----------------------------------------------------------------------------
Init ==
    /\ config \in {g \in Config : Valid(g)}
    /\ ask \in {a \in Ask : a = "other_other_barry" => HasReviewer(config.rack, a)}
    /\ spec = <<>> /\ at = <<>> /\ pc = <<>>
    /\ servers = <<>> /\ pid = <<>> /\ files = <<>>
    /\ made = <<>> /\ verdict = <<>> /\ foreign = <<>> /\ hung = <<>>
    /\ result = Waiting
    /\ faults = {}

JobStep(j) ==
    \/ NoModel(j) \/ RefusePort(j) \/ Launch(j) \/ Healthy(j) \/ GiveUp(j)
    \/ Review(j) \/ ReviewFails(j) \/ Judge(j) \/ StopServer(j)
    \/ ScriptOver(j) \/ Upload(j)

Next ==
    \/ Submit \/ Refuse \/ Collect \/ Abandon
    \/ \E j \in Job : \/ JobStep(j) \/ ServerDies(j) \/ Hang(j)
                     \/ Killed(j) \/ StrangerLeaves(j)

Spec == Init /\ [][Next]_vars

\* The jobs there may be.
AnyJob == {1} \cup UNION {DOMAIN g.rack.reviewers : g \in Config}

(* A command that is not hung ends: reviews and the judge have a timeout   *)
(* for each request, and a wait whose polls come back has 240 of them.     *)
(* barry stops waiting at job_timeout_secs.  The runner ends a job that is *)
(* cancelled, and a guest's payload at payload_timeout_secs; a bare job    *)
(* has no time limit.                                                      *)
Fairness ==
    /\ WF_vars(Submit \/ Refuse) /\ WF_vars(Collect) /\ WF_vars(Abandon)
    /\ \A j \in AnyJob :
          /\ WF_vars(/\ j \in Job
                     /\ \/ NoModel(j) \/ RefusePort(j) \/ Launch(j) \/ GiveUp(j)
                        \/ Review(j) \/ ReviewFails(j) \/ Judge(j) \/ StopServer(j)
                        \/ ScriptOver(j) \/ Upload(j))
          /\ WF_vars(/\ j \in Job
                     /\ result.is = "cancelled" \/ (hung[j] /\ ~Asked.bare)
                     /\ Killed(j))

FairSpec == Spec /\ Fairness

-----------------------------------------------------------------------------
(* Properties.                                                             *)

(* A review carries its reviewer's name: it was made against a server the  *)
(* job started, of the reviewer's own model, with its own window, or the   *)
(* window of the first of the reviewers of one model that share a guest's  *)
(* server ("Two reviewers sharing a model share the first one's server,    *)
(* and so its window", config.rs:241); on a bare host one of its own.      *)
ReviewedAsConfigured ==
    \A j \in Job :
        LET rs == Jobs(Asked)[j]
        IN  /\ \A p \in made[j] : \E n \in DOMAIN rs :
                  /\ rs[n].identity = p[1]
                  /\ p[2].model = rs[n].model
                  /\ \/ p[2].window = Window(Asked, rs[n])
                     \/ /\ ~Asked.bare /\ n > 1 /\ rs[n - 1].model = rs[n].model
                        /\ \E q \in made[j] : q[1] = rs[n - 1].identity /\ q[2] = p[2]
            /\ Asked.bare => \A p, q \in made[j] : p[2] = q[2] => p = q

(* "Free the whole card before the next model loads" (job.rs:246), and     *)
(* leave nothing on a host that goes back to measuring: a job has one      *)
(* server at a time, however its script ends, and none once it is over.    *)
OneServer ==
    \A j \in Job :
        /\ Cardinality(servers[j]) <= 1
        /\ at[j] \in {"uploading", "done", "failed"} => servers[j] = {}

(* A rack review that was asked for comes back, unless a step of it failed:*)
(* the configuration barry started with makes experiments that pass its    *)
(* own checks and jobs whose commands and uploads fit together.  A         *)
(* judge's server that dies or does not answer is no such reason; one that *)
(* is never started is, see JudgeCostsTheVerdict.                          *)
LostForAReason ==
    result.is \in {"failed", "refused"} =>
        \E f \in faults : f[2] = "exit" \/ f[1] \in {"model", "port"}

(* "a server that does not come up costs the verdict, not the two reviews" *)
(* (job.rs:203): however the judge's server fails.  It does not hold: of a *)
(* server that is never started there is no log, whose upload then fails.  *)
JudgeCostsTheVerdict ==
    result.is = "failed" => \E f \in faults : f[2] = "exit"

(* A verdict taken from the rack is of Barry's and Other Barry's reviews,  *)
(* both made in the job that judged, and says what the judge said          *)
(* (job.rs:212, mod.rs:197).  It does not hold of every configuration that *)
(* passes validate: the script judges the first two reviewers there are,   *)
(* and a third of an unknown name, or one listed twice, may be one of them.*)
VerdictOfThePair ==
    result.by = "rack" =>
        \E j \in Job :
            /\ verdict[j].says = result.is
            /\ {verdict[j].of[1], verdict[j].of[2]} = {"barry", "other_barry"}
            /\ {"barry", "other_barry"} \subseteq {p[1] : p \in made[j]}

(* The reviewers are the three Barrys, each once, as the configuration's   *)
(* comments describe them and nothing checks.                              *)
NamedOnce(c) ==
    /\ \A n \in DOMAIN c.reviewers : c.reviewers[n].identity \in Slug
    /\ \A m, n \in DOMAIN c.reviewers :
          c.reviewers[m].identity = c.reviewers[n].identity => m = n

(* What does hold: with the three Barrys listed in any order, each at most *)
(* once, Other Barry installed or not, the verdict is of the pair.         *)
VerdictOfBoth == NamedOnce(config.rack) => VerdictOfThePair

(* An experiment comes to an end whatever its servers do.  barry has an    *)
(* answer or gives up, and then, or before, each job is over, and leaves   *)
(* its host; but for a bare job that a curl or a pull holds and no cancel  *)
(* has reached.                                                            *)
ExperimentEnds ==
    <>[](/\ result # Waiting
         /\ \A j \in Job :
               \/ at[j] \in {"done", "failed"}
               \/ hung[j] /\ Asked.bare /\ result.is # "cancelled")

(* "job_timeout_secs bounds the job" (config.rs:40), a bare one too.  It   *)
(* does not hold: the timeout is barry's, nothing of it is in the spec,    *)
(* and the cancel that barry asks for once may be lost.                    *)
JobTimeoutBounds ==
    <>[](result # Waiting /\ \A j \in Job : at[j] \in {"done", "failed"})
=============================================================================
