----------------------------- MODULE ReviewJob -----------------------------
(***************************************************************************)
(* One job row and the multi-review it stands for, across the processes    *)
(* that lease it: the verdict, from the rack or from here, the reviews     *)
(* posted as Barry, Other Barry and Other Other Barry, the progress and    *)
(* the experiment id kept on the row so that a restart resumes instead of  *)
(* starting again (checker/multi_review/mod.rs, rack/mod.rs).              *)
(*                                                                         *)
(* One process has the row at a time: JobQueue says when.  Heads are       *)
(* numbered as they are pushed.  Experiments and runs are numbered too; a  *)
(* verdict carries the number of the run that reached it.                  *)
(***************************************************************************)
EXTENDS Integers, Sequences

CONSTANTS
    MaxPushes,       \* bound: pushes after the pull request is opened
    MaxMerges,       \* bound: events merged into the row, one for a push at most
    MaxLeases,       \* bound: runs of the row
    MaxExperiments   \* bound: experiments ever submitted

ASSUME ReviewJobAssumption ==
    /\ MaxPushes \in Nat /\ MaxMerges \in Nat
    /\ MaxLeases \in Nat /\ MaxExperiments \in Nat

VARIABLES
    \* GitHub and the rack
    head,       \* the pull request's head
    posts,      \* the reviews on GitHub, in the order they landed
    lab,        \* systemslab's experiments
    \* the database
    row,        \* the job's row
    recorded,   \* multi_review_runs: which Barry is on record for which head
    \* the process
    racked,     \* its configuration has [rack]
    stopping,   \* its shutdown token
    at,         \* where its run of the job is
    job,        \* what the run knows
    \* history
    era,        \* 1 + the events merged into the row
    leases,     \* runs of the row
    unsaved,    \* a review of this run landed and is not in the progress
    lost,       \* a run ended like that, or could not read the progress
    strays,     \* experiments lost before they were on the row, or that the
                \* rack refused to cancel
    left        \* experiments left running: by the guard as barry stopped, or
                \* on a row that went before a run resumed them

table    == <<row, recorded>>
history  == <<era, leases, unsaved, lost, strays, left>>
vars == <<head, posts, lab, table, racked, stopping, at, job, history>>

Commit == 1 .. MaxPushes + 1
Barry  == "barry"
OB     == "other_barry"
OOB    == "other_other_barry"
Kind   == {"agree", "disagree", "alone"}

Verdict  == [kind : Kind, of : Commit, run : 1 .. MaxLeases]
Progress == [head : Commit, verdict : Verdict, posted : SUBSET {Barry, OB},
             tie_break : BOOLEAN]
None     == [head |-> 0]    \* SQL NULL in review_progress
Gone     == [state |-> "gone", progress |-> None, experiment |-> 0]

Post == [who : {Barry, OB, OOB}, commit : Commit, of : Commit,
         run : 1 .. MaxLeases, era : 1 .. MaxMerges + 1]

Running(e) == e \in DOMAIN lab /\ lab[e].state = "running"

-----------------------------------------------------------------------------
(* Around the process.                                                     *)

Push ==
    /\ head <= MaxPushes
    /\ head' = head + 1
    /\ UNCHANGED <<posts, lab, table, racked, stopping, at, job, history>>

(* An experiment ends, well or badly. *)
ExperimentEnds(e, state) ==
    /\ Running(e)
    /\ lab' = [lab EXCEPT ![e].state = state]
    /\ UNCHANGED <<head, posts, table, racked, stopping, at, job, history>>

(* A push's event arrives, soon or late, while the row is pending.        *)
Merge ==
    /\ row.state = "pending"
    /\ era <= MaxMerges /\ era < head
    /\ era' = era + 1
    /\ row' = [row EXCEPT !.progress = None]
    /\ UNCHANGED <<head, posts, lab, recorded, racked, stopping, at, job, leases,
                   unsaved, lost, strays, left>>

(* The row goes.  The experiment on it is left, if it is not the run's own. *)
DeleteRow ==
    /\ row' = Gone
    /\ left' = left \cup ({row.experiment} \ {0, job.experiment})

(* The pull request is closed while the row is pending. *)
Purge ==
    /\ row.state = "pending"
    /\ DeleteRow
    /\ UNCHANGED <<head, posts, lab, recorded, racked, stopping, at, job, era,
                   leases, unsaved, lost, strays>>

-----------------------------------------------------------------------------
(* The run.                                                                *)

Go(from, to) == at = from /\ at' = to

NoJob == [sha |-> 1, files |-> 1, progress |-> None, experiment |-> 0,
          resumed |-> FALSE, submits |-> 0, outcome |-> "none"]

(* The run is over; what it knew is forgotten. *)
EndRun == at' = "idle" /\ job' = NoJob

Lease ==
    /\ row.state # "gone"
    /\ ~stopping
    /\ leases < MaxLeases
    /\ leases' = leases + 1
    /\ row' = [row EXCEPT !.state = "leased"]
    /\ Go("idle", "context")
    /\ UNCHANGED <<head, posts, lab, recorded, racked, stopping, job, era, unsaved,
                   lost, strays, left>>

FetchContext ==
    /\ Go("context", "files")
    /\ job' = [job EXCEPT !.sha = head]
    /\ UNCHANGED <<head, posts, lab, table, racked, stopping, history>>

ListFiles ==
    /\ Go("files", "load")
    /\ job' = [job EXCEPT !.files = head]
    /\ UNCHANGED <<head, posts, lab, table, racked, stopping, history>>

\* Variant: the progress is never resumed.
NeverResumes(p) == FALSE

Resumes(p) == p.head = job.sha

LoadProgress ==
    /\ at = "load"
    /\ IF Resumes(row.progress)
       THEN at' = "posting" /\ job' = [job EXCEPT !.progress = row.progress]
       ELSE at' = "verdict" /\ UNCHANGED job
    /\ UNCHANGED <<head, posts, lab, table, racked, stopping, history>>

(* The progress cannot be read: the review starts over. *)
LoadFails ==
    /\ Go("load", "verdict")
    /\ lost' = TRUE
    /\ UNCHANGED <<head, posts, lab, table, racked, stopping, job, era, leases,
                   unsaved, strays, left>>

(* The checker returns an error, which becomes a neutral outcome: Other    *)
(* Barry's installation cannot be looked up, no model answers, the rack    *)
(* refuses the job.                                                        *)
CheckerFails ==
    /\ Go("verdict", "outcome")
    /\ UNCHANGED <<head, posts, lab, table, racked, stopping, job, history>>

Reached(kind, of) ==
    [head |-> job.sha, verdict |-> [kind |-> kind, of |-> of, run |-> leases],
     posted |-> {}, tie_break |-> FALSE]

(* Without [rack], the reviews and the judge run here. *)
Decide(kind) ==
    /\ ~racked
    /\ Go("verdict", "save")
    /\ job' = [job EXCEPT !.progress = Reached(kind, job.files)]
    /\ UNCHANGED <<head, posts, lab, table, racked, stopping, history>>

-----------------------------------------------------------------------------
(* The rack: review_for_job and collect.                                   *)

Resubmitted == FALSE

(* submit: systemslab has the experiment, and answers with its id. *)
SubmitFrom(from) ==
    /\ Len(lab) < MaxExperiments
    /\ lab' = Append(lab, [of |-> job.files, state |-> "running"])
    /\ Go(from, "submitted")
    /\ job' = [job EXCEPT !.experiment = Len(lab) + 1, !.submits = @ + 1,
                          !.resumed = Resubmitted]
    /\ UNCHANGED <<head, posts, table, racked, stopping, history>>

Submit ==
    /\ racked
    /\ row.experiment = 0
    /\ SubmitFrom("verdict")

Resume ==
    /\ racked
    /\ row.experiment # 0
    /\ Go("verdict", "collect")
    /\ job' = [job EXCEPT !.experiment = row.experiment, !.resumed = TRUE]
    /\ UNCHANGED <<head, posts, lab, table, racked, stopping, history>>

(* set_rack_experiment: the id is on the row. *)
Remember ==
    /\ Go("submitted", "collect")
    /\ row' = [row EXCEPT !.experiment = job.experiment]
    /\ UNCHANGED <<head, posts, lab, recorded, racked, stopping, job, history>>

(* It cannot be written: the checker fails, and the guard is not armed yet. *)
RememberFails ==
    /\ Go("submitted", "outcome")
    /\ strays' = strays \cup {job.experiment}
    /\ UNCHANGED <<head, posts, lab, table, racked, stopping, job, era, leases,
                   unsaved, lost, left>>

(* cancel, best effort: the rack may refuse. *)
Cancel(e) ==
    IF Running(e)
    THEN \/ lab' = [lab EXCEPT ![e].state = "failed"] /\ UNCHANGED strays
         \/ strays' = strays \cup {e} /\ UNCHANGED lab
    ELSE UNCHANGED <<lab, strays>>

\* Variant: nothing is cancelled when the review is dropped.
DropUnguarded(e) == UNCHANGED <<lab, strays, left>>

(* Abandoned::drop, armed.  *)
DropGuard(e) ==
    IF stopping
    THEN left' = left \cup {e} /\ UNCHANGED <<lab, strays>>
    ELSE Cancel(e) /\ UNCHANGED left

(* The experiment succeeded and every reviewer's artifact reads well. *)
Collected(kind) ==
    /\ Go("collect", "clear")
    /\ lab[job.experiment].state = "done"
    /\ job' = [job EXCEPT !.progress = Reached(kind, lab[job.experiment].of)]
    /\ UNCHANGED <<head, posts, lab, table, racked, stopping, history>>

(* It failed, or an artifact is missing or unreadable.  A resumed one is   *)
(* submitted afresh.                                                       *)
OfNoUse == ~Running(job.experiment)

Resubmit ==
    /\ OfNoUse
    /\ job.resumed
    /\ SubmitFrom("collect")

ResubmitFails ==
    /\ OfNoUse
    /\ job.resumed
    /\ Go("collect", "outcome")
    /\ UNCHANGED <<head, posts, lab, table, racked, stopping, job, history>>

NoReview ==
    /\ OfNoUse
    /\ ~job.resumed
    /\ Go("collect", "clear")
    /\ UNCHANGED <<head, posts, lab, table, racked, stopping, job, history>>

(* job_timeout_secs or queue_timeout_secs have passed. *)
RackTimeout ==
    /\ Go("collect", "clear")
    /\ Cancel(job.experiment)
    /\ UNCHANGED <<head, posts, table, racked, stopping, job, era, leases,
                   unsaved, lost, left>>

(* systemslab cannot be asked: collect returns, and drops its guard. *)
PollFails ==
    /\ Go("collect", "clear")
    /\ DropGuard(job.experiment)
    /\ UNCHANGED <<head, posts, table, racked, stopping, job, era, leases,
                   unsaved, lost>>

(* The experiment is over: set_rack_experiment(None), which may fail. *)
Clear ==
    /\ Go("clear", IF job.progress = None THEN "outcome" ELSE "save")
    /\ \/ row' = [row EXCEPT !.experiment = 0]
       \/ UNCHANGED row
    /\ UNCHANGED <<head, posts, lab, recorded, racked, stopping, job, history>>

-----------------------------------------------------------------------------
(* Posting, recording and the tie-break.                                   *)

(* save_progress; a failure is logged, and the review carries on.  *)
Save ==
    /\ Go("save", IF job.progress.tie_break THEN "record_tie" ELSE "posting")
    /\ \/ /\ row' = [row EXCEPT !.progress = job.progress]
          /\ unsaved' = FALSE
       \/ UNCHANGED <<row, unsaved>>
    /\ UNCHANGED <<head, posts, lab, recorded, racked, stopping, job, era,
                   leases, lost, strays, left>>

(* The identities a verdict is posted as, and recorded for. *)
Speakers(v) == IF v.kind = "disagree" THEN {Barry, OB} ELSE {Barry}

ToPost == Speakers(job.progress.verdict) \ job.progress.posted

(* Barry first. *)
Turn(who) == who \in ToPost /\ (who = OB => Barry \notin ToPost)

Landed(who, of) ==
    /\ posts' = Append(posts, [who |-> who, commit |-> job.sha, of |-> of,
                               run |-> job.progress.verdict.run, era |-> era])
    /\ unsaved' = TRUE

(* post_once: the review is on GitHub; the progress is saved next. *)
PostOnce(who) ==
    /\ Go("posting", "save")
    /\ Turn(who)
    /\ Landed(who, job.progress.verdict.of)
    /\ job' = [job EXCEPT !.progress.posted = @ \cup {who}]
    /\ UNCHANGED <<head, lab, table, racked, stopping, era, leases, lost, strays,
                   left>>

(* The post fails for good, though the review may have landed. *)
PostFails(who) ==
    /\ Go("posting", "outcome")
    /\ Turn(who)
    /\ \/ Landed(who, job.progress.verdict.of)
       \/ UNCHANGED <<posts, unsaved>>
    /\ UNCHANGED <<head, lab, table, racked, stopping, job, era, leases, lost,
                   strays, left>>

\* Variant: the verdict is kept when Other Barry turns out not installed.
KeepSplit == [job EXCEPT !.progress.posted = @ \cup {OB}]

BarryAlone == [job EXCEPT !.progress.verdict.kind = "alone"]

(* Other Barry was uninstalled since the verdict. *)
Downgrade ==
    /\ Go("posting", "save")
    /\ Turn(OB)
    /\ job' = BarryAlone
    /\ UNCHANGED <<head, posts, lab, table, racked, stopping, history>>

(* Every review is posted: record_post for each.  Failures are ignored. *)
Record ==
    /\ at = "posting"
    /\ ToPost = {}
    /\ at' = IF job.progress.verdict.kind # "disagree" THEN "outcome"
             ELSE IF job.progress.tie_break THEN "record_tie" ELSE "tie"
    /\ \E S \in SUBSET Speakers(job.progress.verdict) :
          recorded' = recorded \cup {<<who, job.sha>> : who \in S}
    /\ UNCHANGED <<head, posts, lab, row, racked, stopping, job, history>>

(* No tie-break: it is off, Other Other Barry is not installed, the head   *)
(* moved or the pull request closed, the review failed, or it came too     *)
(* late to be posted.                                                      *)
NoTieBreak ==
    /\ at \in {"tie", "tie_reviewed"}
    /\ at' = "outcome"
    /\ UNCHANGED <<head, posts, lab, table, racked, stopping, job, history>>

(* The head is current, or cannot be looked up; Other Other Barry reviews. *)
BreakTie ==
    /\ Go("tie", "tie_reviewed")
    /\ UNCHANGED <<head, posts, lab, table, racked, stopping, job, history>>

PostTieBreak ==
    /\ Go("tie_reviewed", "save")
    /\ Landed(OOB, job.files)
    /\ job' = [job EXCEPT !.progress.tie_break = TRUE]
    /\ UNCHANGED <<head, lab, table, racked, stopping, era, leases, lost, strays,
                   left>>

\* Variant: a tie-break that could not be posted decides all the same.
CountsUnposted == "decided"

Unposted == "none"

PostTieBreakFails ==
    /\ Go("tie_reviewed", "outcome")
    /\ \/ Landed(OOB, job.files)
       \/ UNCHANGED <<posts, unsaved>>
    /\ job' = [job EXCEPT !.outcome = Unposted]
    /\ UNCHANGED <<head, lab, table, racked, stopping, era, leases, lost, strays,
                   left>>

(* record_post for Other Other Barry; the tie-break decides the check.     *)
RecordTieBreak ==
    /\ Go("record_tie", "outcome")
    /\ job' = [job EXCEPT !.outcome = "decided"]
    /\ \/ recorded' = recorded \cup {<<OOB, job.sha>>}
       \/ UNCHANGED recorded
    /\ UNCHANGED <<head, posts, lab, row, racked, stopping, history>>

-----------------------------------------------------------------------------
(* The end of a run.                                                       *)

Checking == {"load", "verdict", "submitted", "collect", "clear", "save",
             "posting", "tie", "tie_reviewed", "record_tie"}

(* What becomes of the experiment when the run is dropped. *)
Dropped ==
    \/ at = "collect" /\ DropGuard(job.experiment)
    \/ at = "submitted" /\ strays' = strays \cup {job.experiment}
                        /\ UNCHANGED <<lab, left>>
    \/ at \notin {"collect", "submitted"} /\ UNCHANGED <<lab, strays, left>>

(* The dispatcher drops the checker: it was cancelled, and nothing of it   *)
(* is posted, or it timed out, and its outcome is neutral.                 *)
Abandon ==
    /\ at \in Checking
    /\ Dropped
    /\ at' \in {"end", "outcome"}
    /\ UNCHANGED <<head, posts, table, racked, stopping, job, era, leases,
                   unsaved, lost>>

(* Closed, not trusted, or skipped because another review is in flight. *)
GiveUp ==
    /\ at \in {"context", "files"}
    /\ at' = "end"
    /\ UNCHANGED <<head, posts, lab, table, racked, stopping, job, history>>

(* post_outcome waits for GitHub, and a worker that waits sees a stop: it   *)
(* does not come to its end with barry stopping.                           *)
Outcome == at = "outcome" /\ ~stopping

(* The run is over, and its row is acked. *)
Ack ==
    /\ Outcome \/ at = "end"
    /\ EndRun
    /\ DeleteRow
    /\ unsaved' = FALSE
    /\ UNCHANGED <<head, posts, lab, recorded, racked, stopping, era, leases,
                   lost, strays>>

(* The row stays, and is pending again unless jobs_pending_unique forbids. *)
PutBack ==
    \E s \in {"pending", "leased"} : row' = [row EXCEPT !.state = s]

Forgets ==
    /\ lost' = (lost \/ unsaved)
    /\ unsaved' = FALSE

(* GitHub failed the setup (nack), or rate limited the check-run (defer). *)
Retry ==
    /\ Outcome \/ at \in {"context", "files"}
    /\ EndRun
    /\ PutBack
    /\ Forgets
    /\ UNCHANGED <<head, posts, lab, recorded, racked, stopping, era, leases,
                   strays, left>>

(* SIGTERM during a run; between runs it changes nothing here.  *)
Sigterm ==
    /\ ~stopping
    /\ at # "idle"
    /\ stopping' = TRUE
    /\ UNCHANGED <<head, posts, lab, table, racked, at, job, history>>

NextProcess ==
    /\ EndRun
    /\ stopping' = FALSE
    /\ racked' \in BOOLEAN

(* The worker drops the run and hands the job back; the process ends. *)
HandBack ==
    /\ stopping
    /\ at # "idle"
    /\ Dropped
    /\ PutBack
    /\ Forgets
    /\ NextProcess
    /\ UNCHANGED <<head, posts, recorded, era, leases>>

(* The process dies, or ends after the run it was in. *)
Die ==
    /\ at # "idle" \/ stopping
    /\ strays' = strays \cup (IF at = "submitted" THEN {job.experiment} ELSE {})
    /\ Forgets
    /\ NextProcess
    /\ UNCHANGED <<head, posts, lab, table, era, leases, left>>

-----------------------------------------------------------------------------
Init ==
    /\ head = 1
    /\ posts = <<>>
    /\ lab = <<>>
    /\ row = [state |-> "pending", progress |-> None, experiment |-> 0]
    /\ recorded = {}
    /\ racked \in BOOLEAN
    /\ stopping = FALSE
    /\ at = "idle"
    /\ job = NoJob
    /\ era = 1
    /\ leases = 0
    /\ unsaved = FALSE
    /\ lost = FALSE
    /\ strays = {}
    /\ left = {}

Around ==
    \/ Push
    \/ \E e \in DOMAIN lab, s \in {"done", "failed"} : ExperimentEnds(e, s)
    \/ Merge
    \/ Purge

Setup == Lease \/ FetchContext \/ ListFiles \/ GiveUp

OnRack ==
    \/ Submit
    \/ Resume
    \/ Remember
    \/ RememberFails
    \/ \E kind \in Kind : Collected(kind)
    \/ Resubmit
    \/ ResubmitFails
    \/ NoReview
    \/ RackTimeout
    \/ PollFails
    \/ Clear

Posting ==
    \/ Save
    \/ \E who \in {Barry, OB} : PostOnce(who) \/ PostFails(who)
    \/ Downgrade
    \/ Record
    \/ NoTieBreak
    \/ BreakTie
    \/ PostTieBreak
    \/ PostTieBreakFails
    \/ RecordTieBreak

Next ==
    \/ Around
    \/ Setup
    \/ LoadProgress
    \/ LoadFails
    \/ CheckerFails
    \/ \E kind \in Kind : Decide(kind)
    \/ OnRack
    \/ Posting
    \/ Sigterm
    \/ HandBack
    \/ Die
    \/ Abandon
    \/ Ack
    \/ Retry

Spec == Init /\ [][Next]_vars

-----------------------------------------------------------------------------
(* Properties.                                                             *)

(* The variables keep their types; a run submits at most once, afresh when *)
(* the experiment it resumed was no use (rack/mod.rs:425).                 *)
TypeOK ==
    /\ head \in Commit
    /\ posts \in Seq(Post)
    /\ lab \in Seq([of : Commit, state : {"running", "done", "failed"}])
    /\ row \in [state : {"pending", "leased", "gone"},
                progress : Progress \cup {None},
                experiment : 0 .. Len(lab)]
    /\ recorded \subseteq {Barry, OB, OOB} \X Commit
    /\ racked \in BOOLEAN /\ stopping \in BOOLEAN
    /\ at \in Checking \cup {"idle", "context", "files", "outcome", "end"}
    /\ job \in [sha : Commit, files : Commit, progress : Progress \cup {None},
                experiment : 0 .. Len(lab), resumed : BOOLEAN,
                submits : 0 .. 1, outcome : {"none", "decided"}]
    /\ era \in 1 .. MaxMerges + 1
    /\ leases \in 0 .. MaxLeases
    /\ unsaved \in BOOLEAN /\ lost \in BOOLEAN
    /\ strays \subseteq 1 .. Len(lab) /\ left \subseteq 1 .. Len(lab)

OnGitHub(who, commit) ==
    \E i \in DOMAIN posts : posts[i].who = who /\ posts[i].commit = commit

OfVerdict(who, p) ==
    \E i \in DOMAIN posts :
        /\ posts[i].who = who
        /\ posts[i].commit = p.head
        /\ posts[i].run = p.verdict.run

(* What the database says was posted was posted: the progress on the row   *)
(* never makes a resumed job skip a review that is not on GitHub, and      *)
(* multi_review_runs never makes a confer skip a Barry who has not spoken. *)
RecordsAreTrue ==
    /\ row.progress # None =>
          /\ \A who \in row.progress.posted : OfVerdict(who, row.progress)
          /\ row.progress.tie_break => OfVerdict(OOB, row.progress)
    /\ \A r \in recorded : OnGitHub(r[1], r[2])

(* "A resumed job does not post Barry's or Other Barry's review again"     *)
(* (README, Reviews survive a restart): unless a run ended with a post it  *)
(* had not saved, the reviews on one head are of one verdict, one by each  *)
(* Barry, until another event starts the review over.                      *)
OneReviewEach ==
    ~lost =>
        \A i, j \in DOMAIN posts :
            posts[i].commit = posts[j].commit /\ posts[i].era = posts[j].era =>
                /\ posts[i].run = posts[j].run
                /\ posts[i].who = posts[j].who => i = j

(* A tie-break decides the check-run only when all three reviews it speaks *)
(* of are on the head, this run's or an earlier one's.                     *)
DecidedIsPosted ==
    at = "outcome" /\ job.outcome = "decided" =>
        \A who \in {Barry, OB, OOB} : OfVerdict(who, job.progress)

(* No GPU host works on a review nobody waits for: an experiment that is   *)
(* running is on the row, or about to be, so somebody will collect or      *)
(* cancel it.  The exceptions are the strays and those left running.       *)
RunningIsOwned ==
    \A e \in DOMAIN lab :
        Running(e) =>
            \/ row.experiment = e
            \/ at = "submitted" /\ job.experiment = e
            \/ e \in strays \cup left

(* "No stale reviews" (README): a review posted on a head is not one of an *)
(* earlier head.                                                           *)
NotOfAnEarlierHead ==
    \A i \in DOMAIN posts : posts[i].of >= posts[i].commit
=============================================================================
