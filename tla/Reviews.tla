------------------------------ MODULE Reviews ------------------------------
(***************************************************************************)
(* The reviews of one pull request that are in flight in one process: the  *)
(* cancel registry (dispatcher/cancel.rs), the part of run_job that        *)
(* registers, watches the head, runs the checkers and posts their outcomes *)
(* (dispatcher/run.rs), and GitHub as barry sees it: a head that pushes    *)
(* move, reads that can lag behind, and deliveries that arrive late or     *)
(* never.                                                                  *)
(*                                                                         *)
(* Pull requests share nothing here, so one stands for all.  A worker may  *)
(* start a review at any time, since somebody may always ask for one, and  *)
(* several workers may review one pull request: its jobs of different      *)
(* kinds are different rows.                                               *)
(***************************************************************************)
EXTENDS Integers, Sequences, FiniteSets

CONSTANTS
    Worker,
    Sha,             \* commits the head can be at
    Checker,         \* checkers of the pipeline
    ReadsLag,        \* TRUE: a read of GitHub may miss the latest pushes
    LookupsFail,     \* TRUE: a lookup of the pull request may fail
    MaxPushes,       \* bound: pushes after the pull request is opened
    MaxCloses,       \* bound: times it is closed
    MaxGenerations   \* bound: reviews ever registered

ASSUME ReviewsAssumption ==
    /\ Sha # {}
    /\ ReadsLag \in BOOLEAN /\ LookupsFail \in BOOLEAN
    /\ MaxPushes \in Nat /\ MaxCloses \in Nat /\ MaxGenerations \in Nat

VARIABLES
    \* GitHub
    heads,          \* every head so far; the last is the current one
    replica,        \* the last of them that reads show
    open,
    undelivered,    \* pushes whose delivery may still arrive
    closeJobs,      \* pull_request.closed jobs no worker has run yet
    \* CancelRegistry
    entry,          \* the map's entry for the pull request
    nextGeneration,
    fired,          \* generations whose token is cancelled
    recheck,        \* generations whose Notify holds a permit
    \* run_job
    at,             \* where each worker is
    sha,            \* the head it read
    gen,            \* the generation of its registration
    check,          \* where each of its checkers is
    attempt,        \* how far the write its checker is at has got
    watch,          \* where its watch_head is
    floor,          \* what reads will show once watch_head has slept
    \* history
    told,           \* the last push its watcher was notified of
    missed,         \* its watcher's last look after a push failed
    condemned,      \* its review was closed or superseded
    late            \* write requests each of its checkers has sent since

github   == <<heads, replica, open, undelivered, closeJobs>>
registry == <<entry, nextGeneration, fired, recheck>>
posting  == <<check, attempt, late>>
watcher  == <<watch, floor, told, missed>>
vars == <<github, registry, at, sha, gen, posting, watcher, condemned>>

Current == heads[Len(heads)]
Seen    == heads[replica]
NoEntry == [generation |-> 0]    \* generations are numbered from 1 here

Reviewing(w) == at[w] = "reviewing"
Live(w) == Reviewing(w) /\ gen[w] \notin fired

-----------------------------------------------------------------------------
(* GitHub.                                                                 *)

Push ==
    /\ Len(heads) <= MaxPushes
    /\ \E s \in Sha \ {Current} : heads' = Append(heads, s)
    /\ replica' = IF ReadsLag THEN replica ELSE Len(heads) + 1
    /\ undelivered' = undelivered \cup {Len(heads) + 1}
    /\ UNCHANGED <<open, closeJobs, registry, at, sha, gen, posting, watcher,
                   condemned>>

CatchUp ==
    /\ replica < Len(heads)
    /\ replica' = Len(heads)
    /\ UNCHANGED <<heads, open, undelivered, closeJobs, registry, at, sha, gen,
                   posting, watcher, condemned>>

Close ==
    /\ open
    /\ closeJobs < MaxCloses
    /\ open' = FALSE
    /\ closeJobs' = closeJobs + 1
    /\ UNCHANGED <<heads, replica, undelivered, registry, at, sha, gen, posting,
                   watcher, condemned>>

Reopen ==
    /\ ~open
    /\ open' = TRUE
    /\ UNCHANGED <<heads, replica, undelivered, closeJobs, registry, at, sha,
                   gen, posting, watcher, condemned>>

-----------------------------------------------------------------------------
(* The registry.                                                           *)

(* push_arrived: the delivery of push k asks a review of another head to   *)
(* look again.                                                             *)
PushArrived(k) ==
    /\ k \in undelivered
    /\ undelivered' = undelivered \ {k}
    /\ IF entry # NoEntry /\ entry.sha # heads[k]
       THEN /\ recheck' = recheck \cup {entry.generation}
            /\ told' = [w \in Worker |->
                  IF Reviewing(w) /\ gen[w] = entry.generation /\ told[w] < k
                  THEN k ELSE told[w]]
       ELSE UNCHANGED <<recheck, told>>
    /\ UNCHANGED <<heads, replica, open, closeJobs, entry, nextGeneration,
                   fired, at, sha, gen, posting, watch, floor, missed, condemned>>

(* What register looks for: a review of the same head that is in flight.   *)
InFlight(s) ==
    entry # NoEntry /\ entry.sha = s /\ entry.generation \notin fired

LaterGeneration == nextGeneration + 1

\* Variant: the replaced review's token is left alone.
FireNothing == UNCHANGED fired

FireEntry == fired' = fired \cup ({entry.generation} \ {0})

\* Variant: a finished review unregisters whatever is there.
DropAny(w) == entry' = NoEntry

\* Variant: a finished review stays in the map.
DropNothing(w) == UNCHANGED entry

(* Registered::drop.  *)
Drop(w) ==
    entry' = IF entry.generation = gen[w] THEN NoEntry ELSE entry

-----------------------------------------------------------------------------
(* run_job.                                                                *)

(* The job reads the pull request, and goes on if it is open.              *)
FetchContext(w) ==
    /\ at[w] = "idle"
    /\ open
    /\ at' = [at EXCEPT ![w] = "setup"]
    /\ sha' = [sha EXCEPT ![w] = Seen]
    /\ UNCHANGED <<github, registry, gen, posting, watcher, condemned>>

(* The trust gate, an error from GitHub or a malformed .barry.toml ends    *)
(* the job before it registers.                                            *)
GiveUp(w) ==
    /\ at[w] = "setup"
    /\ at' = [at EXCEPT ![w] = "idle"]
    /\ UNCHANGED <<github, registry, sha, gen, posting, watcher, condemned>>

(* register returned None: the review in flight covers this head.          *)
Skip(w) ==
    /\ at[w] = "setup"
    /\ InFlight(sha[w])
    /\ at' = [at EXCEPT ![w] = "idle"]
    /\ UNCHANGED <<github, registry, sha, gen, posting, watcher, condemned>>

(* register: replace the review in flight, if there is one, and start.     *)
Register(w) ==
    /\ at[w] = "setup"
    /\ ~InFlight(sha[w])
    /\ nextGeneration <= MaxGenerations
    /\ FireEntry
    /\ entry' = [generation |-> nextGeneration, sha |-> sha[w]]
    /\ nextGeneration' = LaterGeneration
    /\ at' = [at EXCEPT ![w] = "reviewing"]
    /\ gen' = [gen EXCEPT ![w] = nextGeneration]
    /\ check' = [check EXCEPT ![w] = [c \in Checker |-> "running"]]
    /\ attempt' = [attempt EXCEPT ![w] = [c \in Checker |-> "none"]]
    /\ late' = [late EXCEPT ![w] = [c \in Checker |-> 0]]
    /\ watch' = [watch EXCEPT ![w] = "waiting"]
    /\ told' = [told EXCEPT ![w] = 0]
    /\ missed' = [missed EXCEPT ![w] = FALSE]
    /\ condemned' = [v \in Worker |-> v # w /\ (condemned[v] \/ Reviewing(v))]
    /\ UNCHANGED <<github, recheck, sha, floor>>

-----------------------------------------------------------------------------
(* The checkers of a review.                                               *)

CheckerGoes(w, c, from, to) ==
    /\ Reviewing(w)
    /\ check[w][c] = from
    /\ check' = [check EXCEPT ![w][c] = to]
    /\ UNCHANGED <<github, registry, at, sha, gen, watcher, condemned>>

(* run returned, failed or timed out with the token not cancelled. *)
Finish(w, c) ==
    /\ gen[w] \notin fired
    /\ CheckerGoes(w, c, "running", "outcome")
    /\ UNCHANGED <<attempt, late>>

Writes == {"check_run", "labels", "review", "comment"}

(* Those of them that post_unique makes. *)
Unique == {"review", "comment"}

(* A checker sees the token: while it runs, before a write, or in the wait *)
(* before a write is tried again.                                          *)
Abort(w, c) ==
    /\ gen[w] \in fired
    /\ attempt[w][c] \in {"none", "waiting", "settling"}
    /\ \E s \in {"running", "outcome"} \cup Writes : CheckerGoes(w, c, s, "done")
    /\ attempt' = [attempt EXCEPT ![w][c] = "none"]
    /\ UNCHANGED late

(* A request of a write leaves for GitHub. *)
CountLate(w, c) ==
    late' = [late EXCEPT ![w][c] = IF condemned[w] THEN @ + 1 ELSE @]

(* The multi-review checker posts its reviews while it runs, by clients    *)
(* that do not know the token.  What it posts before the token fires is    *)
(* left out.  When it does, the select! of run.rs:238 may poll the checker *)
(* once more before it drops it, and the poll may send a request.          *)
LastPost(w, c) ==
    /\ gen[w] \in fired
    /\ CheckerGoes(w, c, "running", "done")
    /\ CountLate(w, c)
    /\ UNCHANGED attempt

(* head_is_current; a lookup that fails counts as current. *)
StillCurrent(w, c) ==
    /\ \/ Seen = sha[w] /\ open
       \/ LookupsFail
    /\ CheckerGoes(w, c, "outcome", "check_run")
    /\ UNCHANGED <<attempt, late>>

NotCurrent(w, c) ==
    /\ Seen # sha[w] \/ ~open
    /\ CheckerGoes(w, c, "outcome", "done")
    /\ UNCHANGED <<attempt, late>>

-----------------------------------------------------------------------------
(* One write of post_outcome, which GitHub::write may send many times.     *)
(* (Deadlines, the number of lookups and what GitHub holds afterwards are  *)
(* in GitHubWrite.)                                                        *)

(* The writes of post_outcome that may come after each one. *)
After(write) ==
    CASE write = "check_run" -> {"labels", "review", "comment", "done"}
      [] write = "labels"    -> {"review", "comment", "done"}
      [] write = "review"    -> {"comment", "done"}
      [] write = "comment"   -> {"done"}

Writing(w, c) == Reviewing(w) /\ check[w][c] \in Writes

(* The write under way goes from one stage to another. *)
WriteGoes(w, c, from, to) ==
    /\ Writing(w, c)
    /\ attempt[w][c] = from
    /\ attempt' = [attempt EXCEPT ![w][c] = to]
    /\ UNCHANGED <<github, registry, at, sha, gen, check, watcher, condemned>>

\* Variant: the token is not looked at between writes.
MayWriteAlways(w) == TRUE

MayWrite(w) == gen[w] \notin fired

(* The token is not cancelled before a write: its first request is sent.   *)
StartWrite(w, c) ==
    /\ MayWrite(w)
    /\ WriteGoes(w, c, "none", "sent")
    /\ CountLate(w, c)

(* The write is over: GitHub took it, or a lookup found it, and the        *)
(* outcome's next write follows; or it failed for good, and none does.     *)
EndWrite(w, c) ==
    /\ attempt[w][c] \in {"sent", "looking"}
    /\ \E s \in Writes : \E t \in After(s) : CheckerGoes(w, c, s, t)
    /\ attempt' = [attempt EXCEPT ![w][c] = "none"]
    /\ UNCHANGED late

(* The write is to be tried again after a wait: for a request that failed  *)
(* or a lookup that failed or is owed another.  A token that is cancelled  *)
(* by now ends the wait at once, and the write with it.                    *)
TryLater(w, c) ==
    /\ gen[w] \notin fired
    /\ \/ WriteGoes(w, c, "sent", "waiting")
       \/ check[w][c] \in Unique /\ WriteGoes(w, c, "sent", "settling")
       \/ WriteGoes(w, c, "looking", "settling")
    /\ UNCHANGED late

(* The wait is over.  The select! may take the sleep though the token has  *)
(* fired as well.  A request that cannot have been applied is sent again;  *)
(* otherwise GitHub is asked for a copy of it first.                       *)
WaitOver(w, c) ==
    \/ WriteGoes(w, c, "waiting", "sent") /\ CountLate(w, c)
    \/ WriteGoes(w, c, "settling", "looking") /\ UNCHANGED late

(* GitHub holds no copy: the request is sent again, and the token is not   *)
(* asked.                                                                  *)
Resend(w, c) ==
    /\ WriteGoes(w, c, "looking", "sent")
    /\ CountLate(w, c)

(* Every checker is done: the review is unregistered. *)
EndReview(w) ==
    /\ Reviewing(w)
    /\ \A c \in Checker : check[w][c] = "done"
    /\ at' = [at EXCEPT ![w] = "idle"]
    /\ watch' = [watch EXCEPT ![w] = "off"]
    /\ Drop(w)
    /\ UNCHANGED <<github, nextGeneration, fired, recheck, sha, gen, posting,
                   floor, told, missed, condemned>>

-----------------------------------------------------------------------------
(* watch_head.                                                             *)

Wake(w) ==
    /\ watch[w] = "waiting"
    /\ gen[w] \notin fired
    /\ gen[w] \in recheck
    /\ recheck' = recheck \ {gen[w]}
    /\ watch' = [watch EXCEPT ![w] = "looking"]
    /\ UNCHANGED <<github, entry, nextGeneration, fired, at, sha, gen, posting,
                   floor, told, missed, condemned>>

Looking(w) == watch[w] \in {"looking", "looking_again"}

(* The head has moved: the watcher cancels its own review. *)
SeeMove(w) ==
    /\ Looking(w)
    /\ Seen # sha[w]
    /\ fired' = fired \cup {gen[w]}
    /\ watch' = [watch EXCEPT ![w] = "off"]
    /\ condemned' = [condemned EXCEPT ![w] = TRUE]
    /\ UNCHANGED <<github, entry, nextGeneration, recheck, at, sha, gen, posting,
                   floor, told, missed>>

\* Variant: a lookup is not repeated.
SleepOnce(w) == "asleep_again"

\* The sleep that follows a lookup: the first of a wake is repeated.
SleepOf(w) == IF watch[w] = "looking" THEN "asleep" ELSE "asleep_again"

(* The lookup failed or shows no move: the watcher sleeps. *)
SeeNone(w, failed) ==
    /\ Looking(w)
    /\ IF failed THEN LookupsFail ELSE Seen = sha[w]
    /\ watch' = [watch EXCEPT ![w] = SleepOf(w)]
    /\ floor' = [floor EXCEPT ![w] = Len(heads)]
    /\ missed' = [missed EXCEPT ![w] = failed]
    /\ UNCHANGED <<github, registry, at, sha, gen, posting, told, condemned>>

(* RECHECK_INTERVAL passes, and with it GitHub's lag. *)
SleepOver(w) ==
    /\ gen[w] \notin fired
    /\ replica >= floor[w]
    /\ \/ /\ watch[w] = "asleep"
          /\ watch' = [watch EXCEPT ![w] = "looking_again"]
       \/ /\ watch[w] = "asleep_again"
          /\ watch' = [watch EXCEPT ![w] = "waiting"]
    /\ UNCHANGED <<github, registry, at, sha, gen, posting, floor, told, missed,
                   condemned>>

-----------------------------------------------------------------------------
(* handle_pr_closed, which may come late: the pull request may have been   *)
(* reopened.  (What it does to the queue is in JobQueue.)                  *)
CancelReview(w) ==
    /\ at[w] = "idle"
    /\ closeJobs > 0
    /\ closeJobs' = closeJobs - 1
    /\ FireEntry
    /\ entry' = NoEntry
    /\ condemned' = [v \in Worker |-> condemned[v] \/ Reviewing(v)]
    /\ UNCHANGED <<heads, replica, open, undelivered, nextGeneration, recheck,
                   at, sha, gen, posting, watcher>>

-----------------------------------------------------------------------------
Init ==
    /\ \E s \in Sha : heads = <<s>> /\ sha = [w \in Worker |-> s]
    /\ replica = 1
    /\ open = TRUE
    /\ undelivered = {}
    /\ closeJobs = 0
    /\ entry = NoEntry
    /\ nextGeneration = 1
    /\ fired = {}
    /\ recheck = {}
    /\ at = [w \in Worker |-> "idle"]
    /\ gen = [w \in Worker |-> 0]
    /\ check = [w \in Worker |-> [c \in Checker |-> "done"]]
    /\ attempt = [w \in Worker |-> [c \in Checker |-> "none"]]
    /\ late = [w \in Worker |-> [c \in Checker |-> 0]]
    /\ watch = [w \in Worker |-> "off"]
    /\ floor = [w \in Worker |-> 1]
    /\ told = [w \in Worker |-> 0]
    /\ missed = [w \in Worker |-> FALSE]
    /\ condemned = [w \in Worker |-> FALSE]

CheckerStep(w) ==
    \E c \in Checker :
        \/ Finish(w, c)
        \/ Abort(w, c)
        \/ LastPost(w, c)
        \/ StillCurrent(w, c)
        \/ NotCurrent(w, c)
        \/ StartWrite(w, c)
        \/ EndWrite(w, c)
        \/ TryLater(w, c)
        \/ WaitOver(w, c)
        \/ Resend(w, c)

WatcherStep(w) ==
    \/ Wake(w)
    \/ SeeMove(w)
    \/ \E failed \in BOOLEAN : SeeNone(w, failed)
    \/ SleepOver(w)

JobStep(w) ==
    \/ FetchContext(w)
    \/ GiveUp(w)
    \/ Skip(w)
    \/ Register(w)
    \/ EndReview(w)
    \/ CancelReview(w)

Next ==
    \/ Push
    \/ CatchUp
    \/ Close
    \/ Reopen
    \/ \E k \in undelivered : PushArrived(k)
    \/ \E w \in Worker : JobStep(w) \/ CheckerStep(w) \/ WatcherStep(w)

Spec == Init /\ [][Next]_vars

(* The watcher runs and GitHub's reads catch up.  Nothing is assumed of    *)
(* the checkers: a review need not end on its own.                         *)
Fairness ==
    /\ WF_vars(CatchUp)
    /\ \A w \in Worker : WF_vars(WatcherStep(w))

FairSpec == Spec /\ Fairness

-----------------------------------------------------------------------------
(* Properties.                                                             *)

CheckerStates == {"running", "outcome", "done"} \cup Writes
Stages == {"none", "sent", "waiting", "settling", "looking"}

TypeOK ==
    /\ heads \in Seq(Sha) /\ Len(heads) \in 1 .. MaxPushes + 1
    /\ replica \in 1 .. Len(heads)
    /\ open \in BOOLEAN
    /\ undelivered \subseteq 2 .. Len(heads)
    /\ closeJobs \in 0 .. MaxCloses
    /\ entry = NoEntry \/ entry \in [generation : 1 .. nextGeneration - 1, sha : Sha]
    /\ nextGeneration \in 1 .. MaxGenerations + 1
    /\ fired \subseteq 1 .. nextGeneration - 1
    /\ recheck \subseteq 1 .. nextGeneration - 1
    /\ at \in [Worker -> {"idle", "setup", "reviewing"}]
    /\ sha \in [Worker -> Sha]
    /\ gen \in [Worker -> 0 .. nextGeneration - 1]
    /\ check \in [Worker -> [Checker -> CheckerStates]]
    /\ attempt \in [Worker -> [Checker -> Stages]]
    /\ late \in [Worker -> [Checker -> Nat]]
    /\ watch \in [Worker -> {"off", "waiting", "looking", "asleep",
                             "looking_again", "asleep_again"}]
    /\ floor \in [Worker -> 1 .. Len(heads)]
    /\ told \in [Worker -> 0 .. Len(heads)]
    /\ missed \in [Worker -> BOOLEAN]
    /\ condemned \in [Worker -> BOOLEAN]

(* Two reviews of one pull request may be winding down at once, but at     *)
(* most one of them may still post: whatever order workers read the head,  *)
(* register, are replaced and unregister in.                               *)
OneLive == \A v, w \in Worker : Live(v) /\ Live(w) => v = w

(* A job that skips its review because one of the same head is in flight   *)
(* (cancel.rs:83) is right about that: the map's entry is never that of a  *)
(* review that is over.                                                    *)
EntryIsUnderWay ==
    entry # NoEntry =>
        \E w \in Worker :
            Reviewing(w) /\ gen[w] = entry.generation /\ sha[w] = entry.sha

(* A close or a later registration can reach every review that may still   *)
(* post: it is the one in the map.                                         *)
LiveIsRegistered ==
    \A w \in Worker :
        Live(w) => entry = [generation |-> gen[w], sha |-> sha[w]]

(* Once a close job has run, a newer review has registered, or the watcher *)
(* has seen the head move, a checker of the review begins no write         *)
(* (run.rs:704, "re-check cancellation between each remote call"), and     *)
(* sends at most one more request of the one it is at: a retry whose wait  *)
(* or lookup was under way, or a last one of its own.  GitHub is taken to  *)
(* ask for no wait of no length (Retry-After: 0), which the token could    *)
(* lose to every time.                                                     *)
CondemnedWindsDown ==
    [][\A w \in Worker, c \in Checker :
          late'[w][c] > late[w][c] =>
              late[w][c] = 0 /\ (attempt[w][c] # "none" \/ check[w][c] = "running")]_vars

(* watch_head loses no wake-up: if it waits, with no permit to wake it,    *)
(* then since the last push it was told of, the head has been the reviewed *)
(* one, or its repeated lookup failed.  GitHub's reads may lag by less     *)
(* than RECHECK_INTERVAL.                                                  *)
WatcherCaughtUp ==
    \A w \in Worker :
        /\ watch[w] = "waiting" /\ Live(w) /\ gen[w] \notin recheck
        /\ told[w] # 0 /\ ~missed[w]
        => \E k \in told[w] .. Len(heads) : heads[k] = sha[w]

\* The review's head has not been current since the last push it was told of.
Outdated(w) ==
    /\ Live(w)
    /\ told[w] # 0
    /\ \A k \in told[w] .. Len(heads) : heads[k] # sha[w]

(* A review told of a push does not go on against a head that has not been *)
(* current since (webhook/server.rs:375), as long as lookups succeed, even *)
(* if its checkers never end.  It may go on if the head comes back to the  *)
(* reviewed one: to stop it then takes the delivery of a later push.       *)
StaleReviewStops ==
    \A w \in Worker : Outdated(w) ~> ~Live(w) \/ sha[w] = Current

(* The inductive invariant behind these.  Generations tell registrations   *)
(* apart, a condemned review's token is cancelled, and the map holds just  *)
(* the review that may still post, if there is one.                        *)
GenerationsApart ==
    /\ nextGeneration \in Nat /\ nextGeneration >= 1
    /\ \A w \in Worker :
          Reviewing(w) => gen[w] \in 1 .. nextGeneration - 1
    /\ \A v, w \in Worker :
          Reviewing(v) /\ Reviewing(w) /\ gen[v] = gen[w] => v = w
    /\ \A g \in fired : g < nextGeneration

CondemnedAreFired ==
    \A w \in Worker : Reviewing(w) /\ condemned[w] => gen[w] \in fired

RegistryInv ==
    /\ GenerationsApart
    /\ EntryIsUnderWay
    /\ LiveIsRegistered
    /\ CondemnedAreFired

(* Only a write of post_outcome is ever under way, and a checker that has  *)
(* sent its last request waits for the answer or is past it, with its      *)
(* token cancelled.                                                        *)
WritesInv ==
    \A w \in Worker, c \in Checker : Reviewing(w) =>
        /\ check[w][c] \notin Writes => attempt[w][c] = "none"
        /\ late[w][c] # 0 =>
              /\ condemned[w]
              /\ check[w][c] # "running"
              /\ attempt[w][c] \in {"none", "sent"}

(* cancel.rs:85: "a review of a different head is cancelled and replaced,  *)
(* since the caller has just read head_sha from GitHub and the other head  *)
(* is no longer current".  It does not hold: the head may have been read   *)
(* before a push, and the review replaced be of the current one.           *)
OnlyStaleReplaced ==
    [][\A v, w \in Worker :
          Register(w) /\ Live(v) /\ sha[v] # sha[w] => sha[v] # Current]_vars
=============================================================================
