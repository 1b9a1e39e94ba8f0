# Barry Dylan in TLA+

Barry Dylan is one process: a webhook server, a table of jobs in SQLite, a pool
of workers that review pull requests with LLMs, and three GitHub identities that
post what the reviews found. What makes it hard to get right is not any one
handler but their order: a push that arrives while the review of the old head is
being posted, a SIGTERM between a review's post and the record of it, a lease
that runs out under a run. This directory holds a model of that behaviour, the
TLC runs that check it on small instances, and TLAPS proofs for every instance.

## The system

| Component | State | Operations | Talks to |
|---|---|---|---|
| Webhook server (`webhook/server.rs`) | none of its own | accept a delivery, claim it, ask a review to look again, enqueue a job | deliveries, queue, registry |
| Delivery table (`storage/deliveries.rs`) | bodies seen, with times | claim, release, prune | SQLite actor |
| Job queue (`storage/actor.rs`, `queue.rs`, `schema.sql`) | rows: event kind, `run_after`, `leased_until`, attempts, experiment, progress | Enqueue (merge), LeaseNext, Ack, Nack, RescheduleAt, CancelPrJobs, the two review columns | one thread, one command at a time |
| Worker pool (`dispatcher/worker.rs`) | the job in hand | lease, run, ack, nack, defer, hand back | queue, `run_job`, shutdown token |
| `run_job` (`dispatcher/run.rs`) | the head it read | context, trust gate, register, checkers, `watch_head`, `post_outcome`; close and command jobs | GitHub, registry, queue |
| Registry (`dispatcher/cancel.rs`) | per pull request: token, head, Notify, generation | register, unregister, cancel, `push_arrived` | jobs, webhook server |
| Multi-review (`checker/multi_review/`) | progress on the job row | verdict, post as Barry and Other Barry, tie-break, record | rack or LLMs, GitHub, queue |
| Rack client (`rack/mod.rs`) | experiment id on the job row | submit, remember, poll, collect, clear, cancel when abandoned | systemslab |
| Confer (`confer.rs`, `storage/multi_review.rs`) | who posted on a head, confers used | pick the next reviewer, review, post, record | as multi-review |
| GitHub client (`github/client.rs`, `pr.rs`) | none that outlives a call | reads, writes with retries and the look for a copy that landed | GitHub |
| Installations and tokens (`app_runtime.rs`, `github/app.rs`, `storage/tokens.rs`, `installation_cache.rs`, `cache.rs`) | per identity: the installation of each owner, a token per installation, in tables and in memory | resolve, mint, store, invalidate and retry after a 401; written by webhooks too | GitHub, SQLite actor |
| Relay (`relay.rs`) | the bytes of an unfinished frame, backoff | connect, stream, deliver | smee, webhook server |
| Orchestrator (`orchestrator.rs`, `synthesis.rs`, `judge.rs`, `clients.rs`) | the rounds of one review; the permits all reviews share | drafts, first reviews, peer round, judge | LLM clients |
| LLM clients (`llm/`) | none that outlives a call | one request, retried | model endpoints |
| Rack job (`rack/job.rs`, `rack/config.rs`, `offline/`) | on the rack: its servers and files | build the experiment, run its script, upload, read back | systemslab, llama-server |
| Checkers without state | - | hygiene rules | GitHub |

The behaviours that are hard to test, each at its line, are listed under
`hazards` in `PROJECT.json`; the properties below are aimed at them.

## The modules

| Module | What it is | Code |
|---|---|---|
| `EventLedger` | abstract: every accepted event is owed a run, and a run settles what it set out with; events of a run that outlasted its lease are loose | - |
| `JobQueue` | the jobs table, the worker loop, SIGTERM, crash, restart | `storage/actor.rs`, `queue.rs`, `schema.sql`, `dispatcher/worker.rs`, the enqueue of `webhook/server.rs`, the close and command jobs of `dispatcher/run.rs` |
| `MCJobQueue` | instances for TLC | - |
| `JobQueueProofs` | typing, `PendingUnique`, `RunExclusive`; `JobQueue` implements `EventLedger` | - |
| `Reviews` | the reviews of one pull request in flight: registry, watcher, checkers, posting; GitHub with reads that lag | `dispatcher/cancel.rs`, `dispatcher/run.rs`, `push_arrived` of `webhook/server.rs` |
| `MCReviews`, `ReviewsProofs` | instances; typing, `OneLive`, `EntryIsUnderWay`, `LiveIsRegistered`, `WatcherCaughtUp`, `CondemnedWindsDown` | - |
| `ReviewJob` | one job row and its multi-review over several processes: progress, posts, records, tie-break, the rack experiment | `checker/multi_review/mod.rs`, `posting.rs`, `rack/mod.rs`, the two review columns in `storage/actor.rs` |
| `ReviewJobProofs` | typing and the four invariants | - |
| `Deliveries` | a delivery is acted on once: stale check, claim, pruning, release | `webhook/server.rs`, `storage/deliveries.rs` |
| `MCDeliveries` | instances | - |
| `UniquePost` | abstract: what a write to GitHub promises its caller | - |
| `GitHubWrite` | a write that is retried after failures that may have landed | `write` and the waits of `github/client.rs`, the lookups of `github/pr.rs` |
| `MCGitHubWrite`, `GitHubWriteProofs` | instances; typing, `LandsOnce`, the refinement of `UniquePost` | - |
| `Confer` | the `/barry confer` jobs of a pull request beside its review | `checker/multi_review/confer.rs`, `storage/multi_review.rs`, its two commands in `storage/actor.rs` |
| `MCConfer` | instances | - |
| `Credentials` | how a call comes by a token: the installation cache, the two token caches, the mint, the retry after a 401 | `app_runtime.rs`, `github/app.rs`, `storage/tokens.rs`, `storage/installation_cache.rs`, `storage/cache.rs` |
| `MCCredentials`, `CredentialsProofs` | instances; typing and the four properties | - |
| `Orchestrator`, `MCOrchestrator` | one review reached in barry's own process: its rounds and the model calls they are made of, with other reviews about | `checker/multi_review/orchestrator.rs`, `synthesis.rs`, `judge.rs`, `clients.rs`, `review.rs`, `llm/` |
| `MultiReviewProofs` | reviewing, and conferring later: `FitsTogether`, `VerdictIsEarned` of `Orchestrator`; typing and the four invariants of `Confer` | - |
| `Relay`, `MCRelay` | from the smee channel to the queue: bytes, frames, the post to barry's own endpoint and all of its checks | `relay.rs`, `webhook/server.rs`, `event.rs`, `verify.rs` |
| `WebhookProofs` | both ways in: `ActedOnce`, `OneHolder`, `RefusedForAReason` and typing of `Deliveries`; `JobOrReason`, `JobsAreAuthorised` of `Relay` | - |
| `RackJob`, `MCRackJob` | what a rack review is made of: configuration, experiment, scripts run command by command, uploads, and what is read back | `rack/job.rs`, `rack/config.rs`, `rack/mod.rs`, `config/mod.rs`, `offline/mod.rs`, `main.rs` |
| `RackJobProofs` | the four invariants of `RackJob`, for configurations that name each Barry once | - |

How the modules divide the system: `JobQueue` knows a run only by how it ends.
`Reviews` takes up the runs of one pull request in one process, whatever rows
they come from. `ReviewJob` takes up one row over all the processes that lease
it, with the run's steps inside the multi-review. What each leaves open is a
nondeterministic choice in it (a run of `JobQueue` may end in any way, a worker
of `Reviews` may start a review at any time, the row of `ReviewJob` may be leased,
merged into or purged whenever its state allows), so each includes what the
others can do to it. `JobQueue!RunExclusive` is what lets `ReviewJob` give the row
to one run at a time, as long as no run of it outlasts its lease, and `JobQueue!PendingUnique` what lets `Confer` have one
pending row. `GitHubWrite` is what a post of `ReviewJob` or `Confer` is made of: it
promises `UniquePost`, so there a post lands once, and a failure says nothing of
it. `Credentials` supplies the tokens all of them use; to them a call without one is
a request that fails. `Orchestrator` and `RackJob` are the two ways to the verdict
that `ReviewJob` has in one step (`Decide`, `Collected`), or to none (`CheckerFails`,
`NoReview`). `Relay` is how a delivery comes to the `Enqueue` of `JobQueue`, one at a
time; `Deliveries` has copies of one body handled at once, and their age.

### JobQueue

`jobs` is the table, a function from ids to rows; a row's `events` is history, the
events merged into it. `storage/actor.rs` runs one command at a time on one
thread, so each command is one step: `Enqueue`, `LeaseNext`, `Ack`, `Nack` (in `Fail`),
`RescheduleAt` (in `Defer` and `HandBack`), the purge (`PurgePr`). The partial unique
index `jobs_pending_unique` is `IndexAllows`: an UPDATE that would make a second
pending row of one pull request and kind fails, and the worker drops the error.
`pc[w]` is where worker `w` is in `run_worker`; `leased` is the moment between the
commit of its lease and its receipt of the reply, when the shutdown branch of
the `select!` may still win (`StopPolling`). `Restart` is the next process, after a
clean stop or after a crash at any point. `LoseReport` is a report that fails.

Nothing keeps a run within its lease: `job_timeout_secs` is the lease's length only
(`app_runtime.rs:298`), `run_worker` awaits `run_job` with no timeout (`worker.rs:49`), and
`validate` compares it with no other timeout. So `Tick` may end the lease of a run
that goes on, and `overran` keeps the row's id until the next process. Two runs of
such a row there may be, and the report of one acts on what the other holds;
`RunExclusive` says that nothing else leads to two runs of a row, and `EventLedger`
has the events of such runs as `loose`: what happens to them stays among them.

### Reviews

One pull request, since the registry shares nothing between them. `entry` is the
map's entry, `fired` the cancelled tokens, `recheck` the `Notify` permits, both by
generation. A worker goes from `FetchContext` (the head is read) to `Register`,
with any number of steps of others between; each checker runs, looks the head up
again and makes the writes of `post_outcome`, looking at the token before each
(`StartWrite`). A write is what `GitHub::write` makes of it: sent, waiting, looked for,
sent again. Only the wait asks the token (`TryLater`, `Abort`), and even there the
`select!` may take the sleep; a request sent again after a lookup does not (`Resend`).
So a condemned review may send one request more from each checker, and
`CondemnedWindsDown` says that it is one, of the write under way or the multi-review's
own (`LastPost`, whose clients have no token), and that no write is begun.
GitHub is taken to ask for no wait of no length: a `Retry-After` of 0 every time could
win the `select!` every time.
`watch_head` is `Wake`, `SeeMove`, `SeeNone`, `SleepOver`. GitHub's reads show
`heads[replica]`, a head that may be some pushes old; the code takes its sleep of
`RECHECK_INTERVAL` to be longer than the lag, and `floor` says just that: what
was there when the sleep began is visible when it ends.

### ReviewJob

`row` is the job's row with `review_progress` and `rack_experiment`. A run goes
through `at`: context, files, load, verdict (here, or on the rack: `Submit`,
`Remember`, `Collected`, `Clear`), then `save` and `posting` in turn, then the
tie-break. Each await is a step, so the run can be dropped there by a
cancellation or timeout (`Abandon`), a SIGTERM (`HandBack`) or a crash (`Die`);
`DropGuard` is `Abandoned::drop`, which leaves the experiment to the next process
if barry is stopping and cancels it otherwise. A post may land and still be
reported as failed. Every database write may fail. `[rack]` may be in one
process's configuration and not in the next's.

History: `unsaved` and `lost` say that a run ended between a post and the save of
it, which the code accepts (`multi_review/mod.rs`, `load_progress`: reviewing again
is preferred to posting nothing); `strays` are the experiments whose id was never
on a row or whose cancel the rack refused; `left` those the guard left, and those
on a row that went away before anybody resumed them. `RunningIsOwned` excepts
these. `left` is not empty in practice: a close that arrives while the process
stops, or a configuration without `[rack]`, leaves an experiment to nobody.

### Deliveries

`seen` is `seen_deliveries`. A handler reads the clock once (`now`), refuses what is
older than `STALE_AFTER_SECS` by the event's own timestamp, and claims the body:
prune what was claimed more than the retention before `now`, then insert. If the
enqueue fails the claim is released. GitHub's clock may be `Skew` off, a handler
may take up to `Stall`, and be dropped at any point. The code has
`StaleAfter = Retention - 1 day`; the assumption is that skew and stall together
fit into that day.

### GitHubWrite

`copies[c]` is what GitHub holds of call `c`'s own text, each copy with its
`created_at` by GitHub's clock and the instant it first shows. The loop of `write`
goes through `at`: `Succeed`, `Reject` (`Applied::Never`), `Refuse` (`Applied::No`), `Fail`
(`Applied::Unknown`, after which a post owes two lookups), `WakeUp`, `Find`, `FindNone`,
`LookupFails`, `StopWaiting` (the cancellation token). `WaitOrGiveUp` has the settling
time, the deadline and the doubling of the delay; jitter is a choice within its
range. `Unique` are the reviews and comments, the others (labels, check-runs) may
be sent again.

### Confer

`runs[h]` is the row of `multi_review_runs` of head `h`. A run goes from `FetchContext`
(head and permission) to `Choose` or `Decline`, `Review`, `Post`, `Record`, `Count`, and may be
interrupted between any two of them. The review of the pull request posts and
records beside it (`ReviewPosts`, `ReviewRecords`), in its own order and later than
it posts. `lost` is history: the posts of runs that were interrupted before they
counted them.

### Credentials

A call reads the clock once (`began`) and goes from `entry` (the installation cache)
by `lookup` and `put` to `memory`, `table`, `mint`, `store` and `forget`; each await is a step.
A 401 on the mint invalidates the entry and starts the call over, once. `alive` and
`missing` are history, the last instants at which an installation, or none, was
there; `Stall` bounds a call and `Delay` a webhook.

### Orchestrator

`call[c]` is where a model call is: waiting for its turn among the personas
(`gate`), for a permit (`line`), sent, or waiting between two attempts, with its
permit. `phase` goes from the drafts to the first reviews, the peer round and the
judge; a phase ends when its calls have, as `join_all` and `join!` end. A reply is
whether it has the block that was asked for, what its text is good for (nothing,
prose, the JSON), and whether it was cut short; a failure is one of those
`LlmError` tells apart. `way` is `run`, `run_barry_only`, or `judge_reviews` over two
reviews from the rack. A review remembers by whom and in which round it was
written, so that a verdict can be held against what was reached.

### Relay

`stream` and `buf` hold bytes, two or three to a body: the first half of a
character, the second, and the blank line that ends the frame. `ReadChunk` takes
any number of them, and `Decoded` is `from_utf8_lossy` on that chunk alone. `TakeFrame`
is `parse_frame` and the request, whose body is intact only if every chunk was;
`Refusal` has the checks of `webhook` in the order of the code, and `JobOf` the arms of
its match. While a delivery is being handled the relay reads nothing. `excused` is
history: what was lost with a connection, or by a step of the endpoint failing.

### RackJob

`Payload` makes the script of a job as the code does, reviewer by reviewer, as a
sequence of commands; `Section` has the conditions under which a server is started
and stopped. The actions are bash under `set -e`: a command succeeds, fails and ends
the script through the trap, or, for the judge's server on a bare host, writes an
error verdict and leaves the judge out. `servers[j]` are the processes the job
started, `foreign[j]` says that something else answers on a bare host's port.
`made[j]` pairs each review with the server it was made against. Then the uploads
in order, and `Collect`, which is `collect` of `rack/mod.rs` and its caller's use of it.
A command of a start may not return (`Hang`): the `slipway pull` and the three `curl -sf`
of `job.rs:117`, `128` and `131` have no time limit, so a server that takes a connection
and keeps it holds the script inside one of its 240 polls. Then the server or the
stranger goes away, or the runner ends the job (`Killed`). `Abandon` is barry giving up,
at `job_timeout_secs` or before; the cancel it asks for arrives or does not.

`validate` takes any word for a reviewer's identity, and the same one twice, and counts
all but `other_other_barry` as a pair to judge (`config.rs:336`); so does `ValidRack`, and the
instance has an unknown and a repeated slug. `NamedOnce` says of a configuration
that it has neither.

## Checks

`tlc -config <cfg> <module>`; every property of a passing run also has a mutant of
a definition (the operators commented "Variant" in the modules) that violates it.

| Run | cfg | Shows |
|---|---|---|
| `queue` | `JobQueue.cfg` | 2 workers, 3 kinds of event, 2 rows, runs that outlast their leases, a crash or SIGTERM: one pending row of a kind; two runs of a row only where one outlasted its lease, the refinement of `EventLedger` but for the events of those; a row that is due is leased; SIGTERM ends |
| `reviews` | `Reviews.cfg` | 2 workers, 2 commits, 2 pushes (the head may come back), a close, lagging and failing reads, writes retried: at most one live review, in the map; no write begun once condemned, and one request sent at most; no wake-up lost |
| `reviews_live` | `ReviewsLive.cfg` | 3 pushes: a review told of a push, whose head has not been current since, stops, even if its checkers never do |
| `review_job` | `ReviewJob.cfg` | 2 runs, 1 push, 1 merged event, 2 experiments: records are true, a resumed job does not repeat itself, a tie-break counts only when posted, experiments have owners |
| `deliveries` | `Deliveries.cfg` | 2 bodies, 2 handlers, a clock that outlasts the retention: acted on once, one holder, refused for a reason |
| `github_write` | `GitHubWrite.cfg` | 2 posts of one review, copies that show late, clocks apart: a review lands once, "ok" means it is there (`UniquePost`), a call returns |
| `confer` | `Confer.cfg` | 2 workers, 2 rows, 2 heads, the review posting beside them, an interrupted run: records are true, the last Barry comes last, every confer is counted, the budget is overrun by runs under way together and no more |
| `credentials` | `Credentials.cfg` | 2 calls, 2 installations one after the other, webhooks, restarts: a token handed out is fresh, and of an installation there was; "not installed" is recent; one retry is enough |
| `orchestrator` | `Orchestrator.cfg` | 2 personas, 2 permits, another review, every failure at every call: personas in flight fit the window, a verdict is no more than was reached, a review ends |
| `relay` | `Relay.cfg` | 2 of 24 kinds of delivery, any chunks, disconnections: nothing is lost by the framing, only what is authorised becomes a job, nothing is sat on |
| `rack_job` | `RackJob.cfg` | every valid one of 640 configurations, three ways to ask, a failure or a hang at any command, barry giving up: a review is its own model's, one server at a time, a job fails for one of the listed causes, an experiment ends; where each Barry is named once, a verdict is of both reviews |
| `review_job_stale` | `ReviewJobStale.cfg` | ends in a violation: the review of an earlier head may be posted on this one |

The last contradicts a line of the repository, which `findings` in `PROJECT.json`
quotes.

### Stated and not held

Eight more properties state a line of the repository that the code does not keep.
They stand in their modules, and no run has them; add one to the cfg named for the
counterexample.

| Property | cfg | What happens |
|---|---|---|
| `JobQueue!HandBackClearsLease` | `JobQueue.cfg` | the row of a job handed back at SIGTERM cannot become pending beside a newer one of its kind; the UPDATE fails, its error is dropped (`worker.rs:51`), and the lease stays (comment at `worker.rs:40`) |
| `Reviews!OnlyStaleReplaced` | `Reviews.cfg` | a job that read its head before a push replaces the review of the head after it (comment at `cancel.rs:85`) |
| `Confer!SummonsUnposted` | `Confer.cfg` | two confers choose before either posts, and summon the same Barry (`README.md:235`) |
| `Relay!ChunksDoNotMatter` | `Relay.cfg` | a chunk that ends inside a character is decoded by itself (`relay.rs:273`); the body no longer has its signature, and the delivery is answered 401 (comment at `relay.rs:275`) |
| `RackJob!JudgeCostsTheVerdict` | `RackJob.cfg` | on a bare host, a judge's server that is never started, for want of its model or its port, leaves no `llama-judge.log`; its upload (`job.rs:333`) fails the job, and both reviews with it (comment at `job.rs:202`) |
| `JobQueue!NoDuplicates` | `JobQueue.cfg` | a run outlasts its lease, which nothing prevents, and its row is leased to another worker (`README.md:51`, "concurrent workers process without duplicates") |
| `RackJob!VerdictOfThePair` | `RackJob.cfg` | with an unknown reviewer before the two, or Barry listed twice, the judge gets the first two reviews there are, and its verdict counts as Barry's and Other Barry's ("Reject a configuration that cannot do what it says", `config.rs:264`; "Matches `Identity`'s slug", `config.rs:211`, which `config.rs:336` does not check) |
| `RackJob!JobTimeoutBounds` | `RackJob.cfg` | a bare job is held by a `curl` or a pull, barry gives up, its one cancel is lost, and the job keeps its host ("`job_timeout_secs` bounds the job", `config.rs:40`) |

### Bounds, and why they are enough

- `JobQueue`: 2 rows are a leased row and the pending row it may collide with, of
  its kind or of another that a purge or a command makes. Leases of 2 with a clock up to 2 let a row of the first instant be
  leased, expire in a crash and be leased again. Two attempts are the last and
  one before it. Pull requests share only the order of leasing, so there is one;
  the proofs have any number.
- `Reviews`: 2 workers make a replacement; 2 generations are a review and the
  one that replaces it; 2 pushes on 2 commits bring a head back. One checker: checkers
  share nothing but the token. The invariants are proved for any number of each.
  `ReviewsLive.cfg` has one generation, since a review that is replaced is not live, and
  3 pushes: the head may leave, come back while the watcher looks (so that it waits,
  having been right) and leave again. If that last push is never delivered, nothing
  stops the review before `still_current`, and `StaleReviewStops` does not ask it to: it is of reviews
  whose head has not been current since the last push they were told of.
- `ReviewJob`: every hazard it covers needs one run that stops and one that
  resumes. A third run would be a resumption of a resumed one, which has the
  same row to read as the second. An event is merged for a push at most
  (`MaxMerges`); of 2 experiments the second is the one submitted afresh when the
  first, resumed, is no use.
- `Deliveries`: retention 4, stale after 2, skew 1 and stall 1 meet the
  assumption with equality, so that being one off shows; 6 instants see a
  claim pruned.
- `GitHubWrite`: the deadline has room for a failure, both lookups and one more
  write; `Lag` is twice the settling time and `Skew` the slack, so both assumptions
  hold with equality. Two calls of one text are a review posted again by a later
  run: the lookup may take its copy for its own. Writes that may be sent twice
  (labels, check-runs) are not in the instance; the proofs have them.
- `Confer`: two rows, whose runs overlap, and one of which may be retried;
  `MaxPerPr` of 2 is used up by both. The proofs have any number of rows.
- `Orchestrator`: of two personas one may fit the window and both not; 2 permits are
  fewer than the drafts of two reviewers; the second of 2 attempts is the last.
  `MaxTokens`, prompts and windows are small numbers with the relation that matters.
- `Relay`: two bodies are what a chunk can join or split; the 24 deliveries have one
  that fails each check, and one of each kind that passes them.
- `RackJob`: ten lists of reviewers have one, two and three of them, of one model and of
  two, in either order, with and without the tie-breaker, and with a name that is
  unknown or repeated; nothing is cut down in the script.
- `Credentials`: two installations make a stale entry and the one that takes its
  place; a life of 2 with a margin of 1 in 3 instants lets a cached token be
  usable, inside the margin and expired; a miss is believed for 1 and forgotten at 2.
  A call is over in the instant it began, a webhook is late by up to 1; the proofs
  have calls and webhooks of any length.

### Fairness

`queue`: a worker keeps polling (its loop has a timer and no other wait),
`run_job` ends (every wait in it has a timeout, though none is the lease's), a worker that can stop does, and a
stopped process is started again (by systemd). Weak fairness of each suffices.
Nothing is assumed of the clock, webhooks or crashes, and `DueIsServed` speaks only
of rows that are due. `reviews_live`: the watcher's task is polled, and GitHub's
reads catch up; lookups succeed in that run, and checkers need never end.
`github_write`: time passes, a request is answered or times out, and a wait that is
over is left; which answer it is, is anybody's choice. `orchestrator`: a request is
answered or times out (`request_timeout_secs`), a wait between attempts ends, other
reviews give their permits back, and futures that can go on are polled; `tokio`'s
semaphore is first come, first served, which is `line`. `relay`: the task reads what
has arrived, and the endpoint answers. `rack_job`: a command that is not hung ends,
reviews and the judge by the timeout of each request and the wait for a server by
its 240 polls; barry stops waiting at `job_timeout_secs`; the runner ends a job that was
cancelled, and one in a guest at `payload_timeout_secs`. Nothing is assumed to end a command
that hangs, nor of the server behind it: a bare job that hangs and that no cancel
reaches is what `ExperimentEnds` excepts.

Deadlock is not checked: each instance stops when its bounds are used up.

## Proofs

`tlapm <module>`. The proofs hold for any sets of workers, pull requests, commits,
bodies and handlers, and any bounds.

- `JobQueueProofs`. `PendingUnique` needs only that each statement on the table
  respects the index. `RunExclusive` needs more: a lease is not handed out
  while another is unexpired, so `QueueInv` adds that the row of a run under way
  is still in the table, leased until the very instant the run knows, and with
  the run's own events, until a run of it outlasts its lease; from then on two runs
  share events only if they are of one row (`RunsCarry`). Assumed of leases: nothing.
  The refinement: with `QueueInv`, the events of distinct rows are disjoint, so
  deleting a row settles its run's events and no others; each action maps to an
  action of `EventLedger` or to a stutter. Of a row whose run outlasted its lease, they are
  loose, and what a report or a purge then takes is loose too.
- `ReviewJobProofs`. `ReviewInv`: `Shape` says what a run knows at each of its
  steps. `Truth`: reviews are only ever added, so a progress that lists a review
  stays true, in the run and on the row, and a tie-break follows both reviews.
  `RowCovers` and `RunCovers`: of the reviews posted since the last event was
  merged, the row lists all of its head unless one went unsaved, and a run that
  has read the row lists all of its own, because a row's progress is never of a
  later head than the run's (`Heads`); so the review a run posts next is of the
  verdict of those before, and by a Barry not among them. `Owned`: an experiment
  leaves the row only once it is over or an exception. Assumed: nothing but that
  the bounds are numbers.
- `ReviewsProofs`. `RegistryInv`: generations tell registrations apart, a
  condemned review's token is cancelled, and the live review is the one in the
  map. Then two live reviews would both be the entry, hence the same.
  `WatcherInv`: a watcher told of a push sleeps until reads show that push and only
  then looks for the second time, so the head it finds is at that push or later.
  `WritesInv`: a condemned review's token is cancelled, so no wait of it begins and no
  write; a request it has sent since can only be answered. Its first may come from a
  wait or a lookup that was under way, and none is left after it.
- `WebhookProofs`, of `Deliveries`. A claim is dated no earlier than its event, skew aside, so
  when one is pruned its event is older than anything a handler may still hold
  for fresh; whoever claims a body anew finds that nobody acted on it.
- `WebhookProofs`, of `Relay` (whose top names begin with `Relay`, so that one module
  can have both). `Framed`: what is on the wire, decoded or not, is frame after
  frame, each of two or three bytes; the end of the first frame is therefore
  among the first three bytes, which takes no induction, and taking it leaves
  frames again. `ClaimsHold`: a claimed body has its job, is about to, or is
  excused, and a body with a job stays claimed; so a copy that is refused for
  the claim loses nothing, and no body has two jobs. `PostPassed`: what is past the
  endpoint's checks passed each of them. Assumed: `RequireSignature` is a flag.
- `GitHubWriteProofs`. `CopiesShow`: while a call that has a copy goes on, it owes
  lookups, and the copy shows by the last of them, since two settling times are
  no less than the lag; it is then found, as the slack is no less than the skew.
  So the call never sends again. Assumed: `Lag <= 2 * LookupSettle`, `Skew <= ClockSlack`.
- `CredentialsProofs`. `CredentialsInv` dates what a call or a cache holds: a token by
  the last instant its installation was there, a miss by the last instant there
  was none. These instants only grow, so a call that is overtaken, or an entry
  put late, stays as true as it was. Assumed: the margin is shorter than a token's
  life.
- `MultiReviewProofs`, of `Confer`. `ConferInv` adds `SummonsInOrder` to the invariants the run checks:
  posts are never taken back, so what a run read when it chose whom to summon
  is still so when it posts. For the counts, a post of a confer is in exactly one
  of three places (the count, the run at hand, the history of interrupted runs),
  and each step moves at most one from one to the next. Assumed: the pool is
  finite.
- `MultiReviewProofs`, of `Orchestrator` (whose top names begin with `Orchestrator`), for
  any prompts, windows, permits, attempts and requests of others. Every step but the
  last of a phase takes one call on (`Moved`) or none (`Aside`). `Quiet` and `LineWaits`
  keep the calls to those of the phase: the line holds each call that waits for a
  permit, once, so a phase that ends leaves nobody in it. `TurnsKept` bounds the
  personas that have had a turn and are not done; `TurnsFit` makes of that as many of
  the largest prompt as fit the window, and `TotalIsBounded` bounds the sum of what
  those in flight cost by as many of the largest. The sum is a recursion over sets:
  that it has a solution, and the bound, are by induction on the number of personas,
  with the set of numbers for which the claim holds in the place of a predicate
  (`Induction`, from the least element of what is left). `FitsTogether` follows.
  `Reached` says what there is to conclude from in each phase, and
  `VerdictIsEarned` is then a matter of the step that concludes. Assumed:
  `OrchestratorAssumption`, what a configuration is.
- `RackJobProofs`, for any configuration that names each Barry once. A job has one reviewer or
  two, so its script is one of a few sequences of commands, which `PayloadIs` lists;
  `ScriptFits` says of each place in one what may stand there, and so what has
  been started, reviewed and stopped when the script gets to it. `RackInv` then
  says of each job, by its place: which server runs, and that it is the one of the
  section the place is in (`ServerInv`); which files there are (`FileInv`), hence
  that an upload finds its own unless a fault is on record (`LostInv`); by whom the
  reviews were made (`AsConfigured`, `OwnServer`) and of whom the verdict is
  (`VerdictInv`). `ReviewedAsConfigured`, `OneServer`, `LostForAReason` and `VerdictOfBoth`
  follow. `NamedOnce(config.rack)` is the premise of each theorem, or of the property
  itself in `VerdictOfBoth`; it bounds the reviewers by three. Of other lists the first
  three properties are checked on the instance, and not proved. Assumed: `RackAssumption`, the types of
  a configuration. Filters of lists are
  written `Only`, with `FlattenSeq`: this prover cannot expand `SelectSeq`.

`TypeOK` of the proved modules is in no run, being proved. Every safety invariant
that a run checks is proved. Only model-checked: liveness under fairness
(`DueIsServed`, `StaleReviewStops`, `ReviewEnds` and their like), which is beyond this
prover, as is `ENABLED`.

## What the models leave out

- Time in `JobQueue` is whole seconds and moves forward; a clock set back is not
  modelled, nor in `Deliveries`.
- `retry_busy` is inside each command: a command takes effect once, or fails.
  In a busy database, a failed claim may already have pruned (`Refuse`).
- After SIGTERM the server drains the requests in flight; `JobQueue` lets any
  webhook arrive, which is more than that. Once barry is stopping, `ReviewJob`
  lets a run go on for some steps before its worker drops it.
- `ReviewJob` runs its row one run at a time; two runs of one row, after a run has
  outlasted its lease, are in `JobQueue` only.
- `ReviewJob` has the tie-break's own review, and the rack job it may submit
  which no row remembers, inside `BreakTie`; the deadlines of the tie-break are a
  nondeterministic choice. Hygiene checkers are not in it.
- `Confer` counts the budget per head, as the code does (the README speaks of a pull
  request); the head is not looked up again before its post, so neither is it in
  the model; a comment merged into a pending row overwrites its author.
- `Credentials` is of one identity, owner and repository. The lookup is per
  repository and its result is cached per owner; what that does to an App that is
  installed on some repositories only is not modelled. A mint for an installation
  that is gone is answered 401, as the code expects; after another status the
  entry would stay. A token expires by barry's clock.
- The trust gate is `GiveUp` in `Reviews` and `ReviewJob`: a query of permissions and of
  comments that keeps nothing. Hygiene checkers are rules over one pull request's
  text, without state; metrics, logs and the status file are only written.
- `Orchestrator` has the personas' prompts as lengths and their answers as usable or
  not; digging JSON out of an answer is `Text`. Token counts are left out. `FitsTogether`
  counts the requests of one review for one identity, as the code does: the window
  is of every request in flight (`config/mod.rs:105`), and two identities of one endpoint,
  or two reviews at once, may overrun it together.
- `Relay` has no lengths of waits: a stream may end or stall at any time.
- `Reviews` has of the multi-review's own posts, made by clients without the token,
  only the one that may leave once the token has fired; those before it are
  `ReviewJob`'s. How many lookups a write owes, its deadline and what GitHub holds
  afterwards are `GitHubWrite`'s: here a lookup that finds nothing may lead to another
  or to the request.
- In `RackJob` barry's wait for a host and its stop, which leaves the experiment to the
  next process, are inside `Abandon` or `ReviewJob`'s. Nobody takes the port of a bare
  host between the look at it and the server's bind. An upload of a file that is
  not there fails, as the comment at `job.rs:170` has it. Of two reviewers that share
  a server, the second is told its own window though the server has the first's.
- The formats: prompts, diffs, JSON of the models, GitHub payloads, TOML.

## What is left

In this order:

1. An abstract specification of `Relay` and `Deliveries` together that acts on each
   body once.
2. The deadlines of the tie-break (`multi_review/mod.rs:112`), a pure function of
   instants, and the rules of the trust gate, against reference definitions.
