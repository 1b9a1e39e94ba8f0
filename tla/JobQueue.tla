------------------------------ MODULE JobQueue ------------------------------
(***************************************************************************)
(* The SQLite job table, the worker pool that leases from it, and the      *)
(* process around them: coalescing, leases, retries, rate-limit deferrals, *)
(* the purge a closed pull request makes, SIGTERM, crashes and restarts.   *)
(*                                                                         *)
(* storage/actor.rs runs one command at a time on one thread, so each      *)
(* database command is one step.  A worker's own steps interleave with     *)
(* everybody else's.  What a run does to GitHub is not modelled here: a    *)
(* run ends in any of the ways dispatcher/worker.rs tells apart.           *)
(***************************************************************************)
EXTENDS Integers, FiniteSets

CONSTANTS
    Worker,           \* workers of the pool (dispatcher.worker_count)
    PR,               \* pull requests: (repo_owner, repo_name, pr_number)
    Kind,             \* event_kind values the instance uses
    LeaseSecs,        \* dispatcher.job_timeout_secs, the length of a lease
    DebounceSecs,     \* dispatcher.debounce_secs
    MaxAttempts,      \* attempts worker.rs passes to nack
    Backoff,          \* Backoff[n]: delay after failure number n + 1
    ResetDelay,       \* delays a rate-limited run may be deferred by
    MaxTime,          \* bound: last value of the clock
    MaxJobs,          \* bound: rows ever inserted
    MaxEvents,        \* bound: events ever accepted
    MaxRestarts       \* bound: times the process is started again

Closed    == "pull_request.closed"
Opened    == "pull_request.opened"
Push      == "pull_request.synchronize"
Commands  == {"issue_comment.approve", "issue_comment.review"}
Null      == -1       \* SQL NULL in leased_until

ASSUME QueueAssumption ==
    /\ Kind \subseteq {Closed, Opened, Push} \cup Commands
    /\ LeaseSecs \in Nat \ {0}
    /\ DebounceSecs \in Nat
    /\ MaxAttempts \in Nat \ {0}
    /\ Backoff \in [0 .. MaxAttempts - 1 -> Nat]
    /\ ResetDelay \subseteq Nat \ {0}
    /\ MaxTime \in Nat /\ MaxJobs \in Nat /\ MaxEvents \in Nat
    /\ MaxRestarts \in Nat

VARIABLES
    jobs,       \* the jobs table: a function from row ids to rows
    nextId,     \* AUTOINCREMENT
    clock,      \* now_ts()
    pc,         \* where each worker is in run_worker
    run,        \* the LeasedJob each worker holds
    stopping,   \* the shutdown token
    restarts,
    nextEvent,  \* history: events are numbered as they are accepted
    overran     \* history: rows a run of which outlasted its lease

tableVars  == <<jobs, nextId>>
workerVars == <<pc, run>>
vars == <<jobs, nextId, clock, pc, run, stopping, restarts, nextEvent, overran>>

Event == 1 .. MaxEvents

(* A row.  `events` is history: the events merged into the row, all of     *)
(* which the next run of the row serves.                                   *)
Row == [pr : PR, kind : Kind \cup {Opened}, run_after : Nat,
        leased_until : Nat \cup {Null}, attempts : 0 .. MaxAttempts - 1,
        events : SUBSET Event]

(* What a worker knows of its job: the row as it was when it was leased.   *)
Lease == [id : Nat, pr : PR, kind : Kind \cup {Opened}, until : Nat,
          events : SUBSET Event]
NoLease == [id |-> 0]

Busy(w) == pc[w] \in {"leased", "running", "acted"}

-----------------------------------------------------------------------------
(* The statements of storage/actor.rs.                                     *)

SamePending(i, pr, kind) ==
    /\ jobs[i].pr = pr
    /\ jobs[i].kind = kind
    /\ jobs[i].leased_until = Null

\* Variant: coalescing that forgets `leased_until IS NULL`.
PendingIgnoringLeases(pr, kind) ==
    {i \in DOMAIN jobs : jobs[i].pr = pr /\ jobs[i].kind = kind}

(* The rows an Enqueue of (pr, kind) merges into. *)
Pending(pr, kind) == {i \in DOMAIN jobs : SamePending(i, pr, kind)}

\* Variant: no jobs_pending_unique index.
NoIndex(i) == TRUE

(* jobs_pending_unique lets row i become pending.  Otherwise the UPDATE    *)
(* fails and the row is left as it was.                                    *)
IndexAllows(i) ==
    \A j \in Pending(jobs[i].pr, jobs[i].kind) : j = i

Larger(a, b) == IF a >= b THEN a ELSE b

(* Enqueue: merge into the pending row of the same (pr, kind), or insert.  *)
Enqueue(pr, kind, run_after) ==
    /\ nextEvent <= MaxEvents
    /\ nextEvent' = nextEvent + 1
    /\ IF Pending(pr, kind) # {}
       THEN /\ jobs' = [i \in DOMAIN jobs |->
                  IF i \in Pending(pr, kind)
                  THEN [jobs[i] EXCEPT
                          !.run_after = Larger(@, run_after),
                          !.events = @ \cup {nextEvent}]
                  ELSE jobs[i]]
            /\ UNCHANGED nextId
       ELSE /\ nextId <= MaxJobs
            /\ nextId' = nextId + 1
            /\ jobs' = [i \in DOMAIN jobs \cup {nextId} |->
                  IF i = nextId
                  THEN [pr |-> pr, kind |-> kind, run_after |-> run_after,
                        leased_until |-> Null, attempts |-> 0,
                        events |-> {nextEvent}]
                  ELSE jobs[i]]

\* Variant: the lease is not looked at.
DueIgnoringLease(i) == jobs[i].run_after <= clock

(* A row LeaseNext may hand out: run_after has passed, and nobody holds an *)
(* unexpired lease.                                                        *)
Due(i) ==
    /\ jobs[i].run_after <= clock
    /\ jobs[i].leased_until = Null \/ jobs[i].leased_until <= clock

\* Variant: a row that was leased once is never handed out again.
FirstNeverLeased(i) ==
    /\ i \in DOMAIN jobs
    /\ jobs[i].run_after <= clock
    /\ jobs[i].leased_until = Null

(* ORDER BY run_after ASC, id ASC LIMIT 1.                                 *)
FirstDue(i) ==
    /\ i \in DOMAIN jobs
    /\ Due(i)
    /\ \A j \in DOMAIN jobs : Due(j) =>
          \/ jobs[i].run_after < jobs[j].run_after
          \/ jobs[i].run_after = jobs[j].run_after /\ i <= j

Delete(S) == jobs' = [i \in DOMAIN jobs \ S |-> jobs[i]]

(* RescheduleAt: clear the lease and set run_after.  A missing row, or one *)
(* the unique index does not allow back, is left alone, and the worker     *)
(* ignores the error.                                                      *)
RescheduleAt(i, run_after) ==
    IF i \in DOMAIN jobs /\ IndexAllows(i)
    THEN jobs' = [jobs EXCEPT ![i].leased_until = Null,
                              ![i].run_after = run_after]
    ELSE UNCHANGED jobs

LastAttempt(i) == jobs[i].attempts + 1 >= MaxAttempts

(* Nack: count the attempt, delete the row at the last one, otherwise back *)
(* off.                                                                    *)
Nack(i) ==
    IF i \notin DOMAIN jobs
    THEN UNCHANGED jobs
    ELSE IF LastAttempt(i)
    THEN Delete({i})
    ELSE IF IndexAllows(i)
    THEN jobs' = [jobs EXCEPT
                    ![i].attempts = @ + 1,
                    ![i].leased_until = Null,
                    ![i].run_after = clock + Backoff[jobs[i].attempts]]
    ELSE UNCHANGED jobs

-----------------------------------------------------------------------------
(* The webhook server.                                                     *)

(* An accepted delivery becomes a job, debounced if it is a push.          *)
Webhook(pr, kind) ==
    /\ Enqueue(pr, kind,
               IF kind = Push THEN clock + DebounceSecs ELSE clock)
    /\ UNCHANGED <<clock, pc, run, stopping, restarts, overran>>

-----------------------------------------------------------------------------
(* The worker loop of dispatcher/worker.rs.                                *)

(* The worker's LeaseNext reaches the database.  The loop polls the two    *)
(* branches of its select! in random order, so a worker may send this      *)
(* command even after the shutdown token is cancelled.                     *)
LeaseNext(w) ==
    /\ pc[w] = "polling"
    /\ \E i \in DOMAIN jobs :
          /\ FirstDue(i)
          /\ jobs' = [jobs EXCEPT ![i].leased_until = clock + LeaseSecs]
          /\ run' = [run EXCEPT ![w] =
                [id |-> i, pr |-> jobs[i].pr, kind |-> jobs[i].kind,
                 until |-> clock + LeaseSecs, events |-> jobs[i].events]]
    /\ pc' = [pc EXCEPT ![w] = "leased"]
    /\ UNCHANGED <<nextId, clock, stopping, restarts, nextEvent, overran>>

(* The worker picks up the reply and starts run_job. *)
BeginRun(w) ==
    /\ pc[w] = "leased"
    /\ pc' = [pc EXCEPT ![w] = "running"]
    /\ UNCHANGED <<tableVars, clock, run, stopping, restarts, nextEvent, overran>>

(* handle_pr_closed: delete the pull request's pending rows, of any kind.  *)
(* Rows that are leased stay: their runs are cancelled another way.        *)
PurgePr(w) ==
    /\ pc[w] = "running"
    /\ run[w].kind = Closed
    /\ Delete({i \in DOMAIN jobs :
                 jobs[i].pr = run[w].pr /\ jobs[i].leased_until = Null})
    /\ pc' = [pc EXCEPT ![w] = "acted"]
    /\ UNCHANGED <<nextId, clock, run, stopping, restarts, nextEvent, overran>>

(* handle_command: /barry review, and an authorized /barry approve, queue  *)
(* a pull_request.opened job for the same pull request.                    *)
QueueFollowUp(w) ==
    /\ pc[w] = "running"
    /\ run[w].kind \in Commands
    /\ Enqueue(run[w].pr, Opened, clock)
    /\ pc' = [pc EXCEPT ![w] = "acted"]
    /\ UNCHANGED <<clock, run, stopping, restarts, overran>>

(* run_job returned: it did what its kind of event asks for.  An approve   *)
(* from somebody without write access does nothing.                        *)
Returns(w) ==
    \/ pc[w] = "acted"
    \/ pc[w] = "running" /\ run[w].kind \notin {Closed, "issue_comment.review"}

(* run_job is over; the worker goes back to the top of its loop. *)
BackToPolling(w) ==
    /\ pc' = [pc EXCEPT ![w] = "polling"]
    /\ run' = [run EXCEPT ![w] = NoLease]
    /\ UNCHANGED <<nextId, clock, stopping, restarts, nextEvent, overran>>

(* run_job returned Ok: ack, a DELETE by id. *)
Ack(w) ==
    /\ Returns(w)
    /\ Delete({run[w].id})
    /\ BackToPolling(w)

(* run_job was rate limited: deferred without counting an attempt. *)
Defer(w, delay) ==
    /\ pc[w] = "running"
    /\ RescheduleAt(run[w].id, clock + delay)
    /\ BackToPolling(w)

(* run_job failed. *)
Fail(w) ==
    /\ pc[w] = "running"
    /\ Nack(run[w].id)
    /\ BackToPolling(w)

(* The ack, reschedule or nack itself fails (the database stays busy past  *)
(* the retries).  The worker drops the error; the row keeps its lease.     *)
LoseReport(w) ==
    /\ pc[w] \in {"running", "acted"}
    /\ UNCHANGED jobs
    /\ BackToPolling(w)

-----------------------------------------------------------------------------
(* Shutdown, crash and restart.                                            *)

Sigterm ==
    /\ ~stopping
    /\ restarts < MaxRestarts
    /\ stopping' = TRUE
    /\ UNCHANGED <<tableVars, workerVars, clock, restarts, nextEvent, overran>>

(* The worker leaves its loop. *)
Stopped(w) ==
    /\ pc' = [pc EXCEPT ![w] = "stopped"]
    /\ run' = [run EXCEPT ![w] = NoLease]
    /\ UNCHANGED <<nextId, clock, stopping, restarts, nextEvent, overran>>

(* A worker between jobs sees the shutdown token.  If its LeaseNext has    *)
(* already run, the reply is dropped with the select! branch, and the row  *)
(* stays leased to nobody.                                                 *)
StopPolling(w) ==
    /\ stopping
    /\ pc[w] \in {"polling", "leased"}
    /\ UNCHANGED jobs
    /\ Stopped(w)

\* Variant: the worker hands the job back and goes on polling.
HandBackAndPoll(w) ==
    /\ stopping
    /\ pc[w] \in {"running", "acted"}
    /\ RescheduleAt(run[w].id, clock)
    /\ BackToPolling(w)

(* A worker in a job sees the shutdown token: the job is handed back, due  *)
(* at once.                                                                *)
HandBack(w) ==
    /\ stopping
    /\ pc[w] \in {"running", "acted"}
    /\ RescheduleAt(run[w].id, clock)
    /\ Stopped(w)

(* The next process starts: after a clean stop, or after a crash at any    *)
(* point.  Only the table survives, and no run does.                       *)
Restart ==
    /\ restarts < MaxRestarts
    /\ restarts' = restarts + 1
    /\ stopping' = FALSE
    /\ pc' = [w \in Worker |-> "polling"]
    /\ run' = [w \in Worker |-> NoLease]
    /\ overran' = {}
    /\ UNCHANGED <<tableVars, clock, nextEvent>>

(* A second passes.  Nothing stops a run whose lease it ends: run_worker   *)
(* awaits run_job with no timeout of its own.                              *)
Tick ==
    /\ clock < MaxTime
    /\ clock' = clock + 1
    /\ overran' = overran \cup
          {run[w].id : w \in {v \in Worker : Busy(v) /\ run[v].until <= clock + 1}}
    /\ UNCHANGED <<tableVars, workerVars, stopping, restarts, nextEvent>>

-----------------------------------------------------------------------------
Init ==
    /\ jobs = <<>>
    /\ nextId = 1
    /\ clock = 0
    /\ pc = [w \in Worker |-> "polling"]
    /\ run = [w \in Worker |-> NoLease]
    /\ stopping = FALSE
    /\ restarts = 0
    /\ nextEvent = 1
    /\ overran = {}

(* What a worker that is in a run may do next.  *)
EndRun(w) ==
    \/ Ack(w)
    \/ Fail(w)
    \/ LoseReport(w)
    \/ \E delay \in ResetDelay : Defer(w, delay)

WorkerStep(w) ==
    \/ LeaseNext(w)
    \/ BeginRun(w)
    \/ PurgePr(w)
    \/ QueueFollowUp(w)
    \/ EndRun(w)
    \/ StopPolling(w)
    \/ HandBack(w)

Next ==
    \/ \E pr \in PR, kind \in Kind : Webhook(pr, kind)
    \/ \E w \in Worker : WorkerStep(w)
    \/ Sigterm
    \/ Restart
    \/ Tick

Spec == Init /\ [][Next]_vars

(* A worker keeps polling, run_job ends (every wait in it has a timeout,   *)
(* though no timeout is the lease's), a worker that can stop does, and a   *)
(* process that stopped is started again.  Nothing is assumed of the       *)
(* clock, of webhooks or of crashes.                                       *)
Fairness ==
    /\ \A w \in Worker :
          /\ WF_vars(LeaseNext(w))
          /\ WF_vars(BeginRun(w))
          /\ WF_vars(PurgePr(w) \/ QueueFollowUp(w) \/ EndRun(w))
          /\ WF_vars(StopPolling(w) \/ HandBack(w))
    /\ WF_vars(Restart /\ \A w \in Worker : pc[w] = "stopped")

FairSpec == Spec /\ Fairness

-----------------------------------------------------------------------------
(* Properties.                                                             *)

TableOK ==
    /\ DOMAIN jobs \subseteq 1 .. nextId - 1
    /\ jobs \in [DOMAIN jobs -> Row]
    /\ nextId \in 1 .. MaxJobs + 1
    /\ nextEvent \in 1 .. MaxEvents + 1

PoolOK ==
    /\ pc \in [Worker -> {"polling", "leased", "running", "acted", "stopped"}]
    /\ run \in [Worker -> Lease \cup {NoLease}]
    /\ \A w \in Worker : run[w] \in Lease <=> Busy(w)

(* The variables keep their types.  In particular no row ever has its      *)
(* attempts used up: the last failure deletes it (actor.rs, Nack).         *)
TypeOK ==
    /\ TableOK
    /\ PoolOK
    /\ clock \in 0 .. MaxTime
    /\ stopping \in BOOLEAN
    /\ restarts \in 0 .. MaxRestarts
    /\ overran \subseteq Nat

(* However hand-backs, retries, deferrals and new events interleave, a     *)
(* pull request never has two jobs of one kind waiting to be leased.       *)
PendingUnique ==
    \A i, j \in DOMAIN jobs :
        SamePending(i, jobs[j].pr, jobs[j].kind) /\ jobs[j].leased_until = Null
            => i = j

(* However leases, crashes, lost replies and lost reports interleave, two  *)
(* workers are in runs of one row only where one of them outlasted its     *)
(* lease since the process started: nothing else takes a row from a run.   *)
RunExclusive ==
    \A v, w \in Worker :
        Busy(v) /\ Busy(w) /\ run[v].id = run[w].id /\ run[v].id \notin overran
            => v = w

(* README.md:51, Job queue: "Jobs are leased with a timeout; concurrent    *)
(* workers process without duplicates."  It does not hold: job_timeout_secs *)
(* ends the lease and not the run, and the row is leased to another worker.*)
NoDuplicates ==
    \A v, w \in Worker :
        Busy(v) /\ Busy(w) /\ run[v].id = run[w].id => v = w

(* No accepted event is lost or settled by a run that did not set out with *)
(* it: an event merged while a run is under way waits for the next run,    *)
(* and an ack, a last failed attempt or a purge takes nothing else.  Only  *)
(* the events of a row whose run outlasted its lease are loose: two runs   *)
(* may serve them, and the report of one settle what the other carries.    *)
Owed    == UNION {jobs[i].events : i \in DOMAIN jobs}
Carried == [w \in Worker |-> IF Busy(w) THEN run[w].events ELSE {}]
Overrunners == {w \in Worker : Busy(w) /\ run[w].id \in overran}
Loose   == (UNION {jobs[i].events : i \in DOMAIN jobs \cap overran})
           \cup (UNION {run[w].events : w \in Overrunners})

Ledger == INSTANCE EventLedger
             WITH owed <- Owed, carried <- Carried, loose <- Loose

LedgerSpec == Ledger!Spec

(* The inductive invariant behind RunExclusive and LedgerSpec.  Every      *)
(* event is in one row, and no row is empty; what a run carries is in no   *)
(* row but its own and in no run of another row; and until a run of it     *)
(* outlasts its lease, the row of a run is still there, is leased to it,   *)
(* and has gained no event.                                                *)
EventsApart ==
    \A i, j \in DOMAIN jobs : jobs[i].events \cap jobs[j].events # {} => i = j

RowsCarry ==
    \A i \in DOMAIN jobs :
        jobs[i].events # {} /\ \A e \in jobs[i].events : e < nextEvent

CarriesItsOwn(w) ==
    /\ run[w].id < nextId
    /\ run[w].events # {} /\ \A e \in run[w].events : e < nextEvent
    /\ \A i \in DOMAIN jobs :
          jobs[i].events \cap run[w].events # {} => i = run[w].id
    /\ \A v \in Worker :
          Busy(v) /\ run[v].events \cap run[w].events # {} => run[v].id = run[w].id

RunsCarry ==
    /\ \A i \in overran : i < nextId
    /\ \A w \in Worker : Busy(w) => CarriesItsOwn(w)

HoldsRow(w) ==
    /\ run[w].id \in DOMAIN jobs
    /\ jobs[run[w].id].leased_until = run[w].until
    /\ jobs[run[w].id].events = run[w].events
    /\ clock < run[w].until

RunsHoldRows ==
    \A w \in Worker : Busy(w) /\ run[w].id \notin overran => HoldsRow(w)

QueueInv ==
    /\ TypeOK
    /\ PendingUnique
    /\ EventsApart
    /\ RowsCarry
    /\ RunsCarry
    /\ RunsHoldRows
    /\ RunExclusive

(* A row that is due, one whose lease expired in a crash included, does    *)
(* not stay due: a worker gets to it, whatever the other rows do.          *)
DueIsServed ==
    \A i \in 1 .. MaxJobs :
        i \in DOMAIN jobs /\ Due(i) ~> ~(i \in DOMAIN jobs /\ Due(i))

(* SIGTERM ends the process however the workers' jobs turn out.            *)
ShutdownEnds ==
    stopping ~> ~stopping \/ \A w \in Worker : pc[w] = "stopped"

(* worker.rs:40 and README (Signals): stopping hands the job in hand back  *)
(* to the queue, so that the next process leases it within seconds rather  *)
(* than when the lease runs out.  A hand-back leaves no lease on its row.  *)
(* It does not hold: beside a newer pending row the index refuses it.      *)
HandBackClearsLease ==
    [][\A w \in Worker :
          HandBack(w) /\ run[w].id \in DOMAIN jobs =>
              jobs'[run[w].id].leased_until = Null]_vars
=============================================================================
