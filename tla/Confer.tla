------------------------------- MODULE Confer -------------------------------
(***************************************************************************)
(* /barry confer (checker/multi_review/confer.rs): Other Barry, and then   *)
(* Other Other Barry, is summoned to review the head of a pull request     *)
(* that Barry has reviewed.  Who has posted on a head, and how many        *)
(* confers it has used, is a row of multi_review_runs; the review of the   *)
(* pull request (MultiReviewChecker::run) writes the same row.             *)
(*                                                                         *)
(* Several confers of one pull request run at once: the queue keeps one    *)
(* pending row of the kind, and leases it while another runs.              *)
(***************************************************************************)
EXTENDS Integers, FiniteSets

CONSTANTS
    Worker,
    Row,           \* bound: rows of the kind at a time
    Sha,           \* bound: heads of the pull request
    MaxPerPr,      \* [confer] max_per_pr
    MaxInterrupts, \* bound: runs that fail, are handed back or die
    None

OB  == "other_barry"
OOB == "other_other_barry"
Identity == {"barry", OB, OOB}

ASSUME ConferAssumption ==
    /\ IsFiniteSet(Worker) /\ Worker # {}
    /\ MaxPerPr \in Nat
    /\ MaxInterrupts \in Nat
    /\ None \notin Row \cup Sha \cup Identity

VARIABLES
    head,        \* GitHub's
    reviewed,    \* reviewed[h]: who the pull request's review posted as, on h
    conferred,   \* conferred[h][i]: how many reviews confers posted as i on h
    runs,        \* runs[h]: the row of multi_review_runs
    queue,       \* queue[j]: the job j, and whether its author is allowed
    at,          \* at[w]: where worker w is in the handler
    job,         \* job[w]: what its run knows
    interrupts,
    lost         \* history: lost[h]: posts on h of runs that ended uncounted

github == <<head, reviewed, conferred>>
vars == <<github, runs, queue, at, job, interrupts, lost>>

NoRow == [state |-> "none", allowed |-> FALSE]

NoJob == [row |-> None, sha |-> None, summon |-> None]

Posted(h, i) == i \in reviewed[h] \/ conferred[h][i] > 0

-----------------------------------------------------------------------------
(* GitHub, and the pull request's review.                                  *)

Push ==
    /\ \E h \in Sha :
          /\ \A i \in Identity : ~Posted(h, i)
          /\ head' = h
    /\ UNCHANGED <<reviewed, conferred, runs, queue, at, job, interrupts, lost>>

(* Barry posts first; Other Barry when they disagree; then Other Other     *)
(* Barry, as the tie-break.  A review of an earlier head may still post.   *)
Before(i) ==
    CASE i = "barry" -> {} [] i = OB -> {"barry"} [] i = OOB -> {"barry", OB}

ReviewPosts(h, i) ==
    /\ reviewed[h] = Before(i)
    /\ reviewed' = [reviewed EXCEPT ![h] = @ \cup {i}]
    /\ UNCHANGED <<head, conferred, runs, queue, at, job, interrupts, lost>>

(* The actor's RecordPost: an upsert. *)
RecordAs(h, i) == runs' = [runs EXCEPT ![h].posted = @ \cup {i}]

(* The review records its posts later, and goes on if that fails. *)
ReviewRecords(h, i) ==
    /\ i \in reviewed[h] \ runs[h].posted
    /\ RecordAs(h, i)
    /\ UNCHANGED <<github, queue, at, job, interrupts, lost>>

-----------------------------------------------------------------------------
(* The queue, as confers see it: one row waits at a time, and one that a   *)
(* run has lost is leased again when its lease is over.                    *)

Waiting == {j \in Row : queue[j].state = "pending"}

(* A comment is merged into the row that waits, its author included.       *)
Comment(j) ==
    /\ Waiting \subseteq {j}
    /\ queue[j].state \in {"none", "pending"}
    /\ \E allowed \in BOOLEAN :
          queue' = [queue EXCEPT ![j] = [state |-> "pending", allowed |-> allowed]]
    /\ UNCHANGED <<github, runs, at, job, interrupts, lost>>

Go(w, from, to) == at[w] = from /\ at' = [at EXCEPT ![w] = to]

Lease(w, j) ==
    /\ Go(w, "idle", "fetching")
    /\ queue[j].state \in {"pending", "expired"}
    /\ queue' = [queue EXCEPT ![j].state = "leased"]
    /\ job' = [job EXCEPT ![w].row = j]
    /\ UNCHANGED <<github, runs, interrupts, lost>>

EndRun(w, state) ==
    /\ at' = [at EXCEPT ![w] = "idle"]
    /\ job' = [job EXCEPT ![w] = NoJob]
    /\ queue' = [queue EXCEPT
          ![job[w].row] = IF state = "none" THEN NoRow ELSE [@ EXCEPT !.state = state]]

Return(w) == EndRun(w, "none")

Uncounted(w) == at[w] \in {"recording", "counting"}

Lose(w) ==
    lost' = IF Uncounted(w) THEN [lost EXCEPT ![job[w].sha] = @ + 1] ELSE lost

(* A request or the database fails, the run is handed back at shutdown, or *)
(* barry dies: the row waits for another attempt, or the lease runs out,   *)
(* or it was the last attempt.                                             *)
Interrupt(w) ==
    /\ at[w] # "idle"
    /\ interrupts < MaxInterrupts
    /\ interrupts' = interrupts + 1
    /\ \E state \in {"none", "expired", "pending"} :
          /\ state = "pending" => Waiting = {}
          /\ EndRun(w, state)
    /\ Lose(w)
    /\ UNCHANGED <<github, runs>>

-----------------------------------------------------------------------------
(* confer::handle, from one await to the next.                             *)

(* The head, and the permission of the author; a failed lookup of it       *)
(* counts as one that is not enough.                                       *)
FetchContext(w) ==
    /\ at[w] = "fetching"
    /\ \/ /\ queue[job[w].row].allowed
          /\ at' = [at EXCEPT ![w] = "choosing"]
          /\ job' = [job EXCEPT ![w].sha = head]
          /\ UNCHANGED queue
       \/ Return(w)
    /\ UNCHANGED <<github, runs, interrupts, lost>>

(* The row as the run finds it, and whom to summon. *)
NoRun(r) == r.posted = {} /\ r.used = 0

\* Variant: the last confer is off by one.
UsedUpLate(r) == r.used > MaxPerPr

UsedUp(r) == r.used >= MaxPerPr

\* Variant: Other Other Barry is tried first.
LastFirst(r) == IF OOB \notin r.posted THEN {OOB} ELSE {OB} \ r.posted

Summons(r) == IF OB \notin r.posted THEN {OB} ELSE {OOB} \ r.posted

Choose(w) ==
    LET r == runs[job[w].sha] IN
    /\ Go(w, "choosing", "reviewing")
    /\ ~NoRun(r) /\ ~UsedUp(r)
    /\ \E i \in Summons(r) : job' = [job EXCEPT ![w].summon = i]
    /\ UNCHANGED <<github, runs, queue, interrupts, lost>>

(* A comment says why nobody is summoned. *)
Decline(w) ==
    LET r == runs[job[w].sha] IN
    /\ at[w] = "choosing"
    /\ NoRun(r) \/ UsedUp(r) \/ Summons(r) = {}
    /\ Return(w)
    /\ UNCHANGED <<github, runs, interrupts, lost>>

(* The preflight, the files and the review; or a comment says that who is  *)
(* summoned is not installed.                                              *)
Review(w) ==
    /\ at[w] = "reviewing"
    /\ \/ at' = [at EXCEPT ![w] = "posting"] /\ UNCHANGED <<queue, job>>
       \/ Return(w)
    /\ UNCHANGED <<github, runs, interrupts, lost>>

(* post_review. *)
Post(w) ==
    /\ Go(w, "posting", "recording")
    /\ conferred' = [conferred EXCEPT ![job[w].sha][job[w].summon] = @ + 1]
    /\ UNCHANGED <<head, reviewed, runs, queue, job, interrupts, lost>>

\* Variant: the post is recorded under the pull request's head of now.
RecordUnderHead(w) == RecordAs(head, job[w].summon)

RecordPost(w) == RecordAs(job[w].sha, job[w].summon)

Record(w) ==
    /\ Go(w, "recording", "counting")
    /\ RecordPost(w)
    /\ UNCHANGED <<github, queue, job, interrupts, lost>>

\* Variant: an upsert that sets the count, as it does for a new row.
ConferUsedOnce(w) == runs' = [runs EXCEPT ![job[w].sha].used = 1]

RecordConferUsed(w) == runs' = [runs EXCEPT ![job[w].sha].used = @ + 1]

Count(w) ==
    /\ at[w] = "counting"
    /\ RecordConferUsed(w)
    /\ Return(w)
    /\ UNCHANGED <<github, interrupts, lost>>

-----------------------------------------------------------------------------
Init ==
    /\ head \in Sha
    /\ reviewed = [h \in Sha |-> {}]
    /\ conferred = [h \in Sha |-> [i \in Identity |-> 0]]
    /\ runs = [h \in Sha |-> [posted |-> {}, used |-> 0]]
    /\ queue = [j \in Row |-> NoRow]
    /\ at = [w \in Worker |-> "idle"]
    /\ job = [w \in Worker |-> NoJob]
    /\ interrupts = 0
    /\ lost = [h \in Sha |-> 0]

Handle(w) ==
    FetchContext(w) \/ Choose(w) \/ Decline(w) \/ Review(w) \/ Post(w)
    \/ Record(w) \/ Count(w)

Next ==
    \/ Push
    \/ \E h \in Sha, i \in Identity : ReviewPosts(h, i) \/ ReviewRecords(h, i)
    \/ \E j \in Row : Comment(j) \/ \E w \in Worker : Lease(w, j)
    \/ \E w \in Worker : Handle(w) \/ Interrupt(w)

Spec == Init /\ [][Next]_vars

-----------------------------------------------------------------------------
(* Properties.                                                             *)

(* Types: a worker that is not idle has a row, and what it has read.       *)
TypeOK ==
    /\ head \in Sha
    /\ reviewed \in [Sha -> SUBSET Identity]
    /\ conferred \in [Sha -> [Identity -> Nat]]
    /\ runs \in [Sha -> [posted : SUBSET Identity, used : Nat]]
    /\ queue \in [Row -> [state : {"none", "pending", "leased", "expired"},
                         allowed : BOOLEAN]]
    /\ at \in [Worker -> {"idle", "fetching", "choosing", "reviewing", "posting",
                          "recording", "counting"}]
    /\ job \in [Worker -> [row : Row \cup {None}, sha : Sha \cup {None},
                           summon : {OB, OOB, None}]]
    /\ interrupts \in 0 .. MaxInterrupts
    /\ lost \in [Sha -> Nat]
    /\ \A w \in Worker :
          /\ at[w] = "idle" <=> job[w].row = None
          /\ at[w] \notin {"idle", "fetching"} => job[w].sha # None
          /\ at[w] \notin {"idle", "fetching", "choosing"} => job[w].summon # None

(* What is on record was posted, on that head: a Barry who has not posted  *)
(* is never passed over (multi_review.rs:25).                              *)
RecordsAreTrue == \A h \in Sha : \A i \in runs[h].posted : Posted(h, i)

(* "Summons the next unposted reviewer (OB, then OOB)" (README.md:235):    *)
(* Other Other Barry is on a head only after Other Barry, whoever of the   *)
(* review, its tie-break and the confers posted and recorded in between.   *)
LastComesLast == \A h \in Sha : Posted(h, OOB) => Posted(h, OB)

(* Every review that a confer posted is counted, is being counted by the   *)
(* run that posted it, or belonged to a run that was interrupted before    *)
(* it was (actor.rs, RecordConferUsed).                                    *)
Counting(h) == {w \in Worker : Uncounted(w) /\ job[w].sha = h}

ConfersAreCounted ==
    \A h \in Sha :
        conferred[h][OB] + conferred[h][OOB]
          = runs[h].used + Cardinality(Counting(h)) + lost[h]

(* The budget of a head is overrun by no more than the runs that were      *)
(* under way together: each passed the check of max_per_pr (confer.rs:70)  *)
(* before another was counted.                                             *)
Admitted(h) ==
    {w \in Worker :
        at[w] \in {"reviewing", "posting", "recording", "counting"} /\ job[w].sha = h}

BudgetHolds ==
    \A h \in Sha :
        \/ runs[h].used = 0 /\ Admitted(h) = {}
        \/ runs[h].used + Cardinality(Admitted(h))
             <= MaxPerPr + Cardinality(Worker) - 1

(* "Summons the next unposted reviewer (OB, then OOB)" (README.md:235):    *)
(* nobody is summoned twice to a head.  It does not hold: two runs may     *)
(* choose before either posts.                                             *)
SummonsUnposted == \A h \in Sha : \A i \in Identity : conferred[h][i] <= 1

(* The inductive invariant behind RecordsAreTrue and LastComesLast: a run  *)
(* that summons Other Other Barry found Other Barry on record, and one     *)
(* that is to record a post has made it.                                   *)
InHand == {"reviewing", "posting", "recording", "counting"}

SummonsInOrder ==
    \A w \in Worker :
        /\ at[w] \in InHand /\ job[w].summon = OOB => Posted(job[w].sha, OB)
        /\ at[w] = "recording" => Posted(job[w].sha, job[w].summon)

ConferInv ==
    /\ TypeOK
    /\ RecordsAreTrue /\ LastComesLast /\ SummonsInOrder
    /\ ConfersAreCounted
    /\ BudgetHolds
=============================================================================
