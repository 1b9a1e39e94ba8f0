---------------------------- MODULE GitHubWrite ----------------------------
(***************************************************************************)
(* GitHub::write (github/client.rs): a write that is retried for minutes   *)
(* after failures that may be transient, and that is not sent again after  *)
(* one that GitHub may have applied until two lookups found no copy of it  *)
(* (github/pr.rs, find_recent_review and find_recent_comment).             *)
(*                                                                         *)
(* Several calls may be under way, of one text or of different ones.       *)
(* GitHub records a write it applies and shows it some time later; its     *)
(* clock is not barry's.                                                   *)
(***************************************************************************)
EXTENDS Integers, Sequences

CONSTANTS
    Call,          \* calls of the client's writes
    Unique,        \* the calls of post_unique: they look before they resend
    Text,          \* what each call writes, and where
    Deadline,      \* WriteRetry::deadline
    BaseDelay,     \* WriteRetry::base_delay
    MaxDelay,      \* WriteRetry::max_delay
    LookupSettle,  \* WriteRetry::lookup_settle
    ClockSlack,    \* LANDED_CLOCK_SLACK
    RetryAfter,    \* waits GitHub may ask for
    Lag,           \* how long after an attempt failed GitHub may first show it
    Skew,          \* how far GitHub's clock and barry's may be apart
    MaxTime        \* bound: last value of the clock

ASSUME WriteAssumption ==
    /\ Unique \subseteq Call
    /\ Deadline \in Nat /\ LookupSettle \in Nat /\ ClockSlack \in Nat
    /\ BaseDelay \in Nat \ {0} /\ MaxDelay \in Nat /\ BaseDelay <= MaxDelay
    /\ RetryAfter \subseteq Nat
    /\ Lag \in Nat /\ Lag <= 2 * LookupSettle
    /\ Skew \in Nat /\ Skew <= ClockSlack
    /\ MaxTime \in Nat

VARIABLES
    clock,
    copies,     \* GitHub's, by call: createdAt, and when it first shows
    at,         \* where each call is
    started,    \* when it began
    backoff,    \* its next wait, before the jitter
    owed,       \* lookups_owed
    wake        \* when its wait is over

locals == <<started, backoff, owed, wake>>
vars == <<clock, copies, at, locals>>

Ended(c) == at[c] \in {"ok", "failed"}

-----------------------------------------------------------------------------
(* GitHub applies an attempt of call c.  One that it has queued when the   *)
(* attempt fails is one that it shows late.                                *)
Applied(c) ==
    \E created \in clock - Skew .. clock + Skew, shown \in clock .. clock + Lag :
        copies' = [copies EXCEPT ![c] =
                      Append(@, [created |-> created, shown |-> shown])]

\* Variant: a copy must be as new as the call by barry's own clock.
SinceStart(c) == started[c]

Since(c) == started[c] - ClockSlack

(* A copy that the lookup of call c may find: anybody's with its text.     *)
Matches(c, copy) == copy.shown <= clock /\ copy.created >= Since(c)

Found(c) ==
    {d \in Call :
        /\ Text[d] = Text[c]
        /\ \E i \in DOMAIN copies[d] : Matches(c, copies[d][i])}

-----------------------------------------------------------------------------
(* The loop of write.                                                      *)

Start(c) ==
    /\ at[c] = "idle"
    /\ clock + Deadline <= MaxTime
    /\ at' = [at EXCEPT ![c] = "sending"]
    /\ started' = [started EXCEPT ![c] = clock]
    /\ UNCHANGED <<clock, copies, backoff, owed, wake>>

(* The call returns, and its locals are gone. *)
Return(c, result) ==
    /\ at' = [at EXCEPT ![c] = result]
    /\ started' = [started EXCEPT ![c] = 0]
    /\ backoff' = [backoff EXCEPT ![c] = BaseDelay]
    /\ owed' = [owed EXCEPT ![c] = 0]
    /\ wake' = [wake EXCEPT ![c] = 0]

Larger(a, b)  == IF a >= b THEN a ELSE b
Smaller(a, b) == IF a <= b THEN a ELSE b

(* jittered, and after_retry_after: the waits they may return. *)
Jittered(d) == d - d \div 2 .. d
Asked       == UNION {w + w \div 8 .. w + w \div 4 : w \in RetryAfter}

Settled(w, lookups) == IF lookups > 0 THEN Larger(w, LookupSettle) ELSE w

\* Variant: the deadline is forgotten.
NeverTooLate(c, w) == FALSE

TooLate(c, w) == clock - started[c] + w > Deadline

(* Wait w, with so many lookups owed, unless it would end too late.        *)
WaitOrGiveUp(c, w, lookups, nextBackoff) ==
    LET wait == Settled(w, lookups) IN
    IF TooLate(c, wait)
    THEN Return(c, "failed")
    ELSE /\ at' = [at EXCEPT ![c] = "waiting"]
         /\ wake' = [wake EXCEPT ![c] = clock + wait]
         /\ owed' = [owed EXCEPT ![c] = lookups]
         /\ backoff' = [backoff EXCEPT ![c] = nextBackoff]
         /\ UNCHANGED started

NextBackoff(c) == Smaller(2 * backoff[c], MaxDelay)

BackOff(c, lookups) ==
    \E w \in Jittered(backoff[c]) : WaitOrGiveUp(c, w, lookups, NextBackoff(c))

(* GitHub asks for a wait, or does not. *)
TryLater(c, lookups) ==
    \/ BackOff(c, lookups)
    \/ \E w \in Asked : WaitOrGiveUp(c, w, lookups, backoff[c])

(* GitHub answers with success.  The answer may not parse, which for a     *)
(* write that lands once at most is an error.                              *)
Succeed(c) ==
    /\ at[c] = "sending"
    /\ Applied(c)
    /\ \/ Return(c, "ok")
       \/ c \in Unique /\ Return(c, "failed")
    /\ UNCHANGED clock

(* Applied::Never: another 4xx, or the primary rate limit. *)
Reject(c) ==
    /\ at[c] = "sending"
    /\ Return(c, "failed")
    /\ UNCHANGED <<clock, copies>>

(* Applied::No: no connection, 429, or the secondary rate limit. *)
Refuse(c) ==
    /\ at[c] = "sending"
    /\ TryLater(c, 0)
    /\ UNCHANGED <<clock, copies>>

\* Variant: one lookup is enough.
OneLookup(c) == IF c \in Unique THEN 1 ELSE 0

LookupsBeforeResend(c) == IF c \in Unique THEN 2 ELSE 0

(* Applied::Unknown: a 5xx, or no answer.  GitHub may have applied it.     *)
Fail(c) ==
    /\ at[c] = "sending"
    /\ Applied(c) \/ UNCHANGED copies
    /\ TryLater(c, LookupsBeforeResend(c))
    /\ UNCHANGED clock

WakeUp(c) ==
    /\ at[c] = "waiting"
    /\ clock >= wake[c]
    /\ at' = [at EXCEPT ![c] = IF owed[c] > 0 THEN "looking" ELSE "sending"]
    /\ UNCHANGED <<clock, copies, started, backoff, owed, wake>>

(* A lookup finds a copy, which is taken for this call's. *)
Find(c) ==
    /\ at[c] = "looking"
    /\ Found(c) # {}
    /\ Return(c, "ok")
    /\ UNCHANGED <<clock, copies>>

(* A lookup finds none: the last one owed is followed by the write.        *)
FindNone(c) ==
    /\ at[c] = "looking"
    /\ Found(c) = {}
    /\ IF owed[c] = 1
       THEN /\ at' = [at EXCEPT ![c] = "sending"]
            /\ owed' = [owed EXCEPT ![c] = 0]
            /\ UNCHANGED <<started, backoff, wake>>
       ELSE BackOff(c, owed[c] - 1)
    /\ UNCHANGED <<clock, copies>>

(* A lookup fails, and does not count.  *)
LookupFails(c) ==
    /\ at[c] = "looking"
    /\ BackOff(c, owed[c])
    /\ UNCHANGED <<clock, copies>>

(* The cancel token fires during a wait, or had fired before it.           *)
StopWaiting(c) ==
    /\ at[c] = "waiting"
    /\ Return(c, "failed")
    /\ UNCHANGED <<clock, copies>>

Tick ==
    /\ clock < MaxTime
    /\ clock' = clock + 1
    /\ UNCHANGED <<copies, at, locals>>

-----------------------------------------------------------------------------
Init ==
    /\ clock = 0
    /\ copies = [c \in Call |-> <<>>]
    /\ at = [c \in Call |-> "idle"]
    /\ started = [c \in Call |-> 0]
    /\ backoff = [c \in Call |-> BaseDelay]
    /\ owed = [c \in Call |-> 0]
    /\ wake = [c \in Call |-> 0]

Answer(c) == Succeed(c) \/ Reject(c) \/ Refuse(c) \/ Fail(c)

Look(c) == Find(c) \/ FindNone(c) \/ LookupFails(c)

Next ==
    \/ \E c \in Call :
          Start(c) \/ Answer(c) \/ Look(c) \/ WakeUp(c) \/ StopWaiting(c)
    \/ Tick

Spec == Init /\ [][Next]_vars

(* Time passes; every request is answered, or times out; a wait that is    *)
(* over is left.                                                           *)
Fairness ==
    /\ WF_vars(Tick)
    /\ \A c \in Call : WF_vars(Answer(c) \/ Look(c)) /\ WF_vars(WakeUp(c))

FairSpec == Spec /\ Fairness

-----------------------------------------------------------------------------
(* Properties.                                                             *)

(* Types: lookups are owed by waiting calls that may not be sent twice.    *)
TypeOK ==
    /\ clock \in 0 .. MaxTime
    /\ copies \in [Call -> Seq([created : Int, shown : Nat])]
    /\ at \in [Call -> {"idle", "sending", "waiting", "looking", "ok", "failed"}]
    /\ started \in [Call -> 0 .. MaxTime]
    /\ backoff \in [Call -> 1 .. MaxDelay]
    /\ owed \in [Call -> 0 .. 2]
    /\ wake \in [Call -> Nat]
    /\ \A c \in Call : owed[c] > 0 => c \in Unique

(* "Sending it twice would duplicate it" (client.rs:262): a review or a    *)
(* comment lands once at most, whatever fails, as long as GitHub shows it  *)
(* within two settling times and the clocks agree within the slack.        *)
LandsOnce == \A c \in Unique : Len(copies[c]) <= 1

(* The write keeps what UniquePost promises: in particular a copy that is  *)
(* taken for a call's own is of its text (pr.rs:457).                      *)
Landed == [c \in Call |-> Len(copies[c])]
Result == [c \in Call |-> IF Ended(c) THEN at[c] ELSE "none"]

Promise == INSTANCE UniquePost WITH landed <- Landed, result <- Result

PromiseKept == Promise!Spec

(* A call returns, however GitHub answers (client.rs:50, deadline).        *)
CallReturns == \A c \in Call : at[c] = "sending" ~> Ended(c)

(* The inductive invariant behind LandsOnce: while a call that has a copy  *)
(* goes on, it owes lookups, and the copy will show by the last of them.   *)
CopyShows(c) ==
    LET copy == copies[c][1] IN
    /\ copy.created >= Since(c)
    /\ at[c] \in {"waiting", "looking"}
    /\ owed[c] > 0
    /\ owed[c] = 1 => copy.shown <= wake[c]
    /\ owed[c] = 2 => copy.shown <= wake[c] + LookupSettle

CopiesShow ==
    \A c \in Unique : copies[c] # <<>> /\ ~Ended(c) => CopyShows(c)

InOrder ==
    \A c \in Call :
        /\ started[c] <= clock
        /\ at[c] = "looking" => wake[c] <= clock /\ owed[c] > 0

WriteInv == TypeOK /\ LandsOnce /\ CopiesShow /\ InOrder
=============================================================================
