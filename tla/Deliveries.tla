----------------------------- MODULE Deliveries -----------------------------
(***************************************************************************)
(* How the webhook server acts on a delivery once however often it is      *)
(* sent: the event's age, the claim of its body in seen_deliveries, the    *)
(* pruning of old claims, and the release of a claim whose job could not   *)
(* be queued (webhook/server.rs, storage/deliveries.rs).                   *)
(*                                                                         *)
(* Copies of a delivery may be handled at once.  A handler reads the clock *)
(* once and may then be slow; a handler is dropped when its client hangs   *)
(* up or the process ends.  Each statement on the database is one step.    *)
(***************************************************************************)
EXTENDS Integers

CONSTANTS
    Body,        \* delivery bodies (their SHA-256)
    Handler,     \* handlers of requests
    Retention,   \* DELIVERY_RETENTION_SECS
    StaleAfter,  \* STALE_AFTER_SECS
    Skew,        \* how far GitHub's clock and barry's may be apart
    Stall,       \* how long a handler may take
    MaxTime      \* bound: last value of the clock

(* The day between the two constants of deliveries.rs absorbs clock skew;  *)
(* what is left of it is for a slow handler.                               *)
ASSUME DeliveriesAssumption ==
    /\ Retention \in Nat /\ StaleAfter \in Nat /\ Skew \in Nat /\ Stall \in Nat
    /\ StaleAfter + Skew + Stall <= Retention
    /\ MaxTime \in Nat

VARIABLES
    clock,     \* barry's
    happened,  \* when GitHub says the event of a body happened
    seen,      \* seen_deliveries: seen_at, by body
    at,        \* where each handler is
    body,      \* the body it handles
    now,       \* the clock as it read it
    queued,    \* history: jobs queued for each body
    orphaned   \* history: bodies whose claim a handler could not see through

handlers == <<at, body, now>>
vars == <<clock, happened, seen, handlers, queued, orphaned>>

Unborn == MaxTime + Skew + 1   \* the time of an event that has not happened

Happen(b) ==
    /\ happened[b] = Unborn
    /\ \E t \in clock - Skew .. clock + Skew :
          happened' = [happened EXCEPT ![b] = t]
    /\ UNCHANGED <<clock, seen, handlers, queued, orphaned>>

Fresh(b) == clock - happened[b] <= StaleAfter

(* A copy arrives, and is not refused as stale. *)
Arrive(h, b) ==
    /\ at[h] = "idle"
    /\ happened[b] # Unborn
    /\ Fresh(b)
    /\ at' = [at EXCEPT ![h] = "claim"]
    /\ body' = [body EXCEPT ![h] = b]
    /\ now' = [now EXCEPT ![h] = clock]
    /\ UNCHANGED <<clock, happened, seen, queued, orphaned>>

\* Variant: a claim is forgotten as soon as it is as old as the retention.
KeptShorter(h) == {b \in DOMAIN seen : seen[b] > now[h] - Retention}

(* The claims that the pruning of handler h leaves. *)
Kept(h) == {b \in DOMAIN seen : seen[b] >= now[h] - Retention}

Goes(h, to) == at' = [at EXCEPT ![h] = to] /\ UNCHANGED <<body, now>>

\* Variant: the row is inserted or replaced, and always counts as inserted.
AlwaysNew(h) == TRUE

IsNew(h) == body[h] \notin Kept(h)

SeenAt(h) == now[h]

(* ClaimDelivery: prune, and insert the body unless it is there.           *)
Claim(h) ==
    /\ at[h] = "claim"
    /\ IsNew(h)
    /\ seen' = [b \in Kept(h) \cup {body[h]} |->
                   IF b = body[h] THEN SeenAt(h) ELSE seen[b]]
    /\ Goes(h, "claimed")
    /\ UNCHANGED <<clock, happened, queued, orphaned>>

(* The body has been claimed, or (an error) the insert failed after the    *)
(* pruning: the delivery is not acted on.                                  *)
Refuse(h) ==
    /\ at[h] = "claim"
    /\ seen' = [b \in Kept(h) |-> seen[b]]
    /\ Goes(h, "idle")
    /\ UNCHANGED <<clock, happened, queued, orphaned>>

Enqueue(h) ==
    /\ at[h] = "claimed"
    /\ queued' = [queued EXCEPT ![body[h]] = @ + 1]
    /\ Goes(h, "idle")
    /\ UNCHANGED <<clock, happened, seen, orphaned>>

\* Variant: the claim is kept though nothing was queued.
KeepClaim == "idle"

FailedTo == "release"

EnqueueFails(h) ==
    /\ at[h] = "claimed"
    /\ Goes(h, FailedTo)
    /\ UNCHANGED <<clock, happened, seen, queued, orphaned>>

(* ReleaseDelivery: a copy may be claimed again. *)
Release(h) ==
    /\ at[h] = "release"
    /\ seen' = [b \in DOMAIN seen \ {body[h]} |-> seen[b]]
    /\ Goes(h, "idle")
    /\ UNCHANGED <<clock, happened, queued, orphaned>>

(* The release fails too, or the handler is dropped. *)
Drop(h) ==
    /\ at[h] # "idle"
    /\ orphaned' = IF at[h] = "claim" THEN orphaned ELSE orphaned \cup {body[h]}
    /\ Goes(h, "idle")
    /\ UNCHANGED <<clock, happened, seen, queued>>

Tick ==
    /\ clock < MaxTime
    /\ \A h \in Handler : at[h] # "idle" => clock - now[h] < Stall
    /\ clock' = clock + 1
    /\ UNCHANGED <<happened, seen, handlers, queued, orphaned>>

-----------------------------------------------------------------------------
Init ==
    /\ clock = 0
    /\ happened = [b \in Body |-> Unborn]
    /\ seen = [b \in {} |-> 0]
    /\ at = [h \in Handler |-> "idle"]
    /\ body \in [Handler -> Body]
    /\ now = [h \in Handler |-> 0]
    /\ queued = [b \in Body |-> 0]
    /\ orphaned = {}

Handle(h) ==
    \/ \E b \in Body : Arrive(h, b)
    \/ Claim(h)
    \/ Refuse(h)
    \/ Enqueue(h)
    \/ EnqueueFails(h)
    \/ Release(h)
    \/ Drop(h)

Next ==
    \/ \E b \in Body : Happen(b)
    \/ \E h \in Handler : Handle(h)
    \/ Tick

Spec == Init /\ [][Next]_vars

-----------------------------------------------------------------------------
(* Properties.                                                             *)

InHand(h) == at[h] \in {"claimed", "release"}

(* Types: a claim is dated by barry's clock, which is what prune_before is *)
(* compared with, whatever GitHub's says.                                  *)
TypeOK ==
    /\ clock \in 0 .. MaxTime
    /\ happened \in [Body -> Int]
    /\ DOMAIN seen \subseteq Body
    /\ seen \in [DOMAIN seen -> 0 .. MaxTime]
    /\ at \in [Handler -> {"idle", "claim", "claimed", "release"}]
    /\ body \in [Handler -> Body]
    /\ now \in [Handler -> 0 .. MaxTime]
    /\ queued \in [Body -> Nat]
    /\ orphaned \subseteq Body

(* However often a delivery is sent, by whomever and whenever, one job at  *)
(* most comes of it (server.rs:274): claims are pruned, but not while a    *)
(* copy may still pass for fresh, clock skew and slow handlers included.   *)
ActedOnce == \A b \in Body : queued[b] <= 1

(* Two handlers never hold the claim of one body, so that neither releases *)
(* what the other is acting on.                                            *)
OneHolder ==
    \A g, h \in Handler :
        InHand(g) /\ InHand(h) /\ body[g] = body[h] => g = h

(* "Nothing was queued, so a redelivery of this body must be accepted"     *)
(* (server.rs:515): a claim that refuses copies has its job queued, or its *)
(* handler at work, unless that was dropped or could not release it.       *)
RefusedForAReason ==
    \A b \in DOMAIN seen :
        \/ queued[b] = 1
        \/ \E h \in Handler : InHand(h) /\ body[h] = b
        \/ b \in orphaned

(* The inductive invariant.  A body that was acted on, or is in hand, is   *)
(* remembered, or no handler can take a copy of it for fresh any more.     *)
Taken(b) == queued[b] > 0 \/ \E h \in Handler : InHand(h) /\ body[h] = b

HandlersOK ==
    \A h \in Handler : at[h] # "idle" =>
        /\ now[h] <= clock /\ clock - now[h] <= Stall
        /\ happened[body[h]] # Unborn
        /\ now[h] - happened[body[h]] <= StaleAfter
        /\ happened[body[h]] - Skew <= now[h]

ClaimsOK ==
    \A b \in DOMAIN seen :
        /\ happened[b] # Unborn
        /\ happened[b] - Skew <= seen[b]

TakenIsRemembered ==
    \A b \in Body : Taken(b) =>
        /\ happened[b] # Unborn
        /\ \/ b \in DOMAIN seen
           \/ happened[b] + StaleAfter + Stall < clock

HeldIsUnqueued ==
    \A h \in Handler : InHand(h) => queued[body[h]] = 0

PastOK == \A b \in Body : happened[b] # Unborn => happened[b] - Skew <= clock

DeliveriesInv ==
    /\ TypeOK
    /\ PastOK
    /\ HandlersOK
    /\ ClaimsOK
    /\ TakenIsRemembered
    /\ HeldIsUnqueued
    /\ ActedOnce
    /\ OneHolder
    /\ RefusedForAReason
=============================================================================
