--------------------------- MODULE WebhookProofs ---------------------------
(***************************************************************************)
(* Proofs about what brings a delivery to the queue: Deliveries, then      *)
(* Relay.                                                                  *)
(***************************************************************************)
EXTENDS Deliveries, Relay, SequenceTheorems, TLAPS

-----------------------------------------------------------------------------
(* Deliveries, for any bodies and handlers, and any constants with         *)
(* StaleAfter + Skew + Stall <= Retention.                                 *)
(*                                                                         *)
(* A claim is dated no earlier than its event, skew aside (ClaimsOK).  So  *)
(* when one is pruned its event is older than anything a handler may still *)
(* hold for fresh (HandlersOK), and whoever claims a body anew finds that  *)
(* nobody acted on it (NewIsUntaken).                                      *)

(* What a pruning forgets is too old to be taken for fresh: the day        *)
(* between the constants of storage/deliveries.rs is enough.               *)
LEMMA PrunedIsOld ==
    ASSUME DeliveriesInv, NEW h \in Handler, at[h] # "idle",
           NEW b \in DOMAIN seen, b \notin Kept(h)
    PROVE  happened[b] + StaleAfter + Stall < clock
<1>1. b \in Body /\ seen[b] \in Int /\ happened[b] \in Int
  BY DEF DeliveriesInv, TypeOK
<1>2. now[h] \in Int /\ clock \in Int
  BY DEF DeliveriesInv, TypeOK
<1>3. now[h] <= clock
  BY DEF DeliveriesInv, HandlersOK
<1>4. happened[b] - Skew <= seen[b]
  BY DEF DeliveriesInv, ClaimsOK
<1>5. ~(seen[b] >= now[h] - Retention)
  BY DEF Kept
<1> QED
  BY <1>1, <1>2, <1>3, <1>4, <1>5, DeliveriesAssumption

(* A handler that finds no claim of its body finds no job of it either,    *)
(* and no handler at work on it (storage/actor.rs:987).                    *)
LEMMA NewIsUntaken ==
    ASSUME DeliveriesInv, NEW h \in Handler, at[h] = "claim", IsNew(h)
    PROVE  /\ queued[body[h]] = 0
           /\ \A g \in Handler : InHand(g) => body[g] # body[h]
<1> DEFINE b == body[h]
<1>1. b \in Body /\ happened[b] \in Int /\ now[h] \in Int /\ clock \in Int
  BY DEF DeliveriesInv, TypeOK
<1>2. now[h] - happened[b] <= StaleAfter /\ clock - now[h] <= Stall
  BY DEF DeliveriesInv, HandlersOK
<1>3. ~(happened[b] + StaleAfter + Stall < clock)
  BY <1>1, <1>2, DeliveriesAssumption
<1>4. b \in DOMAIN seen => b \in Kept(h)
  BY <1>3, PrunedIsOld
<1>5. b \notin DOMAIN seen
  BY <1>4 DEF IsNew
<1>6. ~Taken(b)
  BY <1>1, <1>3, <1>5 DEF DeliveriesInv, TakenIsRemembered
<1>7. queued[b] \in Nat
  BY <1>1 DEF DeliveriesInv, TypeOK
<1> QED
  BY <1>6, <1>7 DEF Taken

(* What every step of a handler from the claim on leaves as it was.        *)
LEMMA GoesKeeps ==
    ASSUME TypeOK, NEW h \in Handler,
           NEW to \in {"idle", "claim", "claimed", "release"}, Goes(h, to)
    PROVE  /\ at' \in [Handler -> {"idle", "claim", "claimed", "release"}]
           /\ body' = body /\ now' = now
           /\ at'[h] = to
           /\ \A g \in Handler : g # h => at'[g] = at[g]
BY DEF TypeOK, Goes

LEMMA Initially == Init => DeliveriesInv
<1> SUFFICES ASSUME Init PROVE DeliveriesInv
  OBVIOUS
<1>1. TypeOK
  BY DeliveriesAssumption DEF Init, TypeOK, Unborn
<1>2. \A h \in Handler : at[h] = "idle"
  BY DEF Init
<1>3. \A b \in Body : queued[b] = 0 /\ happened[b] = Unborn
  BY DEF Init
<1>4. DOMAIN seen = {}
  BY DEF Init
<1>5. HandlersOK /\ HeldIsUnqueued /\ OneHolder
  BY <1>2 DEF HandlersOK, HeldIsUnqueued, OneHolder, InHand
<1>6. ClaimsOK /\ RefusedForAReason
  BY <1>4 DEF ClaimsOK, RefusedForAReason
<1>7. TakenIsRemembered
  BY <1>2, <1>3 DEF TakenIsRemembered, Taken, InHand
<1>8. PastOK /\ ActedOnce
  BY <1>3 DEF PastOK, ActedOnce
<1> QED
  BY <1>1, <1>5, <1>6, <1>7, <1>8 DEF DeliveriesInv

LEMMA HappenKeeps ==
    ASSUME DeliveriesInv, NEW b \in Body, Happen(b)
    PROVE  DeliveriesInv'
<1> USE DEF Happen, handlers
<1>1. PICK t \in clock - Skew .. clock + Skew :
         happened' = [happened EXCEPT ![b] = t]
  OBVIOUS
<1>2. happened \in [Body -> Int] /\ clock \in 0 .. MaxTime
  BY DEF DeliveriesInv, TypeOK
<1>3. t \in Int /\ t - Skew <= clock /\ t # Unborn
  BY <1>2, DeliveriesAssumption DEF Unborn
<1>4. /\ happened' \in [Body -> Int]
      /\ happened'[b] = t
      /\ \A c \in Body : c # b => happened'[c] = happened[c]
  BY <1>1, <1>2, <1>3
<1>5. happened[b] = Unborn
  OBVIOUS
<1>6. TypeOK'
  BY <1>4 DEF DeliveriesInv, TypeOK
<1>7. PastOK'
  BY <1>3, <1>4 DEF DeliveriesInv, PastOK, Unborn
<1>8. HandlersOK'
  <2>1. body \in [Handler -> Body]
    BY DEF DeliveriesInv, TypeOK
  <2> QED
    BY <1>4, <1>5, <2>1 DEF DeliveriesInv, HandlersOK, Unborn
<1>9. ClaimsOK'
  <2>1. DOMAIN seen \subseteq Body
    BY DEF DeliveriesInv, TypeOK
  <2> QED
    BY <1>4, <1>5, <2>1 DEF DeliveriesInv, ClaimsOK, Unborn
<1>10. TakenIsRemembered'
  <2>1. \A c \in Body : Taken(c)' <=> Taken(c)
    BY DEF Taken, InHand
  <2> QED
    BY <1>4, <1>5, <2>1 DEF DeliveriesInv, TakenIsRemembered, Unborn
<1>11. HeldIsUnqueued' /\ ActedOnce' /\ OneHolder' /\ RefusedForAReason'
  BY DEF DeliveriesInv, HeldIsUnqueued, ActedOnce, OneHolder, InHand,
         RefusedForAReason
<1> QED
  BY <1>6, <1>7, <1>8, <1>9, <1>10, <1>11 DEF DeliveriesInv

LEMMA ArriveKeeps ==
    ASSUME DeliveriesInv, NEW h \in Handler, NEW b \in Body, Arrive(h, b)
    PROVE  DeliveriesInv'
<1> USE DEF Arrive
<1>1. /\ at' \in [Handler -> {"idle", "claim", "claimed", "release"}]
      /\ body' \in [Handler -> Body] /\ now' \in [Handler -> 0 .. MaxTime]
      /\ at'[h] = "claim" /\ body'[h] = b /\ now'[h] = clock
      /\ \A g \in Handler : g # h =>
            at'[g] = at[g] /\ body'[g] = body[g] /\ now'[g] = now[g]
  BY DEF DeliveriesInv, TypeOK
<1>2. \A g \in Handler : /\ InHand(g)' <=> InHand(g)
                         /\ InHand(g) => body'[g] = body[g]
  BY <1>1 DEF InHand
<1>3. TypeOK' /\ PastOK' /\ ClaimsOK'
  BY <1>1 DEF DeliveriesInv, TypeOK, PastOK, ClaimsOK, Unborn
<1>4. HandlersOK'
  <2> SUFFICES ASSUME NEW g \in Handler, at'[g] # "idle"
               PROVE  /\ now'[g] <= clock /\ clock - now'[g] <= Stall
                      /\ happened[body'[g]] # Unborn
                      /\ now'[g] - happened[body'[g]] <= StaleAfter
                      /\ happened[body'[g]] - Skew <= now'[g]
    BY DEF HandlersOK, Unborn
  <2>1. CASE g # h
    BY <1>1, <2>1 DEF DeliveriesInv, HandlersOK
  <2>2. CASE g = h
    <3>1. clock \in Int
      BY DEF DeliveriesInv, TypeOK
    <3> QED
      BY <1>1, <2>2, <3>1, DeliveriesAssumption
      DEF Fresh, DeliveriesInv, PastOK
  <2> QED
    BY <2>1, <2>2
<1>5. \A c \in Body : Taken(c)' <=> Taken(c)
  BY <1>2 DEF Taken
<1>6. TakenIsRemembered'
  BY <1>5 DEF DeliveriesInv, TakenIsRemembered, Unborn
<1>7. HeldIsUnqueued' /\ ActedOnce' /\ OneHolder' /\ RefusedForAReason'
  BY <1>2 DEF DeliveriesInv, HeldIsUnqueued, ActedOnce, OneHolder,
              RefusedForAReason
<1> QED
  BY <1>3, <1>4, <1>6, <1>7 DEF DeliveriesInv

(* A handler that goes on, with nothing but the tables changed, keeps its  *)
(* clock and its body.                                                     *)
LEMMA HandlersStayOK ==
    ASSUME DeliveriesInv, NEW h \in Handler, at[h] # "idle",
           NEW to \in {"idle", "claim", "claimed", "release"}, Goes(h, to),
           UNCHANGED <<clock, happened>>
    PROVE  HandlersOK' /\ PastOK'
<1>1. TypeOK
  BY DEF DeliveriesInv
<1>2. body' = body /\ now' = now /\ \A g \in Handler : g # h => at'[g] = at[g]
  BY <1>1, GoesKeeps
<1>3. \A g \in Handler : at'[g] # "idle" => at[g] # "idle"
  BY <1>2
<1> QED
  BY <1>2, <1>3 DEF DeliveriesInv, HandlersOK, PastOK, Unborn

(* After a pruning, and with no body taken anew, what was taken is         *)
(* remembered or too old.                                                  *)
LEMMA PruningForgetsTheOld ==
    ASSUME DeliveriesInv, NEW h \in Handler, at[h] # "idle",
           UNCHANGED <<clock, happened>>, Kept(h) \subseteq DOMAIN seen',
           NEW b \in Body, Taken(b)
    PROVE  /\ happened'[b] # Unborn
           /\ \/ b \in DOMAIN seen'
              \/ happened'[b] + StaleAfter + Stall < clock'
<1>1. /\ happened[b] # Unborn
      /\ \/ b \in DOMAIN seen
         \/ happened[b] + StaleAfter + Stall < clock
  BY DEF DeliveriesInv, TakenIsRemembered
<1>2. b \in DOMAIN seen /\ b \notin Kept(h) =>
         happened[b] + StaleAfter + Stall < clock
  BY PrunedIsOld
<1> QED
  BY <1>1, <1>2

LEMMA ClaimKeeps ==
    ASSUME DeliveriesInv, NEW h \in Handler, Claim(h)
    PROVE  DeliveriesInv'
<1> DEFINE b == body[h]
<1> USE DEF Claim
<1>1. TypeOK
  BY DEF DeliveriesInv
<1>2. /\ at' \in [Handler -> {"idle", "claim", "claimed", "release"}]
      /\ body' = body /\ now' = now /\ at'[h] = "claimed"
      /\ \A g \in Handler : g # h => at'[g] = at[g]
  BY <1>1, GoesKeeps
<1>3. /\ queued[b] = 0
      /\ \A g \in Handler : InHand(g) => body[g] # b
  BY NewIsUntaken
<1>4. b \in Body /\ now[h] \in 0 .. MaxTime
  BY <1>1 DEF TypeOK
<1>5. \A g \in Handler : InHand(g)' <=> g = h \/ InHand(g)
  BY <1>2 DEF InHand
<1>6. /\ DOMAIN seen' = Kept(h) \cup {b}
      /\ seen'[b] = now[h]
      /\ \A c \in Kept(h) : c # b => seen'[c] = seen[c]
  BY DEF SeenAt
<1>7. Kept(h) \subseteq DOMAIN seen
  BY DEF Kept
<1>8. TypeOK'
  <2>1. seen' \in [DOMAIN seen' -> 0 .. MaxTime] /\ DOMAIN seen' \subseteq Body
    BY <1>1, <1>4, <1>7 DEF TypeOK, SeenAt
  <2> QED
    BY <1>1, <1>2, <2>1 DEF TypeOK
<1>9. HandlersOK' /\ PastOK'
  BY HandlersStayOK
<1>10. ClaimsOK'
  <2>1. happened[b] # Unborn /\ happened[b] - Skew <= now[h]
    BY DEF DeliveriesInv, HandlersOK
  <2>2. \A c \in DOMAIN seen : happened[c] # Unborn /\ happened[c] - Skew <= seen[c]
    BY DEF DeliveriesInv, ClaimsOK
  <2> QED
    BY <1>6, <1>7, <2>1, <2>2 DEF ClaimsOK, Unborn
<1>11. TakenIsRemembered'
  <2> SUFFICES ASSUME NEW c \in Body, Taken(c)'
               PROVE  /\ happened'[c] # Unborn
                      /\ \/ c \in DOMAIN seen'
                         \/ happened'[c] + StaleAfter + Stall < clock'
    BY DEF TakenIsRemembered, Unborn
  <2>1. CASE c = b
    BY <1>6, <2>1 DEF DeliveriesInv, HandlersOK
  <2>2. CASE c # b
    <3>1. Taken(c)
      BY <1>2, <1>5, <2>2 DEF Taken
    <3> QED
      BY <1>6, <3>1, PruningForgetsTheOld
  <2> QED
    BY <2>1, <2>2
<1>12. HeldIsUnqueued' /\ ActedOnce' /\ OneHolder'
  BY <1>2, <1>3, <1>5 DEF DeliveriesInv, HeldIsUnqueued, ActedOnce, OneHolder
<1>13. RefusedForAReason'
  <2>1. \A c \in DOMAIN seen' : c # b => c \in DOMAIN seen
    BY <1>6, <1>7
  <2> QED
    BY <1>2, <1>5, <2>1 DEF DeliveriesInv, RefusedForAReason
<1> QED
  BY <1>8, <1>9, <1>10, <1>11, <1>12, <1>13 DEF DeliveriesInv

LEMMA RefuseKeeps ==
    ASSUME DeliveriesInv, NEW h \in Handler, Refuse(h)
    PROVE  DeliveriesInv'
<1> USE DEF Refuse
<1>1. TypeOK
  BY DEF DeliveriesInv
<1>2. /\ at' \in [Handler -> {"idle", "claim", "claimed", "release"}]
      /\ body' = body /\ now' = now /\ at'[h] = "idle"
      /\ \A g \in Handler : g # h => at'[g] = at[g]
  BY <1>1, GoesKeeps
<1>3. \A g \in Handler : InHand(g)' <=> InHand(g)
  BY <1>2 DEF InHand
<1>4. /\ DOMAIN seen' = Kept(h)
      /\ \A c \in Kept(h) : seen'[c] = seen[c]
      /\ Kept(h) \subseteq DOMAIN seen
  BY DEF Kept
<1>5. TypeOK'
  BY <1>1, <1>2, <1>4 DEF TypeOK
<1>6. HandlersOK' /\ PastOK'
  BY HandlersStayOK
<1>7. ClaimsOK'
  BY <1>4 DEF DeliveriesInv, ClaimsOK, Unborn
<1>8. TakenIsRemembered'
  <2>1. \A c \in Body : Taken(c)' <=> Taken(c)
    BY <1>2, <1>3 DEF Taken
  <2> QED
    BY <1>4, <2>1, PruningForgetsTheOld DEF TakenIsRemembered, Unborn
<1>9. HeldIsUnqueued' /\ ActedOnce' /\ OneHolder' /\ RefusedForAReason'
  BY <1>2, <1>3, <1>4 DEF DeliveriesInv, HeldIsUnqueued, ActedOnce, OneHolder,
                          RefusedForAReason
<1> QED
  BY <1>5, <1>6, <1>7, <1>8, <1>9 DEF DeliveriesInv

LEMMA EnqueueKeeps ==
    ASSUME DeliveriesInv, NEW h \in Handler, Enqueue(h)
    PROVE  DeliveriesInv'
<1> DEFINE b == body[h]
<1> USE DEF Enqueue
<1>1. TypeOK
  BY DEF DeliveriesInv
<1>2. /\ at' \in [Handler -> {"idle", "claim", "claimed", "release"}]
      /\ body' = body /\ now' = now /\ at'[h] = "idle"
      /\ \A g \in Handler : g # h => at'[g] = at[g]
  BY <1>1, GoesKeeps
<1>3. \A g \in Handler : InHand(g)' <=> InHand(g) /\ g # h
  BY <1>2 DEF InHand
<1>4. InHand(h) /\ b \in Body /\ queued \in [Body -> Nat]
  BY <1>1 DEF InHand, TypeOK
<1>5. queued[b] = 0
  BY <1>4 DEF DeliveriesInv, HeldIsUnqueued
<1>6. /\ queued' \in [Body -> Nat] /\ queued'[b] = 1
      /\ \A c \in Body : c # b => queued'[c] = queued[c]
  BY <1>4, <1>5
<1>7. TypeOK'
  BY <1>1, <1>2, <1>6 DEF TypeOK
<1>8. HandlersOK' /\ PastOK'
  BY HandlersStayOK
<1>9. ClaimsOK'
  BY DEF DeliveriesInv, ClaimsOK, Unborn
<1>10. TakenIsRemembered'
  <2>1. ASSUME NEW c \in Body, Taken(c)' PROVE Taken(c)
    <3>1. Taken(b)
      BY <1>4 DEF Taken
    <3>2. CASE c # b
      BY <1>2, <1>3, <1>6, <2>1, <3>2 DEF Taken
    <3> QED
      BY <3>1, <3>2
  <2> QED
    BY <2>1 DEF DeliveriesInv, TakenIsRemembered, Unborn
<1>11. HeldIsUnqueued'
  <2> SUFFICES ASSUME NEW g \in Handler, InHand(g), g # h
               PROVE  queued'[body[g]] = 0
    BY <1>2, <1>3 DEF HeldIsUnqueued
  <2>1. body[g] # b
    BY <1>4 DEF DeliveriesInv, OneHolder
  <2>2. body[g] \in Body
    BY <1>1 DEF TypeOK
  <2> QED
    BY <1>6, <2>1, <2>2 DEF DeliveriesInv, HeldIsUnqueued
<1>12. ActedOnce'
  BY <1>6 DEF DeliveriesInv, ActedOnce
<1>13. OneHolder'
  BY <1>2, <1>3 DEF DeliveriesInv, OneHolder
<1>14. RefusedForAReason'
  <2> SUFFICES ASSUME NEW c \in DOMAIN seen, c # b
               PROVE  \/ queued'[c] = 1
                      \/ \E g \in Handler : InHand(g)' /\ body'[g] = c
                      \/ c \in orphaned'
    BY <1>6 DEF RefusedForAReason
  <2>1. c \in Body
    BY <1>1 DEF TypeOK
  <2> QED
    BY <1>2, <1>3, <1>6, <2>1 DEF DeliveriesInv, RefusedForAReason
<1> QED
  BY <1>7, <1>8, <1>9, <1>10, <1>11, <1>12, <1>13, <1>14 DEF DeliveriesInv

LEMMA EnqueueFailsKeeps ==
    ASSUME DeliveriesInv, NEW h \in Handler, EnqueueFails(h)
    PROVE  DeliveriesInv'
<1> USE DEF EnqueueFails, FailedTo
<1>1. TypeOK
  BY DEF DeliveriesInv
<1>2. /\ at' \in [Handler -> {"idle", "claim", "claimed", "release"}]
      /\ body' = body /\ now' = now /\ at'[h] = "release"
      /\ \A g \in Handler : g # h => at'[g] = at[g]
  BY <1>1, GoesKeeps
<1>3. \A g \in Handler : InHand(g)' <=> InHand(g)
  BY <1>2 DEF InHand
<1>4. TypeOK'
  BY <1>1, <1>2 DEF TypeOK
<1>5. HandlersOK' /\ PastOK'
  BY HandlersStayOK
<1>6. ClaimsOK'
  BY DEF DeliveriesInv, ClaimsOK, Unborn
<1>7. TakenIsRemembered'
  <2>1. \A c \in Body : Taken(c)' <=> Taken(c)
    BY <1>2, <1>3 DEF Taken
  <2> QED
    BY <2>1 DEF DeliveriesInv, TakenIsRemembered, Unborn
<1>8. HeldIsUnqueued' /\ ActedOnce' /\ OneHolder' /\ RefusedForAReason'
  BY <1>2, <1>3 DEF DeliveriesInv, HeldIsUnqueued, ActedOnce, OneHolder,
                    RefusedForAReason
<1> QED
  BY <1>4, <1>5, <1>6, <1>7, <1>8 DEF DeliveriesInv

LEMMA ReleaseKeeps ==
    ASSUME DeliveriesInv, NEW h \in Handler, Release(h)
    PROVE  DeliveriesInv'
<1> DEFINE b == body[h]
<1> USE DEF Release
<1>1. TypeOK
  BY DEF DeliveriesInv
<1>2. /\ at' \in [Handler -> {"idle", "claim", "claimed", "release"}]
      /\ body' = body /\ now' = now /\ at'[h] = "idle"
      /\ \A g \in Handler : g # h => at'[g] = at[g]
  BY <1>1, GoesKeeps
<1>3. \A g \in Handler : InHand(g)' <=> InHand(g) /\ g # h
  BY <1>2 DEF InHand
<1>4. InHand(h)
  BY DEF InHand
<1>5. /\ DOMAIN seen' = DOMAIN seen \ {b}
      /\ \A c \in DOMAIN seen' : seen'[c] = seen[c]
  OBVIOUS
<1>6. \A c \in Body : Taken(c)' => c # b
  <2>1. queued[b] = 0
    BY <1>4 DEF DeliveriesInv, HeldIsUnqueued
  <2>2. \A g \in Handler : InHand(g) /\ body[g] = b => g = h
    BY <1>4 DEF DeliveriesInv, OneHolder
  <2> QED
    BY <1>2, <1>3, <2>1, <2>2 DEF Taken
<1>7. TypeOK'
  BY <1>1, <1>2, <1>5 DEF TypeOK
<1>8. HandlersOK' /\ PastOK'
  BY HandlersStayOK
<1>9. ClaimsOK'
  BY <1>5 DEF DeliveriesInv, ClaimsOK, Unborn
<1>10. TakenIsRemembered'
  <2> SUFFICES ASSUME NEW c \in Body, Taken(c)'
               PROVE  /\ happened'[c] # Unborn
                      /\ \/ c \in DOMAIN seen'
                         \/ happened'[c] + StaleAfter + Stall < clock'
    BY DEF TakenIsRemembered, Unborn
  <2>1. c # b
    BY <1>6
  <2>2. Taken(c)
    BY <1>2, <1>3 DEF Taken
  <2>3. /\ happened[c] # Unborn
        /\ \/ c \in DOMAIN seen
           \/ happened[c] + StaleAfter + Stall < clock
    BY <2>2 DEF DeliveriesInv, TakenIsRemembered
  <2> QED
    BY <1>5, <2>1, <2>3 DEF Unborn
<1>11. HeldIsUnqueued' /\ ActedOnce' /\ OneHolder'
  BY <1>2, <1>3 DEF DeliveriesInv, HeldIsUnqueued, ActedOnce, OneHolder
<1>12. RefusedForAReason'
  BY <1>2, <1>3, <1>5 DEF DeliveriesInv, RefusedForAReason
<1> QED
  BY <1>7, <1>8, <1>9, <1>10, <1>11, <1>12 DEF DeliveriesInv

LEMMA DropKeeps ==
    ASSUME DeliveriesInv, NEW h \in Handler, Drop(h)
    PROVE  DeliveriesInv'
<1> USE DEF Drop
<1>1. TypeOK
  BY DEF DeliveriesInv
<1>2. /\ at' \in [Handler -> {"idle", "claim", "claimed", "release"}]
      /\ body' = body /\ now' = now /\ at'[h] = "idle"
      /\ \A g \in Handler : g # h => at'[g] = at[g]
  BY <1>1, GoesKeeps
<1>3. \A g \in Handler : InHand(g)' <=> InHand(g) /\ g # h
  BY <1>2 DEF InHand
<1>4. /\ orphaned \subseteq orphaned' /\ orphaned' \subseteq Body
      /\ InHand(h) => body[h] \in orphaned'
  BY <1>1 DEF TypeOK, InHand
<1>5. TypeOK'
  BY <1>1, <1>2, <1>4 DEF TypeOK
<1>6. HandlersOK' /\ PastOK'
  BY HandlersStayOK
<1>7. ClaimsOK'
  BY DEF DeliveriesInv, ClaimsOK, Unborn
<1>8. TakenIsRemembered'
  <2>1. \A c \in Body : Taken(c)' => Taken(c)
    BY <1>2, <1>3 DEF Taken
  <2> QED
    BY <2>1 DEF DeliveriesInv, TakenIsRemembered, Unborn
<1>9. HeldIsUnqueued' /\ ActedOnce' /\ OneHolder'
  BY <1>2, <1>3 DEF DeliveriesInv, HeldIsUnqueued, ActedOnce, OneHolder
<1>10. RefusedForAReason'
  BY <1>2, <1>3, <1>4 DEF DeliveriesInv, RefusedForAReason
<1> QED
  BY <1>5, <1>6, <1>7, <1>8, <1>9, <1>10 DEF DeliveriesInv

LEMMA TickKeeps ==
    ASSUME DeliveriesInv, Tick
    PROVE  DeliveriesInv'
<1> USE DEF Tick, handlers
<1>1. TypeOK
  BY DEF DeliveriesInv
<1>2. TypeOK'
  BY <1>1, DeliveriesAssumption DEF TypeOK
<1>3. clock \in Int /\ clock' = clock + 1
  BY <1>1 DEF TypeOK
<1>4. \A g \in Handler : InHand(g)' <=> InHand(g)
  BY DEF InHand
<1>5. \A c \in Body : happened[c] \in Int
  BY <1>1 DEF TypeOK
<1>6. PastOK'
  BY <1>3, <1>5, DeliveriesAssumption DEF DeliveriesInv, PastOK, Unborn
<1>7. HandlersOK'
  <2> SUFFICES ASSUME NEW g \in Handler, at[g] # "idle"
               PROVE  now[g] <= clock' /\ clock' - now[g] <= Stall
    BY DEF DeliveriesInv, HandlersOK, Unborn
  <2>1. now[g] \in Int /\ now[g] <= clock /\ clock - now[g] < Stall
    BY <1>1 DEF TypeOK, DeliveriesInv, HandlersOK
  <2> QED
    BY <1>3, <2>1, DeliveriesAssumption
<1>8. ClaimsOK'
  BY DEF DeliveriesInv, ClaimsOK, Unborn
<1>9. TakenIsRemembered'
  <2>1. \A c \in Body : Taken(c)' <=> Taken(c)
    BY <1>4 DEF Taken
  <2> QED
    BY <1>3, <1>5, <2>1, DeliveriesAssumption
    DEF DeliveriesInv, TakenIsRemembered, Unborn
<1>10. HeldIsUnqueued' /\ ActedOnce' /\ OneHolder' /\ RefusedForAReason'
  BY <1>4 DEF DeliveriesInv, HeldIsUnqueued, ActedOnce, OneHolder,
              RefusedForAReason
<1> QED
  BY <1>2, <1>6, <1>7, <1>8, <1>9, <1>10 DEF DeliveriesInv

LEMMA StutterKeeps ==
    ASSUME DeliveriesInv, UNCHANGED vars
    PROVE  DeliveriesInv'
BY DEF vars, handlers, DeliveriesInv, TypeOK, PastOK, HandlersOK, ClaimsOK,
       TakenIsRemembered, Taken, HeldIsUnqueued, ActedOnce, OneHolder,
       RefusedForAReason, InHand, Unborn

(* The invariant is inductive: one case for each action of a handler, of   *)
(* the clock and of GitHub.                                                *)
THEOREM DeliveriesInvariant == Spec => []DeliveriesInv
<1>1. ASSUME DeliveriesInv, [Next]_vars PROVE DeliveriesInv'
  <2>1. ASSUME NEW h \in Handler, Handle(h) PROVE DeliveriesInv'
    BY <1>1, <2>1, ArriveKeeps, ClaimKeeps, RefuseKeeps, EnqueueKeeps,
       EnqueueFailsKeeps, ReleaseKeeps, DropKeeps DEF Handle
  <2>2. ASSUME NEW b \in Body, Happen(b) PROVE DeliveriesInv'
    BY <1>1, <2>2, HappenKeeps
  <2>3. CASE Tick
    BY <1>1, <2>3, TickKeeps
  <2>4. CASE UNCHANGED vars
    BY <1>1, <2>4, StutterKeeps
  <2> QED
    BY <1>1, <2>1, <2>2, <2>3, <2>4 DEF Next
<1> QED
  BY <1>1, Initially, PTL DEF Spec

-----------------------------------------------------------------------------
(* Claims are dated by barry's clock, and a handler is in one of four      *)
(* places (storage/actor.rs:970).                                          *)
THEOREM DeliveriesTyped == Spec => []TypeOK
<1>1. DeliveriesInv => TypeOK
  BY DEF DeliveriesInv
<1> QED
  BY <1>1, DeliveriesInvariant, PTL

(* However many copies of a delivery are sent, and however claims are      *)
(* pruned, it is acted on at most once (webhook/server.rs:274).            *)
THEOREM DeliveriesActedOnce == Spec => []ActedOnce
<1>1. DeliveriesInv => ActedOnce
  BY DEF DeliveriesInv
<1> QED
  BY <1>1, DeliveriesInvariant, PTL

(* No two handlers hold the claim of one body, so a release frees nothing  *)
(* that another acts on (storage/deliveries.rs:33).                        *)
THEOREM ClaimsHaveOneHolder == Spec => []OneHolder
<1>1. DeliveriesInv => OneHolder
  BY DEF DeliveriesInv
<1> QED
  BY <1>1, DeliveriesInvariant, PTL

(* A body that is refused was queued, or is being worked on, or belongs to *)
(* a handler that could not see it through (webhook/server.rs:515).        *)
THEOREM RefusalsHaveAReason == Spec => []RefusedForAReason
<1>1. DeliveriesInv => RefusedForAReason
  BY DEF DeliveriesInv
<1> QED
  BY <1>1, DeliveriesInvariant, PTL

-----------------------------------------------------------------------------
(* Relay, for any deliveries, in any number and cut into any chunks.       *)
(* RelayInv: the bytes on the wire are frames one after the other          *)
(* (Framed), what a claim stands for is never forgotten (ClaimsHold), and  *)
(* whatever has been let through passed every check (PostPassed).          *)

Byte    == Event \X (1 .. 3)
Decode  == Event \X (1 .. 3) \X BOOLEAN
Posting == [at : {"posted", "claimed"}, of : Event, intact : BOOLEAN, signed : BOOLEAN]

Typed ==
    /\ link \in {"connecting", "up", "waiting", "ended"}
    /\ stopping \in BOOLEAN
    /\ stream \in Seq(Byte) /\ buf \in Seq(Decode)
    /\ post \in {NoPost} \cup Posting
    /\ claimed \subseteq Event \X BOOLEAN
    /\ jobs \in Seq({JobOf(e) : e \in Event}) /\ asked \subseteq Event
    /\ \A n \in DOMAIN jobs : jobs[n] # NoJob
    /\ sent \in Seq(Event)
    /\ excused \subseteq Event

\* The bytes that have not been used, decoded or not: of what, and which.
Wires   == Len(buf) + Len(stream)
Wire(n) == IF n <= Len(buf) THEN <<buf[n][1], buf[n][2]>> ELSE stream[n - Len(buf)]

(* Frame after frame, each whole: a first half, perhaps a second one, and  *)
(* the blank line.                                                         *)
Framed ==
    /\ Wires > 0 => Wire(1)[2] = 1
    /\ \A n \in 1 .. Wires :
          /\ Wire(n)[2] \in {1, 2} =>
                /\ n < Wires
                /\ Wire(n + 1)[1] = Wire(n)[1]
                /\ Wire(n + 1)[2] \in {2, 3}
                /\ Wire(n)[2] = 2 => Wire(n + 1)[2] = 3
          /\ Wire(n)[2] = 3 /\ n < Wires => Wire(n + 1)[2] = 1

\* Only a wide character can be cut in two.
Clean ==
    /\ \A n \in DOMAIN buf : ~buf[n][1].wide => buf[n][3]
    /\ post # NoPost /\ ~post.of.wide => post.intact

JobFor(e)     == \E n \in DOMAIN jobs : jobs[n].of = e
BeingQueued(e) == post.at = "claimed" /\ post.of = e

(* A claimed body has become a job, or is about to, or there is a reason   *)
(* it did not; and a body with a job stays claimed.                        *)
ClaimsHold ==
    /\ \A e \in Event : <<e, TRUE>> \in claimed /\ ActsOn(e) =>
          JobFor(e) \/ e \in excused \/ BeingQueued(e)
    /\ RequireSignature =>
          \A n \in DOMAIN jobs : /\ <<jobs[n].of, TRUE>> \in claimed
                                 /\ ~BeingQueued(jobs[n].of)

PostPassed ==
    /\ post # NoPost =>
          /\ post.of.frame = "message"
          /\ post.signed <=> ~RequireSignature \/ post.of.signed
    /\ post.at = "claimed" =>
          Refusal(post.of, Verified, post.signed) = "none" /\ Digest \in claimed

RelayInv ==
    /\ Typed /\ Framed /\ Clean /\ ClaimsHold /\ PostPassed
    /\ JobOrReason /\ JobsAreAuthorised

-----------------------------------------------------------------------------
(* Operators.                                                              *)

LEMMA RequireIsBoolean == RequireSignature \in BOOLEAN /\ MaxSends \in Nat
BY RelayAssumption

(* A body is two or three bytes, numbered from its first half to its end.  *)
LEMMA BytesAre ==
    ASSUME NEW e \in Event
    PROVE  /\ Bytes(e) \in Seq(Byte) /\ Len(Bytes(e)) \in {2, 3}
           /\ \A n \in 1 .. Len(Bytes(e)) : Bytes(e)[n][1] = e
           /\ Bytes(e)[1][2] = 1 /\ Bytes(e)[Len(Bytes(e))][2] = 3
           /\ Len(Bytes(e)) = 3 => Bytes(e)[2][2] = 2
<1>1. <<e, 1>> \in Byte /\ <<e, 2>> \in Byte /\ <<e, 3>> \in Byte
  BY DEF Byte
<1>2. CASE e.wide
  <2>1. Bytes(e) = << <<e, 1>>, <<e, 2>>, <<e, 3>> >>
    BY <1>2 DEF Bytes
  <2> QED BY <1>1, <2>1
<1>3. CASE ~e.wide
  <2>1. Bytes(e) = << <<e, 1>>, <<e, 3>> >>
    BY <1>3 DEF Bytes
  <2> QED BY <1>1, <2>1
<1> QED BY <1>2, <1>3

(* Decoding keeps the bytes and their order, and hurts wide ones only.     *)
LEMMA DecodedKeeps ==
    ASSUME NEW chunk \in Seq(Byte)
    PROVE  /\ Decoded(chunk) \in Seq(Decode) /\ Len(Decoded(chunk)) = Len(chunk)
           /\ \A n \in 1 .. Len(chunk) :
                 /\ Decoded(chunk)[n][1] = chunk[n][1]
                 /\ Decoded(chunk)[n][2] = chunk[n][2]
                 /\ ~chunk[n][1].wide => Decoded(chunk)[n][3]
<1> DEFINE Ok(n) == \/ ~chunk[n][1].wide \/ chunk[n][2] = 3
                    \/ chunk[n][2] = 1 /\ n < Len(chunk)
                    \/ chunk[n][2] = 2 /\ n > 1
<1>1. Decoded(chunk) = [n \in 1 .. Len(chunk) |-> <<chunk[n][1], chunk[n][2], Ok(n)>>]
  BY LenProperties DEF Decoded
<1>2. \A n \in 1 .. Len(chunk) : chunk[n] \in Byte /\ Ok(n) \in BOOLEAN
  BY ElementOfSeq
<1>3. \A n \in 1 .. Len(chunk) : <<chunk[n][1], chunk[n][2], Ok(n)>> \in Decode
  BY <1>2 DEF Byte, Decode
<1>4. \A n \in 1 .. Len(chunk) : ~chunk[n][1].wide => Ok(n)
  OBVIOUS
<1> HIDE DEF Ok
<1>5. Len(chunk) \in Nat
  BY LenProperties
<1> QED BY <1>1, <1>3, <1>4, <1>5

(* What it takes to be let through.                                        *)
LEMMA Passes ==
    ASSUME NEW e, NEW intact, NEW signed, Refusal(e, intact, signed) = "none"
    PROVE  /\ intact /\ signed /\ Parses(e) /\ ActsOn(e) /\ e.age = "fresh"
           /\ AsksBarry(e) => e.author \in Commander
           /\ RepoOf(e) /\ ~e.listed => OnDemand(e)
BY DEF Refusal

LEMMA ActedOn ==
    ASSUME NEW e, ActsOn(e)
    PROVE  JobOf(e) # NoJob /\ RepoOf(e)
<1>1. RepoOf(e)
  BY DEF ActsOn, AsksBarry, RepoOf
<1>2. \A k, a, d : Job(k, e, a, d) # NoJob
  BY DEF Job, NoJob
<1>3. CASE e.header = "pull_request" /\ Actionable(e.action)
  <2>1. JobOf(e) = Job(e.action, e, "nobody", e.action = "synchronize")
    BY <1>3 DEF JobOf, AsksBarry
  <2> QED BY <1>1, <1>2, <2>1
<1>4. CASE AsksBarry(e)
  <2>1. JobOf(e) = Job(ShortCommand(e.body), e, e.sender, FALSE)
    BY <1>4 DEF JobOf, AsksBarry
  <2> QED BY <1>1, <1>2, <2>1
<1>5. CASE ~Actionable(e.action) /\ e.header = "pull_request" /\ e.action = "closed"
  <2>1. JobOf(e) = Job("closed", e, "nobody", FALSE)
    BY <1>5 DEF JobOf, AsksBarry
  <2> QED BY <1>1, <1>2, <2>1
<1> QED BY <1>3, <1>4, <1>5 DEF ActsOn

LEMMA JobIsOf ==
    ASSUME NEW e, JobOf(e) # NoJob
    PROVE  /\ JobOf(e).of = e
           /\ JobOf(e).actor # "nobody" => AsksBarry(e)
BY DEF JobOf, Job

-----------------------------------------------------------------------------
(* The wire.                                                               *)

LEMMA Lengths ==
    ASSUME Typed
    PROVE  /\ Len(buf) \in Nat /\ Len(stream) \in Nat /\ Wires \in Nat
           /\ DOMAIN buf = 1 .. Len(buf) /\ DOMAIN stream = 1 .. Len(stream)
           /\ \A n \in 1 .. Len(buf) : buf[n] \in Decode
           /\ \A n \in 1 .. Len(stream) : stream[n] \in Byte
           /\ \A n \in 1 .. Wires : Wire(n) \in Byte
<1>1. /\ Len(buf) \in Nat /\ Len(stream) \in Nat
      /\ DOMAIN buf = 1 .. Len(buf) /\ DOMAIN stream = 1 .. Len(stream)
      /\ \A n \in 1 .. Len(buf) : buf[n] \in Decode
      /\ \A n \in 1 .. Len(stream) : stream[n] \in Byte
  BY LenProperties, ElementOfSeq DEF Typed
<1>2. Wires \in Nat
  BY <1>1 DEF Wires
<1>3. ASSUME NEW n \in 1 .. Wires PROVE Wire(n) \in Byte
  <2>1. CASE n <= Len(buf)
    <3>1. buf[n] \in Event \X (1 .. 3) \X BOOLEAN
      BY <1>1, <2>1 DEF Decode
    <3> QED BY <2>1, <3>1 DEF Wire, Byte
  <2>2. CASE n > Len(buf)
    <3>1. n - Len(buf) \in 1 .. Len(stream)
      BY <1>1, <2>2 DEF Wires
    <3> QED BY <1>1, <2>2, <3>1 DEF Wire
  <2> QED BY <1>1, <2>1, <2>2
<1> QED BY <1>1, <1>2, <1>3

LEMMA PendingIs ==
    ASSUME Typed, NEW e
    PROVE  e \in Pending <=> \E n \in 1 .. Wires : Wire(n)[1] = e
<1> USE Lengths
<1>1. e \in Pending <=> \/ \E n \in 1 .. Len(stream) : stream[n][1] = e
                        \/ \E n \in 1 .. Len(buf) : buf[n][1] = e
  BY DEF Pending
<1>2. ASSUME NEW n \in 1 .. Len(stream)
      PROVE  Len(buf) + n \in 1 .. Wires /\ Wire(Len(buf) + n) = stream[n]
  BY DEF Wire, Wires
<1>3. ASSUME NEW n \in 1 .. Len(buf)
      PROVE  n \in 1 .. Wires /\ Wire(n)[1] = buf[n][1]
  BY DEF Wire, Wires
<1>4. ASSUME NEW n \in 1 .. Wires
      PROVE  \/ n \in 1 .. Len(buf) /\ Wire(n)[1] = buf[n][1]
             \/ n - Len(buf) \in 1 .. Len(stream) /\ Wire(n) = stream[n - Len(buf)]
  BY DEF Wire, Wires
<1> QED BY <1>1, <1>2, <1>3, <1>4

(* Reading moves bytes from one side of the wire to the other.             *)
LEMMA ReadKeepsWire ==
    ASSUME Typed, Clean, ReadChunk
    PROVE  /\ stream' \in Seq(Byte) /\ buf' \in Seq(Decode)
           /\ Wires' = Wires /\ \A n \in 1 .. Wires : Wire(n)' = Wire(n)
           /\ \A n \in DOMAIN buf' : ~buf'[n][1].wide => buf'[n][3]
<1>1. PICK len \in 1 .. Len(stream) :
         /\ buf' = buf \o Decoded(SubSeq(stream, 1, len))
         /\ stream' = SubSeq(stream, len + 1, Len(stream))
  BY DEF ReadChunk
<1> DEFINE chunk == SubSeq(stream, 1, len)
<1>2. /\ Len(buf) \in Nat /\ Len(stream) \in Nat /\ buf \in Seq(Decode)
      /\ \A n \in 1 .. Len(stream) : stream[n] \in Byte
  BY Lengths DEF Typed
<1>3. /\ chunk \in Seq(Byte) /\ Len(chunk) = len
      /\ \A n \in 1 .. len : chunk[n] = stream[n]
  BY <1>2, SubSeqProperties
<1>4. /\ stream' \in Seq(Byte) /\ Len(stream') = Len(stream) - len
      /\ \A n \in 1 .. Len(stream) - len : stream'[n] = stream[len + n]
  BY <1>1, <1>2, SubSeqProperties
<1> HIDE DEF chunk
<1>5. /\ Decoded(chunk) \in Seq(Decode) /\ Len(Decoded(chunk)) = len
      /\ \A n \in 1 .. len :
            /\ Decoded(chunk)[n][1] = stream[n][1]
            /\ Decoded(chunk)[n][2] = stream[n][2]
            /\ ~stream[n][1].wide => Decoded(chunk)[n][3]
  BY <1>3, DecodedKeeps
<1>6. /\ buf' \in Seq(Decode) /\ Len(buf') = Len(buf) + len
      /\ \A n \in 1 .. Len(buf) + len :
            buf'[n] = IF n <= Len(buf) THEN buf[n] ELSE Decoded(chunk)[n - Len(buf)]
  <2> DEFINE decoded == Decoded(chunk)
  <2>1. buf' = buf \o decoded
    BY <1>1 DEF chunk
  <2>2. decoded \in Seq(Decode) /\ Len(decoded) = len
    BY <1>5
  <2> HIDE DEF decoded
  <2>3. /\ buf' \in Seq(Decode) /\ Len(buf') = Len(buf) + len
        /\ \A n \in 1 .. Len(buf) + len :
              buf'[n] = IF n <= Len(buf) THEN buf[n] ELSE decoded[n - Len(buf)]
    BY <1>2, <2>1, <2>2, ConcatProperties
  <2> QED BY <2>3 DEF decoded
<1>7. Wires' = Wires
  BY <1>2, <1>4, <1>6 DEF Wires
<1>8. ASSUME NEW n \in 1 .. Wires PROVE Wire(n)' = Wire(n)
  <2>1. CASE n <= Len(buf)
    <3>1. n <= Len(buf') /\ buf'[n] = buf[n]
      BY <1>2, <1>6, <2>1
    <3> QED BY <2>1, <3>1 DEF Wire
  <2>2. CASE n > Len(buf) /\ n <= Len(buf) + len
    <3>1. /\ n - Len(buf) \in 1 .. len /\ n <= Len(buf')
          /\ buf'[n] = Decoded(chunk)[n - Len(buf)]
      BY <1>2, <1>6, <2>2
    <3>2. Wire(n)' = <<stream[n - Len(buf)][1], stream[n - Len(buf)][2]>>
      BY <1>5, <3>1 DEF Wire
    <3>3. stream[n - Len(buf)] \in Event \X (1 .. 3)
      BY <1>2, <3>1 DEF Byte
    <3>4. Wire(n) = stream[n - Len(buf)]
      BY <1>2, <2>2 DEF Wire
    <3> QED BY <3>2, <3>3, <3>4
  <2>3. CASE n > Len(buf) + len
    <3>1. n - Len(buf') \in 1 .. Len(stream) - len /\ len + (n - Len(buf')) = n - Len(buf)
      BY <1>2, <1>6, <2>3 DEF Wires
    <3>2. ~(n <= Len(buf')) /\ ~(n <= Len(buf))
      BY <1>2, <1>6, <2>3
    <3> QED BY <1>4, <3>1, <3>2 DEF Wire
  <2> QED BY <1>2, <2>1, <2>2, <2>3
<1>9. ASSUME NEW n \in DOMAIN buf', ~buf'[n][1].wide PROVE buf'[n][3]
  <2>1. n \in 1 .. Len(buf) + len
    BY <1>6, LenProperties
  <2>2. CASE n <= Len(buf)
    <3>1. n \in DOMAIN buf /\ buf'[n] = buf[n]
      BY <1>2, <1>6, <2>1, <2>2, LenProperties
    <3> QED BY <1>9, <3>1 DEF Clean
  <2>3. CASE n > Len(buf)
    <3>1. n - Len(buf) \in 1 .. len /\ buf'[n] = Decoded(chunk)[n - Len(buf)]
      BY <1>2, <1>6, <2>1, <2>3
    <3> QED BY <1>5, <1>9, <3>1
  <2> QED BY <1>2, <2>1, <2>2, <2>3
<1> QED BY <1>4, <1>6, <1>7, <1>8, <1>9

(* A body is added at the end.                                             *)
LEMMA SendAddsBytes ==
    ASSUME Typed, NEW e \in Event, stream' = stream \o Bytes(e), buf' = buf
    PROVE  /\ stream' \in Seq(Byte)
           /\ Wires' = Wires + Len(Bytes(e))
           /\ \A n \in 1 .. Wires : Wire(n)' = Wire(n)
           /\ \A n \in Wires + 1 .. Wires + Len(Bytes(e)) : Wire(n)' = Bytes(e)[n - Wires]
<1>1. /\ Len(buf) \in Nat /\ Len(stream) \in Nat /\ stream \in Seq(Byte)
  BY Lengths DEF Typed
<1>2. Bytes(e) \in Seq(Byte) /\ Len(Bytes(e)) \in Nat
  BY BytesAre
<1>3. /\ stream' \in Seq(Byte) /\ Len(stream') = Len(stream) + Len(Bytes(e))
      /\ \A n \in 1 .. Len(stream) + Len(Bytes(e)) :
            stream'[n] = IF n <= Len(stream) THEN stream[n] ELSE Bytes(e)[n - Len(stream)]
  BY <1>1, <1>2, ConcatProperties
<1>4. Wires' = Wires + Len(Bytes(e))
  BY <1>1, <1>2, <1>3 DEF Wires
<1>5. ASSUME NEW n \in 1 .. Wires PROVE Wire(n)' = Wire(n)
  BY <1>1, <1>2, <1>3 DEF Wires, Wire
<1>6. ASSUME NEW n \in Wires + 1 .. Wires + Len(Bytes(e))
      PROVE  Wire(n)' = Bytes(e)[n - Wires]
  <2>1. /\ ~(n <= Len(buf')) /\ n - Len(buf') \in 1 .. Len(stream) + Len(Bytes(e))
        /\ ~(n - Len(buf') <= Len(stream)) /\ n - Len(buf') - Len(stream) = n - Wires
    BY <1>1, <1>2 DEF Wires
  <2>2. Wire(n)' = stream'[n - Len(buf')]
    BY <2>1 DEF Wire
  <2> QED BY <1>3, <2>1, <2>2
<1> QED BY <1>3, <1>4, <1>5, <1>6

(* The first frame: two or three bytes, all of one body.                   *)
LEMMA FirstFrame ==
    ASSUME Typed, Framed, Complete
    PROVE  /\ FrameEnd \in 1 .. Len(buf) /\ FrameEnd \in {2, 3}
           /\ buf[FrameEnd][2] = 3 /\ buf[FrameEnd][1] \in Event
           /\ \A n \in 1 .. FrameEnd : buf[n][1] = buf[FrameEnd][1]
<1>1. /\ Len(buf) \in Nat /\ Len(stream) \in Nat /\ DOMAIN buf = 1 .. Len(buf)
      /\ Wires = Len(buf) + Len(stream)
      /\ \A n \in 1 .. Len(buf) : buf[n] \in Event \X (1 .. 3) \X BOOLEAN
  BY Lengths DEF Wires, Decode
<1>2. \A n \in 1 .. Len(buf) : n \in 1 .. Wires /\ Wire(n)[1] = buf[n][1] /\ Wire(n)[2] = buf[n][2]
  BY <1>1 DEF Wire
<1>3. PICK k \in 1 .. Len(buf) : buf[k][2] = 3
  BY <1>1 DEF Complete
<1>4. buf[1][2] = 1 /\ k >= 2 /\ Wires > 0
  BY <1>1, <1>2, <1>3 DEF Framed
<1>5. buf[2][1] = buf[1][1] /\ buf[2][2] \in {2, 3}
  BY <1>1, <1>2, <1>3, <1>4 DEF Framed
<1>6. CASE buf[2][2] = 3
  <2> DEFINE P(n) == buf[n][2] = 3 /\ \A m \in 1 .. n - 1 : buf[m][2] # 3
  <2>1. 2 \in DOMAIN buf /\ P(2)
    BY <1>1, <1>3, <1>4, <1>6
  <2>2. FrameEnd = CHOOSE n \in DOMAIN buf : P(n)
    BY DEF FrameEnd
  <2>3. FrameEnd \in 1 .. Len(buf) /\ P(FrameEnd)
    BY <1>1, <2>1, <2>2
  <2>4. FrameEnd = 2
    BY <1>1, <1>3, <1>4, <1>6, <2>3
  <2> QED BY <1>1, <1>3, <1>4, <1>5, <1>6, <2>4
<1>7. CASE buf[2][2] = 2
  <2>0. k >= 3
    BY <1>3, <1>4, <1>7
  <2>1. buf[3][1] = buf[2][1] /\ buf[3][2] = 3
    BY <1>1, <1>2, <1>3, <1>7, <2>0 DEF Framed
  <2> DEFINE P(n) == buf[n][2] = 3 /\ \A m \in 1 .. n - 1 : buf[m][2] # 3
  <2>2. 3 \in DOMAIN buf /\ P(3)
    BY <1>1, <1>3, <1>4, <1>7, <2>0, <2>1
  <2>3. FrameEnd = CHOOSE n \in DOMAIN buf : P(n)
    BY DEF FrameEnd
  <2>4. FrameEnd \in 1 .. Len(buf) /\ P(FrameEnd)
    BY <1>1, <2>2, <2>3
  <2>5. FrameEnd = 3
    BY <1>1, <1>3, <1>4, <1>7, <2>0, <2>1, <2>4
  <2> QED BY <1>1, <1>3, <1>5, <1>7, <2>0, <2>1, <2>5
<1> QED BY <1>5, <1>6, <1>7

(* Using a frame up drops its bytes and leaves the others in their order.  *)
LEMMA FrameLeaves ==
    ASSUME Typed, Framed, Complete, buf' = Rest, stream' = stream
    PROVE  /\ buf' \in Seq(Decode)
           /\ Len(buf') = Len(buf) - FrameEnd
           /\ \A n \in 1 .. Len(buf') : buf'[n] = buf[n + FrameEnd]
           /\ Wires' = Wires - FrameEnd
           /\ \A n \in 1 .. Wires' : Wire(n)' = Wire(n + FrameEnd)
<1> DEFINE f == FrameEnd
<1>1. /\ Len(buf) \in Nat /\ Len(stream) \in Nat /\ f \in 1 .. Len(buf)
      /\ \A n \in 1 .. Len(buf) : buf[n] \in Decode
  BY Lengths, FirstFrame
<1> HIDE DEF f
<1>2. buf' = SubSeq(buf, f + 1, Len(buf))
  BY DEF Rest, f
<1>3. /\ buf' \in Seq(Decode) /\ Len(buf') = Len(buf) - f
      /\ \A n \in 1 .. Len(buf') : buf'[n] = buf[n + f]
  BY <1>1, <1>2, SubSeqProperties
<1>4. Wires' = Wires - f
  BY <1>1, <1>3 DEF Wires
<1>5. ASSUME NEW n \in 1 .. Wires' PROVE Wire(n)' = Wire(n + f)
  <2>1. CASE n <= Len(buf')
    <3>1. n + f <= Len(buf) /\ buf'[n] = buf[n + f]
      BY <1>1, <1>3, <2>1
    <3> QED BY <2>1, <3>1 DEF Wire
  <2>2. CASE ~(n <= Len(buf'))
    <3>1. ~(n + f <= Len(buf)) /\ n - Len(buf') = n + f - Len(buf)
      BY <1>1, <1>3, <2>2 DEF Wires
    <3>2. Wire(n)' = stream'[n - Len(buf')]
      BY <2>2 DEF Wire
    <3>3. Wire(n + f) = stream[n + f - Len(buf)]
      BY <1>1, <3>1 DEF Wire
    <3> QED BY <3>1, <3>2, <3>3
  <2> QED BY <2>1, <2>2
<1> QED BY <1>3, <1>4, <1>5 DEF f

-----------------------------------------------------------------------------
(* Typing.                                                                 *)

\* The steps that only open, close or wait.
LinkStep == Connect \/ Reconnect \/ Stop

(* What each step leaves alone.                                            *)
LEMMA LeftAlone ==
    /\ LinkStep \/ UNCHANGED relayVars =>
          UNCHANGED <<stream, buf, post, endpoint, sent, excused>>
    /\ (\E e \in Event : Send(e)) => UNCHANGED <<link, stopping, buf, post, endpoint>>
    /\ Disconnect => UNCHANGED <<stopping, post, endpoint, sent>>
    /\ ReadChunk => UNCHANGED <<link, stopping, post, endpoint, sent, excused>>
    /\ TakeFrame => UNCHANGED <<link, stopping, stream, endpoint, sent, excused>>
    /\ Unreachable \/ ClaimFails \/ RefuseBody => UNCHANGED <<relay, endpoint, sent>>
    /\ ClaimBody => UNCHANGED <<relay, jobs, sent, excused>>
    /\ QueueJob => UNCHANGED <<relay, claimed, asked, sent, excused>>
    /\ QueueFails => UNCHANGED <<relay, jobs, asked, sent>>
BY DEF LinkStep, Connect, Reconnect, Stop, Send, Disconnect, ReadChunk, TakeFrame, Unreachable,
       ClaimFails, RefuseBody, ClaimBody, QueueJob, QueueFails, relayVars, relay, endpoint

LEMMA PostIs ==
    ASSUME Typed, post.at \in {"posted", "claimed"}
    PROVE  /\ post \in Posting /\ post # NoPost
           /\ post.of \in Event /\ post.intact \in BOOLEAN /\ post.signed \in BOOLEAN
BY DEF Typed, NoPost, Posting

LEMMA NoPostAt == NoPost.at = "none"
BY DEF NoPost

LEMMA PendingTyped == ASSUME Typed PROVE Pending \subseteq Event
<1>1. ASSUME NEW e \in Pending PROVE e \in Event
  <2>1. PICK n \in 1 .. Wires : Wire(n)[1] = e
    BY PendingIs
  <2> QED BY <2>1, Lengths DEF Byte
<1> QED BY <1>1

LEMMA TypedStep ==
    ASSUME Typed, Framed, Clean, [RelayNext]_relayVars
    PROVE  Typed'
<1>1. CASE LinkStep \/ UNCHANGED relayVars
  BY <1>1, LeftAlone DEF Typed, endpoint, relayVars, relay, LinkStep, Connect, Reconnect, Stop
<1>2. ASSUME NEW e \in Event, Send(e) PROVE Typed'
  <2>1. stream' \in Seq(Byte)
    BY <1>2, SendAddsBytes DEF Typed, Send
  <2>2. sent' \in Seq(Event)
    BY <1>2 DEF Typed, Send
  <2>3. excused' \subseteq Event
    BY <1>2 DEF Typed, Send
  <2> QED BY <1>2, <2>1, <2>2, <2>3, LeftAlone DEF Typed, endpoint
<1>3. CASE Disconnect
  <2>1. stream' \in Seq(Byte) /\ buf' \in Seq(Decode) /\ excused' \subseteq Event
    BY <1>3, PendingTyped DEF Typed, Disconnect
  <2>2. link' \in {"connecting", "up", "waiting", "ended"}
    BY <1>3 DEF Disconnect
  <2> QED BY <1>3, <2>1, <2>2, LeftAlone DEF Typed, endpoint
<1>4. CASE ReadChunk
  BY <1>4, ReadKeepsWire, LeftAlone DEF Typed, endpoint
<1>5. CASE TakeFrame
  <2>1. Complete /\ buf' = Rest /\ stream' = stream
    BY <1>5 DEF TakeFrame
  <2>2. buf' \in Seq(Decode)
    BY <2>1, FrameLeaves
  <2>3. FrameIntact \in BOOLEAN
    BY DEF FrameIntact
  <2>4. post' \in {NoPost} \cup Posting
    BY <1>5, <2>1, <2>3, FirstFrame DEF TakeFrame, Posting
  <2> QED BY <1>5, <2>2, <2>4, LeftAlone DEF Typed, endpoint
<1>6. CASE Unreachable \/ ClaimFails \/ RefuseBody
  <2>1. post.of \in Event /\ post' = NoPost
    BY <1>6, PostIs DEF Unreachable, ClaimFails, RefuseBody
  <2>2. excused' \subseteq Event
    BY <1>6, <2>1 DEF Typed, Unreachable, ClaimFails, RefuseBody
  <2> QED BY <1>6, <2>1, <2>2, LeftAlone DEF Typed, endpoint, relay
<1>7. CASE ClaimBody
  <2>1. post \in Posting /\ post.of \in Event /\ post.intact \in BOOLEAN
    BY <1>7, PostIs DEF ClaimBody
  <2>2. post' \in Posting
    BY <1>7, <2>1 DEF ClaimBody, Posting
  <2>3. claimed' \subseteq Event \X BOOLEAN /\ asked' \subseteq Event
    BY <1>7, <2>1 DEF ClaimBody, Typed, Digest
  <2> QED BY <1>7, <2>2, <2>3, LeftAlone DEF Typed, relay
<1>8. CASE QueueJob
  <2>1. post.of \in Event /\ post' = NoPost
    BY <1>8, PostIs DEF QueueJob
  <2>2. CASE JobOf(post.of) = NoJob
    <3>1. jobs' = jobs
      BY <1>8, <2>2 DEF QueueJob
    <3> QED BY <1>8, <2>1, <3>1, LeftAlone DEF Typed, relay
  <2>3. CASE JobOf(post.of) # NoJob
    <3> DEFINE made == JobOf(post.of)  all == {JobOf(e) : e \in Event}
    <3>1. jobs' = Append(jobs, made) /\ made \in all /\ made # NoJob /\ jobs \in Seq(all)
      BY <1>8, <2>1, <2>3 DEF QueueJob, Typed
    <3>1a. \A n \in DOMAIN jobs : jobs[n] # NoJob
      BY DEF Typed
    <3> HIDE DEF made, all
    <3>2. /\ jobs' \in Seq(all)
          /\ \A n \in DOMAIN jobs' : jobs'[n] # NoJob
      BY <3>1, <3>1a
    <3> QED BY <1>8, <2>1, <3>2, LeftAlone DEF Typed, relay, all
  <2> QED BY <2>2, <2>3
<1>9. CASE QueueFails
  <2>1. post.of \in Event /\ post' = NoPost
    BY <1>9, PostIs DEF QueueFails
  <2>2. claimed' \subseteq claimed /\ excused' = excused \cup {post.of}
    BY <1>9 DEF QueueFails
  <2> QED BY <1>9, <2>1, <2>2, LeftAlone DEF Typed, relay
<1> QED
  BY <1>1, <1>2, <1>3, <1>4, <1>5, <1>6, <1>7, <1>8, <1>9 DEF RelayNext, LinkStep

-----------------------------------------------------------------------------
(* The framing of the wire, and what a step does to what is pending.       *)

LEMMA FramedStep ==
    ASSUME Typed, Framed, Clean, [RelayNext]_relayVars
    PROVE  Framed'
<1>0. Wires \in Nat /\ \A n \in 1 .. Wires : Wire(n) \in Byte
  BY Lengths
<1>1. ASSUME UNCHANGED <<stream, buf>> PROVE Framed'
  BY <1>1 DEF Framed, Wires, Wire
<1>2. ASSUME NEW e \in Event, Send(e) PROVE Framed'
  <2>1. CASE stream' = stream \o Bytes(e) /\ buf' = buf
    <3> DEFINE b == Bytes(e)
    <3>1. /\ Wires' = Wires + Len(b)
          /\ \A n \in 1 .. Wires : Wire(n)' = Wire(n)
          /\ \A n \in Wires + 1 .. Wires + Len(b) : Wire(n)' = b[n - Wires]
      BY <2>1, SendAddsBytes
    <3>2. /\ Len(b) \in {2, 3} /\ \A n \in 1 .. Len(b) : b[n][1] = e
          /\ b[1][2] = 1 /\ b[Len(b)][2] = 3 /\ (Len(b) = 3 => b[2][2] = 2)
      BY BytesAre
    <3> HIDE DEF b
    <3>3. Wire(1)'[2] = 1
      BY <1>0, <3>1, <3>2 DEF Framed
    <3>4. ASSUME NEW n \in 1 .. Wires
          PROVE  /\ Wire(n)'[2] \in {1, 2} =>
                       /\ n < Wires'
                       /\ Wire(n + 1)'[1] = Wire(n)'[1]
                       /\ Wire(n + 1)'[2] \in {2, 3}
                       /\ Wire(n)'[2] = 2 => Wire(n + 1)'[2] = 3
                 /\ Wire(n)'[2] = 3 /\ n < Wires' => Wire(n + 1)'[2] = 1
      <4>1. CASE n < Wires
        <5>1. n + 1 \in 1 .. Wires /\ n < Wires'
          BY <1>0, <3>1, <3>2, <4>1
        <5>2. Wire(n)' = Wire(n) /\ Wire(n + 1)' = Wire(n + 1)
          BY <3>1, <5>1
        <5> QED BY <4>1, <5>1, <5>2 DEF Framed
      <4>2. CASE n = Wires
        <5>1. Wire(n)' = Wire(n) /\ Wire(n)[2] = 3
          BY <1>0, <3>1, <4>2 DEF Framed, Byte
        <5>2. n + 1 \in Wires + 1 .. Wires + Len(b) /\ n + 1 - Wires = 1
          BY <1>0, <3>2, <4>2
        <5>3. Wire(n + 1)' = b[1]
          BY <1>0, <3>1, <5>2
        <5> QED BY <3>2, <5>1, <5>3
      <4> QED BY <1>0, <4>1, <4>2
    <3>5. ASSUME NEW n \in Wires + 1 .. Wires + Len(b)
          PROVE  /\ Wire(n)'[2] \in {1, 2} =>
                       /\ n < Wires'
                       /\ Wire(n + 1)'[1] = Wire(n)'[1]
                       /\ Wire(n + 1)'[2] \in {2, 3}
                       /\ Wire(n)'[2] = 2 => Wire(n + 1)'[2] = 3
                 /\ Wire(n)'[2] = 3 /\ n < Wires' => Wire(n + 1)'[2] = 1
      <4>1. n - Wires \in 1 .. Len(b) /\ Wire(n)' = b[n - Wires]
        BY <1>0, <3>1, <3>2
      <4>2. CASE n < Wires + Len(b)
        <5>1. Wire(n + 1)' = b[n - Wires + 1] /\ n - Wires + 1 \in 1 .. Len(b) /\ n < Wires'
          <6>1. n + 1 \in Wires + 1 .. Wires + Len(b) /\ n + 1 - Wires = n - Wires + 1
            BY <1>0, <3>2, <4>2
          <6> QED BY <1>0, <3>1, <4>1, <4>2, <6>1
        <5>2. n - Wires \in {1, 2} /\ (n - Wires = 2 => Len(b) = 3)
          BY <1>0, <3>2, <4>2
        <5>3. CASE n - Wires = 1
          <6>1. Wire(n)' = b[1] /\ Wire(n + 1)' = b[2] /\ b[2][2] \in {2, 3}
            BY <3>2, <4>1, <5>1, <5>3
          <6> QED BY <3>2, <5>1, <6>1
        <5>4. CASE n - Wires = 2
          <6>0. Len(b) = 3 /\ b[2][2] = 2 /\ b[3][2] = 3
            BY <3>2, <5>2, <5>4
          <6>1a. n - Wires + 1 = 3
            BY <5>4
          <6>1. Wire(n)' = b[2] /\ Wire(n + 1)' = b[3] /\ b[2][2] = 2 /\ b[3][2] = 3
            BY <4>1, <5>1, <5>4, <6>0, <6>1a
          <6>2. b[2][1] = e /\ b[3][1] = e
            <7>1. 2 \in 1 .. Len(b) /\ 3 \in 1 .. Len(b)
              BY <6>0
            <7> QED BY <3>2, <7>1
          <6> QED BY <5>1, <6>1, <6>2
        <5> QED BY <5>2, <5>3, <5>4
      <4>3. CASE n = Wires + Len(b)
        BY <1>0, <3>1, <3>2, <4>1, <4>3
      <4> QED BY <1>0, <3>2, <4>2, <4>3
    <3>6. \A n \in 1 .. Wires' : n \in 1 .. Wires \/ n \in Wires + 1 .. Wires + Len(b)
      BY <1>0, <3>1, <3>2
    <3> QED BY <3>3, <3>4, <3>5, <3>6 DEF Framed
  <2> QED BY <1>1, <1>2, <2>1 DEF Send
<1>3. CASE Disconnect
  <2>1. buf' = <<>> /\ stream' = <<>>
    BY <1>3 DEF Disconnect
  <2>2. Wires' = 0
    BY <2>1 DEF Wires
  <2> QED BY <2>2 DEF Framed
<1>4. CASE ReadChunk
  <2>1. Wires' = Wires /\ \A n \in 1 .. Wires : Wire(n)' = Wire(n)
    BY <1>4, ReadKeepsWire
  <2>2. \A n \in 1 .. Wires : n < Wires => n + 1 \in 1 .. Wires
    BY <1>0
  <2> QED BY <1>0, <2>1, <2>2 DEF Framed
<1>5. CASE TakeFrame
  <2>1. Complete /\ buf' = Rest /\ stream' = stream
    BY <1>5 DEF TakeFrame
  <2>2. /\ Wires' = Wires - FrameEnd
        /\ \A n \in 1 .. Wires' : Wire(n)' = Wire(n + FrameEnd)
    BY <2>1, FrameLeaves
  <2>3. /\ FrameEnd \in 1 .. Len(buf) /\ buf[FrameEnd][2] = 3
        /\ Len(buf) \in Nat /\ Len(stream) \in Nat /\ Wires = Len(buf) + Len(stream)
    BY <2>1, FirstFrame, Lengths DEF Wires
  <2>4. FrameEnd \in 1 .. Wires /\ Wire(FrameEnd)[2] = 3
    BY <2>3 DEF Wire
  <2> DEFINE f == FrameEnd
  <2>5. f \in 1 .. Wires /\ Wire(f)[2] = 3 /\ Wires' = Wires - f
        /\ \A n \in 1 .. Wires' : Wire(n)' = Wire(n + f)
    BY <2>2, <2>4
  <2> HIDE DEF f
  <2>6. Wires' > 0 => Wire(1)'[2] = 1
    BY <1>0, <2>5 DEF Framed
  <2>7. ASSUME NEW n \in 1 .. Wires'
        PROVE  /\ Wire(n)'[2] \in {1, 2} =>
                     /\ n < Wires'
                     /\ Wire(n + 1)'[1] = Wire(n)'[1]
                     /\ Wire(n + 1)'[2] \in {2, 3}
                     /\ Wire(n)'[2] = 2 => Wire(n + 1)'[2] = 3
               /\ Wire(n)'[2] = 3 /\ n < Wires' => Wire(n + 1)'[2] = 1
    <3>1. n + f \in 1 .. Wires /\ Wire(n)' = Wire(n + f) /\ (n + f < Wires <=> n < Wires')
      BY <1>0, <2>5
    <3>2. n < Wires' => Wire(n + 1)' = Wire(n + f + 1)
      <4> HAVE n < Wires'
      <4>1. n + 1 \in 1 .. Wires' /\ n + 1 + f = n + f + 1
        BY <1>0, <2>5
      <4> QED BY <2>5, <4>1
    <3> QED BY <3>1, <3>2 DEF Framed
  <2> QED BY <2>6, <2>7 DEF Framed
<1>6. ASSUME Unreachable \/ ClaimFails \/ RefuseBody \/ ClaimBody \/ QueueJob \/ QueueFails
      PROVE UNCHANGED <<stream, buf>>
  BY <1>6, LeftAlone DEF relay
<1>7. ASSUME LinkStep \/ UNCHANGED relayVars PROVE UNCHANGED <<stream, buf>>
  BY <1>7, LeftAlone
<1> QED
  BY <1>1, <1>2, <1>3, <1>4, <1>5, <1>6, <1>7 DEF RelayNext, LinkStep

PendingWire == \A e \in Event : e \in Pending <=> \E n \in 1 .. Wires : Wire(n)[1] = e

LEMMA PendingOnWire == Typed => PendingWire
BY PendingIs DEF PendingWire

(* Nothing leaves the wire but by a disconnection or as the first frame,   *)
(* and then whole.                                                         *)
LEMMA PendingKept ==
    ASSUME Typed, Typed', Framed, Clean, [RelayNext]_relayVars, NEW e \in Event, e \in Pending
    PROVE  \/ e \in Pending'
           \/ Disconnect /\ e \in excused'
           \/ TakeFrame /\ buf[FrameEnd][1] = e
<1>0. PendingWire'
  BY PendingOnWire, PTL
<1>1. e \in Pending' <=> \E n \in 1 .. Wires' : Wire(n)'[1] = e
  BY <1>0 DEF PendingWire
<1>2. PICK n \in 1 .. Wires : Wire(n)[1] = e
  BY PendingOnWire DEF PendingWire
<1>3. ASSUME UNCHANGED <<stream, buf>> PROVE e \in Pending'
  BY <1>3 DEF Pending
<1>4. ASSUME NEW d \in Event, Send(d) PROVE e \in Pending'
  <2>1. CASE stream' = stream \o Bytes(d) /\ buf' = buf
    <3>1. Wires' = Wires + Len(Bytes(d)) /\ Wire(n)' = Wire(n)
      BY <2>1, SendAddsBytes
    <3>2. n \in 1 .. Wires'
      BY <3>1, Lengths, BytesAre
    <3> QED BY <1>1, <1>2, <3>1, <3>2
  <2> QED BY <1>3, <1>4, <2>1 DEF Send
<1>5. CASE ReadChunk
  <2>1. Wires' = Wires /\ Wire(n)' = Wire(n)
    BY <1>5, ReadKeepsWire
  <2> QED BY <1>1, <1>2, <2>1
<1>6. CASE Disconnect
  BY <1>6 DEF Disconnect
<1>7. CASE TakeFrame
  <2>1. Complete /\ buf' = Rest /\ stream' = stream
    BY <1>7 DEF TakeFrame
  <2>2. /\ Wires' = Wires - FrameEnd
        /\ \A m \in 1 .. Wires' : Wire(m)' = Wire(m + FrameEnd)
        /\ FrameEnd \in 1 .. Len(buf) /\ Len(buf) \in Nat
        /\ \A m \in 1 .. FrameEnd : buf[m][1] = buf[FrameEnd][1]
    BY <2>1, FrameLeaves, FirstFrame, Lengths
  <2>3. CASE n <= FrameEnd
    <3>1. Wire(n)[1] = buf[n][1] /\ n \in 1 .. FrameEnd
      BY <2>2, <2>3 DEF Wire
    <3> QED BY <1>2, <1>7, <2>2, <3>1
  <2>4. CASE n > FrameEnd
    <3>1. n - FrameEnd \in 1 .. Wires' /\ n - FrameEnd + FrameEnd = n
      BY <2>2, <2>4, Lengths
    <3>2. PICK m \in 1 .. Wires' : m = n - FrameEnd
      BY <3>1
    <3>3. Wire(m)' = Wire(n)
      BY <2>2, <3>1, <3>2
    <3> QED BY <1>1, <1>2, <3>3
  <2> QED BY <2>2, <2>3, <2>4
<1>8. ASSUME Unreachable \/ ClaimFails \/ RefuseBody \/ ClaimBody \/ QueueJob \/ QueueFails
      PROVE UNCHANGED <<stream, buf>>
  BY <1>8, LeftAlone DEF relay
<1>9. ASSUME LinkStep \/ UNCHANGED relayVars PROVE UNCHANGED <<stream, buf>>
  BY <1>9, LeftAlone
<1> QED
  BY <1>3, <1>4, <1>5, <1>6, <1>7, <1>8, <1>9 DEF RelayNext, LinkStep

(* A frame whose characters are not wide comes through intact.             *)
LEMMA CleanStep ==
    ASSUME Typed, Framed, Clean, [RelayNext]_relayVars
    PROVE  Clean'
<1>1. ASSUME UNCHANGED <<buf, post>> PROVE Clean'
  BY <1>1 DEF Clean
<1>2. ASSUME NEW e \in Event, Send(e) PROVE Clean'
  BY <1>1, <1>2, LeftAlone
<1>3. CASE Disconnect
  <2>1. DOMAIN buf' = {} /\ post' = post
    BY <1>3, LeftAlone DEF Disconnect
  <2> QED BY <2>1 DEF Clean
<1>4. CASE ReadChunk
  <2>1. post' = post
    BY <1>4, LeftAlone
  <2> QED BY <1>4, <2>1, ReadKeepsWire DEF Clean
<1>5. CASE TakeFrame
  <2>1. Complete /\ buf' = Rest /\ stream' = stream
    BY <1>5 DEF TakeFrame
  <2>2. /\ buf' \in Seq(Decode)
        /\ Len(buf') = Len(buf) - FrameEnd
        /\ \A n \in 1 .. Len(buf') : buf'[n] = buf[n + FrameEnd]
        /\ FrameEnd \in 1 .. Len(buf) /\ Len(buf) \in Nat /\ DOMAIN buf = 1 .. Len(buf)
        /\ \A n \in 1 .. FrameEnd : buf[n][1] = buf[FrameEnd][1]
    BY <2>1, FrameLeaves, FirstFrame, Lengths
  <2>3. ASSUME NEW n \in DOMAIN buf', ~buf'[n][1].wide PROVE buf'[n][3]
    <3>1. n \in 1 .. Len(buf') /\ n + FrameEnd \in DOMAIN buf
      BY <2>2, LenProperties
    <3> QED BY <2>2, <2>3, <3>1 DEF Clean
  <2>4. ASSUME post' # NoPost, ~post'.of.wide PROVE post'.intact
    <3>1. post'.of = buf[FrameEnd][1] /\ post'.intact = FrameIntact
      BY <1>5, <2>4 DEF TakeFrame
    <3>2. \A n \in 1 .. FrameEnd : n \in DOMAIN buf /\ ~buf[n][1].wide
      BY <2>2, <2>4, <3>1
    <3> QED BY <3>1, <3>2 DEF Clean, FrameIntact
  <2> QED BY <2>3, <2>4 DEF Clean
<1>6. CASE Unreachable \/ ClaimFails \/ RefuseBody \/ QueueJob \/ QueueFails
  <2>1. buf' = buf /\ post' = NoPost
    BY <1>6, LeftAlone DEF relay, Unreachable, ClaimFails, RefuseBody, QueueJob, QueueFails
  <2> QED BY <2>1 DEF Clean
<1>7. CASE ClaimBody
  <2>1. buf' = buf /\ post \in Posting /\ post # NoPost
    BY <1>7, LeftAlone, PostIs DEF relay, ClaimBody
  <2>2. post'.of = post.of /\ post'.intact = post.intact
    BY <1>7, <2>1 DEF ClaimBody, Posting
  <2> QED BY <2>1, <2>2 DEF Clean
<1>8. CASE LinkStep \/ UNCHANGED relayVars
  BY <1>1, <1>8, LeftAlone
<1> QED
  BY <1>2, <1>3, <1>4, <1>5, <1>6, <1>7, <1>8 DEF RelayNext, LinkStep

-----------------------------------------------------------------------------
(* What is posted to the endpoint, and what comes of it.                   *)

LEMMA PostPassedStep ==
    ASSUME Typed, PostPassed, [RelayNext]_relayVars
    PROVE  PostPassed'
<1>1. ASSUME UNCHANGED <<post, claimed>> PROVE PostPassed'
  BY <1>1 DEF PostPassed, Verified, Digest
<1>2. CASE TakeFrame
  <2>1. CASE post' = NoPost
    BY <2>1, NoPostAt DEF PostPassed
  <2>2. CASE post' # NoPost
    BY <1>2, <2>2 DEF TakeFrame, PostPassed
  <2> QED BY <2>1, <2>2
<1>3. CASE Unreachable \/ ClaimFails \/ RefuseBody \/ QueueJob \/ QueueFails
  <2>1. post' = NoPost
    BY <1>3 DEF Unreachable, ClaimFails, RefuseBody, QueueJob, QueueFails
  <2> QED BY <2>1, NoPostAt DEF PostPassed
<1>4. CASE ClaimBody
  <2>1. post \in Posting /\ post # NoPost
    BY <1>4, PostIs DEF ClaimBody
  <2>2. /\ post'.of = post.of /\ post'.intact = post.intact /\ post'.signed = post.signed
        /\ claimed' = claimed \cup {Digest}
        /\ Refusal(post.of, Verified, post.signed) = "none"
    BY <1>4, <2>1 DEF ClaimBody, Posting
  <2>3. Verified' = Verified /\ Digest' = Digest
    BY <2>2 DEF Verified, Digest
  <2> QED BY <2>1, <2>2, <2>3 DEF PostPassed
<1>5. ASSUME \E e \in Event : Send(e) PROVE UNCHANGED <<post, claimed>>
  BY <1>5, LeftAlone DEF endpoint
<1>6. ASSUME Disconnect \/ ReadChunk \/ LinkStep \/ UNCHANGED relayVars
      PROVE  UNCHANGED <<post, claimed>>
  BY <1>6, LeftAlone DEF endpoint
<1> QED
  BY <1>1, <1>2, <1>3, <1>4, <1>5, <1>6 DEF RelayNext, LinkStep

(* Appending a job.                                                        *)
LEMMA Queues ==
    ASSUME Typed, QueueJob
    PROVE  /\ JobOf(post.of) = NoJob => jobs' = jobs
           /\ JobOf(post.of) # NoJob =>
                 /\ DOMAIN jobs = 1 .. Len(jobs) /\ Len(jobs) \in Nat
                 /\ DOMAIN jobs' = 1 .. Len(jobs) + 1
                 /\ \A n \in DOMAIN jobs : jobs'[n] = jobs[n]
                 /\ jobs'[Len(jobs) + 1] = JobOf(post.of)
<1>1. JobOf(post.of) = NoJob => jobs' = jobs
  BY DEF QueueJob
<1>2. ASSUME JobOf(post.of) # NoJob
      PROVE  /\ DOMAIN jobs = 1 .. Len(jobs) /\ Len(jobs) \in Nat
             /\ DOMAIN jobs' = 1 .. Len(jobs) + 1
             /\ \A n \in DOMAIN jobs : jobs'[n] = jobs[n]
             /\ jobs'[Len(jobs) + 1] = JobOf(post.of)
  <2> DEFINE made == JobOf(post.of)  all == {JobOf(e) : e \in Event}
  <2>1. jobs' = Append(jobs, made) /\ made \in all /\ jobs \in Seq(all)
    BY <1>2, PostIs DEF QueueJob, Typed
  <2> HIDE DEF made, all
  <2>2. /\ jobs' \in Seq(all) /\ Len(jobs') = Len(jobs) + 1 /\ Len(jobs) \in Nat
        /\ DOMAIN jobs' = 1 .. Len(jobs') /\ DOMAIN jobs = 1 .. Len(jobs)
        /\ \A n \in 1 .. Len(jobs) : jobs'[n] = jobs[n]
        /\ jobs'[Len(jobs) + 1] = made
    BY <2>1, AppendProperties, LenProperties
  <2> QED BY <2>2 DEF made
<1> QED BY <1>1, <1>2

(* No step takes a job back, or forgets why there is none.                 *)
LEMMA JobsGrow ==
    ASSUME Typed, [RelayNext]_relayVars
    PROVE  /\ \A n \in DOMAIN jobs : n \in DOMAIN jobs' /\ jobs'[n] = jobs[n]
           /\ \A e : JobFor(e) => JobFor(e)'
           /\ excused \subseteq excused'
<1>1. \A n \in DOMAIN jobs : n \in DOMAIN jobs' /\ jobs'[n] = jobs[n]
  <2>1. CASE QueueJob
    BY <2>1, Queues
  <2>2. CASE ~QueueJob
    <3>1. jobs' = jobs
      BY <2>2, LeftAlone DEF RelayNext, LinkStep, endpoint
    <3> QED BY <3>1
  <2> QED BY <2>1, <2>2
<1>2. \A e : JobFor(e) => JobFor(e)'
  BY <1>1 DEF JobFor
<1>3. excused \subseteq excused'
  BY LeftAlone DEF RelayNext, LinkStep, Send, Disconnect, Unreachable, RefuseBody, ClaimFails, QueueFails
<1> QED BY <1>1, <1>2, <1>3

LEMMA ClaimedIsWhole ==
    ASSUME Typed, PostPassed, post.at \in {"posted", "claimed"}, RequireSignature,
           Refusal(post.of, Verified, post.signed) = "none"
    PROVE  post.intact = TRUE /\ Digest = <<post.of, TRUE>>
<1>1. Verified
  BY Passes
<1> QED BY <1>1, PostIs DEF Verified, Digest

(* A body being queued stays so until it is a job or there is a reason.    *)
LEMMA QueuedEnds ==
    ASSUME Typed, [RelayNext]_relayVars, NEW e \in Event, ActsOn(e), BeingQueued(e)
    PROVE  BeingQueued(e)' \/ JobFor(e)' \/ e \in excused'
<1>0. post.at = "claimed" /\ post.of = e /\ post # NoPost
  BY NoPostAt DEF BeingQueued
<1>1. CASE post' = post
  BY <1>0, <1>1 DEF BeingQueued
<1>2. CASE QueueJob
  <2>1. JobOf(e) # NoJob /\ JobOf(e).of = e
    BY ActedOn, JobIsOf
  <2>2. Len(jobs) + 1 \in DOMAIN jobs' /\ jobs'[Len(jobs) + 1] = JobOf(e)
    BY <1>0, <1>2, <2>1, Queues
  <2> QED BY <2>1, <2>2 DEF JobFor
<1>3. CASE QueueFails
  BY <1>0, <1>3 DEF QueueFails
<1> QED
  BY <1>0, <1>1, <1>2, <1>3, LeftAlone
  DEF RelayNext, LinkStep, TakeFrame, Unreachable, RefuseBody, ClaimBody, ClaimFails

LEMMA ClaimsHoldStep ==
    ASSUME Typed, ClaimsHold, PostPassed, [RelayNext]_relayVars
    PROVE  ClaimsHold'
<1>1. ASSUME NEW e \in Event, <<e, TRUE>> \in claimed', ActsOn(e)
      PROVE  JobFor(e)' \/ e \in excused' \/ BeingQueued(e)'
  <2>1. CASE <<e, TRUE>> \in claimed
    BY <1>1, <2>1, JobsGrow, QueuedEnds DEF ClaimsHold
  <2>2. CASE <<e, TRUE>> \notin claimed
    <3>1. ClaimBody /\ <<e, TRUE>> = Digest
      <4>1. ~ClaimBody => claimed' \subseteq claimed
        BY LeftAlone DEF RelayNext, LinkStep, endpoint, QueueJob, QueueFails
      <4> QED BY <1>1, <2>2, <4>1 DEF ClaimBody
    <3>2. post \in Posting /\ post.of = e
      BY <3>1, PostIs DEF ClaimBody, Digest
    <3>3. post'.at = "claimed" /\ post'.of = e
      BY <3>1, <3>2 DEF ClaimBody, Posting
    <3> QED BY <3>3 DEF BeingQueued
  <2> QED BY <2>1, <2>2
<1>2. ASSUME RequireSignature, NEW n \in DOMAIN jobs'
      PROVE  <<jobs'[n].of, TRUE>> \in claimed' /\ ~BeingQueued(jobs[n].of)'
  <2>1. CASE ClaimBody
    <3>1. /\ jobs' = jobs /\ Digest = <<post.of, TRUE>> /\ Digest \notin claimed
          /\ claimed' = claimed \cup {Digest} /\ post \in Posting
      BY <1>2, <2>1, ClaimedIsWhole, PostIs, LeftAlone DEF ClaimBody
    <3>2. post'.of = post.of
      BY <2>1, <3>1 DEF ClaimBody, Posting
    <3>3. <<jobs[n].of, TRUE>> \in claimed /\ jobs[n].of # post.of
      BY <1>2, <3>1 DEF ClaimsHold
    <3> QED BY <3>1, <3>2, <3>3 DEF BeingQueued
  <2>2. CASE QueueJob
    <3>1. post.at = "claimed" /\ claimed' = claimed /\ post' = NoPost
      BY <2>2, LeftAlone DEF QueueJob
    <3>2. ~BeingQueued(jobs[n].of)'
      BY <3>1, NoPostAt DEF BeingQueued
    <3>3. <<post.of, TRUE>> \in claimed
      BY <1>2, <3>1, ClaimedIsWhole DEF PostPassed
    <3>4. \/ n \in DOMAIN jobs /\ jobs'[n] = jobs[n]
          \/ jobs'[n] = JobOf(post.of) /\ JobOf(post.of) # NoJob
      BY <2>2, Queues
    <3> QED BY <1>2, <3>1, <3>2, <3>3, <3>4, JobIsOf DEF ClaimsHold
  <2>3. CASE QueueFails
    <3>1. jobs' = jobs /\ post.at = "claimed" /\ post' = NoPost /\ claimed \ {Digest} \subseteq claimed'
      BY <2>3, LeftAlone DEF QueueFails
    <3>2. ~BeingQueued(jobs[n].of)'
      BY <3>1, NoPostAt DEF BeingQueued
    <3>3. <<jobs[n].of, TRUE>> \in claimed /\ jobs[n].of # post.of
      BY <1>2, <3>1 DEF ClaimsHold, BeingQueued
    <3>4. <<jobs[n].of, TRUE>> # Digest
      BY <3>3 DEF Digest
    <3> QED BY <3>1, <3>2, <3>3, <3>4
  <2>4. CASE ~ClaimBody /\ ~QueueJob /\ ~QueueFails
    <3>1. jobs' = jobs /\ claimed' = claimed
      BY <2>4, LeftAlone DEF RelayNext, LinkStep, endpoint
    <3>2. post' = post \/ post'.at # "claimed"
      BY <2>4, LeftAlone, NoPostAt
      DEF RelayNext, LinkStep, TakeFrame, Unreachable, RefuseBody, ClaimFails
    <3> QED BY <1>2, <3>1, <3>2 DEF ClaimsHold, BeingQueued
  <2> QED BY <2>1, <2>2, <2>3, <2>4
<1> QED BY <1>1, <1>2, RequireIsBoolean DEF ClaimsHold

-----------------------------------------------------------------------------
(* The two properties.                                                     *)

LEMMA DueActs == ASSUME NEW e, Due(e) PROVE ActsOn(e) /\ e.frame = "message"
BY Passes DEF Due

(* Whatever is handled stays handled, or a step gave the reason.           *)
LEMMA HandledStays ==
    ASSUME RelayInv, Typed', [RelayNext]_relayVars, NEW e \in Event, Due(e), ~e.wide, Handled(e)
    PROVE  Handled(e)'
<1>0. Typed /\ Framed /\ Clean /\ ClaimsHold /\ PostPassed /\ ActsOn(e)
  BY DueActs DEF RelayInv
<1>1. CASE JobFor(e) \/ e \in excused
  <2>1. JobFor(e)' \/ e \in excused'
    BY <1>0, <1>1, JobsGrow
  <2> QED BY <2>1 DEF Handled, JobFor
<1>2. CASE e \in Pending
  <2>1. CASE TakeFrame /\ buf[FrameEnd][1] = e
    <3>1. post'.at = "posted" /\ post'.of = e
      BY <2>1, DueActs DEF TakeFrame
    <3> QED BY <3>1 DEF Handled
  <2> QED BY <1>0, <1>2, <2>1, PendingKept DEF Handled
<1>3. CASE post.at # "none" /\ post.of = e
  <2>0. post \in Posting /\ post # NoPost /\ post.of \in Event
    BY <1>0, <1>3, NoPostAt DEF Typed, Posting
  <2>1. CASE post' = post
    BY <1>3, <2>1 DEF Handled
  <2>2. CASE BeingQueued(e)
    BY <1>0, <2>2, QueuedEnds DEF Handled, JobFor, BeingQueued
  <2>3. CASE Unreachable \/ ClaimFails
    BY <1>3, <2>3 DEF Unreachable, ClaimFails, Handled
  <2>4. CASE ClaimBody
    BY <1>3, <2>0, <2>4 DEF ClaimBody, Handled, Posting
  <2>5. CASE RefuseBody
    <3>1. post.intact = TRUE
      BY <1>0, <1>3, <2>0 DEF Clean, Posting
    <3>2. Verified /\ (post.signed <=> ~RequireSignature \/ e.signed)
      BY <1>0, <1>3, <2>0, <3>1 DEF Verified, PostPassed
    <3>3. Refusal(e, Verified, post.signed) = "none"
      BY <3>2 DEF Due, Refusal
    <3>4. <<e, TRUE>> \in claimed /\ post.at = "posted"
      BY <1>3, <2>5, <3>1, <3>3 DEF RefuseBody, Digest
    <3>5. JobFor(e) \/ e \in excused
      BY <1>0, <3>4 DEF ClaimsHold, BeingQueued
    <3> QED BY <1>1, <3>5
  <2>6. post.at = "posted" \/ BeingQueued(e)
    BY <1>3, <2>0 DEF Posting, BeingQueued
  <2> QED
    BY <1>3, <2>1, <2>2, <2>3, <2>4, <2>5, <2>6, LeftAlone
    DEF RelayNext, LinkStep, TakeFrame, QueueJob, QueueFails
<1> QED BY <1>1, <1>2, <1>3 DEF Handled, JobFor

LEMMA JobOrReasonStep ==
    ASSUME RelayInv, Typed', [RelayNext]_relayVars
    PROVE  JobOrReason'
<1>0. Typed /\ Framed /\ Clean /\ JobOrReason
  BY DEF RelayInv
<1> SUFFICES ASSUME NEW n \in DOMAIN sent', NEW e \in Event, e = sent'[n], Due(e), ~e.wide
             PROVE  Handled(e)'
  <2>1. \A n \in DOMAIN sent' : sent'[n] \in Event
    BY LenProperties, ElementOfSeq DEF Typed
  <2>2. \A n \in DOMAIN sent' : Due(sent'[n]) /\ ~sent'[n].wide => Handled(sent[n])'
    <3> TAKE n \in DOMAIN sent'
    <3>1. PICK e \in Event : e = sent'[n]
      BY <2>1
    <3>2. Due(e) /\ ~e.wide => Handled(e)'
      BY <3>1
    <3> QED BY <3>1, <3>2 DEF Handled
  <2> QED BY <2>2 DEF JobOrReason, Due
<1>1. CASE n \in DOMAIN sent /\ sent[n] = e
  <2>1. Handled(e)
    BY <1>0, <1>1 DEF JobOrReason
  <2> QED BY <2>1, HandledStays
<1>2. CASE Send(e)
  <2>1. CASE e \in excused'
    BY <2>1 DEF Handled
  <2>2. CASE stream' = stream \o Bytes(e) /\ buf' = buf
    <3>1. /\ Wires' = Wires + Len(Bytes(e)) /\ Wires \in Nat
          /\ \A m \in Wires + 1 .. Wires + Len(Bytes(e)) : Wire(m)' = Bytes(e)[m - Wires]
      BY <1>0, <2>2, SendAddsBytes, Lengths
    <3>2. Len(Bytes(e)) \in {2, 3} /\ Bytes(e)[1][1] = e
      BY BytesAre
    <3>3. PICK m \in 1 .. Wires' : m = Wires + 1
      BY <3>1, <3>2
    <3>4. Wire(m)'[1] = e
      BY <3>1, <3>2, <3>3
    <3>5. PendingWire'
      BY PendingOnWire, PTL
    <3>6. e \in Pending'
      BY <3>4, <3>5 DEF PendingWire
    <3> QED BY <3>6 DEF Handled
  <2> QED BY <1>2, <2>1, <2>2 DEF Send
<1>3. (n \in DOMAIN sent /\ sent[n] = e) \/ Send(e)
  <2>1. CASE \E d \in Event : Send(d)
    <3>1. PICK d \in Event : Send(d)
      BY <2>1
    <3>2. sent' = Append(sent, d) /\ sent \in Seq(Event)
      BY <1>0, <3>1 DEF Send, Typed
    <3> QED BY <3>1, <3>2, AppendProperties, LenProperties
  <2>2. CASE ~\E d \in Event : Send(d)
    <3>1. sent' = sent
      BY <2>2, LeftAlone DEF RelayNext, LinkStep
    <3> QED BY <3>1
  <2> QED BY <2>1, <2>2
<1> QED BY <1>1, <1>2, <1>3

\* What may be acted on.
Commanded(e) == AsksBarry(e) /\ e.author \in Commander
MayAct(e) ==
    (RequireSignature => e.signed) /\ e.age = "fresh" /\ (e.listed \/ Commanded(e))

LEMMA Authorised ==
    JobsAreAuthorised <=>
        /\ \A n \in DOMAIN jobs :
              MayAct(jobs[n].of) /\ (jobs[n].actor # "nobody" => Commanded(jobs[n].of))
        /\ \A m, n \in DOMAIN jobs :
              RequireSignature /\ jobs[m].of = jobs[n].of => m = n
        /\ \A e \in asked : e.listed /\ e.age = "fresh" /\ (RequireSignature => e.signed)
BY DEF JobsAreAuthorised, MayAct, Commanded

LEMMA PassedMayAct ==
    ASSUME Typed, PostPassed, post.at \in {"posted", "claimed"},
           Refusal(post.of, Verified, post.signed) = "none"
    PROVE  /\ MayAct(post.of) /\ ActsOn(post.of)
           /\ AsksBarry(post.of) => Commanded(post.of)
           /\ ~AsksBarry(post.of) => post.of.listed
<1>1. /\ post.signed /\ ActsOn(post.of) /\ post.of.age = "fresh"
      /\ AsksBarry(post.of) => post.of.author \in Commander
      /\ RepoOf(post.of) /\ ~post.of.listed => OnDemand(post.of)
  BY Passes
<1>2. RequireSignature => post.of.signed
  BY <1>1, PostIs DEF PostPassed
<1>3. RepoOf(post.of)
  BY <1>1, ActedOn
<1> QED BY <1>1, <1>2, <1>3 DEF MayAct, Commanded, OnDemand

LEMMA AuthorisedStep ==
    ASSUME Typed, ClaimsHold, PostPassed, JobsAreAuthorised, [RelayNext]_relayVars
    PROVE  JobsAreAuthorised'
<1>0. /\ \A n \in DOMAIN jobs :
            MayAct(jobs[n].of) /\ (jobs[n].actor # "nobody" => Commanded(jobs[n].of))
      /\ \A m, n \in DOMAIN jobs :
            RequireSignature /\ jobs[m].of = jobs[n].of => m = n
      /\ \A e \in asked : e.listed /\ e.age = "fresh" /\ (RequireSignature => e.signed)
  BY Authorised
<1>1. CASE ClaimBody
  <2>1. jobs' = jobs /\ asked' \subseteq asked \cup {post.of}
    BY <1>1, LeftAlone DEF ClaimBody
  <2>2. CASE post.of.action = "synchronize"
    <3>1. MayAct(post.of) /\ post.of.listed
      BY <1>1, <2>2, PassedMayAct DEF ClaimBody, AsksBarry
    <3> QED BY <1>0, <2>1, <3>1 DEF JobsAreAuthorised, MayAct, Commanded
  <2>3. CASE post.of.action # "synchronize"
    <3>1. asked' = asked
      BY <1>1, <2>3 DEF ClaimBody
    <3> QED BY <2>1, <3>1 DEF JobsAreAuthorised
  <2> QED BY <2>2, <2>3
<1>2. CASE QueueJob
  <2>0. asked' = asked /\ post.at = "claimed"
    BY <1>2, LeftAlone DEF QueueJob
  <2>1. CASE JobOf(post.of) = NoJob
    <3>1. jobs' = jobs
      BY <1>2, <2>1, Queues
    <3> QED BY <2>0, <3>1 DEF JobsAreAuthorised
  <2>2. CASE JobOf(post.of) # NoJob
    <3>1. /\ DOMAIN jobs = 1 .. Len(jobs) /\ Len(jobs) \in Nat
          /\ DOMAIN jobs' = 1 .. Len(jobs) + 1
          /\ \A n \in DOMAIN jobs : jobs'[n] = jobs[n]
          /\ jobs'[Len(jobs) + 1] = JobOf(post.of)
      BY <1>2, <2>2, Queues
    <3>2. /\ MayAct(post.of) /\ JobOf(post.of).of = post.of
          /\ JobOf(post.of).actor # "nobody" => Commanded(post.of)
      BY <2>0, <2>2, PassedMayAct, JobIsOf DEF PostPassed
    <3>3. RequireSignature => \A n \in DOMAIN jobs : jobs[n].of # post.of
      BY <2>0 DEF ClaimsHold, BeingQueued
    <3>4. \A n \in DOMAIN jobs' : n \in DOMAIN jobs \/ n = Len(jobs) + 1
      BY <3>1
    <3>5. ASSUME NEW n \in DOMAIN jobs'
          PROVE  MayAct(jobs'[n].of) /\ (jobs'[n].actor # "nobody" => Commanded(jobs'[n].of))
      <4>1. CASE n \in DOMAIN jobs
        BY <1>0, <3>1, <4>1
      <4>2. CASE n = Len(jobs) + 1
        BY <3>1, <3>2, <4>2
      <4> QED BY <3>4, <4>1, <4>2
    <3>6. ASSUME NEW m \in DOMAIN jobs', NEW n \in DOMAIN jobs',
                 RequireSignature, jobs'[m].of = jobs'[n].of
          PROVE  m = n
      <4>1. CASE m \in DOMAIN jobs /\ n \in DOMAIN jobs
        BY <1>0, <3>1, <3>6, <4>1
      <4>2. CASE m = Len(jobs) + 1 /\ n \in DOMAIN jobs
        BY <3>1, <3>2, <3>3, <3>6, <4>2
      <4>3. CASE m \in DOMAIN jobs /\ n = Len(jobs) + 1
        BY <3>1, <3>2, <3>3, <3>6, <4>3
      <4> QED BY <3>4, <4>1, <4>2, <4>3
    <3> QED BY <1>0, <2>0, <3>5, <3>6 DEF JobsAreAuthorised, MayAct, Commanded
  <2> QED BY <2>1, <2>2
<1>3. CASE ~ClaimBody /\ ~QueueJob
  <2>1. jobs' = jobs /\ asked' = asked
    BY <1>3, LeftAlone DEF RelayNext, LinkStep, endpoint
  <2> QED BY <2>1 DEF JobsAreAuthorised
<1> QED BY <1>1, <1>2, <1>3

-----------------------------------------------------------------------------
(* The theorems.                                                           *)

THEOREM RelayInvariant == RelaySpec => []RelayInv
<1>1. RelayInit => RelayInv
  <2> SUFFICES ASSUME RelayInit PROVE RelayInv
    OBVIOUS
  <2>1. Typed
    <3>1. stream \in Seq(Byte) /\ buf \in Seq(Decode) /\ sent \in Seq(Event)
      BY EmptySeq DEF RelayInit
    <3>2. jobs \in Seq({JobOf(e) : e \in Event}) /\ DOMAIN jobs = {}
      BY EmptySeq DEF RelayInit
    <3> QED BY <3>1, <3>2 DEF RelayInit, Typed
  <2>2. Wires = 0
    BY DEF RelayInit, Wires
  <2>3. Framed /\ Clean /\ ClaimsHold /\ PostPassed
    BY <2>2, NoPostAt DEF RelayInit, Framed, Clean, ClaimsHold, PostPassed
  <2>4. JobOrReason /\ JobsAreAuthorised
    BY DEF RelayInit, JobOrReason, JobsAreAuthorised
  <2> QED BY <2>1, <2>3, <2>4 DEF RelayInv
<1>2. RelayInv /\ [RelayNext]_relayVars => RelayInv'
  <2> SUFFICES ASSUME RelayInv, [RelayNext]_relayVars PROVE RelayInv'
    OBVIOUS
  <2>0. /\ Typed /\ Framed /\ Clean /\ ClaimsHold /\ PostPassed
        /\ JobOrReason /\ JobsAreAuthorised
    BY DEF RelayInv
  <2>1. Typed' /\ Framed' /\ Clean'
    BY <2>0, TypedStep, FramedStep, CleanStep
  <2>2. ClaimsHold' /\ PostPassed' /\ JobsAreAuthorised'
    BY <2>0, ClaimsHoldStep, PostPassedStep, AuthorisedStep
  <2>3. JobOrReason'
    BY <2>1, JobOrReasonStep
  <2> QED BY <2>1, <2>2, <2>3 DEF RelayInv
<1> QED BY <1>1, <1>2, PTL DEF RelaySpec

(* Framing loses nothing (relay.rs:277): whatever pieces the network makes *)
(* of the channel, however many bodies are posted to it, a delivery barry  *)
(* should act on becomes a job, or is on its way, or a disconnection or a  *)
(* failure of the endpoint is to blame.                                    *)
THEOREM NothingIsLost == RelaySpec => []JobOrReason
<1>1. RelayInv => JobOrReason
  BY DEF RelayInv
<1> QED BY <1>1, RelayInvariant, PTL

(* Nothing comes of a delivery that one of the endpoint's checks would     *)
(* refuse (server.rs:217): every job and every push that interrupts a      *)
(* review passed them together, and a signed body makes one job at most.   *)
THEOREM JobsStayAuthorised == RelaySpec => []JobsAreAuthorised
<1>1. RelayInv => JobsAreAuthorised
  BY DEF RelayInv
<1> QED BY <1>1, RelayInvariant, PTL
=============================================================================
