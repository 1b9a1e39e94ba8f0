------------------------- MODULE GitHubWriteProofs -------------------------
(***************************************************************************)
(* Proofs about GitHubWrite: for any calls, texts and delays, however long *)
(* the deadline and whatever fails, a write that must not be sent twice    *)
(* lands once at most, and every write keeps the promise of UniquePost.    *)
(*                                                                         *)
(* The argument is about time.  A copy of an attempt that failed shows     *)
(* within Lag <= 2 * LookupSettle.  Each of the two lookups that precede   *)
(* the next attempt starts at least LookupSettle after the step before it, *)
(* so the second one starts when the copy shows, and finds it.             *)
(***************************************************************************)
EXTENDS GitHubWrite, SequenceTheorems, TLAPS

-----------------------------------------------------------------------------
(* Waits.                                                                  *)

(* A wait that is chosen is a natural number, and the next backoff stays   *)
(* within max_delay (jittered, after_retry_after, client.rs:335).          *)
LEMMA Waits ==
    /\ \A d \in Nat : \A w \in Jittered(d) : w \in Nat
    /\ \A w \in Asked : w \in Nat
    /\ \A w \in Nat, n \in 0 .. 2 :
          /\ Settled(w, n) \in Nat
          /\ n > 0 => Settled(w, n) >= LookupSettle
    /\ \A b \in 1 .. MaxDelay : Smaller(2 * b, MaxDelay) \in 1 .. MaxDelay
<1>1. ASSUME NEW d \in Nat, NEW w \in Jittered(d) PROVE w \in Nat
  <2>1. d \div 2 \in Nat /\ d \div 2 <= d
    OBVIOUS
  <2> QED BY <1>1, <2>1 DEF Jittered
<1>2. ASSUME NEW w \in Asked PROVE w \in Nat
  <2>1. PICK a \in RetryAfter : w \in a + a \div 8 .. a + a \div 4
    BY DEF Asked
  <2>2. a \in Nat
    BY WriteAssumption
  <2>3. a \div 8 \in Nat
    BY <2>2
  <2> QED BY <2>1, <2>2, <2>3
<1>3. ASSUME NEW w \in Nat, NEW n \in 0 .. 2
      PROVE  /\ Settled(w, n) \in Nat
             /\ n > 0 => Settled(w, n) >= LookupSettle
  BY WriteAssumption DEF Settled, Larger
<1>4. ASSUME NEW b \in 1 .. MaxDelay
      PROVE  Smaller(2 * b, MaxDelay) \in 1 .. MaxDelay
  BY WriteAssumption DEF Smaller
<1> QED BY <1>1, <1>2, <1>3, <1>4

-----------------------------------------------------------------------------
(* What one call's wait or return leaves behind.                           *)

Locals ==
    /\ at \in [Call -> {"idle", "sending", "waiting", "looking", "ok", "failed"}]
    /\ started \in [Call -> 0 .. MaxTime]
    /\ backoff \in [Call -> 1 .. MaxDelay]
    /\ owed \in [Call -> 0 .. 2]
    /\ wake \in [Call -> Nat]
    /\ \A c \in Call : owed[c] > 0 => c \in Unique

SameElsewhere(c) ==
    \A d \in Call \ {c} :
        /\ at'[d] = at[d] /\ started'[d] = started[d]
        /\ owed'[d] = owed[d] /\ wake'[d] = wake[d]

(* Call c has been made to wait, with n lookups owed, or has given up.     *)
Waited(c, n) ==
    /\ Locals' /\ SameElsewhere(c)
    /\ started'[c] \in {0, started[c]}
    /\ at'[c] = "failed"
       \/ /\ at'[c] = "waiting"
          /\ owed'[c] = n
          /\ started'[c] = started[c]
          /\ wake'[c] >= clock
          /\ n > 0 => wake'[c] >= clock + LookupSettle

(* A call that returns has ended, and no other call notices.               *)
LEMMA ReturnEnds ==
    ASSUME TypeOK, NEW c \in Call, NEW r \in {"ok", "failed"}, Return(c, r)
    PROVE  /\ Locals' /\ SameElsewhere(c)
           /\ at'[c] = r /\ started'[c] = 0
<1>1. BaseDelay \in 1 .. MaxDelay
  BY WriteAssumption
<1>2. 0 \in 0 .. MaxTime /\ 0 \in 0 .. 2 /\ 0 \in Nat
  BY WriteAssumption
<1>3. \A d \in Call : owed'[d] > 0 => d \in Unique
  BY DEF TypeOK, Return
<1> QED BY <1>1, <1>2, <1>3 DEF TypeOK, Locals, SameElsewhere, Return

(* A call that is to wait either returns, or waits from now for at least   *)
(* the settling time of the lookups it owes.                               *)
LEMMA WaitIsLongEnough ==
    ASSUME TypeOK, NEW c \in Call, NEW w \in Nat, NEW n \in 0 .. 2,
           n > 0 => c \in Unique,
           NEW b \in 1 .. MaxDelay, WaitOrGiveUp(c, w, n, b)
    PROVE  Waited(c, n)
<1> DEFINE wait == Settled(w, n)
<1>1. wait \in Nat /\ (n > 0 => wait >= LookupSettle)
  BY Waits
<1>2. clock \in Nat /\ LookupSettle \in Nat
  BY WriteAssumption DEF TypeOK
<1>3. CASE TooLate(c, wait)
  <2>1. Return(c, "failed")
    BY <1>3 DEF WaitOrGiveUp
  <2> QED BY <2>1, ReturnEnds DEF Waited
<1>4. CASE ~TooLate(c, wait)
  <2>1. /\ at' = [at EXCEPT ![c] = "waiting"]
        /\ wake' = [wake EXCEPT ![c] = clock + wait]
        /\ owed' = [owed EXCEPT ![c] = n]
        /\ backoff' = [backoff EXCEPT ![c] = b]
        /\ UNCHANGED started
    BY <1>4 DEF WaitOrGiveUp
  <2>2. clock + wait \in Nat /\ clock + wait >= clock
    BY <1>1, <1>2
  <2>3. n > 0 => clock + wait >= clock + LookupSettle
    BY <1>1, <1>2
  <2>4. wake' \in [Call -> Nat] /\ wake'[c] = clock + wait
    BY <2>1, <2>2 DEF TypeOK
  <2>5. \A d \in Call : owed'[d] > 0 => d \in Unique
    BY <2>1 DEF TypeOK
  <2>6. Locals'
    BY <2>1, <2>4, <2>5 DEF TypeOK, Locals
  <2>7. SameElsewhere(c) /\ at'[c] = "waiting" /\ owed'[c] = n
    BY <2>1 DEF TypeOK, SameElsewhere
  <2> QED BY <2>1, <2>2, <2>3, <2>4, <2>6, <2>7 DEF Waited
<1> QED BY <1>3, <1>4

(* So does a call that backs off, and one that GitHub asks to wait.        *)
LEMMA BackOffWaits ==
    ASSUME TypeOK, NEW c \in Call, NEW n \in 0 .. 2, n > 0 => c \in Unique,
           BackOff(c, n) \/ TryLater(c, n)
    PROVE  Waited(c, n)
<1>1. backoff[c] \in 1 .. MaxDelay /\ NextBackoff(c) \in 1 .. MaxDelay
  BY Waits DEF TypeOK, NextBackoff
<1>2. backoff[c] \in Nat
  BY <1>1, WriteAssumption
<1>3. PICK w \in Nat, b \in 1 .. MaxDelay : WaitOrGiveUp(c, w, n, b)
  BY <1>1, <1>2, Waits DEF BackOff, TryLater
<1> QED BY <1>3, WaitIsLongEnough

-----------------------------------------------------------------------------
(* The inductive invariant.                                                *)

Copy == [created : Int, shown : Nat]

(* A copy that GitHub makes is of its clock, and shows within Lag          *)
(* (Applied: GitHub's side of write_attempt, client.rs:182).               *)
LEMMA AppliedOnce ==
    ASSUME TypeOK, NEW c \in Call, Applied(c)
    PROVE  /\ copies' \in [Call -> Seq(Copy)]
           /\ \A d \in Call \ {c} : copies'[d] = copies[d]
           /\ Len(copies'[c]) = Len(copies[c]) + 1
           /\ copies[c] = <<>> =>
                 /\ copies'[c][1].created >= clock - Skew
                 /\ copies'[c][1].shown <= clock + Lag
<1>1. PICK created \in clock - Skew .. clock + Skew,
           shown \in clock .. clock + Lag :
        copies' = [copies EXCEPT ![c] =
                      Append(@, [created |-> created, shown |-> shown])]
  BY DEF Applied
<1> DEFINE copy == [created |-> created, shown |-> shown]
<1>2. clock \in Nat /\ Skew \in Nat /\ Lag \in Nat
  BY WriteAssumption DEF TypeOK
<1>3. copies[c] \in Seq(Copy)
  BY DEF TypeOK, Copy
<1>4. copy \in Copy
  BY <1>2 DEF Copy
<1>5. /\ Append(copies[c], copy) \in Seq(Copy)
      /\ Len(Append(copies[c], copy)) = Len(copies[c]) + 1
  BY <1>3, <1>4, AppendProperties
<1>6. copies'[c] = Append(copies[c], copy)
  BY <1>1 DEF TypeOK
<1>7. copies[c] = <<>> => copies'[c][1] = copy
  BY <1>4, <1>6
<1>8. copy.created >= clock - Skew /\ copy.shown <= clock + Lag
  BY <1>2
<1>9. \A d \in Call \ {c} : copies'[d] = copies[d]
  BY <1>1 DEF TypeOK
<1>10. copies' \in [Call -> Seq(Copy)]
  BY <1>1, <1>5 DEF TypeOK, Copy
<1> QED BY <1>5, <1>6, <1>7, <1>8, <1>9, <1>10

(* A call that sends has no copy yet, unless it may be sent twice: this is *)
(* where a second lookup counts.                                           *)
LEMMA SenderHasNone ==
    ASSUME WriteInv, NEW c \in Unique,
           at[c] \in {"idle", "sending"} \/ (at[c] = "waiting" /\ owed[c] = 0)
    PROVE  copies[c] = <<>>
<1>1. ~Ended(c)
  BY DEF Ended
<1>2. ~CopyShows(c)
  BY DEF CopyShows
<1> QED BY <1>1, <1>2 DEF WriteInv, CopiesShow

(* A last lookup that finds no copy of a call's text means that there is   *)
(* none of its own.                                                        *)
LEMMA LastLookupIsRight ==
    ASSUME WriteInv, NEW c \in Unique,
           at[c] = "looking", owed[c] <= 1, Found(c) = {}
    PROVE  copies[c] = <<>>
<1>1. c \in Call /\ ~Ended(c)
  BY WriteAssumption DEF Ended
<1>2. SUFFICES ASSUME copies[c] # <<>> PROVE FALSE
  OBVIOUS
<1>3. CopyShows(c)
  BY <1>1, <1>2 DEF WriteInv, CopiesShow
<1>4. owed[c] = 1
  BY <1>1, <1>3 DEF CopyShows, WriteInv, TypeOK
<1>5. copies[c] \in Seq(Copy)
  BY <1>1 DEF WriteInv, TypeOK, Copy
<1>6. 1 \in DOMAIN copies[c] /\ copies[c][1] \in Copy
  BY <1>2, <1>5
<1>7. wake[c] \in Nat /\ clock \in Nat /\ wake[c] <= clock
  BY <1>1, WriteAssumption DEF WriteInv, TypeOK, InOrder
<1>8. copies[c][1].shown <= wake[c] /\ copies[c][1].created >= Since(c)
  BY <1>3, <1>4 DEF CopyShows
<1>9. copies[c][1].shown <= clock
  BY <1>6, <1>7, <1>8 DEF Copy
<1>10. Matches(c, copies[c][1])
  BY <1>8, <1>9 DEF Matches
<1>11. c \in Found(c)
  BY <1>1, <1>6, <1>10 DEF Found
<1> QED BY <1>11

(* A step of call c keeps the invariant if it does so for c.               *)
LEMMA StepOfOne ==
    ASSUME WriteInv, NEW c \in Call, Locals', UNCHANGED clock, SameElsewhere(c),
           copies' \in [Call -> Seq(Copy)],
           \A d \in Call \ {c} : copies'[d] = copies[d],
           c \in Unique => Len(copies'[c]) <= 1,
           started'[c] <= clock,
           at'[c] = "looking" => wake'[c] <= clock /\ owed'[c] > 0,
           c \in Unique /\ copies'[c] # <<>> => Ended(c)' \/ CopyShows(c)'
    PROVE  WriteInv'
<1>1. TypeOK'
  BY DEF WriteInv, TypeOK, Locals, Copy
<1>2. LandsOnce'
  BY WriteAssumption DEF WriteInv, LandsOnce
<1>3. InOrder'
  BY DEF WriteInv, InOrder, SameElsewhere
<1>4. ASSUME NEW d \in Unique, copies'[d] # <<>>, ~Ended(d)'
      PROVE  CopyShows(d)'
  <2>1. d \in Call
    BY WriteAssumption
  <2>2. CASE d = c
    BY <1>4, <2>2
  <2>3. CASE d # c
    <3>1. /\ copies'[d] = copies[d] /\ at'[d] = at[d] /\ started'[d] = started[d]
          /\ owed'[d] = owed[d] /\ wake'[d] = wake[d]
      BY <2>1, <2>3 DEF SameElsewhere
    <3>2. CopyShows(d)
      BY <1>4, <3>1 DEF WriteInv, CopiesShow, Ended
    <3> QED BY <3>1, <3>2 DEF CopyShows, Since
  <2> QED BY <2>2, <2>3
<1>5. CopiesShow'
  BY <1>4 DEF CopiesShow
<1> QED BY <1>1, <1>2, <1>3, <1>5 DEF WriteInv

(* A call that returns keeps the invariant, if it has a copy at most.      *)
LEMMA ReturnKeeps ==
    ASSUME WriteInv, NEW c \in Call, NEW r \in {"ok", "failed"}, Return(c, r),
           UNCHANGED clock,
           UNCHANGED copies \/ (at[c] = "sending" /\ Applied(c))
    PROVE  WriteInv'
<1>1. TypeOK /\ 0 <= clock
  BY WriteAssumption DEF WriteInv, TypeOK
<1>2. Locals' /\ SameElsewhere(c) /\ at'[c] = r /\ started'[c] = 0
  BY <1>1, ReturnEnds
<1>3. Ended(c)'
  BY <1>2 DEF Ended
<1>4. /\ copies' \in [Call -> Seq(Copy)]
      /\ \A d \in Call \ {c} : copies'[d] = copies[d]
      /\ c \in Unique => Len(copies'[c]) <= 1
  <2>1. CASE UNCHANGED copies
    <3>1. copies \in [Call -> Seq(Copy)]
      BY DEF WriteInv, TypeOK, Copy
    <3>2. c \in Unique => Len(copies[c]) <= 1
      BY DEF WriteInv, LandsOnce
    <3> QED BY <2>1, <3>1, <3>2
  <2>2. CASE at[c] = "sending" /\ Applied(c)
    <3>1. c \in Unique => copies[c] = <<>>
      BY <2>2, SenderHasNone
    <3>2. c \in Unique => Len(copies[c]) = 0
      BY <3>1
    <3> QED BY <1>1, <2>2, <3>2, AppliedOnce
  <2> QED BY <2>1, <2>2
<1>5. at'[c] # "looking"
  BY <1>2
<1> QED BY <1>1, <1>2, <1>3, <1>4, <1>5, StepOfOne

(* So does a call that waits, if a copy of it shows in time.               *)
LEMMA WaitKeeps ==
    ASSUME WriteInv, NEW c \in Call, NEW n \in 0 .. 2, Waited(c, n),
           UNCHANGED clock,
           copies' \in [Call -> Seq(Copy)],
           \A d \in Call \ {c} : copies'[d] = copies[d],
           c \in Unique => Len(copies'[c]) <= 1,
           c \in Unique /\ copies'[c] # <<>> =>
              /\ copies'[c][1].created >= Since(c)
              /\ n > 0
              /\ n = 1 /\ at'[c] = "waiting" => copies'[c][1].shown <= wake'[c]
              /\ n = 2 /\ at'[c] = "waiting"
                    => copies'[c][1].shown <= wake'[c] + LookupSettle
    PROVE  WriteInv'
<1>1. Locals' /\ SameElsewhere(c) /\ at'[c] # "looking"
  BY DEF Waited
<1>2. started[c] \in Nat /\ clock \in Nat /\ started[c] <= clock
  BY WriteAssumption DEF WriteInv, TypeOK, InOrder
<1>3. started'[c] <= clock
  BY <1>2 DEF Waited
<1>4. ASSUME c \in Unique, copies'[c] # <<>> PROVE Ended(c)' \/ CopyShows(c)'
  <2>1. CASE at'[c] = "failed"
    BY <2>1 DEF Ended
  <2>2. CASE at'[c] # "failed"
    <3>1. at'[c] = "waiting" /\ owed'[c] = n /\ started'[c] = started[c]
      BY <2>2 DEF Waited
    <3> QED BY <1>4, <3>1 DEF CopyShows, Since
  <2> QED BY <2>1, <2>2
<1> QED BY <1>1, <1>3, <1>4, StepOfOne

(* WriteInv holds of the first state.                                      *)
LEMMA Initially == Init => WriteInv
<1> SUFFICES ASSUME Init PROVE WriteInv
  OBVIOUS
<1>1. 0 \in 0 .. MaxTime /\ BaseDelay \in 1 .. MaxDelay
  BY WriteAssumption
<1>2. <<>> \in Seq(Copy)
  OBVIOUS
<1>3. TypeOK
  BY <1>1, <1>2 DEF Init, TypeOK, Copy
<1>4. \A c \in Unique : copies[c] = <<>>
  BY WriteAssumption DEF Init
<1>5. LandsOnce /\ CopiesShow
  <2>1. Len(<<>>) <= 1
    OBVIOUS
  <2> QED BY <1>4, <2>1 DEF LandsOnce, CopiesShow
<1>6. InOrder
  <2>1. ASSUME NEW c \in Call
        PROVE  started[c] <= clock /\ at[c] # "looking"
    <3>1. clock = 0 /\ started[c] = 0 /\ at[c] = "idle"
      BY DEF Init
    <3>2. started[c] <= clock
      BY <3>1
    <3> QED BY <3>1, <3>2
  <2> QED BY <2>1 DEF InOrder
<1> QED BY <1>3, <1>5, <1>6 DEF WriteInv

(* Every step of a call keeps the invariant, an action at a time.          *)
LEMMA CallKeeps ==
    ASSUME WriteInv, NEW c \in Call,
           Start(c) \/ Answer(c) \/ Look(c) \/ WakeUp(c) \/ StopWaiting(c)
    PROVE  WriteInv'
<1>1. TypeOK
  BY DEF WriteInv
<1>2. /\ copies \in [Call -> Seq(Copy)]
      /\ c \in Unique => Len(copies[c]) <= 1
  BY DEF WriteInv, TypeOK, LandsOnce, Copy
<1>3. CASE Start(c)
  <2>1. /\ clock \in 0 .. MaxTime /\ UNCHANGED clock /\ UNCHANGED copies
        /\ at' = [at EXCEPT ![c] = "sending"]
        /\ started' = [started EXCEPT ![c] = clock]
        /\ UNCHANGED <<backoff, owed, wake>>
    BY <1>1, <1>3 DEF Start, TypeOK
  <2>2. Locals' /\ SameElsewhere(c)
    BY <1>1, <2>1 DEF TypeOK, Locals, SameElsewhere
  <2>3. started'[c] <= clock /\ at'[c] # "looking"
    BY <1>1, <2>1, WriteAssumption DEF TypeOK
  <2>4. c \in Unique => copies'[c] = <<>>
    BY <1>3, <2>1, SenderHasNone DEF Start
  <2> QED BY <1>2, <2>1, <2>2, <2>3, <2>4, StepOfOne
<1>4. CASE Succeed(c)
  <2>1. PICK r \in {"ok", "failed"} : Return(c, r)
    BY <1>4 DEF Succeed
  <2> QED BY <1>4, <2>1, ReturnKeeps DEF Succeed
<1>5. CASE Reject(c) \/ Find(c) \/ StopWaiting(c)
  <2>1. PICK r \in {"ok", "failed"} : Return(c, r)
    BY <1>5 DEF Reject, Find, StopWaiting
  <2>2. UNCHANGED clock /\ UNCHANGED copies
    BY <1>5 DEF Reject, Find, StopWaiting
  <2> QED BY <2>1, <2>2, ReturnKeeps
<1>6. CASE Refuse(c)
  <2>1. Waited(c, 0)
    BY <1>1, <1>6, BackOffWaits DEF Refuse
  <2>2. UNCHANGED clock /\ UNCHANGED copies
    BY <1>6 DEF Refuse
  <2>3. c \in Unique => copies'[c] = <<>>
    BY <1>6, <2>2, SenderHasNone DEF Refuse
  <2> QED BY <1>2, <2>1, <2>2, <2>3, WaitKeeps
<1>7. CASE Fail(c)
  <2> DEFINE n == LookupsBeforeResend(c)
  <2>1. n \in 0 .. 2 /\ (n > 0 => c \in Unique) /\ (c \in Unique => n = 2)
    BY DEF LookupsBeforeResend
  <2>2. Waited(c, n)
    BY <1>1, <1>7, <2>1, BackOffWaits DEF Fail
  <2>3. UNCHANGED clock /\ at[c] = "sending"
    BY <1>7 DEF Fail
  <2>4. c \in Unique => copies[c] = <<>>
    BY <2>3, SenderHasNone
  <2>5. CASE UNCHANGED copies
    <3>1. c \in Unique => copies'[c] = <<>>
      BY <2>4, <2>5
    <3> QED BY <1>2, <2>1, <2>2, <2>3, <2>5, <3>1, WaitKeeps
  <2>6. CASE Applied(c)
    <3>1. /\ copies' \in [Call -> Seq(Copy)]
          /\ \A d \in Call \ {c} : copies'[d] = copies[d]
      BY <1>1, <2>6, AppliedOnce
    <3>2. ASSUME c \in Unique
          PROVE  /\ Len(copies'[c]) <= 1
                 /\ copies'[c][1] \in Copy
                 /\ copies'[c][1].created >= clock - Skew
                 /\ copies'[c][1].shown <= clock + Lag
      <4>1. copies[c] = <<>> /\ Len(copies[c]) = 0
        BY <2>4, <3>2
      <4>2. Len(copies'[c]) = 1
        <5>1. Len(copies'[c]) = Len(copies[c]) + 1
          BY <1>1, <2>6, AppliedOnce
        <5> QED BY <4>1, <5>1
      <4>3. copies'[c][1] \in Copy
        <5>1. copies'[c] \in Seq(Copy)
          BY <3>1
        <5> QED BY <4>2, <5>1
      <4> QED BY <1>1, <2>6, <4>1, <4>2, <4>3, AppliedOnce
    <3>3. /\ clock \in Nat /\ started[c] \in Nat /\ started[c] <= clock
          /\ Lag <= 2 * LookupSettle /\ Skew <= ClockSlack
          /\ Lag \in Nat /\ LookupSettle \in Nat
          /\ Skew \in Nat /\ ClockSlack \in Nat
      BY WriteAssumption DEF WriteInv, TypeOK, InOrder
    <3>4. c \in Unique => copies'[c][1].created >= Since(c)
      BY <3>2, <3>3 DEF Since, Copy
    <3>5. ASSUME c \in Unique, at'[c] = "waiting"
          PROVE  copies'[c][1].shown <= wake'[c] + LookupSettle
      <4>1. wake'[c] \in Nat /\ wake'[c] >= clock + LookupSettle
        BY <2>1, <2>2, <3>5 DEF Waited, Locals
      <4> QED BY <3>2, <3>3, <3>5, <4>1 DEF Copy
    <3>6. c \in Unique => Len(copies'[c]) <= 1
      BY <3>2
    <3> QED BY <2>1, <2>2, <2>3, <3>1, <3>4, <3>5, <3>6, WaitKeeps
  <2> QED BY <1>7, <2>5, <2>6 DEF Fail
<1>8. CASE WakeUp(c)
  <2>1. /\ at[c] = "waiting" /\ clock >= wake[c]
        /\ at' = [at EXCEPT ![c] = IF owed[c] > 0 THEN "looking" ELSE "sending"]
        /\ UNCHANGED <<clock, copies, started, backoff, owed, wake>>
    BY <1>8 DEF WakeUp
  <2>2. Locals' /\ SameElsewhere(c)
    BY <1>1, <2>1 DEF TypeOK, Locals, SameElsewhere
  <2>3. /\ started'[c] <= clock
        /\ at'[c] = "looking" => wake'[c] <= clock /\ owed'[c] > 0
    <3>1. clock \in Nat /\ wake[c] \in Nat /\ started[c] <= clock
      BY WriteAssumption DEF WriteInv, TypeOK, InOrder
    <3>2. owed[c] > 0 \/ at'[c] = "sending"
      BY <1>1, <2>1 DEF TypeOK
    <3> QED BY <2>1, <3>1, <3>2
  <2>4. ASSUME c \in Unique, copies'[c] # <<>> PROVE CopyShows(c)'
    <3>1. CopyShows(c)
      BY <2>1, <2>4 DEF WriteInv, CopiesShow, Ended
    <3>2. owed[c] > 0 /\ at'[c] = "looking"
      BY <1>1, <2>1, <3>1 DEF CopyShows, TypeOK
    <3> QED BY <2>1, <3>1, <3>2 DEF CopyShows, Since
  <2> QED BY <1>2, <2>1, <2>2, <2>3, <2>4, StepOfOne
<1>9. CASE FindNone(c)
  <2>1. /\ at[c] = "looking" /\ Found(c) = {}
        /\ UNCHANGED clock /\ UNCHANGED copies
    BY <1>9 DEF FindNone
  <2>2. CASE owed[c] = 1
    <3>1. /\ at' = [at EXCEPT ![c] = "sending"]
          /\ owed' = [owed EXCEPT ![c] = 0]
          /\ UNCHANGED <<started, backoff, wake>>
      BY <1>9, <2>2 DEF FindNone
    <3>2. Locals' /\ SameElsewhere(c) /\ at'[c] # "looking"
      BY <1>1, <3>1 DEF TypeOK, Locals, SameElsewhere
    <3>3. started'[c] <= clock
      BY <3>1 DEF WriteInv, InOrder
    <3>4. c \in Unique => copies'[c] = <<>>
      BY <2>1, <2>2, LastLookupIsRight
    <3> QED BY <1>2, <2>1, <3>2, <3>3, <3>4, StepOfOne
  <2>3. CASE owed[c] # 1
    <3>1. owed[c] \in 0 .. 2 /\ owed[c] > 0 /\ (owed[c] > 0 => c \in Unique)
      BY <2>1 DEF WriteInv, TypeOK, InOrder
    <3>2. owed[c] = 2 /\ c \in Unique
      BY <2>3, <3>1
    <3>3. BackOff(c, 1)
      BY <1>9, <3>2 DEF FindNone
    <3>4. Waited(c, 1)
      BY <1>1, <3>2, <3>3, BackOffWaits
    <3>5. ASSUME copies'[c] # <<>>
          PROVE  /\ copies'[c][1].created >= Since(c)
                 /\ at'[c] = "waiting" => copies'[c][1].shown <= wake'[c]
      <4>1. CopyShows(c)
        BY <2>1, <3>2, <3>5 DEF WriteInv, CopiesShow, Ended
      <4>2. copies[c][1].created >= Since(c)
        BY <4>1 DEF CopyShows
      <4>3. copies[c][1].shown <= wake[c] + LookupSettle
        BY <3>2, <4>1 DEF CopyShows
      <4>4. copies[c][1] \in Copy
        <5>1. copies[c] \in Seq(Copy)
          BY <1>2
        <5> QED BY <2>1, <3>5, <5>1
      <4>5. /\ wake[c] \in Nat /\ clock \in Nat /\ LookupSettle \in Nat
            /\ wake[c] <= clock
        BY <2>1, WriteAssumption DEF WriteInv, TypeOK, InOrder
      <4>6. at'[c] = "waiting" =>
              wake'[c] \in Nat /\ wake'[c] >= clock + LookupSettle
        BY <3>4 DEF Waited, Locals
      <4>7. at'[c] = "waiting" => copies[c][1].shown <= wake'[c]
        BY <4>3, <4>4, <4>5, <4>6 DEF Copy
      <4> QED BY <2>1, <4>2, <4>7
    <3> QED BY <1>2, <2>1, <3>4, <3>5, WaitKeeps
  <2> QED BY <2>2, <2>3
<1>10. CASE LookupFails(c)
  <2>1. /\ at[c] = "looking" /\ BackOff(c, owed[c])
        /\ UNCHANGED clock /\ UNCHANGED copies
    BY <1>10 DEF LookupFails
  <2>2. owed[c] \in 0 .. 2 /\ owed[c] > 0 /\ c \in Unique
    BY <2>1 DEF WriteInv, TypeOK, InOrder
  <2>3. Waited(c, owed[c])
    BY <1>1, <2>1, <2>2, BackOffWaits
  <2>4. ASSUME copies'[c] # <<>>
        PROVE  /\ copies'[c][1].created >= Since(c)
               /\ owed[c] = 1 /\ at'[c] = "waiting"
                     => copies'[c][1].shown <= wake'[c]
               /\ owed[c] = 2 /\ at'[c] = "waiting"
                     => copies'[c][1].shown <= wake'[c] + LookupSettle
    <3>1. CopyShows(c)
      BY <2>1, <2>2, <2>4 DEF WriteInv, CopiesShow, Ended
    <3>2. copies[c][1] \in Copy
      <4>1. copies[c] \in Seq(Copy)
        BY <1>2
      <4> QED BY <2>1, <2>4, <4>1
    <3>3. /\ wake[c] \in Nat /\ clock \in Nat /\ LookupSettle \in Nat
          /\ wake[c] <= clock
      BY <2>1, WriteAssumption DEF WriteInv, TypeOK, InOrder
    <3>4. at'[c] = "waiting" => wake'[c] \in Nat /\ wake'[c] >= wake[c]
      <4>1. at'[c] = "waiting" => wake'[c] \in Nat /\ wake'[c] >= clock
        BY <2>3 DEF Waited, Locals
      <4> QED BY <3>3, <4>1
    <3>5. copies[c][1].created >= Since(c)
      BY <3>1 DEF CopyShows
    <3>6. /\ owed[c] = 1 => copies[c][1].shown <= wake[c]
          /\ owed[c] = 2 => copies[c][1].shown <= wake[c] + LookupSettle
      BY <3>1 DEF CopyShows
    <3>7. copies[c][1].shown \in Nat
      BY <3>2 DEF Copy
    <3> QED BY <2>1, <3>3, <3>4, <3>5, <3>6, <3>7
  <2> QED BY <1>2, <2>1, <2>2, <2>3, <2>4, WaitKeeps
<1> QED
  BY <1>3, <1>4, <1>5, <1>6, <1>7, <1>8, <1>9, <1>10 DEF Answer, Look

(* WriteInv is inductive.                                                  *)
THEOREM Invariant == Spec => []WriteInv
<1>1. ASSUME WriteInv, [Next]_vars PROVE WriteInv'
  <2>1. CASE Tick
    <3>1. clock \in 0 .. MaxTime /\ clock' \in 0 .. MaxTime /\ clock <= clock'
      BY <1>1, <2>1, WriteAssumption DEF WriteInv, TypeOK, Tick
    <3>2. /\ copies' = copies /\ at' = at /\ started' = started
          /\ backoff' = backoff /\ owed' = owed /\ wake' = wake
      BY <2>1 DEF Tick, locals
    <3>3. TypeOK' /\ LandsOnce'
      BY <1>1, <3>1, <3>2 DEF WriteInv, TypeOK, LandsOnce
    <3>4. CopiesShow'
      BY <1>1, <3>2 DEF WriteInv, CopiesShow, CopyShows, Since, Ended
    <3>5. InOrder'
      <4>1. ASSUME NEW c \in Call
            PROVE  /\ started[c] \in Nat /\ wake[c] \in Nat
                   /\ started[c] <= clock
                   /\ at[c] = "looking" => wake[c] <= clock /\ owed[c] > 0
        BY <1>1, WriteAssumption DEF WriteInv, TypeOK, InOrder
      <4>2. ASSUME NEW c \in Call
            PROVE  /\ started[c] <= clock'
                   /\ at[c] = "looking" => wake[c] <= clock' /\ owed[c] > 0
        BY <3>1, <4>1
      <4> QED BY <3>2, <4>2 DEF InOrder
    <3> QED BY <3>3, <3>4, <3>5 DEF WriteInv
  <2>2. CASE UNCHANGED vars
    <3>1. /\ clock' = clock /\ copies' = copies /\ at' = at
          /\ started' = started /\ backoff' = backoff /\ owed' = owed
          /\ wake' = wake
      BY <2>2 DEF vars, locals
    <3> QED
      BY <1>1, <3>1 DEF WriteInv, TypeOK, LandsOnce, CopiesShow, CopyShows,
         Since, Ended, InOrder
  <2> QED BY <1>1, <2>1, <2>2, CallKeeps DEF Next
<1> QED BY <1>1, Initially, PTL DEF Spec

(* TypeOK for every calls, texts and delays (the locals of write,          *)
(* client.rs:283).                                                         *)
THEOREM Typing == Spec => []TypeOK
<1>1. WriteInv => TypeOK
  BY DEF WriteInv
<1> QED BY <1>1, Invariant, PTL

(* LandsOnce for every calls, texts and delays: no review or comment is    *)
(* duplicated by a retry (client.rs:262).                                  *)
THEOREM WritesLandOnce == Spec => []LandsOnce
<1>1. WriteInv => LandsOnce
  BY DEF WriteInv
<1> QED BY <1>1, Invariant, PTL

-----------------------------------------------------------------------------
(* The promise.                                                            *)

(* A step of call c is a step of the promise, if what it returns is true.  *)
LEMMA StepOfPromise ==
    ASSUME NEW c \in Call, TypeOK, TypeOK', ~Ended(c), SameElsewhere(c),
           \A d \in Call \ {c} : copies'[d] = copies[d],
           \/ copies'[c] = copies[c]
           \/ /\ c \in Unique => copies[c] = <<>>
              /\ Len(copies'[c]) = Len(copies[c]) + 1,
           at'[c] = "ok" =>
              \E d \in Call : Text[d] = Text[c] /\ Len(copies'[d]) > 0
    PROVE  Promise!Next
<1>1. /\ Result[c] = "none"
      /\ Result' = [Result EXCEPT ![c] = Result'[c]]
      /\ Result'[c] \in {"none", "ok", "failed"}
      /\ Result'[c] = "ok" => at'[c] = "ok"
  <2>1. ASSUME NEW d \in Call \ {c} PROVE Result'[d] = Result[d]
    BY DEF Result, Ended, SameElsewhere
  <2> QED BY <2>1 DEF Result, Ended
<1>2. /\ \A d \in Call : Landed[d] = Len(copies[d]) /\ Landed'[d] = Len(copies'[d])
      /\ Landed = [d \in Call |-> Landed[d]]
      /\ Landed' = [d \in Call |-> Landed'[d]]
  BY DEF Landed
<1>3. \/ Landed' = Landed
      \/ /\ c \in Unique => Landed[c] = 0
         /\ Landed' = [Landed EXCEPT ![c] = @ + 1]
  <2>1. CASE copies'[c] = copies[c]
    BY <1>2, <2>1
  <2>2. CASE /\ c \in Unique => copies[c] = <<>>
             /\ Len(copies'[c]) = Len(copies[c]) + 1
    <3>1. c \in Unique => Landed[c] = 0
      BY <1>2, <2>2
    <3>2. Landed' = [Landed EXCEPT ![c] = @ + 1]
      BY <1>2, <2>2
    <3> QED BY <3>1, <3>2
  <2> QED BY <2>1, <2>2
<1>4. Result'[c] = "ok" => \E d \in Call : Text[d] = Text[c] /\ Landed'[d] > 0
  BY <1>1, <1>2
<1>5. Promise!Step(c)
  BY <1>1, <1>3, <1>4 DEF Promise!Step
<1> QED BY <1>5 DEF Promise!Next

(* PromiseKept for every calls, texts and delays: the retried, looked-up   *)
(* and timed-out write of client.rs:271 implements UniquePost.             *)
THEOREM WritesKeepTheirPromise == Spec => PromiseKept
<1>1. Init => Promise!Init
  <2> SUFFICES ASSUME Init PROVE Promise!Init
    OBVIOUS
  <2>1. ASSUME NEW c \in Call
        PROVE  Len(copies[c]) = 0 /\ ~Ended(c)
    BY DEF Init, Ended
  <2> QED BY <2>1 DEF Promise!Init, Landed, Result
<1>2. ASSUME WriteInv, WriteInv', [Next]_vars
      PROVE  [Promise!Next]_<<Landed, Result>>
  <2>1. CASE copies' = copies /\ at' = at
    BY <2>1 DEF Landed, Result, Ended
  <2>2. ASSUME NEW c \in Call,
               Start(c) \/ Answer(c) \/ Look(c) \/ WakeUp(c) \/ StopWaiting(c)
        PROVE  Promise!Next
    <3>1. TypeOK /\ TypeOK'
      BY <1>2 DEF WriteInv
    <3>2. ~Ended(c)
      BY <2>2 DEF Ended, Start, Answer, Look, WakeUp, StopWaiting, Succeed,
         Reject, Refuse, Fail, Find, FindNone, LookupFails
    <3>3. SameElsewhere(c)
      <4>1. ASSUME NEW r \in {"ok", "failed"}, Return(c, r)
            PROVE  SameElsewhere(c)
        BY <3>1, <4>1, ReturnEnds
      <4>2. ASSUME NEW w, NEW n, NEW b, WaitOrGiveUp(c, w, n, b)
            PROVE  SameElsewhere(c)
        <5>1. CASE TooLate(c, Settled(w, n))
          BY <4>1, <4>2, <5>1 DEF WaitOrGiveUp
        <5>2. CASE ~TooLate(c, Settled(w, n))
          BY <3>1, <4>2, <5>2 DEF WaitOrGiveUp, TypeOK, SameElsewhere
        <5> QED BY <5>1, <5>2
      <4>3. CASE Start(c) \/ WakeUp(c)
        BY <3>1, <4>3 DEF Start, WakeUp, TypeOK, SameElsewhere
      <4>4. CASE Succeed(c) \/ Reject(c) \/ Find(c) \/ StopWaiting(c)
        BY <4>1, <4>4 DEF Succeed, Reject, Find, StopWaiting
      <4>5. CASE Refuse(c) \/ Fail(c) \/ LookupFails(c)
        BY <4>2, <4>5 DEF Refuse, Fail, LookupFails, TryLater, BackOff
      <4>6. CASE FindNone(c)
        <5>1. CASE owed[c] = 1
          BY <3>1, <4>6, <5>1 DEF FindNone, TypeOK, SameElsewhere
        <5>2. CASE owed[c] # 1
          BY <4>2, <4>6, <5>2 DEF FindNone, BackOff
        <5> QED BY <5>1, <5>2
      <4> QED BY <2>2, <4>3, <4>4, <4>5, <4>6 DEF Answer, Look
    <3>4. CASE Succeed(c) \/ (Fail(c) /\ Applied(c))
      <4>1. /\ \A d \in Call \ {c} : copies'[d] = copies[d]
            /\ Len(copies'[c]) = Len(copies[c]) + 1
        BY <3>1, <3>4, AppliedOnce DEF Succeed
      <4>2. c \in Unique => copies[c] = <<>>
        BY <1>2, <3>4, SenderHasNone DEF Succeed, Fail
      <4>3. Len(copies'[c]) > 0
        <5>1. Len(copies[c]) \in Nat
          BY <3>1 DEF TypeOK
        <5> QED BY <4>1, <5>1
      <4> QED BY <3>1, <3>2, <3>3, <4>1, <4>2, <4>3, StepOfPromise
    <3>5. CASE Find(c)
      <4>1. PICK d \in Call :
              Text[d] = Text[c] /\ \E i \in DOMAIN copies[d] : TRUE
        BY <3>5 DEF Find, Found
      <4>2. copies' = copies /\ Len(copies[d]) > 0
        BY <3>1, <3>5, <4>1 DEF Find, TypeOK
      <4> QED BY <3>1, <3>2, <3>3, <4>1, <4>2, StepOfPromise
    <3>6. CASE ~(Succeed(c) \/ Find(c) \/ (Fail(c) /\ Applied(c)))
      <4>1. copies' = copies
        BY <2>2, <3>6 DEF Answer, Look, Start, WakeUp, StopWaiting, Reject,
           Refuse, Fail, FindNone, LookupFails
      <4>2. at'[c] # "ok"
        <5>1. ASSUME Return(c, "failed") PROVE at'[c] # "ok"
          BY <3>1, <5>1, ReturnEnds
        <5>2. ASSUME NEW w, NEW n, NEW b, WaitOrGiveUp(c, w, n, b)
              PROVE  at'[c] # "ok"
          <6>1. CASE TooLate(c, Settled(w, n))
            BY <5>1, <5>2, <6>1 DEF WaitOrGiveUp
          <6>2. CASE ~TooLate(c, Settled(w, n))
            BY <3>1, <5>2, <6>2 DEF WaitOrGiveUp, TypeOK
          <6> QED BY <6>1, <6>2
        <5>3. CASE Start(c) \/ WakeUp(c)
          BY <3>1, <5>3 DEF Start, WakeUp, TypeOK
        <5>4. CASE Reject(c) \/ StopWaiting(c)
          BY <5>1, <5>4 DEF Reject, StopWaiting
        <5>5. CASE Refuse(c) \/ Fail(c) \/ LookupFails(c)
          BY <5>2, <5>5 DEF Refuse, Fail, LookupFails, TryLater, BackOff
        <5>6. CASE FindNone(c)
          <6>1. CASE owed[c] = 1
            BY <3>1, <5>6, <6>1 DEF FindNone, TypeOK
          <6>2. CASE owed[c] # 1
            BY <5>2, <5>6, <6>2 DEF FindNone, BackOff
          <6> QED BY <6>1, <6>2
        <5> QED BY <2>2, <3>6, <5>3, <5>4, <5>5, <5>6 DEF Answer, Look
      <4> QED BY <3>1, <3>2, <3>3, <4>1, <4>2, StepOfPromise
    <3> QED BY <3>4, <3>5, <3>6
  <2> QED BY <1>2, <2>1, <2>2 DEF Next, Tick, vars, locals
<1> QED BY <1>1, <1>2, Invariant, PTL DEF Spec, PromiseKept, Promise!Spec
=============================================================================
