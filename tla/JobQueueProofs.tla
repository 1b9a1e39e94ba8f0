--------------------------- MODULE JobQueueProofs ---------------------------
(* Proofs about JobQueue, for every value of its constants, and that it    *)
(* implements EventLedger.                                                 *)
EXTENDS JobQueue, TLAPS

LEMMA ConstantTypes ==
    /\ Opened \in Kind \cup {Opened}
    /\ Null \notin Nat /\ Null \in Int
    /\ MaxAttempts \in Nat /\ MaxAttempts > 0
    /\ LeaseSecs \in Nat /\ LeaseSecs > 0
    /\ DebounceSecs \in Nat
    /\ ResetDelay \subseteq Nat
    /\ MaxTime \in Nat /\ MaxJobs \in Nat /\ MaxEvents \in Nat
    /\ MaxRestarts \in Nat
    /\ \A n \in 0 .. MaxAttempts - 1 : Backoff[n] \in Nat
BY QueueAssumption DEF Null

-----------------------------------------------------------------------------
(* The table: every statement leaves it well typed.                        *)

LEMMA EnqueueTyped ==
    ASSUME TableOK, NEW pr \in PR, NEW kind \in Kind \cup {Opened},
           NEW t \in Nat, Enqueue(pr, kind, t)
    PROVE  TableOK'
<1> USE ConstantTypes DEF TableOK, Event
<1>1. nextEvent \in Event /\ nextEvent' \in 1 .. MaxEvents + 1
  <2>1. nextEvent <= MaxEvents /\ nextEvent' = nextEvent + 1
    BY DEF Enqueue
  <2> QED
    BY <2>1
<1>2. CASE Pending(pr, kind) # {}
  <2>1. ASSUME NEW i \in DOMAIN jobs
        PROVE  [jobs[i] EXCEPT !.run_after = Larger(@, t),
                               !.events = @ \cup {nextEvent}] \in Row
    BY <1>1 DEF Row, Larger
  <2>2. /\ nextId' = nextId /\ DOMAIN jobs' = DOMAIN jobs
        /\ \A i \in DOMAIN jobs' : jobs'[i] \in Row
        /\ jobs' = [i \in DOMAIN jobs' |-> jobs'[i]]
    BY <1>2, <2>1 DEF Enqueue
  <2> QED
    BY <1>1, <2>2
<1>3. CASE Pending(pr, kind) = {}
  <2>1. [pr |-> pr, kind |-> kind, run_after |-> t, leased_until |-> Null,
         attempts |-> 0, events |-> {nextEvent}] \in Row
    BY <1>1 DEF Row
  <2>2. /\ nextId <= MaxJobs /\ nextId' = nextId + 1
        /\ DOMAIN jobs' = DOMAIN jobs \cup {nextId}
        /\ \A i \in DOMAIN jobs' : jobs'[i] \in Row
        /\ jobs' = [i \in DOMAIN jobs' |-> jobs'[i]]
    BY <1>3, <2>1 DEF Enqueue
  <2>3. DOMAIN jobs' \subseteq 1 .. nextId' - 1 /\ nextId' \in 1 .. MaxJobs + 1
    BY <2>2
  <2> QED
    BY <1>1, <2>2, <2>3
<1> QED
  BY <1>2, <1>3

LEMMA DeleteTyped ==
    ASSUME TableOK, NEW S, Delete(S), UNCHANGED <<nextId, nextEvent>>
    PROVE  TableOK'
BY DEF TableOK, Delete

LEMMA RescheduleTyped ==
    ASSUME TableOK, NEW i, NEW t \in Nat, RescheduleAt(i, t),
           UNCHANGED <<nextId, nextEvent>>
    PROVE  TableOK'
<1>1. CASE i \in DOMAIN jobs /\ IndexAllows(i)
  <2>1. [jobs[i] EXCEPT !.leased_until = Null, !.run_after = t] \in Row
    BY <1>1 DEF TableOK, Row
  <2> QED
    BY <1>1, <2>1 DEF TableOK, RescheduleAt
<1> QED
  BY <1>1 DEF TableOK, RescheduleAt

LEMMA NackTyped ==
    ASSUME TableOK, clock \in Nat, NEW i, Nack(i),
           UNCHANGED <<nextId, nextEvent>>
    PROVE  TableOK'
<1>1. CASE i \in DOMAIN jobs /\ ~LastAttempt(i) /\ IndexAllows(i)
  <2>0. /\ jobs[i] \in Row
        /\ jobs[i].attempts + 1 \in 0 .. MaxAttempts - 1
        /\ clock + Backoff[jobs[i].attempts] \in Nat
    <3>1. jobs[i] \in Row /\ ~(jobs[i].attempts + 1 >= MaxAttempts)
      BY <1>1 DEF TableOK, LastAttempt
    <3>2. jobs[i].attempts \in 0 .. MaxAttempts - 1
      BY <3>1 DEF Row
    <3> QED
      BY <3>1, <3>2, ConstantTypes
  <2>1. [jobs[i] EXCEPT !.attempts = @ + 1, !.leased_until = Null,
                        !.run_after = clock + Backoff[jobs[i].attempts]] \in Row
    BY <2>0 DEF Row
  <2> QED
    BY <1>1, <2>1 DEF TableOK, Nack
<1>2. CASE i \in DOMAIN jobs /\ LastAttempt(i)
  BY <1>2, DeleteTyped DEF Nack
<1> QED
  BY <1>1, <1>2 DEF TableOK, Nack

LEMMA LeaseNextTyped ==
    ASSUME TableOK, clock \in Nat, NEW w \in Worker, LeaseNext(w)
    PROVE  TableOK'
<1>1. PICK i \in DOMAIN jobs :
         jobs' = [jobs EXCEPT ![i].leased_until = clock + LeaseSecs]
  BY DEF LeaseNext
<1>2. [jobs[i] EXCEPT !.leased_until = clock + LeaseSecs] \in Row
  BY ConstantTypes DEF TableOK, Row
<1> QED
  BY <1>1, <1>2 DEF TableOK, LeaseNext

-----------------------------------------------------------------------------
(* The pool.                                                               *)

LEMMA NoLeaseIsNone == NoLease \notin Lease
BY DEF NoLease, Lease

LEMMA LeaseNextPool ==
    ASSUME TableOK, PoolOK, clock \in Nat, NEW w \in Worker, LeaseNext(w)
    PROVE  PoolOK'
<1>1. PICK i \in DOMAIN jobs :
         run' = [run EXCEPT ![w] =
                [id |-> i, pr |-> jobs[i].pr, kind |-> jobs[i].kind,
                 until |-> clock + LeaseSecs, events |-> jobs[i].events]]
  BY DEF LeaseNext
<1>2. [id |-> i, pr |-> jobs[i].pr, kind |-> jobs[i].kind,
       until |-> clock + LeaseSecs, events |-> jobs[i].events] \in Lease
  BY ConstantTypes DEF TableOK, Row, Lease
<1> QED
  BY <1>1, <1>2 DEF PoolOK, LeaseNext, Busy

(* A worker that leaves its job holds nothing, and the others are as they  *)
(* were.                                                                   *)
LEMMA LeavesPool ==
    ASSUME PoolOK, NEW w \in Worker, BackToPolling(w) \/ Stopped(w)
    PROVE  PoolOK'
BY NoLeaseIsNone DEF PoolOK, Busy, BackToPolling, Stopped

LEMMA ActsPool ==
    ASSUME PoolOK, NEW w \in Worker,
           pc[w] \in {"leased", "running"},
           pc' = [pc EXCEPT ![w] = "running"] \/ pc' = [pc EXCEPT ![w] = "acted"],
           UNCHANGED run
    PROVE  PoolOK'
BY DEF PoolOK, Busy

(* Every step keeps the types, whatever the lengths of leases and runs: no *)
(* row is ever left with all its attempts used (actor.rs, Nack).           *)
LEMMA StepTyped == TypeOK /\ [Next]_vars => TypeOK'
<1> SUFFICES ASSUME TypeOK, [Next]_vars PROVE TypeOK'
  OBVIOUS
<1> USE ConstantTypes DEF TypeOK
<1>0. clock \in Nat /\ clock + DebounceSecs \in Nat
  OBVIOUS
<1>1. ASSUME NEW pr \in PR, NEW kind \in Kind, Webhook(pr, kind)
      PROVE  TypeOK'
  BY <1>0, <1>1, EnqueueTyped DEF Webhook, PoolOK, Busy
<1>2. ASSUME NEW w \in Worker, LeaseNext(w) PROVE TypeOK'
  BY <1>0, <1>2, LeaseNextTyped, LeaseNextPool DEF LeaseNext
<1>3. ASSUME NEW w \in Worker, BeginRun(w) PROVE TypeOK'
  BY <1>3, ActsPool DEF BeginRun, tableVars, TableOK
<1>4. ASSUME NEW w \in Worker, PurgePr(w) PROVE TypeOK'
  BY <1>4, DeleteTyped, ActsPool DEF PurgePr
<1>5. ASSUME NEW w \in Worker, QueueFollowUp(w) PROVE TypeOK'
  <2>1. run[w].pr \in PR
    BY <1>5 DEF QueueFollowUp, PoolOK, Busy, Lease
  <2> QED
    BY <1>0, <1>5, <2>1, EnqueueTyped, ActsPool DEF QueueFollowUp
<1>6. ASSUME NEW w \in Worker, Ack(w) PROVE TypeOK'
  BY <1>6, DeleteTyped, LeavesPool DEF Ack, BackToPolling
<1>7. ASSUME NEW w \in Worker, Fail(w) PROVE TypeOK'
  BY <1>0, <1>7, NackTyped, LeavesPool DEF Fail, BackToPolling
<1>8. ASSUME NEW w \in Worker, LoseReport(w) PROVE TypeOK'
  BY <1>8, LeavesPool DEF LoseReport, BackToPolling, TableOK
<1>9. ASSUME NEW w \in Worker, NEW delay \in ResetDelay, Defer(w, delay)
      PROVE  TypeOK'
  <2>1. clock + delay \in Nat
    BY <1>0
  <2> QED
    BY <1>9, <2>1, RescheduleTyped, LeavesPool DEF Defer, BackToPolling
<1>10. ASSUME NEW w \in Worker, StopPolling(w) PROVE TypeOK'
  BY <1>10, LeavesPool DEF StopPolling, Stopped, TableOK
<1>11. ASSUME NEW w \in Worker, HandBack(w) PROVE TypeOK'
  BY <1>0, <1>11, RescheduleTyped, LeavesPool DEF HandBack, Stopped
<1>12. CASE Sigterm
  BY <1>12 DEF Sigterm, tableVars, workerVars, TableOK, PoolOK, Busy
<1>13. CASE Restart
  <2>1. TableOK'
    BY <1>13 DEF Restart, tableVars, TableOK
  <2>2. PoolOK'
    BY <1>13, NoLeaseIsNone DEF Restart, PoolOK, Busy
  <2>3. clock' \in 0 .. MaxTime /\ stopping' \in BOOLEAN
    BY <1>13 DEF Restart
  <2>4. restarts' \in 0 .. MaxRestarts /\ overran' \subseteq Nat
    BY <1>13 DEF Restart
  <2> QED
    BY <2>1, <2>2, <2>3, <2>4
<1>14. CASE Tick
  <2>1. TableOK' /\ PoolOK'
    BY <1>14 DEF Tick, tableVars, workerVars, TableOK, PoolOK, Busy
  <2>2. clock' \in 0 .. MaxTime /\ stopping' \in BOOLEAN /\ restarts' \in 0 .. MaxRestarts
    BY <1>14 DEF Tick
  <2>3. overran' \subseteq Nat
    <3>1. \A w \in Worker : Busy(w) => run[w].id \in Nat
      BY DEF PoolOK, Lease
    <3> QED
      BY <1>14, <3>1 DEF Tick
  <2> QED
    BY <2>1, <2>2, <2>3
<1>15. CASE UNCHANGED vars
  BY <1>15 DEF vars, TableOK, PoolOK, Busy
<1> QED
  BY <1>1, <1>2, <1>3, <1>4, <1>5, <1>6, <1>7, <1>8, <1>9, <1>10, <1>11,
     <1>12, <1>13, <1>14, <1>15 DEF Next, WorkerStep, EndRun

LEMMA InitTyped == Init => TypeOK
<1> SUFFICES ASSUME Init PROVE TypeOK
  OBVIOUS
<1>1. TableOK
  <2>1. jobs = <<>> /\ DOMAIN jobs = {}
    BY DEF Init
  <2>2. jobs \in [DOMAIN jobs -> Row]
    BY <2>1
  <2> QED
    BY <2>1, <2>2, ConstantTypes DEF Init, TableOK
<1>2. PoolOK
  BY NoLeaseIsNone DEF Init, PoolOK, Busy
<1>3. clock \in 0 .. MaxTime /\ restarts \in 0 .. MaxRestarts
  <2>1. clock = 0 /\ restarts = 0
    BY DEF Init
  <2> QED
    BY <2>1, ConstantTypes
<1>4. stopping \in BOOLEAN /\ overran \subseteq Nat
  BY DEF Init
<1> QED
  BY <1>1, <1>2, <1>3, <1>4 DEF TypeOK

(* The types hold in every reachable state. *)
THEOREM Typing == Spec => []TypeOK
BY InitTyped, StepTyped, PTL DEF Spec

-----------------------------------------------------------------------------
(* What a step may do to the table, said without the statements' text.     *)

SameJob(i) ==
    /\ jobs'[i].pr = jobs[i].pr
    /\ jobs'[i].kind = jobs[i].kind
    /\ jobs'[i].attempts \in Nat
    /\ jobs'[i].events = jobs[i].events

OnlyRow(i) ==
    /\ i \in DOMAIN jobs
    /\ DOMAIN jobs' = DOMAIN jobs
    /\ \A j \in DOMAIN jobs : j # i => jobs'[j] = jobs[j]
    /\ SameJob(i)

Released(i) == OnlyRow(i) /\ IndexAllows(i) /\ jobs'[i].leased_until = Null

LeasedOut(i) ==
    OnlyRow(i) /\ Due(i) /\ jobs'[i].leased_until = clock + LeaseSecs

Merged(pr, kind) ==
    /\ Pending(pr, kind) # {}
    /\ DOMAIN jobs' = DOMAIN jobs
    /\ \A j \in DOMAIN jobs :
          /\ j \notin Pending(pr, kind) => jobs'[j] = jobs[j]
          /\ j \in Pending(pr, kind) =>
                /\ jobs'[j].pr = pr
                /\ jobs'[j].kind = kind
                /\ jobs'[j].leased_until = Null
                /\ jobs'[j].events = jobs[j].events \cup {nextEvent}

Inserted(pr, kind) ==
    /\ Pending(pr, kind) = {}
    /\ nextId \notin DOMAIN jobs
    /\ DOMAIN jobs' = DOMAIN jobs \cup {nextId}
    /\ \A j \in DOMAIN jobs : jobs'[j] = jobs[j]
    /\ jobs'[nextId].pr = pr
    /\ jobs'[nextId].kind = kind
    /\ jobs'[nextId].leased_until = Null
    /\ jobs'[nextId].events = {nextEvent}

LEMMA EnqueueRows ==
    ASSUME TableOK, NEW pr, NEW kind, NEW t, Enqueue(pr, kind, t)
    PROVE  /\ nextEvent' = nextEvent + 1
           /\ Merged(pr, kind) \/ Inserted(pr, kind)
<1>1. nextEvent' = nextEvent + 1
  BY DEF Enqueue
<1>2. CASE Pending(pr, kind) # {}
  <2>1. jobs' = [i \in DOMAIN jobs |->
                  IF i \in Pending(pr, kind)
                  THEN [jobs[i] EXCEPT
                          !.run_after = Larger(@, t),
                          !.events = @ \cup {nextEvent}]
                  ELSE jobs[i]]
    BY <1>2 DEF Enqueue
  <2>2. ASSUME NEW j \in Pending(pr, kind)
        PROVE  /\ jobs'[j].pr = pr
               /\ jobs'[j].kind = kind
               /\ jobs'[j].leased_until = Null
               /\ jobs'[j].events = jobs[j].events \cup {nextEvent}
    <3>1. jobs[j] \in Row /\ j \in DOMAIN jobs
      BY DEF Pending, TableOK
    <3>2. jobs[j].pr = pr /\ jobs[j].kind = kind /\ jobs[j].leased_until = Null
      BY DEF Pending, SamePending
    <3>3. jobs'[j] = [jobs[j] EXCEPT !.run_after = Larger(@, t),
                                     !.events = @ \cup {nextEvent}]
      BY <2>1, <3>1
    <3> QED
      BY <3>1, <3>2, <3>3 DEF Row
  <2> QED
    BY <1>1, <1>2, <2>1, <2>2 DEF Merged
<1>3. CASE Pending(pr, kind) = {}
  <2>1. jobs' = [i \in DOMAIN jobs \cup {nextId} |->
                  IF i = nextId
                  THEN [pr |-> pr, kind |-> kind, run_after |-> t,
                        leased_until |-> Null, attempts |-> 0,
                        events |-> {nextEvent}]
                  ELSE jobs[i]]
    BY <1>3 DEF Enqueue
  <2>2. nextId \notin DOMAIN jobs
    BY DEF TableOK
  <2> QED
    BY <1>1, <1>3, <2>1, <2>2 DEF Inserted
<1> QED
  BY <1>2, <1>3, <1>1

LEMMA RescheduleRow ==
    ASSUME TableOK, NEW i, NEW t, RescheduleAt(i, t)
    PROVE  UNCHANGED jobs \/ Released(i)
<1>1. CASE i \in DOMAIN jobs /\ IndexAllows(i)
  <2>1. jobs' = [jobs EXCEPT ![i].leased_until = Null, ![i].run_after = t]
    BY <1>1 DEF RescheduleAt
  <2>2. jobs[i] \in Row
    BY <1>1 DEF TableOK
  <2>3. /\ DOMAIN jobs' = DOMAIN jobs
        /\ \A j \in DOMAIN jobs : j # i => jobs'[j] = jobs[j]
    BY <2>1 DEF TableOK
  <2>4. jobs'[i] = [jobs[i] EXCEPT !.leased_until = Null, !.run_after = t]
    BY <1>1, <2>1 DEF TableOK
  <2>5. SameJob(i) /\ jobs'[i].leased_until = Null
    BY <2>2, <2>4, ConstantTypes DEF Row, SameJob
  <2> QED
    BY <1>1, <2>3, <2>5 DEF Released, OnlyRow
<1> QED
  BY <1>1 DEF RescheduleAt

LEMMA NackRow ==
    ASSUME TableOK, NEW i, Nack(i)
    PROVE  UNCHANGED jobs \/ Delete({i}) \/ Released(i)
<1>1. CASE i \in DOMAIN jobs /\ ~LastAttempt(i) /\ IndexAllows(i)
  <2>1. jobs' = [jobs EXCEPT
                    ![i].attempts = @ + 1,
                    ![i].leased_until = Null,
                    ![i].run_after = clock + Backoff[jobs[i].attempts]]
    BY <1>1 DEF Nack
  <2>2. jobs[i] \in Row
    BY <1>1 DEF TableOK
  <2>3. /\ DOMAIN jobs' = DOMAIN jobs
        /\ \A j \in DOMAIN jobs : j # i => jobs'[j] = jobs[j]
    BY <2>1 DEF TableOK
  <2>4. jobs'[i] = [jobs[i] EXCEPT !.attempts = @ + 1, !.leased_until = Null,
                        !.run_after = clock + Backoff[jobs[i].attempts]]
    BY <1>1, <2>1 DEF TableOK
  <2>5. SameJob(i) /\ jobs'[i].leased_until = Null
    BY <2>2, <2>4, ConstantTypes DEF Row, SameJob
  <2> QED
    BY <1>1, <2>3, <2>5 DEF Released, OnlyRow
<1> QED
  BY <1>1 DEF Nack

LEMMA LeaseNextRow ==
    ASSUME TableOK, PoolOK, NEW w \in Worker, LeaseNext(w)
    PROVE  \E i \in DOMAIN jobs :
               /\ LeasedOut(i)
               /\ run'[w].id = i
               /\ run'[w].until = clock + LeaseSecs
               /\ run'[w].events = jobs[i].events
<1>1. PICK i \in DOMAIN jobs :
          /\ Due(i)
          /\ jobs' = [jobs EXCEPT ![i].leased_until = clock + LeaseSecs]
          /\ run' = [run EXCEPT ![w] =
                [id |-> i, pr |-> jobs[i].pr, kind |-> jobs[i].kind,
                 until |-> clock + LeaseSecs, events |-> jobs[i].events]]
  BY DEF LeaseNext, FirstDue
<1>2. jobs[i] \in Row
  BY DEF TableOK
<1>3. /\ DOMAIN jobs' = DOMAIN jobs
      /\ \A j \in DOMAIN jobs : j # i => jobs'[j] = jobs[j]
  BY <1>1 DEF TableOK
<1>4. jobs'[i] = [jobs[i] EXCEPT !.leased_until = clock + LeaseSecs]
  BY <1>1 DEF TableOK
<1>5. SameJob(i) /\ jobs'[i].leased_until = clock + LeaseSecs
  BY <1>2, <1>4, ConstantTypes DEF Row, SameJob
<1>6. /\ run'[w].id = i
      /\ run'[w].until = clock + LeaseSecs
      /\ run'[w].events = jobs[i].events
  BY <1>1 DEF PoolOK
<1> QED
  BY <1>1, <1>3, <1>5, <1>6 DEF LeasedOut, OnlyRow

(* A step inserts or merges an event, deletes rows, releases one row,      *)
(* leases one row, or leaves the table alone.                              *)
LEMMA TableStep ==
    ASSUME TypeOK, [Next]_vars
    PROVE  \/ UNCHANGED <<jobs, nextEvent>>
           \/ nextEvent' = nextEvent /\ \E S : Delete(S)
           \/ nextEvent' = nextEvent /\ \E i : Released(i) \/ LeasedOut(i)
           \/ /\ nextEvent' = nextEvent + 1
              /\ \E pr, kind : Merged(pr, kind) \/ Inserted(pr, kind)
<1> USE DEF TypeOK
<1>1. ASSUME NEW pr \in PR, NEW kind \in Kind, Webhook(pr, kind)
      PROVE  /\ nextEvent' = nextEvent + 1
             /\ \E p, k : Merged(p, k) \/ Inserted(p, k)
  BY <1>1, EnqueueRows DEF Webhook
<1>2. ASSUME NEW w \in Worker, QueueFollowUp(w)
      PROVE  /\ nextEvent' = nextEvent + 1
             /\ \E p, k : Merged(p, k) \/ Inserted(p, k)
  BY <1>2, EnqueueRows DEF QueueFollowUp
<1>3. ASSUME NEW w \in Worker, LeaseNext(w)
      PROVE  nextEvent' = nextEvent /\ \E i : LeasedOut(i)
  <2>1. \E i : LeasedOut(i)
    BY <1>3, LeaseNextRow
  <2> QED
    BY <1>3, <2>1 DEF LeaseNext
<1>4. ASSUME NEW w \in Worker, PurgePr(w) \/ Ack(w)
      PROVE  nextEvent' = nextEvent /\ \E S : Delete(S)
  BY <1>4 DEF PurgePr, Ack, BackToPolling
<1>5. ASSUME NEW w \in Worker, Fail(w)
      PROVE  /\ nextEvent' = nextEvent
             /\ UNCHANGED jobs \/ (\E S : Delete(S)) \/ \E i : Released(i)
  BY <1>5, NackRow DEF Fail, BackToPolling
<1>6. ASSUME NEW w \in Worker, NEW delay \in ResetDelay, Defer(w, delay)
      PROVE  nextEvent' = nextEvent /\ (UNCHANGED jobs \/ \E i : Released(i))
  BY <1>6, RescheduleRow DEF Defer, BackToPolling
<1>7. ASSUME NEW w \in Worker, HandBack(w)
      PROVE  nextEvent' = nextEvent /\ (UNCHANGED jobs \/ \E i : Released(i))
  BY <1>7, RescheduleRow DEF HandBack, Stopped
<1>8. ASSUME NEW w \in Worker, BeginRun(w) \/ LoseReport(w) \/ StopPolling(w)
      PROVE  UNCHANGED <<jobs, nextEvent>>
  BY <1>8 DEF BeginRun, LoseReport, StopPolling, Stopped, BackToPolling, tableVars
<1>9. CASE Sigterm \/ Restart \/ Tick \/ UNCHANGED vars
  BY <1>9 DEF Sigterm, Restart, Tick, vars, tableVars
<1> QED
  BY <1>1, <1>2, <1>3, <1>4, <1>5, <1>6, <1>7, <1>8, <1>9
  DEF Next, WorkerStep, EndRun

-----------------------------------------------------------------------------
(* The table's own invariants hold however long runs and leases are.       *)

LEMMA PendingUniqueStep ==
    ASSUME TypeOK, PendingUnique, [Next]_vars
    PROVE  PendingUnique'
<1> USE ConstantTypes DEF TypeOK, TableOK, PendingUnique, SamePending
<1>1. CASE UNCHANGED jobs
  BY <1>1
<1>2. ASSUME NEW S, Delete(S) PROVE PendingUnique'
  BY <1>2 DEF Delete
<1>3. ASSUME NEW i, Released(i) PROVE PendingUnique'
  BY <1>3 DEF Released, OnlyRow, SameJob, IndexAllows, Pending
<1>4. ASSUME NEW i, LeasedOut(i) PROVE PendingUnique'
  <2>1. jobs'[i].leased_until # Null
    BY <1>4 DEF LeasedOut
  <2> QED
    BY <1>4, <2>1 DEF LeasedOut, OnlyRow
<1>5. ASSUME NEW pr, NEW kind, Merged(pr, kind) PROVE PendingUnique'
  BY <1>5 DEF Merged, Pending
<1>6. ASSUME NEW pr, NEW kind, Inserted(pr, kind) PROVE PendingUnique'
  BY <1>6 DEF Inserted, Pending
<1> QED
  BY <1>1, <1>2, <1>3, <1>4, <1>5, <1>6, TableStep

LEMMA EventsApartStep ==
    ASSUME TypeOK, PendingUnique, EventsApart, RowsCarry, [Next]_vars
    PROVE  EventsApart' /\ RowsCarry'
<1> USE DEF TypeOK, TableOK, EventsApart, RowsCarry
<1>0. nextEvent \in Nat
  BY ConstantTypes
<1>1. CASE UNCHANGED <<jobs, nextEvent>>
  BY <1>1
<1>2. ASSUME NEW S, Delete(S), nextEvent' = nextEvent
      PROVE  EventsApart' /\ RowsCarry'
  BY <1>2 DEF Delete
<1>3. ASSUME NEW i, OnlyRow(i), nextEvent' = nextEvent
      PROVE  EventsApart' /\ RowsCarry'
  <2>1. \A j \in DOMAIN jobs : jobs'[j].events = jobs[j].events
    BY <1>3 DEF OnlyRow, SameJob
  <2> QED
    BY <1>3, <2>1 DEF OnlyRow
<1>4. ASSUME NEW pr, NEW kind, Merged(pr, kind), nextEvent' = nextEvent + 1
      PROVE  EventsApart' /\ RowsCarry'
  <2>1. PICK m \in DOMAIN jobs : Pending(pr, kind) = {m}
    BY <1>4 DEF Merged, Pending, PendingUnique, SamePending
  <2>2. /\ \A j \in DOMAIN jobs : j # m => jobs'[j].events = jobs[j].events
        /\ jobs'[m].events = jobs[m].events \cup {nextEvent}
    BY <1>4, <2>1 DEF Merged
  <2>3. DOMAIN jobs' = DOMAIN jobs
    BY <1>4 DEF Merged
  <2>4. \A j \in DOMAIN jobs : nextEvent \notin jobs[j].events
    BY <1>0
  <2>6. \A j \in DOMAIN jobs : \A e \in jobs[j].events : e < nextEvent + 1
    <3>1. \A j \in DOMAIN jobs : jobs[j].events \subseteq Nat
      BY DEF Row, Event
    <3> QED
      BY <1>0, <3>1
  <2>5. RowsCarry'
    BY <1>0, <1>4, <2>2, <2>3, <2>6
  <2> QED
    BY <2>2, <2>3, <2>4, <2>5
<1>5. ASSUME NEW pr, NEW kind, Inserted(pr, kind), nextEvent' = nextEvent + 1
      PROVE  EventsApart' /\ RowsCarry'
  <2>1. \A j \in DOMAIN jobs : nextEvent \notin jobs[j].events
    BY <1>0
  <2>2. \A j \in DOMAIN jobs : \A e \in jobs[j].events : e < nextEvent + 1
    <3>1. \A j \in DOMAIN jobs : jobs[j].events \subseteq Nat
      BY DEF Row, Event
    <3> QED
      BY <1>0, <3>1
  <2> QED
    BY <1>0, <1>5, <2>1, <2>2 DEF Inserted
<1> QED
  BY <1>1, <1>2, <1>3, <1>4, <1>5, TableStep DEF Released, LeasedOut

(* At most one job of a kind waits for a pull request, however leases,     *)
(* hand-backs, retries, deferrals and merges interleave, and even when     *)
(* runs outlast their leases.                                              *)
THEOREM PendingStaysUnique == Spec => []PendingUnique
<1>1. Init => PendingUnique
  BY DEF Init, PendingUnique
<1>2. TypeOK /\ PendingUnique /\ [Next]_vars => PendingUnique'
  BY PendingUniqueStep
<1> QED
  BY <1>1, <1>2, Typing, PTL DEF Spec

-----------------------------------------------------------------------------
(* What runs carry.                                                        *)

(* No row is new, and none gains an event. *)
NoNewEvents ==
    \A j \in DOMAIN jobs' : j \in DOMAIN jobs /\ jobs'[j].events = jobs[j].events

LEMMA NoNewEventsIf ==
    ASSUME UNCHANGED jobs \/ (\E S : Delete(S)) \/ (\E i : OnlyRow(i))
    PROVE  NoNewEvents
BY DEF NoNewEvents, Delete, OnlyRow, SameJob

(* What the end of a run does to the table, and to the worker. *)
LEMMA EndRows ==
    ASSUME TypeOK, NEW w \in Worker,
           EndRun(w) \/ HandBack(w) \/ StopPolling(w)
    PROVE  /\ UNCHANGED jobs \/ Delete({run[w].id}) \/ Released(run[w].id)
           /\ Busy(w) \/ UNCHANGED jobs
           /\ run' = [run EXCEPT ![w] = NoLease]
           /\ pc' = [pc EXCEPT ![w] = "polling"] \/ pc' = [pc EXCEPT ![w] = "stopped"]
           /\ UNCHANGED <<nextId, clock, nextEvent, overran>>
<1> USE DEF TypeOK, Busy, BackToPolling, Stopped
<1>1. CASE Ack(w)
  BY <1>1 DEF Ack, Returns
<1>2. CASE Fail(w)
  BY <1>2, NackRow DEF Fail
<1>3. CASE LoseReport(w)
  BY <1>3 DEF LoseReport
<1>4. ASSUME NEW delay \in ResetDelay, Defer(w, delay)
      PROVE  /\ UNCHANGED jobs \/ Released(run[w].id)
             /\ Busy(w)
             /\ run' = [run EXCEPT ![w] = NoLease]
             /\ pc' = [pc EXCEPT ![w] = "polling"]
             /\ UNCHANGED <<nextId, clock, nextEvent, overran>>
  BY <1>4, RescheduleRow DEF Defer
<1>5. CASE HandBack(w)
  BY <1>5, RescheduleRow DEF HandBack
<1>6. CASE StopPolling(w)
  BY <1>6 DEF StopPolling
<1> QED
  BY <1>1, <1>2, <1>3, <1>4, <1>5, <1>6 DEF EndRun

LEMMA EndPool ==
    ASSUME PoolOK, NEW w \in Worker,
           run' = [run EXCEPT ![w] = NoLease],
           pc' = [pc EXCEPT ![w] = "polling"] \/ pc' = [pc EXCEPT ![w] = "stopped"]
    PROVE  /\ ~Busy(w)'
           /\ \A v \in Worker : v # w => run'[v] = run[v] /\ (Busy(v)' <=> Busy(v))
BY DEF PoolOK, Busy

(* A step of a run that goes on leaves its worker busy. *)
LEMMA GoesOn ==
    ASSUME PoolOK, NEW w \in Worker, pc[w] \in {"leased", "running"},
           pc' = [pc EXCEPT ![w] = "running"] \/ pc' = [pc EXCEPT ![w] = "acted"]
    PROVE  \A v \in Worker : Busy(v)' <=> Busy(v)
BY DEF PoolOK, Busy

(* A worker that leases a row was in no run, and nobody else's changes. *)
LEMMA BeginsPool ==
    ASSUME PoolOK, NEW w \in Worker, LeaseNext(w)
    PROVE  /\ ~Busy(w) /\ Busy(w)'
           /\ \A v \in Worker : v # w => run'[v] = run[v] /\ (Busy(v)' <=> Busy(v))
           /\ UNCHANGED <<nextId, clock, nextEvent, overran>>
BY DEF LeaseNext, PoolOK, Busy

LEMMA CarryingOn ==
    ASSUME RunsCarry, NoNewEvents, UNCHANGED <<nextId, nextEvent>>,
           \A i \in overran' : i < nextId,
           \A v \in Worker : Busy(v)' => Busy(v) /\ run'[v] = run[v]
    PROVE  RunsCarry'
BY DEF RunsCarry, CarriesItsOwn, NoNewEvents

LEMMA EnqueueCarries ==
    ASSUME TypeOK, RunsCarry, NEW pr, NEW kind, NEW t, Enqueue(pr, kind, t),
           UNCHANGED <<run, overran>>, \A v \in Worker : Busy(v)' <=> Busy(v)
    PROVE  RunsCarry'
<1>1. /\ nextEvent' = nextEvent + 1
      /\ Merged(pr, kind) \/ Inserted(pr, kind)
  BY EnqueueRows DEF TypeOK
<1>2. nextId \in Nat /\ (nextId' = nextId \/ nextId' = nextId + 1)
  <2>1. nextId \in Nat
    BY ConstantTypes DEF TypeOK, TableOK
  <2>2. nextId' = nextId \/ nextId' = nextId + 1
    BY Zenon DEF Enqueue
  <2> QED
    BY <2>1, <2>2
<1>3. nextEvent \in Nat
  BY ConstantTypes DEF TypeOK, TableOK
<1>4. \A j \in DOMAIN jobs' : \A e \in jobs'[j].events :
          e = nextEvent \/ (j \in DOMAIN jobs /\ e \in jobs[j].events)
  BY <1>1 DEF Merged, Inserted
<1>5. \A i \in overran' : i < nextId'
  <2>1. overran' \subseteq Nat /\ \A i \in overran' : i < nextId
    BY DEF RunsCarry, TypeOK
  <2> QED
    BY <1>2, <2>1
<1>6. ASSUME NEW v \in Worker, Busy(v) PROVE CarriesItsOwn(v)'
  <2>1. CarriesItsOwn(v) /\ run'[v] = run[v]
    BY <1>6 DEF RunsCarry
  <2>2. run[v].id \in Nat /\ run[v].events \subseteq Nat
    <3>1. run[v] \in Lease
      BY <1>6 DEF TypeOK, PoolOK
    <3> QED
      BY <3>1, ConstantTypes DEF Lease, Event
  <2>3. run'[v].id < nextId' /\ run'[v].events # {}
    BY <1>2, <2>1, <2>2 DEF CarriesItsOwn
  <2>4. \A e \in run[v].events : e < nextEvent /\ e < nextEvent + 1 /\ e # nextEvent
    BY <1>3, <2>1, <2>2 DEF CarriesItsOwn
  <2>5. \A i \in DOMAIN jobs' :
            jobs'[i].events \cap run[v].events # {} => i = run[v].id
    BY <1>4, <2>1, <2>4 DEF CarriesItsOwn
  <2> QED
    BY <1>1, <2>1, <2>3, <2>4, <2>5 DEF CarriesItsOwn
<1> QED
  BY <1>5, <1>6 DEF RunsCarry

LEMMA RunsCarryStep ==
    ASSUME TypeOK, EventsApart, RowsCarry, RunsCarry, [Next]_vars
    PROVE  RunsCarry'
<1>0. TableOK /\ PoolOK /\ \A i \in overran : i < nextId
  BY DEF TypeOK, RunsCarry
<1>1. ASSUME NEW pr \in PR, NEW kind \in Kind, Webhook(pr, kind)
      PROVE  RunsCarry'
  BY <1>1, EnqueueCarries DEF Webhook, Busy
<1>2. ASSUME NEW w \in Worker, LeaseNext(w) PROVE RunsCarry'
  <2>1. PICK i \in DOMAIN jobs :
           /\ LeasedOut(i)
           /\ run'[w].id = i
           /\ run'[w].events = jobs[i].events
    BY <1>0, <1>2, LeaseNextRow
  <2>2. /\ DOMAIN jobs' = DOMAIN jobs
        /\ \A j \in DOMAIN jobs : jobs'[j].events = jobs[j].events
    BY <2>1 DEF LeasedOut, OnlyRow, SameJob
  <2>3. /\ \A v \in Worker : v # w => run'[v] = run[v] /\ (Busy(v)' <=> Busy(v))
        /\ UNCHANGED <<nextId, nextEvent, overran>>
    BY <1>0, <1>2, BeginsPool
  <2>4. i < nextId
    BY <1>0, ConstantTypes DEF TableOK
  <2>5. ASSUME NEW v \in Worker, v # w, Busy(v)
        PROVE  CarriesItsOwn(v) /\ run'[v] = run[v]
    BY <2>3, <2>5 DEF RunsCarry
  <2>6. CarriesItsOwn(w)'
    <3>1. run'[w].id < nextId' /\ run'[w].events # {}
      BY <2>1, <2>3, <2>4 DEF RowsCarry
    <3>2. \A e \in run'[w].events : e < nextEvent'
      BY <2>1, <2>3 DEF RowsCarry
    <3>3. \A j \in DOMAIN jobs' : jobs'[j].events \cap run'[w].events # {} => j = run'[w].id
      BY <2>1, <2>2 DEF EventsApart
    <3>4. \A v \in Worker : Busy(v)' /\ run'[v].events \cap run'[w].events # {}
                                => run'[v].id = run'[w].id
      BY <2>1, <2>3, <2>5 DEF CarriesItsOwn
    <3> QED
      BY <3>1, <3>2, <3>3, <3>4 DEF CarriesItsOwn
  <2>7. ASSUME NEW v \in Worker, v # w, Busy(v) PROVE CarriesItsOwn(v)'
    <3>1. CarriesItsOwn(v) /\ run'[v] = run[v]
      BY <2>5, <2>7
    <3>2. \A u \in Worker : Busy(u)' /\ run'[u].events \cap run'[v].events # {}
                                => run'[u].id = run'[v].id
      BY <2>1, <2>3, <3>1 DEF CarriesItsOwn
    <3> QED
      BY <2>2, <2>3, <3>1, <3>2 DEF CarriesItsOwn
  <2>8. \A i1 \in overran' : i1 < nextId'
    BY <1>0, <2>3
  <2> QED
    BY <2>3, <2>6, <2>7, <2>8 DEF RunsCarry
<1>3. ASSUME NEW w \in Worker, BeginRun(w) PROVE RunsCarry'
  <2>1. \A v \in Worker : Busy(v)' <=> Busy(v)
    BY <1>0, <1>3, GoesOn DEF BeginRun
  <2> QED
    BY <1>0, <1>3, <2>1, NoNewEventsIf, CarryingOn DEF BeginRun, tableVars
<1>4. ASSUME NEW w \in Worker, PurgePr(w) PROVE RunsCarry'
  <2>1. \A v \in Worker : Busy(v)' <=> Busy(v)
    BY <1>0, <1>4, GoesOn DEF PurgePr
  <2>2. NoNewEvents
    BY <1>4, NoNewEventsIf DEF PurgePr
  <2> QED
    BY <1>0, <1>4, <2>1, <2>2, CarryingOn DEF PurgePr
<1>5. ASSUME NEW w \in Worker, QueueFollowUp(w) PROVE RunsCarry'
  <2>1. \A v \in Worker : Busy(v)' <=> Busy(v)
    BY <1>0, <1>5, GoesOn DEF QueueFollowUp
  <2> QED
    BY <1>5, <2>1, EnqueueCarries DEF QueueFollowUp
<1>6. ASSUME NEW w \in Worker, EndRun(w) \/ HandBack(w) \/ StopPolling(w)
      PROVE  RunsCarry'
  <2>1. NoNewEvents
    BY <1>6, EndRows, NoNewEventsIf DEF Released
  <2> QED
    BY <1>0, <1>6, <2>1, EndRows, EndPool, CarryingOn
<1>7. CASE Restart
  <2>1. \A v \in Worker : ~Busy(v)'
    BY <1>7 DEF Restart, Busy
  <2> QED
    BY <1>7, <2>1 DEF Restart, RunsCarry
<1>8. CASE Tick
  <2>1. \A v \in Worker : Busy(v) => run[v].id < nextId
    BY DEF RunsCarry, CarriesItsOwn
  <2>2. \A i \in overran' : i < nextId
    BY <1>0, <1>8, <2>1 DEF Tick
  <2>3. NoNewEvents
    BY <1>8, NoNewEventsIf DEF Tick, tableVars
  <2>4. UNCHANGED <<nextId, nextEvent, run>> /\ \A v \in Worker : Busy(v)' <=> Busy(v)
    BY <1>8 DEF Tick, tableVars, workerVars, Busy
  <2> QED
    BY <2>2, <2>3, <2>4, CarryingOn
<1>9. CASE Sigterm \/ UNCHANGED vars
  <2>1. NoNewEvents
    BY <1>9, NoNewEventsIf DEF Sigterm, tableVars, vars
  <2>2. /\ UNCHANGED <<nextId, nextEvent, run, overran>>
        /\ \A v \in Worker : Busy(v)' <=> Busy(v)
    BY <1>9 DEF Sigterm, vars, tableVars, workerVars, Busy
  <2> QED
    BY <1>0, <2>1, <2>2, CarryingOn
<1> QED
  BY <1>1, <1>2, <1>3, <1>4, <1>5, <1>6, <1>7, <1>8, <1>9 DEF Next, WorkerStep

-----------------------------------------------------------------------------
(* Runs and leases: until a run of it outlasts its lease, a row is its     *)
(* run's.                                                                  *)

(* The row worker v holds is where it was, unchanged. *)
Kept(v) ==
    run[v].id \in DOMAIN jobs' /\ jobs'[run[v].id] = jobs[run[v].id]

LEMMA HeldIsLeased ==
    ASSUME QueueInv, NEW v \in Worker, Busy(v), run[v].id \notin overran
    PROVE  /\ run[v].id \in DOMAIN jobs
           /\ jobs[run[v].id].leased_until # Null
           /\ ~Due(run[v].id)
           /\ jobs[run[v].id].events = run[v].events
<1>1. HoldsRow(v)
  BY DEF QueueInv, RunsHoldRows
<1>2. run[v].until \in Nat /\ clock \in Nat
  <2>1. run[v] \in Lease
    BY DEF QueueInv, TypeOK, PoolOK
  <2> QED
    BY <2>1, ConstantTypes DEF Lease, QueueInv, TypeOK
<1>3. run[v].until # Null /\ ~(run[v].until <= clock)
  BY <1>1, <1>2, ConstantTypes DEF HoldsRow
<1> QED
  BY <1>1, <1>3 DEF HoldsRow, Due

(* New events go to rows that are pending or new. *)
LEMMA EnqueueKeeps ==
    ASSUME QueueInv, NEW pr, NEW kind, NEW t, Enqueue(pr, kind, t),
           NEW v \in Worker, Busy(v), run[v].id \notin overran
    PROVE  Kept(v)
<1>1. Merged(pr, kind) \/ Inserted(pr, kind)
  BY EnqueueRows DEF QueueInv, TypeOK
<1> QED
  BY <1>1, HeldIsLeased DEF Merged, Inserted, Pending, SamePending, Kept

(* The end of one run leaves the rows of the others alone. *)
LEMMA EndKeeps ==
    ASSUME QueueInv, NEW w \in Worker, Busy(w),
           NEW v \in Worker, Busy(v), v # w, run[v].id \notin overran,
           UNCHANGED jobs \/ Delete({run[w].id}) \/ Released(run[w].id)
    PROVE  Kept(v)
<1>1. run[v].id # run[w].id
  BY DEF QueueInv, RunExclusive
<1> QED
  BY <1>1, HeldIsLeased DEF Delete, Released, OnlyRow, Kept

(* If every run that goes on keeps its row, all is as it was. *)
LEMMA KeepingHolds ==
    ASSUME QueueInv, UNCHANGED <<clock, overran>>,
           \A v \in Worker : Busy(v)' =>
               /\ Busy(v) /\ run'[v] = run[v]
               /\ run[v].id \notin overran => Kept(v)
    PROVE  RunsHoldRows' /\ RunExclusive'
BY DEF QueueInv, RunsHoldRows, HoldsRow, RunExclusive, Kept

LEMMA RunsHoldRowsStep ==
    ASSUME QueueInv, [Next]_vars
    PROVE  RunsHoldRows' /\ RunExclusive'
<1>0. TypeOK /\ TableOK /\ PoolOK
  BY DEF QueueInv, TypeOK
<1>1. ASSUME NEW pr \in PR, NEW kind \in Kind, Webhook(pr, kind)
      PROVE  RunsHoldRows' /\ RunExclusive'
  <2>1. \A v \in Worker : Busy(v) /\ run[v].id \notin overran => Kept(v)
    BY <1>1, EnqueueKeeps DEF Webhook
  <2> QED
    BY <1>1, <2>1, KeepingHolds DEF Webhook, Busy
<1>2. ASSUME NEW w \in Worker, LeaseNext(w)
      PROVE  RunsHoldRows' /\ RunExclusive'
  <2>1. PICK i \in DOMAIN jobs :
           /\ LeasedOut(i)
           /\ run'[w].id = i
           /\ run'[w].until = clock + LeaseSecs
           /\ run'[w].events = jobs[i].events
    BY <1>0, <1>2, LeaseNextRow
  <2>2. \A v \in Worker : Busy(v) /\ run[v].id \notin overran
                             => run[v].id # i /\ Kept(v)
    BY <2>1, HeldIsLeased DEF LeasedOut, OnlyRow, Kept
  <2>3. /\ Busy(w)'
        /\ \A v \in Worker : v # w => run'[v] = run[v] /\ (Busy(v)' <=> Busy(v))
        /\ clock' = clock /\ overran' = overran
    BY <1>0, <1>2, BeginsPool
  <2>4. HoldsRow(w)'
    <3>1. clock < clock + LeaseSecs
      BY <1>0, ConstantTypes DEF TypeOK
    <3> QED
      BY <2>1, <2>3, <3>1 DEF LeasedOut, OnlyRow, SameJob, HoldsRow
  <2>5. \A v \in Worker : v # w /\ Busy(v) /\ run[v].id \notin overran => HoldsRow(v)'
    BY <2>2, <2>3 DEF QueueInv, RunsHoldRows, HoldsRow, Kept
  <2>6. RunsHoldRows'
    BY <2>3, <2>4, <2>5 DEF RunsHoldRows
  <2>7. RunExclusive'
    BY <2>1, <2>2, <2>3 DEF QueueInv, RunExclusive
  <2> QED
    BY <2>6, <2>7
<1>3. ASSUME NEW w \in Worker, BeginRun(w)
      PROVE  RunsHoldRows' /\ RunExclusive'
  <2>1. \A v \in Worker : Busy(v)' => Busy(v)
    BY <1>0, <1>3 DEF BeginRun, PoolOK, Busy
  <2>2. \A v \in Worker : Busy(v) /\ run[v].id \notin overran => Kept(v)
    BY <1>3, HeldIsLeased DEF BeginRun, tableVars, Kept
  <2> QED
    BY <1>3, <2>1, <2>2, KeepingHolds DEF BeginRun
<1>4. ASSUME NEW w \in Worker, PurgePr(w)
      PROVE  RunsHoldRows' /\ RunExclusive'
  <2>1. \A v \in Worker : Busy(v)' => Busy(v)
    BY <1>0, <1>4 DEF PurgePr, PoolOK, Busy
  <2>2. \A v \in Worker : Busy(v) /\ run[v].id \notin overran => Kept(v)
    BY <1>4, HeldIsLeased DEF PurgePr, Delete, Kept
  <2> QED
    BY <1>4, <2>1, <2>2, KeepingHolds DEF PurgePr
<1>5. ASSUME NEW w \in Worker, QueueFollowUp(w)
      PROVE  RunsHoldRows' /\ RunExclusive'
  <2>1. \A v \in Worker : Busy(v)' => Busy(v)
    BY <1>0, <1>5 DEF QueueFollowUp, PoolOK, Busy
  <2>2. \A v \in Worker : Busy(v) /\ run[v].id \notin overran => Kept(v)
    BY <1>5, EnqueueKeeps DEF QueueFollowUp
  <2> QED
    BY <1>5, <2>1, <2>2, KeepingHolds DEF QueueFollowUp
<1>6. ASSUME NEW w \in Worker, EndRun(w) \/ HandBack(w) \/ StopPolling(w)
      PROVE  RunsHoldRows' /\ RunExclusive'
  <2>1. ASSUME NEW v \in Worker, v # w, Busy(v), run[v].id \notin overran
        PROVE  Kept(v)
    BY <1>0, <1>6, <2>1, EndRows, EndKeeps, HeldIsLeased DEF Kept
  <2> QED
    BY <1>0, <1>6, <2>1, EndRows, EndPool, KeepingHolds
<1>7. CASE Restart
  <2>1. \A v \in Worker : ~Busy(v)'
    BY <1>7 DEF Restart, Busy
  <2> QED
    BY <2>1 DEF RunsHoldRows, RunExclusive
<1>8. CASE Tick
  <2>1. /\ jobs' = jobs /\ run' = run /\ clock' = clock + 1
        /\ overran \subseteq overran'
        /\ \A v \in Worker : Busy(v)' <=> Busy(v)
        /\ \A v \in Worker : Busy(v) /\ run[v].until <= clock + 1
                                => run[v].id \in overran'
    BY <1>8 DEF Tick, tableVars, workerVars, Busy
  <2>2. ASSUME NEW v \in Worker, Busy(v), run[v].id \notin overran'
        PROVE  HoldsRow(v)'
    <3>1. run[v].until \in Nat
      BY <1>0, <2>2 DEF PoolOK, Lease
    <3>2. clock' < run[v].until
      BY <1>0, <2>1, <2>2, <3>1, ConstantTypes DEF TypeOK
    <3>3. HoldsRow(v)
      BY <2>1, <2>2 DEF QueueInv, RunsHoldRows
    <3> QED
      BY <2>1, <3>2, <3>3 DEF HoldsRow
  <2> QED
    BY <2>1, <2>2 DEF QueueInv, RunsHoldRows, RunExclusive
<1>9. CASE Sigterm \/ UNCHANGED vars
  BY <1>9 DEF Sigterm, vars, tableVars, workerVars, QueueInv, RunsHoldRows,
              HoldsRow, RunExclusive, Busy
<1> QED
  BY <1>1, <1>2, <1>3, <1>4, <1>5, <1>6, <1>7, <1>8, <1>9 DEF Next, WorkerStep

THEOREM QueueInvariant == Spec => []QueueInv
<1>1. Init => QueueInv
  <2> SUFFICES ASSUME Init PROVE QueueInv
    OBVIOUS
  <2>1. DOMAIN jobs = {} /\ overran = {} /\ \A w \in Worker : ~Busy(w)
    BY DEF Init, Busy
  <2> QED
    BY <2>1, InitTyped
    DEF QueueInv, PendingUnique, EventsApart, RowsCarry, RunsCarry, RunsHoldRows,
        RunExclusive
<1>2. QueueInv /\ [Next]_vars => QueueInv'
  <2> SUFFICES ASSUME QueueInv, [Next]_vars PROVE QueueInv'
    OBVIOUS
  <2>1. TypeOK' /\ PendingUnique' /\ EventsApart' /\ RowsCarry' /\ RunsCarry'
    BY StepTyped, PendingUniqueStep, EventsApartStep, RunsCarryStep DEF QueueInv
  <2>2. RunsHoldRows' /\ RunExclusive'
    BY RunsHoldRowsStep
  <2> QED
    BY <2>1, <2>2 DEF QueueInv
<1> QED
  BY <1>1, <1>2, PTL DEF Spec

(* For any pool, table, lease and history of crashes: two workers run one  *)
(* row only where a run of it has outlasted its lease.                     *)
THEOREM RunsExclude == Spec => []RunExclusive
<1>1. QueueInv => RunExclusive
  BY DEF QueueInv
<1> QED
  BY <1>1, QueueInvariant, PTL

-----------------------------------------------------------------------------
(* JobQueue implements EventLedger: what is owed.                          *)

LEMMA InOwed ==
    /\ \A e : e \in Owed <=> \E i \in DOMAIN jobs : e \in jobs[i].events
    /\ \A e : e \in Owed' <=> \E i \in DOMAIN jobs' : e \in jobs'[i].events
BY DEF Owed

LEMMA OwedIfOnlyRow ==
    ASSUME NEW i, OnlyRow(i) PROVE Owed' = Owed
<1>1. /\ DOMAIN jobs' = DOMAIN jobs
      /\ \A j \in DOMAIN jobs : jobs'[j].events = jobs[j].events
  BY DEF OnlyRow, SameJob
<1> QED
  BY <1>1, InOwed

LEMMA OwedIfDeleted ==
    ASSUME EventsApart, NEW i \in DOMAIN jobs, Delete({i})
    PROVE  Owed' = Owed \ jobs[i].events
<1>1. /\ DOMAIN jobs' = DOMAIN jobs \ {i}
      /\ \A j \in DOMAIN jobs \ {i} : jobs'[j] = jobs[j]
  BY DEF Delete
<1>2. \A j \in DOMAIN jobs \ {i} : jobs[j].events \cap jobs[i].events = {}
  BY DEF EventsApart
<1>3. \A e : e \in Owed' <=> e \in Owed /\ e \notin jobs[i].events
  BY <1>1, <1>2, InOwed
<1> QED
  BY <1>3

LEMMA OwedIfEnqueued ==
    ASSUME TypeOK, PendingUnique, RowsCarry,
           NEW pr, NEW kind, NEW t, Enqueue(pr, kind, t)
    PROVE  nextEvent \in Event \ Owed /\ Owed' = Owed \cup {nextEvent}
<1>0. nextEvent \in Event /\ nextEvent \notin Owed
  <2>1. nextEvent \in Nat /\ nextEvent >= 1 /\ nextEvent <= MaxEvents
    <3>1. nextEvent <= MaxEvents
      BY DEF Enqueue
    <3> QED
      BY <3>1, ConstantTypes DEF TypeOK, TableOK
  <2>2. \A i \in DOMAIN jobs : nextEvent \notin jobs[i].events
    BY <2>1 DEF RowsCarry
  <2> QED
    BY <2>1, <2>2, InOwed, ConstantTypes DEF Event
<1>1. CASE Merged(pr, kind)
  <2>1. PICK m \in DOMAIN jobs : Pending(pr, kind) = {m}
    BY <1>1 DEF Merged, Pending, PendingUnique, SamePending
  <2>2. /\ \A j \in DOMAIN jobs : j # m => jobs'[j].events = jobs[j].events
        /\ jobs'[m].events = jobs[m].events \cup {nextEvent}
        /\ DOMAIN jobs' = DOMAIN jobs
    BY <1>1, <2>1 DEF Merged
  <2>3. \A e : e \in Owed' <=> e \in Owed \/ e = nextEvent
    BY <2>2, InOwed
  <2> QED
    BY <1>0, <2>3
<1>2. CASE Inserted(pr, kind)
  <2>1. \A e : e \in Owed' <=> e \in Owed \/ e = nextEvent
    BY <1>2, InOwed DEF Inserted
  <2> QED
    BY <1>0, <2>1
<1> QED
  BY <1>1, <1>2, EnqueueRows DEF TypeOK

-----------------------------------------------------------------------------
(* What the workers carry, and what is loose.                              *)

LEMMA CarriedIs ==
    /\ \A v \in Worker : Carried[v] = IF Busy(v) THEN run[v].events ELSE {}
    /\ \A v \in Worker : Carried'[v] = IF Busy(v)' THEN run'[v].events ELSE {}
    /\ Carried = [v \in Worker |-> Carried[v]]
    /\ Carried' = [v \in Worker |-> Carried'[v]]
BY DEF Carried

LEMMA CarriedIfDropped ==
    ASSUME PoolOK, NEW w \in Worker,
           run' = [run EXCEPT ![w] = NoLease],
           pc' = [pc EXCEPT ![w] = "polling"] \/ pc' = [pc EXCEPT ![w] = "stopped"]
    PROVE  Carried' = [Carried EXCEPT ![w] = {}]
<1>1. /\ ~Busy(w)'
      /\ \A v \in Worker : v # w => run'[v] = run[v] /\ (Busy(v)' <=> Busy(v))
  BY EndPool
<1>2. \A v \in Worker : v # w => Carried'[v] = Carried[v]
  BY <1>1, CarriedIs
<1>3. Carried'[w] = {}
  BY <1>1, CarriedIs
<1> QED
  BY <1>2, <1>3, CarriedIs

LEMMA CarriedIfKept ==
    ASSUME run' = run, \A v \in Worker : Busy(v)' <=> Busy(v)
    PROVE  Carried' = Carried
BY DEF Carried

LEMMA InLoose ==
    /\ \A e : e \in Loose <=>
          \/ \E i \in DOMAIN jobs : i \in overran /\ e \in jobs[i].events
          \/ \E v \in Worker : Busy(v) /\ run[v].id \in overran /\ e \in run[v].events
    /\ \A e : e \in Loose' <=>
          \/ \E i \in DOMAIN jobs' : i \in overran' /\ e \in jobs'[i].events
          \/ \E v \in Worker : Busy(v)' /\ run'[v].id \in overran' /\ e \in run'[v].events
BY DEF Loose, Overrunners

LEMMA LooseShrinks ==
    ASSUME NoNewEvents, overran' \subseteq overran,
           \A v \in Worker : Busy(v)' => Busy(v) /\ run'[v] = run[v]
    PROVE  Loose' \subseteq Loose
BY InLoose DEF NoNewEvents

(* Only a row with a loose event makes a new event loose. *)
LEMMA EnqueueAccepts ==
    ASSUME QueueInv, NEW pr, NEW kind, NEW t, Enqueue(pr, kind, t),
           run' = run, overran' = overran, \A v \in Worker : Busy(v)' <=> Busy(v)
    PROVE  Ledger!Accept
<1>0. TypeOK /\ TableOK
  BY DEF QueueInv, TypeOK
<1>1. nextEvent \in Event \ Owed /\ Owed' = Owed \cup {nextEvent}
  BY OwedIfEnqueued DEF QueueInv
<1>2. Carried' = Carried
  BY CarriedIfKept
<1>3. Merged(pr, kind) \/ Inserted(pr, kind)
  BY <1>0, EnqueueRows
<1>4. Loose \subseteq Loose'
  BY <1>3, InLoose DEF Merged, Inserted
<1>5. ASSUME NEW e \in Loose', e \notin Loose
      PROVE  e = nextEvent /\ Loose # {}
  <2>1. PICK i \in DOMAIN jobs' : i \in overran /\ e \in jobs'[i].events
    BY <1>5, InLoose
  <2>2. i \in DOMAIN jobs
    <3>1. i \in Nat /\ nextId \in Nat /\ i < nextId
      BY <1>0, <2>1, ConstantTypes DEF QueueInv, RunsCarry, TypeOK, TableOK
    <3> QED
      BY <1>3, <2>1, <3>1 DEF Merged, Inserted
  <2>3. e \in jobs[i].events \/ e = nextEvent
    BY <1>3, <2>1, <2>2 DEF Merged, Inserted
  <2>4. jobs[i].events # {}
    BY <2>2 DEF QueueInv, RowsCarry
  <2> QED
    BY <1>5, <2>1, <2>2, <2>3, <2>4, InLoose
<1>6. Loose' \subseteq Loose \cup (IF Loose = {} THEN {} ELSE {nextEvent})
  BY <1>5
<1> QED
  BY <1>1, <1>2, <1>4, <1>6 DEF Ledger!Accept

LEMMA LeaseSetsOut ==
    ASSUME QueueInv, NEW w \in Worker, LeaseNext(w)
    PROVE  Ledger!SetOut(w)
<1>0. TableOK /\ PoolOK
  BY DEF QueueInv, TypeOK
<1>1. PICK i \in DOMAIN jobs :
         /\ LeasedOut(i)
         /\ run'[w].id = i
         /\ run'[w].events = jobs[i].events
  BY <1>0, LeaseNextRow
<1>2. /\ ~Busy(w) /\ Busy(w)'
      /\ \A v \in Worker : v # w => run'[v] = run[v] /\ (Busy(v)' <=> Busy(v))
      /\ overran' = overran
  BY <1>0, BeginsPool
<1>3. Owed' = Owed
  BY <1>1, OwedIfOnlyRow DEF LeasedOut
<1>4. Carried' = [Carried EXCEPT ![w] = jobs[i].events]
  <2>1. Carried'[w] = jobs[i].events
    BY <1>1, <1>2, CarriedIs
  <2>2. \A v \in Worker : v # w => Carried'[v] = Carried[v]
    BY <1>2, CarriedIs
  <2> QED
    BY <2>1, <2>2, CarriedIs
<1>5. jobs[i].events \in SUBSET Owed /\ jobs[i].events # {}
  BY InOwed DEF QueueInv, RowsCarry
<1>6. Ledger!Untaken(jobs[i].events)
  <2>1. SUFFICES ASSUME NEW v \in Worker, NEW e \in jobs[i].events, e \in Carried[v]
                 PROVE  e \in Loose
    BY DEF Ledger!Untaken
  <2>2. Busy(v) /\ e \in run[v].events
    BY <2>1, CarriedIs
  <2>3. i = run[v].id
    BY <2>1, <2>2 DEF QueueInv, RunsCarry, CarriesItsOwn
  <2>4. run[v].id \in overran
    BY <1>1, <2>2, <2>3, HeldIsLeased DEF LeasedOut
  <2> QED
    BY <2>2, <2>4, InLoose
<1>7. Carried[w] = {}
  BY <1>2, CarriedIs
<1>8. Loose' = Loose
  <2>1. /\ DOMAIN jobs' = DOMAIN jobs
        /\ \A j \in DOMAIN jobs : jobs'[j].events = jobs[j].events
    BY <1>1 DEF LeasedOut, OnlyRow, SameJob
  <2>2. \A e : e \in Loose' <=> e \in Loose
    BY <1>1, <1>2, <2>1, InLoose
  <2> QED
    BY <2>2
<1> QED
  BY <1>3, <1>4, <1>5, <1>6, <1>7, <1>8 DEF Ledger!SetOut

(* Deleting a run's row settles what the run carries, and, if the row is   *)
(* not its own any more, loose events only.                                *)
LEMMA DeleteSettles ==
    ASSUME QueueInv, NEW w \in Worker, Busy(w), run[w].id \in DOMAIN jobs,
           Delete({run[w].id}), Carried' = [Carried EXCEPT ![w] = {}],
           Loose' \subseteq Loose
    PROVE  Ledger!Settle(w)
<1>1. Owed' = Owed \ jobs[run[w].id].events
  BY OwedIfDeleted DEF QueueInv
<1>2. Carried[w] = run[w].events /\ Carried[w] # {}
  BY CarriedIs DEF QueueInv, RunsCarry, CarriesItsOwn
<1>3. CASE run[w].id \notin overran
  <2>1. Owed' = Owed \ (Carried[w] \cup {})
    BY <1>1, <1>2, <1>3, HeldIsLeased
  <2> QED
    BY <1>2, <2>1 DEF Ledger!Settle
<1>4. CASE run[w].id \in overran
  <2>1. jobs[run[w].id].events \in SUBSET Loose /\ Carried[w] \subseteq Loose
    BY <1>2, <1>4, InLoose
  <2>2. \A e \in Owed : e \in Carried[w] => e \in jobs[run[w].id].events
    BY <1>2, InOwed DEF QueueInv, RunsCarry, CarriesItsOwn
  <2>3. Owed' = Owed \ (Carried[w] \cup jobs[run[w].id].events)
    BY <1>1, <2>2
  <2>4. Carried[w] \cap Loose # {}
    BY <1>2, <2>1
  <2> QED
    BY <1>2, <2>1, <2>3, <2>4 DEF Ledger!Settle
<1> QED
  BY <1>3, <1>4

(* Every way a run can end settles its events or leaves them owed. *)
LEMMA EndRefines ==
    ASSUME QueueInv, NEW w \in Worker,
           EndRun(w) \/ HandBack(w) \/ StopPolling(w)
    PROVE  Ledger!Settle(w) \/ Ledger!PutBack(w)
<1>0. TypeOK /\ PoolOK
  BY DEF QueueInv, TypeOK
<1>1. Carried' = [Carried EXCEPT ![w] = {}]
  BY <1>0, EndRows, CarriedIfDropped
<1>2. Loose' \subseteq Loose
  <2>1. NoNewEvents
    BY <1>0, EndRows, NoNewEventsIf DEF Released
  <2> QED
    BY <1>0, <2>1, EndRows, EndPool, LooseShrinks
<1>3. CASE UNCHANGED jobs
  BY <1>1, <1>2, <1>3 DEF Owed, Ledger!PutBack
<1>4. CASE Released(run[w].id)
  BY <1>1, <1>2, <1>4, OwedIfOnlyRow DEF Released, Ledger!PutBack
<1>5. CASE Delete({run[w].id}) /\ Busy(w)
  <2>1. CASE run[w].id \in DOMAIN jobs
    BY <1>1, <1>2, <1>5, <2>1, DeleteSettles
  <2>2. CASE run[w].id \notin DOMAIN jobs
    <3>1. DOMAIN jobs' = DOMAIN jobs /\ \A j \in DOMAIN jobs : jobs'[j] = jobs[j]
      BY <1>5, <2>2 DEF Delete
    <3>2. Owed' = Owed
      BY <3>1, InOwed
    <3> QED
      BY <1>1, <1>2, <3>2 DEF Ledger!PutBack
  <2> QED
    BY <2>1, <2>2
<1> QED
  BY <1>0, <1>3, <1>4, <1>5, EndRows

LEMMA PurgeWritesOff ==
    ASSUME QueueInv, NEW w \in Worker, PurgePr(w)
    PROVE  Ledger!WriteOff
<1>0. PoolOK
  BY DEF QueueInv, TypeOK
<1>1. \A v \in Worker : Busy(v)' <=> Busy(v)
  BY <1>0, GoesOn DEF PurgePr
<1>2. Carried' = Carried
  BY <1>1, CarriedIfKept DEF PurgePr
<1>3. NoNewEvents
  BY NoNewEventsIf DEF PurgePr
<1>4. Loose' \subseteq Loose
  BY <1>1, <1>3, LooseShrinks DEF PurgePr
<1>5. Owed' \subseteq Owed
  BY <1>3, InOwed DEF NoNewEvents
<1>6. Ledger!Untaken(Owed \ Owed')
  <2>1. SUFFICES ASSUME NEW v \in Worker, NEW e \in Owed \ Owed', e \in Carried[v]
                 PROVE  e \in Loose
    BY DEF Ledger!Untaken
  <2>2. Busy(v) /\ e \in run[v].events
    BY <2>1, CarriedIs
  <2>3. PICK i \in DOMAIN jobs : e \in jobs[i].events
    BY <2>1, InOwed
  <2>4. i = run[v].id
    BY <2>2, <2>3 DEF QueueInv, RunsCarry, CarriesItsOwn
  <2>5. run[v].id \in overran
    <3>1. SUFFICES ASSUME run[v].id \notin overran PROVE FALSE
      OBVIOUS
    <3>2. Kept(v)
      BY <2>2, <3>1, HeldIsLeased DEF PurgePr, Delete, Kept
    <3> QED
      BY <2>1, <2>3, <2>4, <3>2, InOwed DEF Kept
  <2> QED
    BY <2>2, <2>5, InLoose
<1>7. (Owed \ Owed') \in SUBSET Owed /\ Owed' = Owed \ (Owed \ Owed')
  BY <1>5
<1> QED
  BY <1>2, <1>4, <1>6, <1>7 DEF Ledger!WriteOff

LEMMA TickOverruns ==
    ASSUME QueueInv, Tick
    PROVE  Ledger!Overrun
<1> DEFINE Late == {v \in Worker : Busy(v) /\ run[v].until <= clock + 1}
<1>1. /\ jobs' = jobs /\ run' = run
      /\ overran' = overran \cup {run[v].id : v \in Late}
      /\ \A v \in Worker : Busy(v)' <=> Busy(v)
  BY DEF Tick, tableVars, workerVars, Busy
<1>2. \A v \in Late : Busy(v) /\ Carried[v] = run[v].events
  BY CarriedIs
<1>3. ASSUME NEW e, e \in Loose', e \notin Loose
      PROVE  e \in UNION {Carried[v] : v \in Late}
  <2>1. CASE \E i \in DOMAIN jobs : i \in overran' /\ e \in jobs[i].events
    <3>1. PICK i \in DOMAIN jobs : i \in overran' /\ e \in jobs[i].events
      BY <2>1
    <3>2. i \notin overran
      BY <1>3, <3>1, InLoose
    <3>3. PICK v \in Late : run[v].id = i
      BY <1>1, <3>1, <3>2
    <3> QED
      BY <1>2, <3>1, <3>2, <3>3, HeldIsLeased
  <2>2. CASE \E u \in Worker : Busy(u) /\ run[u].id \in overran' /\ e \in run[u].events
    <3>1. PICK u \in Worker : Busy(u) /\ run[u].id \in overran' /\ e \in run[u].events
      BY <2>2
    <3>2. run[u].id \notin overran
      BY <1>3, <3>1, InLoose
    <3>3. PICK v \in Late : run[v].id = run[u].id
      BY <1>1, <3>1, <3>2
    <3>4. u = v
      BY <1>2, <3>1, <3>2, <3>3 DEF QueueInv, RunExclusive
    <3> QED
      BY <1>2, <3>1, <3>3, <3>4
  <2> QED
    BY <1>1, <1>3, <2>1, <2>2, InLoose
<1>4. ASSUME NEW v \in Late, NEW e \in Carried[v] PROVE e \in Loose'
  BY <1>1, <1>2, <1>4, InLoose
<1>5. Loose \subseteq Loose'
  BY <1>1, InLoose
<1>6. Loose' = Loose \cup UNION {Carried[v] : v \in Late}
  BY <1>3, <1>4, <1>5
<1>7. Late \in SUBSET Worker
  OBVIOUS
<1>8. Owed' = Owed /\ Carried' = Carried
  BY <1>1, InOwed, CarriedIfKept
<1> QED
  BY <1>6, <1>7, <1>8 DEF Ledger!Overrun

LEMMA StepRefines ==
    ASSUME QueueInv, [Next]_vars
    PROVE  [Ledger!Next]_(Ledger!vars)
<1>0. PoolOK
  BY DEF QueueInv, TypeOK
<1>1. ASSUME NEW pr \in PR, NEW kind \in Kind, Webhook(pr, kind)
      PROVE  Ledger!Accept
  BY <1>1, EnqueueAccepts DEF Webhook, Busy
<1>2. ASSUME NEW w \in Worker, QueueFollowUp(w)
      PROVE  Ledger!Accept
  BY <1>0, <1>2, GoesOn, EnqueueAccepts DEF QueueFollowUp
<1>3. ASSUME NEW w \in Worker, BeginRun(w)
      PROVE  UNCHANGED Ledger!vars
  <2>1. \A v \in Worker : Busy(v)' <=> Busy(v)
    BY <1>0, <1>3, GoesOn DEF BeginRun
  <2>2. jobs' = jobs /\ run' = run /\ overran' = overran
    BY <1>3 DEF BeginRun, tableVars
  <2>3. Owed' = Owed /\ Carried' = Carried
    BY <2>1, <2>2, CarriedIfKept DEF Owed
  <2>4. Loose' = Loose
    <3>1. \A e : e \in Loose' <=> e \in Loose
      BY <2>1, <2>2, InLoose
    <3> QED
      BY <3>1
  <2> QED
    BY <2>3, <2>4 DEF Ledger!vars
<1>4. ASSUME Restart PROVE Ledger!Stop
  <2>1. \A v \in Worker : ~Busy(v)'
    BY <1>4 DEF Restart, Busy
  <2>2. Carried' = [v \in Worker |-> {}]
    BY <2>1 DEF Carried, Busy
  <2>3. Loose' = {}
    <3>1. \A e : e \notin Loose'
      BY <1>4, <2>1, InLoose DEF Restart
    <3> QED
      BY <3>1
  <2> QED
    BY <1>4, <2>2, <2>3 DEF Restart, tableVars, Owed, Ledger!Stop
<1>5. ASSUME Sigterm \/ UNCHANGED vars PROVE UNCHANGED Ledger!vars
  BY <1>5 DEF Sigterm, vars, tableVars, workerVars, Owed, Carried, Loose, Overrunners, Busy,
              Ledger!vars
<1>6. ASSUME NEW w \in Worker, WorkerStep(w)
      PROVE  [Ledger!Next]_(Ledger!vars)
  BY <1>2, <1>3, <1>6, LeaseSetsOut, PurgeWritesOff, EndRefines
  DEF WorkerStep, Ledger!Next
<1> QED
  BY <1>1, <1>4, <1>5, <1>6, TickOverruns DEF Next, Ledger!Next

(* No accepted event is lost or settled by a run that did not set out with *)
(* it, but for those a run held beyond its lease: the job table, its       *)
(* workers and their crashes implement the ledger.                         *)
THEOREM QueueImplementsLedger == Spec => LedgerSpec
<1>1. Init => Ledger!Init
  <2> SUFFICES ASSUME Init PROVE Ledger!Init
    OBVIOUS
  <2>1. DOMAIN jobs = {} /\ overran = {} /\ \A w \in Worker : ~Busy(w)
    BY DEF Init, Busy
  <2>2. Owed = {} /\ Loose = {}
    BY <2>1, InOwed, InLoose
  <2> QED
    BY <2>1, <2>2 DEF Carried, Ledger!Init
<1>2. QueueInv /\ [Next]_vars => [Ledger!Next]_(Ledger!vars)
  BY StepRefines
<1> QED
  BY <1>1, <1>2, QueueInvariant, PTL DEF Spec, LedgerSpec, Ledger!Spec
=============================================================================
