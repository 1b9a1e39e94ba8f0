-------------------------- MODULE MultiReviewProofs --------------------------
(***************************************************************************)
(* The multi-review checker: a review in this process (Orchestrator), and  *)
(* the confer that adds the second opinion later (Confer).                 *)
(*                                                                         *)
(* Confer, for any workers, rows and heads, any budget, and any number of  *)
(* interruptions.  Posts are never taken back, so what a run found on      *)
(* record when it chose whom to summon is still so when it posts; and each *)
(* post of a confer is held by exactly one of the count, the run that is   *)
(* to count it and the history of interrupted runs.                        *)
(*                                                                         *)
(* Orchestrator, for any prompts, windows, permits, attempts and requests  *)
(* of other reviews.  The calls a review has open are those of its phase,  *)
(* and the line for permits holds each that waits, once: nothing is left   *)
(* of a phase when the next begins.  Turns bound the drafts started at an  *)
(* endpoint, and the sum of what those cost is bounded, by induction on    *)
(* how many there are, by as many of the largest.                          *)
(***************************************************************************)
EXTENDS Confer, Orchestrator, FiniteSetTheorems, SequenceTheorems,
        WellFoundedInduction, TLAPS

(* Workers and the sets of them.                                           *)
LEMMA Finite ==
    ASSUME NEW S \in SUBSET Worker
    PROVE  /\ IsFiniteSet(S) /\ Cardinality(S) \in Nat
           /\ Cardinality(Worker) \in Nat /\ Cardinality(S) <= Cardinality(Worker)
  BY ConferAssumption, FS_Subset, FS_CardinalityType

LEMMA Joined ==
    ASSUME NEW S \in SUBSET Worker, NEW w \in Worker, w \notin S
    PROVE  Cardinality(S \cup {w}) = Cardinality(S) + 1
  BY Finite, FS_AddElement

LEMMA Leaving ==
    ASSUME NEW S \in SUBSET Worker, NEW w \in Worker, w \in S
    PROVE  Cardinality(S \ {w}) = Cardinality(S) - 1
  BY Finite, FS_RemoveElement

LEMMA Sets ==
    \A h : Counting(h) \in SUBSET Worker /\ Admitted(h) \in SUBSET Worker
  BY DEF Counting, Admitted

-----------------------------------------------------------------------------
LEMMA InitCorrect == Init => ConferInv
  <1> SUFFICES ASSUME Init PROVE ConferInv
    OBVIOUS
  <1>1. TypeOK
    BY ConferAssumption DEF Init, TypeOK, NoRow, NoJob, Identity
  <1>2. RecordsAreTrue /\ LastComesLast /\ SummonsInOrder
    BY DEF Init, RecordsAreTrue, LastComesLast, SummonsInOrder, Posted, Identity, InHand
  <1>3. \A h \in Sha : Counting(h) = {} /\ Admitted(h) = {}
    BY DEF Init, Counting, Uncounted, Admitted
  <1>4. ConfersAreCounted
    <2>1. \A h \in Sha : conferred[h][OB] = 0 /\ conferred[h][OOB] = 0
      BY DEF Init, Identity
    <2>2. \A h \in Sha : runs[h].used = 0 /\ lost[h] = 0
      BY DEF Init
    <2>3. \A h \in Sha : Cardinality(Counting(h)) = 0
      BY <1>3, FS_EmptySet
    <2> QED BY <2>1, <2>2, <2>3 DEF ConfersAreCounted
  <1>5. BudgetHolds
    BY <1>3 DEF Init, BudgetHolds
  <1> QED BY <1>1, <1>2, <1>4, <1>5 DEF ConferInv

-----------------------------------------------------------------------------
(* Types.                                                                  *)
Places == {"idle", "fetching", "choosing", "reviewing", "posting", "recording", "counting"}

GitHubTyped ==
    /\ head \in Sha
    /\ reviewed \in [Sha -> SUBSET Identity]
    /\ conferred \in [Sha -> [Identity -> Nat]]
    /\ runs \in [Sha -> [posted : SUBSET Identity, used : Nat]]

QueueTyped ==
    queue \in [Row -> [state : {"none", "pending", "leased", "expired"},
                       allowed : BOOLEAN]]

RunsTyped ==
    /\ at \in [Worker -> Places]
    /\ job \in [Worker -> [row : Row \cup {None}, sha : Sha \cup {None},
                           summon : {OB, OOB, None}]]

RunTyped(w) ==
    /\ at[w] = "idle" <=> job[w].row = None
    /\ at[w] \notin {"idle", "fetching"} => job[w].sha # None
    /\ at[w] \notin {"idle", "fetching", "choosing"} => job[w].summon # None

LEMMA Parts ==
    TypeOK <=> /\ GitHubTyped /\ QueueTyped /\ RunsTyped
               /\ interrupts \in 0 .. MaxInterrupts /\ lost \in [Sha -> Nat]
               /\ \A w \in Worker : RunTyped(w)
  BY Zenon DEF TypeOK, GitHubTyped, QueueTyped, RunsTyped, RunTyped, Places

(* What a run is known to have.                                            *)
LEMMA RunHas ==
    ASSUME TypeOK, NEW w \in Worker
    PROVE  /\ at[w] # "idle" => job[w].row \in Row
           /\ at[w] \notin {"idle", "fetching"} => job[w].sha \in Sha
           /\ at[w] \in InHand => job[w].summon \in {OB, OOB} /\ job[w].summon \in Identity
           /\ at[w] \in InHand => job[w].sha \in Sha
  BY Parts DEF RunsTyped, RunTyped, InHand, Identity

(* Only w goes on, the others stay where they are.                         *)
Others(w) == \A v \in Worker \ {w} : at'[v] = at[v] /\ job'[v] = job[v]

LEMMA OnlyOne ==
    ASSUME TypeOK, NEW w \in Worker,
           NEW place \in Places, NEW newJob \in [row : Row \cup {None},
               sha : Sha \cup {None}, summon : {OB, OOB, None}],
           at' = [at EXCEPT ![w] = place], job' = [job EXCEPT ![w] = newJob],
           place = "idle" <=> newJob.row = None,
           place \notin {"idle", "fetching"} => newJob.sha # None,
           place \notin {"idle", "fetching", "choosing"} => newJob.summon # None
    PROVE  /\ RunsTyped' /\ (\A v \in Worker : RunTyped(v))' /\ Others(w)
           /\ at'[w] = place /\ job'[w] = newJob
  <1>1. RunsTyped /\ \A v \in Worker : RunTyped(v)
    BY Parts
  <1>2. RunsTyped' /\ Others(w) /\ at'[w] = place /\ job'[w] = newJob
    BY <1>1 DEF RunsTyped, Others
  <1>3. \A v \in Worker : RunTyped(v)'
    BY <1>1, <1>2 DEF RunTyped, Others
  <1> QED BY <1>2, <1>3

(* The end of a run.                                                       *)
LEMMA Ending ==
    ASSUME TypeOK, NEW w \in Worker, at[w] # "idle",
           NEW state \in {"none", "pending", "expired"}, EndRun(w, state)
    PROVE  /\ RunsTyped' /\ (\A v \in Worker : RunTyped(v))' /\ QueueTyped' /\ Others(w)
           /\ at'[w] = "idle" /\ job'[w] = NoJob
  <1>1. job[w].row \in Row /\ QueueTyped
    BY RunHas, Parts
  <1>2. queue' = [queue EXCEPT
          ![job[w].row] = IF state = "none" THEN NoRow ELSE [@ EXCEPT !.state = state]]
    BY DEF EndRun
  <1>3. QueueTyped'
    BY <1>1, <1>2 DEF QueueTyped, NoRow
  <1>4. NoJob \in [row : Row \cup {None}, sha : Sha \cup {None}, summon : {OB, OOB, None}]
        /\ NoJob.row = None /\ "idle" \in Places
    BY DEF NoJob, Places
  <1>5. /\ RunsTyped' /\ (\A v \in Worker : RunTyped(v))' /\ Others(w)
        /\ at'[w] = "idle" /\ job'[w] = NoJob
    BY <1>4, OnlyOne DEF EndRun
  <1> QED BY <1>3, <1>5

LEMMA TypeStep == TypeOK /\ Next => TypeOK'
  <1> SUFFICES ASSUME TypeOK, Next PROVE TypeOK'
    OBVIOUS
  <1>0. /\ GitHubTyped /\ QueueTyped /\ RunsTyped /\ \A w \in Worker : RunTyped(w)
        /\ interrupts \in 0 .. MaxInterrupts /\ lost \in [Sha -> Nat]
        /\ MaxInterrupts \in Nat
    BY Parts, ConferAssumption
  <1>q. GitHubTyped' /\ QueueTyped' /\ RunsTyped' /\ (\A w \in Worker : RunTyped(w))'
        /\ (interrupts \in 0 .. MaxInterrupts)' /\ (lost \in [Sha -> Nat])' => TypeOK'
    BY Parts, PTL
  <1>1. ASSUME UNCHANGED <<at, job>> PROVE RunsTyped' /\ (\A w \in Worker : RunTyped(w))'
    BY <1>0, <1>1 DEF RunsTyped, RunTyped
  <1>2. ASSUME UNCHANGED <<github, runs>> PROVE GitHubTyped'
    BY <1>0, <1>2 DEF GitHubTyped, github
  <1>3. ASSUME UNCHANGED queue PROVE QueueTyped'
    BY <1>0, <1>3 DEF QueueTyped
  <1>4. CASE Push
    BY <1>0, <1>1, <1>3, <1>4, <1>q DEF Push, GitHubTyped
  <1>5. ASSUME NEW h \in Sha, NEW i \in Identity, ReviewPosts(h, i) PROVE TypeOK'
    <2>1. GitHubTyped'
      BY <1>0, <1>5 DEF ReviewPosts, GitHubTyped
    <2> QED BY <1>0, <1>1, <1>3, <1>5, <1>q, <2>1 DEF ReviewPosts
  <1>6. ASSUME NEW h \in Sha, NEW i \in Identity, RecordAs(h, i), UNCHANGED github
        PROVE  GitHubTyped'
    BY <1>0, <1>6 DEF RecordAs, GitHubTyped, github
  <1>7. ASSUME NEW h \in Sha, NEW i \in Identity, ReviewRecords(h, i) PROVE TypeOK'
    BY <1>0, <1>1, <1>3, <1>6, <1>7, <1>q DEF ReviewRecords
  <1>8. ASSUME NEW j \in Row, Comment(j) PROVE TypeOK'
    <2>1. QueueTyped'
      BY <1>0, <1>8 DEF Comment, QueueTyped
    <2> QED BY <1>0, <1>1, <1>2, <1>8, <1>q, <2>1 DEF Comment
  <1>9. ASSUME NEW w \in Worker, NEW j \in Row, Lease(w, j) PROVE TypeOK'
    <2>1. QueueTyped'
      BY <1>0, <1>9 DEF Lease, QueueTyped
    <2>2. /\ at' = [at EXCEPT ![w] = "fetching"]
          /\ job' = [job EXCEPT ![w] = [@ EXCEPT !.row = j]]
      BY <1>9 DEF Lease, Go
    <2>3. [job[w] EXCEPT !.row = j] \in [row : Row \cup {None}, sha : Sha \cup {None},
                                       summon : {OB, OOB, None}]
          /\ [job[w] EXCEPT !.row = j].row = j /\ j # None /\ "fetching" \in Places
      BY <1>0, ConferAssumption DEF RunsTyped, Places
    <2>4. RunsTyped' /\ (\A v \in Worker : RunTyped(v))'
      BY <2>2, <2>3, OnlyOne
    <2> QED BY <1>0, <1>2, <1>9, <1>q, <2>1, <2>4 DEF Lease
  <1>10. ASSUME NEW w \in Worker, at[w] # "idle", Return(w)
         PROVE  RunsTyped' /\ (\A v \in Worker : RunTyped(v))' /\ QueueTyped'
    BY <1>10, Ending DEF Return
  <1>11. ASSUME NEW w \in Worker, NEW place \in Places \ {"idle"}, at[w] # "idle",
                at' = [at EXCEPT ![w] = place],
                UNCHANGED <<job, queue>>,
                place # "fetching" => job[w].sha # None,
                place \notin {"fetching", "choosing"} => job[w].summon # None
         PROVE  RunsTyped' /\ (\A v \in Worker : RunTyped(v))' /\ QueueTyped'
    BY <1>0, <1>3, <1>11 DEF RunsTyped, RunTyped
  <1>12. ASSUME NEW w \in Worker, Interrupt(w) PROVE TypeOK'
    <2>1. PICK state \in {"none", "expired", "pending"} : EndRun(w, state)
      BY <1>12 DEF Interrupt
    <2>2. RunsTyped' /\ (\A v \in Worker : RunTyped(v))' /\ QueueTyped'
      BY <1>12, <2>1, Ending DEF Interrupt
    <2>3. lost' \in [Sha -> Nat]
      <3>1. lost' = IF Uncounted(w) THEN [lost EXCEPT ![job[w].sha] = @ + 1] ELSE lost
        BY <1>12 DEF Interrupt, Lose
      <3>2. Uncounted(w) => job[w].sha \in Sha
        BY RunHas DEF Uncounted, InHand
      <3> QED BY <1>0, <3>1, <3>2
    <2>4. interrupts' \in 0 .. MaxInterrupts
      BY <1>0, <1>12 DEF Interrupt
    <2> QED BY <1>2, <1>12, <1>q, <2>2, <2>3, <2>4 DEF Interrupt
  <1>13. ASSUME NEW w \in Worker, Handle(w) PROVE TypeOK'
    <2>0. interrupts' = interrupts /\ lost' = lost
      BY <1>13 DEF Handle, FetchContext, Choose, Decline, Review, Post, Record, Count
    <2>1. CASE FetchContext(w)
      <3>1. at[w] = "fetching" /\ UNCHANGED <<github, runs>>
        BY <2>1 DEF FetchContext
      <3>2. CASE /\ at' = [at EXCEPT ![w] = "choosing"]
                 /\ job' = [job EXCEPT ![w].sha = head]
                 /\ UNCHANGED queue
        <4>1. job' = [job EXCEPT ![w] = [@ EXCEPT !.sha = head]]
          BY <3>2
        <4>2. [job[w] EXCEPT !.sha = head] \in [row : Row \cup {None}, sha : Sha \cup {None},
                                              summon : {OB, OOB, None}]
              /\ [job[w] EXCEPT !.sha = head].sha = head /\ head # None
              /\ [job[w] EXCEPT !.sha = head].row = job[w].row
              /\ "choosing" \in Places
          BY <1>0, ConferAssumption DEF RunsTyped, GitHubTyped, Places
        <4>3. job[w].row # None
          BY <1>0, <3>1 DEF RunTyped
        <4>4. RunsTyped' /\ (\A v \in Worker : RunTyped(v))'
          BY <3>2, <4>1, <4>2, <4>3, OnlyOne
        <4> QED BY <1>0, <1>2, <1>3, <1>q, <2>0, <3>1, <3>2, <4>4
      <3>3. CASE Return(w)
        BY <1>0, <1>2, <1>10, <1>q, <2>0, <3>1, <3>3
      <3> QED BY <2>1, <3>2, <3>3 DEF FetchContext
    <2>2. CASE Choose(w)
      <3>1. at[w] = "choosing" /\ UNCHANGED <<github, runs, queue>>
            /\ at' = [at EXCEPT ![w] = "reviewing"]
        BY <2>2 DEF Choose, Go
      <3>2. PICK i \in Summons(runs[job[w].sha]) : job' = [job EXCEPT ![w] = [@ EXCEPT !.summon = i]]
        BY <2>2 DEF Choose
      <3>3. i \in {OB, OOB} /\ i # None
        BY ConferAssumption DEF Summons, Identity
      <3>4. [job[w] EXCEPT !.summon = i] \in [row : Row \cup {None}, sha : Sha \cup {None},
                                            summon : {OB, OOB, None}]
            /\ [job[w] EXCEPT !.summon = i].summon = i
            /\ [job[w] EXCEPT !.summon = i].row = job[w].row
            /\ [job[w] EXCEPT !.summon = i].sha = job[w].sha
            /\ "reviewing" \in Places
        BY <1>0, <3>3 DEF RunsTyped, Places
      <3>5. job[w].row # None /\ job[w].sha # None
        BY <1>0, <3>1 DEF RunTyped
      <3>6. RunsTyped' /\ (\A v \in Worker : RunTyped(v))'
        BY <3>1, <3>2, <3>3, <3>4, <3>5, OnlyOne
      <3> QED BY <1>0, <1>2, <1>3, <1>q, <2>0, <3>1, <3>6
    <2>3. CASE Decline(w)
      BY <1>0, <1>2, <1>10, <1>q, <2>0, <2>3 DEF Decline
    <2>4. CASE Review(w)
      <3>1. at[w] = "reviewing" /\ UNCHANGED <<github, runs>>
        BY <2>4 DEF Review
      <3>2. CASE at' = [at EXCEPT ![w] = "posting"] /\ UNCHANGED <<queue, job>>
        <4>1. "posting" \in Places \ {"idle"} /\ job[w].sha # None /\ job[w].summon # None
          BY <1>0, <3>1 DEF Places, RunTyped
        <4> QED BY <1>0, <1>2, <1>11, <1>q, <2>0, <3>1, <3>2, <4>1
      <3>3. CASE Return(w)
        BY <1>0, <1>2, <1>10, <1>q, <2>0, <3>1, <3>3
      <3> QED BY <2>4, <3>2, <3>3 DEF Review
    <2>5. CASE Post(w)
      <3>1. /\ at[w] = "posting" /\ at' = [at EXCEPT ![w] = "recording"]
            /\ UNCHANGED <<head, reviewed, runs, queue, job>>
            /\ conferred' = [conferred EXCEPT ![job[w].sha][job[w].summon] = @ + 1]
        BY <2>5 DEF Post, Go
      <3>2. "recording" \in Places \ {"idle"} /\ job[w].sha # None /\ job[w].summon # None
        BY <1>0, <3>1 DEF Places, RunTyped
      <3>3. job[w].sha \in Sha /\ job[w].summon \in Identity
        BY <3>1, RunHas DEF InHand
      <3>4. GitHubTyped'
        BY <1>0, <3>1, <3>3 DEF GitHubTyped
      <3> QED BY <1>0, <1>11, <1>q, <2>0, <3>1, <3>2, <3>4
    <2>6. CASE Record(w)
      <3>1. /\ at[w] = "recording" /\ at' = [at EXCEPT ![w] = "counting"]
            /\ UNCHANGED <<github, queue, job>>
            /\ RecordAs(job[w].sha, job[w].summon)
        BY <2>6 DEF Record, RecordPost, Go
      <3>2. "counting" \in Places \ {"idle"} /\ job[w].sha # None /\ job[w].summon # None
        BY <1>0, <3>1 DEF Places, RunTyped
      <3>3. job[w].sha \in Sha /\ job[w].summon \in Identity
        BY <3>1, RunHas DEF InHand
      <3> QED BY <1>0, <1>6, <1>11, <1>q, <2>0, <3>1, <3>2, <3>3
    <2>7. CASE Count(w)
      <3>1. /\ at[w] = "counting" /\ Return(w) /\ UNCHANGED github
            /\ runs' = [runs EXCEPT ![job[w].sha].used = @ + 1]
        BY <2>7 DEF Count, RecordConferUsed
      <3>2. job[w].sha \in Sha
        BY <3>1, RunHas DEF InHand
      <3>3. GitHubTyped'
        <4>1. runs[job[w].sha] \in [posted : SUBSET Identity, used : Nat]
          BY <1>0, <3>2 DEF GitHubTyped
        <4>2. [runs[job[w].sha] EXCEPT !.used = @ + 1] \in [posted : SUBSET Identity, used : Nat]
          BY <4>1
        <4>3. runs' = [runs EXCEPT ![job[w].sha] = [runs[job[w].sha] EXCEPT !.used = @ + 1]]
          BY <3>1
        <4> QED BY <1>0, <3>1, <4>2, <4>3 DEF GitHubTyped, github
      <3> QED BY <1>0, <1>10, <1>q, <2>0, <3>1, <3>3
    <2> QED BY <1>13, <2>1, <2>2, <2>3, <2>4, <2>5, <2>6, <2>7 DEF Handle
  <1> QED BY <1>4, <1>5, <1>7, <1>8, <1>9, <1>12, <1>13 DEF Next

-----------------------------------------------------------------------------
(* What a step changes, in terms the properties are stated in.             *)

(* Posts and records only grow, and a record is of a post.                 *)
PostsGrow ==
    \A h \in Sha, i \in Identity :
        /\ Posted(h, i) => Posted(h, i)'
        /\ i \in runs'[h].posted => i \in runs[h].posted \/ Posted(h, i)

LEMMA Grown ==
    ASSUME ConferInv, Next
    PROVE  PostsGrow
  <1>0. GitHubTyped /\ TypeOK
    BY Parts DEF ConferInv
  <1>1. ASSUME UNCHANGED <<github, runs>> PROVE PostsGrow
    BY <1>1 DEF PostsGrow, Posted, github
  <1>2. ASSUME NEW h \in Sha, NEW i \in Identity, RecordAs(h, i), UNCHANGED github,
               Posted(h, i)
        PROVE  PostsGrow
    <2>1. \A k \in Sha : runs'[k].posted \subseteq runs[k].posted \cup (IF k = h THEN {i} ELSE {})
      BY <1>0, <1>2 DEF RecordAs, GitHubTyped
    <2> QED BY <1>2, <2>1 DEF PostsGrow, Posted, github
  <1>3. CASE Push \/ \E j \in Row : Comment(j) \/ \E w \in Worker : Lease(w, j)
    BY <1>3 DEF Push, Comment, Lease, PostsGrow, Posted, github
  <1>4. ASSUME NEW h \in Sha, NEW i \in Identity, ReviewPosts(h, i) PROVE PostsGrow
    <2>1. /\ reviewed' = [reviewed EXCEPT ![h] = @ \cup {i}]
          /\ conferred' = conferred /\ runs' = runs
      BY <1>4 DEF ReviewPosts
    <2>2. \A k \in Sha : reviewed[k] \subseteq reviewed'[k]
      BY <1>0, <2>1 DEF GitHubTyped
    <2> QED BY <2>1, <2>2 DEF PostsGrow, Posted
  <1>5. ASSUME NEW h \in Sha, NEW i \in Identity, ReviewRecords(h, i) PROVE PostsGrow
    BY <1>2, <1>5 DEF ReviewRecords, Posted
  <1>6. ASSUME NEW w \in Worker, Interrupt(w) PROVE PostsGrow
    BY <1>1, <1>6 DEF Interrupt
  <1>7. ASSUME NEW w \in Worker, FetchContext(w) \/ Choose(w) \/ Decline(w) \/ Review(w)
        PROVE  PostsGrow
    BY <1>1, <1>7 DEF FetchContext, Choose, Decline, Review
  <1>8. ASSUME NEW w \in Worker, Post(w) PROVE PostsGrow
    <2>1. /\ conferred' = [conferred EXCEPT ![job[w].sha][job[w].summon] = @ + 1]
          /\ reviewed' = reviewed /\ runs' = runs /\ at[w] = "posting"
      BY <1>8 DEF Post, Go
    <2>2. job[w].sha \in Sha /\ job[w].summon \in Identity
      BY <1>0, <2>1, RunHas DEF InHand
    <2>3. \A h \in Sha, i \in Identity : conferred[h][i] > 0 => conferred'[h][i] > 0
      BY <1>0, <2>1, <2>2 DEF GitHubTyped
    <2> QED BY <2>1, <2>3 DEF PostsGrow, Posted
  <1>9. ASSUME NEW w \in Worker, Record(w) PROVE PostsGrow
    <2>1. at[w] = "recording" /\ UNCHANGED github /\ RecordAs(job[w].sha, job[w].summon)
      BY <1>9 DEF Record, RecordPost, Go
    <2>2. job[w].sha \in Sha /\ job[w].summon \in Identity
      BY <1>0, <2>1, RunHas DEF InHand
    <2>3. Posted(job[w].sha, job[w].summon)
      BY <2>1 DEF ConferInv, SummonsInOrder
    <2> QED BY <1>2, <2>1, <2>2, <2>3
  <1>10. ASSUME NEW w \in Worker, Count(w) PROVE PostsGrow
    <2>1. UNCHANGED github /\ runs' = [runs EXCEPT ![job[w].sha].used = @ + 1]
      BY <1>10 DEF Count, RecordConferUsed
    <2>2. \A h \in Sha : runs'[h].posted = runs[h].posted
      BY <1>0, <2>1 DEF GitHubTyped
    <2> QED BY <2>1, <2>2 DEF PostsGrow, Posted, github
  <1> QED BY <1>3, <1>4, <1>5, <1>6, <1>7, <1>8, <1>9, <1>10 DEF Next, Handle

LEMMA RecordsStep == ConferInv /\ Next => RecordsAreTrue'
  <1> SUFFICES ASSUME ConferInv, Next PROVE RecordsAreTrue'
    OBVIOUS
  <1>1. GitHubTyped'
    <2>1. TypeOK'
      BY TypeStep DEF ConferInv
    <2> QED BY <2>1, Parts, PTL
  <1>2. ASSUME NEW h \in Sha, NEW i \in runs'[h].posted PROVE Posted(h, i)'
    <2>1. i \in Identity
      BY <1>1 DEF GitHubTyped
    <2> QED BY <2>1, Grown DEF PostsGrow, ConferInv, RecordsAreTrue
  <1> QED BY <1>2 DEF RecordsAreTrue

(* Other Other Barry comes to a head that Other Barry is on: the review    *)
(* posts its tie-break last, and a confer found Other Barry on record.     *)
LEMMA LastStep == ConferInv /\ Next => LastComesLast'
  <1> SUFFICES ASSUME ConferInv, Next, NEW h \in Sha, Posted(h, OOB)'
               PROVE  Posted(h, OB)'
    BY DEF LastComesLast
  <1>0. GitHubTyped /\ TypeOK
    BY Parts DEF ConferInv
  <1>1. Posted(h, OB) => Posted(h, OB)'
    BY Grown DEF PostsGrow, Identity
  <1>2. CASE Posted(h, OOB)
    BY <1>1, <1>2 DEF ConferInv, LastComesLast
  <1>3. CASE ~Posted(h, OOB)
    <2>1. ~(UNCHANGED <<reviewed, conferred>>)
      BY <1>3 DEF Posted
    <2>2. ~(Push \/ \E j \in Row : Comment(j) \/ \E w \in Worker : Lease(w, j))
      BY <2>1 DEF Push, Comment, Lease, github
    <2>3. \A w \in Worker :
              ~(Interrupt(w) \/ FetchContext(w) \/ Choose(w) \/ Decline(w) \/ Review(w)
                \/ Record(w) \/ Count(w))
      BY <2>1 DEF Interrupt, FetchContext, Choose, Decline, Review, Record, Count, github
    <2>4. \A k \in Sha, i \in Identity : ~ReviewRecords(k, i)
      BY <2>1 DEF ReviewRecords, github
    <2>5. ASSUME NEW k \in Sha, NEW i \in Identity, ReviewPosts(k, i) PROVE Posted(h, OB)
      <3>1. /\ reviewed[k] = Before(i) /\ reviewed' = [reviewed EXCEPT ![k] = @ \cup {i}]
            /\ conferred' = conferred
        BY <2>5 DEF ReviewPosts
      <3>2. k = h /\ i = OOB
        BY <1>0, <1>3, <3>1 DEF Posted, GitHubTyped
      <3> QED BY <3>1, <3>2 DEF Before, Posted, OB, OOB
    <2>6. ASSUME NEW w \in Worker, Post(w) PROVE Posted(h, OB)
      <3>1. /\ conferred' = [conferred EXCEPT ![job[w].sha][job[w].summon] = @ + 1]
            /\ reviewed' = reviewed /\ at[w] = "posting"
        BY <2>6 DEF Post, Go
      <3>2. job[w].sha = h /\ job[w].summon = OOB
        BY <1>0, <1>3, <3>1, RunHas DEF Posted, GitHubTyped, InHand
      <3> QED BY <3>1, <3>2 DEF ConferInv, SummonsInOrder, InHand
    <2>7. Posted(h, OB)
      BY <2>2, <2>3, <2>4, <2>5, <2>6 DEF Next, Handle
    <2> QED BY <1>1, <2>7
  <1> QED BY <1>2, <1>3

(* What a run is at, as far as the properties speak of it: it enters with  *)
(* Choose, leaves with a Return or an interruption, and posts once.        *)
LEMMA WhoMoves ==
    ASSUME TypeOK, Next
    PROVE  \/ UNCHANGED <<at, job>>
           \/ \E w \in Worker :
                 /\ Others(w)
                 /\ \/ at'[w] \notin InHand
                    \/ /\ Choose(w) /\ at'[w] = "reviewing" /\ job'[w].sha = job[w].sha
                       /\ job'[w].summon \in Summons(runs[job[w].sha])
                    \/ Review(w) /\ at'[w] = "posting" /\ job'[w] = job[w]
                    \/ Post(w) /\ at'[w] = "recording" /\ job'[w] = job[w]
                    \/ Record(w) /\ at'[w] = "counting" /\ job'[w] = job[w]
  <1>0. RunsTyped
    BY Parts
  <1>1. CASE Push \/ (\E h \in Sha, i \in Identity : ReviewPosts(h, i) \/ ReviewRecords(h, i))
             \/ \E j \in Row : Comment(j)
    BY <1>1 DEF Push, ReviewPosts, ReviewRecords, Comment
  <1>2. ASSUME NEW w \in Worker, Return(w) \/ Interrupt(w)
        PROVE  Others(w) /\ at'[w] = "idle"
    BY <1>0, <1>2 DEF Return, Interrupt, EndRun, RunsTyped, Others
  <1>3. ASSUME NEW w \in Worker, NEW j \in Row, Lease(w, j)
        PROVE  Others(w) /\ at'[w] = "fetching"
    BY <1>0, <1>3 DEF Lease, Go, RunsTyped, Others
  <1>4. ASSUME NEW w \in Worker, FetchContext(w) \/ Decline(w) \/ Count(w)
        PROVE  Others(w) /\ at'[w] \in {"idle", "choosing"}
    <2>1. CASE at' = [at EXCEPT ![w] = "choosing"] /\ job' = [job EXCEPT ![w].sha = head]
      BY <1>0, <2>1 DEF RunsTyped, Others
    <2>2. CASE Return(w)
      BY <1>2, <2>2
    <2> QED BY <1>4, <2>1, <2>2 DEF FetchContext, Decline, Count
  <1>5. ASSUME NEW w \in Worker, Choose(w)
        PROVE  /\ Others(w) /\ at'[w] = "reviewing" /\ job'[w].sha = job[w].sha
               /\ job'[w].summon \in Summons(runs[job[w].sha])
    <2>1. PICK i \in Summons(runs[job[w].sha]) : job' = [job EXCEPT ![w].summon = i]
      BY <1>5 DEF Choose
    <2>2. at' = [at EXCEPT ![w] = "reviewing"]
      BY <1>5 DEF Choose, Go
    <2> QED BY <1>0, <2>1, <2>2 DEF RunsTyped, Others
  <1>6. ASSUME NEW w \in Worker, Review(w) \/ Post(w) \/ Record(w)
        PROVE  /\ Others(w)
               /\ \/ at'[w] = "idle"
                  \/ Review(w) /\ at'[w] = "posting" /\ job'[w] = job[w]
                  \/ Post(w) /\ at'[w] = "recording" /\ job'[w] = job[w]
                  \/ Record(w) /\ at'[w] = "counting" /\ job'[w] = job[w]
    <2>1. CASE Return(w)
      BY <1>2, <2>1
    <2>2. CASE Review(w) /\ ~Return(w)
      BY <1>0, <2>2 DEF Review, RunsTyped, Others
    <2>3. CASE Post(w)
      BY <1>0, <2>3 DEF Post, Go, RunsTyped, Others
    <2>4. CASE Record(w)
      BY <1>0, <2>4 DEF Record, Go, RunsTyped, Others
    <2> QED BY <1>6, <2>1, <2>2, <2>3, <2>4
  <1> QED BY <1>1, <1>2, <1>3, <1>4, <1>5, <1>6 DEF Next, Handle, InHand

LEMMA SummonsStep == ConferInv /\ Next => SummonsInOrder'
  <1> SUFFICES ASSUME ConferInv, Next PROVE SummonsInOrder'
    OBVIOUS
  <1>0. GitHubTyped /\ RunsTyped /\ TypeOK /\ SummonsInOrder
    BY Parts DEF ConferInv
  <1>1. ASSUME NEW v \in Worker, at'[v] = at[v], job'[v] = job[v]
        PROVE  /\ at'[v] \in InHand /\ job'[v].summon = OOB => Posted(job[v].sha, OB)'
               /\ at'[v] = "recording" => Posted(job[v].sha, job[v].summon)'
    <2>1. at[v] \in InHand => job[v].sha \in Sha /\ job[v].summon \in Identity
      BY <1>0, RunHas
    <2> QED BY <1>0, <1>1, <2>1, Grown DEF PostsGrow, SummonsInOrder, InHand, Identity, Posted
  <1>2. CASE UNCHANGED <<at, job>>
    BY <1>1, <1>2 DEF SummonsInOrder
  <1>3. ASSUME NEW w \in Worker, Others(w),
               /\ at'[w] \in InHand /\ job'[w].summon = OOB => Posted(job[w].sha, OB)'
               /\ at'[w] = "recording" => Posted(job[w].sha, job[w].summon)'
        PROVE  SummonsInOrder'
    BY <1>1, <1>3 DEF SummonsInOrder, Others
  <1>4. ASSUME NEW w \in Worker, Choose(w), at'[w] = "reviewing", job'[w].sha = job[w].sha,
               job'[w].summon \in Summons(runs[job[w].sha]), job'[w].summon = OOB
        PROVE  Posted(job[w].sha, OB)'
    <2>1. at[w] = "choosing"
      BY <1>4 DEF Choose, Go
    <2>2. job[w].sha \in Sha
      BY <1>0, <2>1, RunHas
    <2>3. OB \in runs[job[w].sha].posted
      BY <1>4 DEF Summons, OB, OOB
    <2>4. Posted(job[w].sha, OB)
      BY <2>2, <2>3 DEF ConferInv, RecordsAreTrue
    <2> QED BY <1>4, <2>2, <2>4, Grown DEF PostsGrow, Identity, Posted
  <1>5. ASSUME NEW w \in Worker, at[w] \in InHand, job'[w] = job[w], job[w].summon = OOB
        PROVE  Posted(job[w].sha, OB)'
    <2>1. job[w].sha \in Sha
      BY <1>0, <1>5, RunHas
    <2> QED BY <1>0, <1>5, <2>1, Grown DEF PostsGrow, SummonsInOrder, Identity, Posted
  <1>6. ASSUME NEW w \in Worker, Post(w), job'[w] = job[w]
        PROVE  Posted(job[w].sha, job[w].summon)'
    <2>1. /\ conferred' = [conferred EXCEPT ![job[w].sha][job[w].summon] = @ + 1]
          /\ at[w] = "posting"
      BY <1>6 DEF Post, Go
    <2>2. job[w].sha \in Sha /\ job[w].summon \in Identity
      BY <1>0, <2>1, RunHas DEF InHand
    <2>3. conferred[job[w].sha] \in [Identity -> Nat] /\ conferred[job[w].sha][job[w].summon] \in Nat
      BY <1>0, <2>2 DEF GitHubTyped
    <2>4. conferred'[job[w].sha][job[w].summon] = conferred[job[w].sha][job[w].summon] + 1
      BY <1>0, <2>1, <2>2, <2>3 DEF GitHubTyped
    <2>5. conferred'[job[w].sha][job[w].summon] > 0
      BY <2>3, <2>4
    <2> QED BY <1>6, <2>5 DEF Posted
  <1>7. \A w \in Worker : Review(w) \/ Post(w) \/ Record(w) => at[w] \in InHand
    BY DEF Review, Post, Record, Go, InHand
  <1>8. CASE \E w \in Worker :
                 /\ Others(w)
                 /\ \/ at'[w] \notin InHand
                    \/ /\ Choose(w) /\ at'[w] = "reviewing" /\ job'[w].sha = job[w].sha
                       /\ job'[w].summon \in Summons(runs[job[w].sha])
                    \/ Review(w) /\ at'[w] = "posting" /\ job'[w] = job[w]
                    \/ Post(w) /\ at'[w] = "recording" /\ job'[w] = job[w]
                    \/ Record(w) /\ at'[w] = "counting" /\ job'[w] = job[w]
    BY <1>3, <1>4, <1>5, <1>6, <1>7, <1>8 DEF InHand
  <1> QED BY <1>0, <1>2, <1>8, WhoMoves

-----------------------------------------------------------------------------
(* Counting.                                                               *)

(* The runs that are to count a post, as one run goes on.                  *)
LEMMA CountingKept ==
    ASSUME NEW w \in Worker, Others(w), Uncounted(w)' <=> Uncounted(w),
           Uncounted(w) => job'[w].sha = job[w].sha, NEW h
    PROVE  Counting(h)' = Counting(h)
  <1>1. \A v \in Worker :
            Uncounted(v)' /\ job'[v].sha = h <=> Uncounted(v) /\ job[v].sha = h
    BY DEF Others, Uncounted
  <1> QED BY <1>1 DEF Counting

LEMMA CountingGains ==
    ASSUME NEW w \in Worker, Others(w), ~Uncounted(w), Uncounted(w)',
           job'[w].sha = job[w].sha, NEW h
    PROVE  /\ Counting(h)' = IF h = job[w].sha THEN Counting(h) \cup {w} ELSE Counting(h)
           /\ w \notin Counting(h)
  <1>1. \A v \in Worker :
            Uncounted(v)' /\ job'[v].sha = h
              <=> (Uncounted(v) /\ job[v].sha = h) \/ (v = w /\ h = job[w].sha)
    BY DEF Others, Uncounted
  <1> QED BY <1>1 DEF Counting

LEMMA CountingLoses ==
    ASSUME NEW w \in Worker, Others(w), Uncounted(w), ~Uncounted(w)', NEW h
    PROVE  /\ Counting(h)' = IF h = job[w].sha THEN Counting(h) \ {w} ELSE Counting(h)
           /\ h = job[w].sha => w \in Counting(h)
  <1>1. \A v \in Worker :
            Uncounted(v)' /\ job'[v].sha = h <=> Uncounted(v) /\ job[v].sha = h /\ v # w
    BY DEF Others, Uncounted
  <1> QED BY <1>1 DEF Counting

(* Most steps count nothing.                                               *)
LEMMA UsedKept ==
    ASSUME TypeOK, NEW h \in Sha, NEW i \in Identity, RecordAs(h, i)
    PROVE  \A k \in Sha : runs'[k].used = runs[k].used
  BY Parts DEF RecordAs, GitHubTyped

LEMMA NobodyCounts ==
    ASSUME ConfersAreCounted, conferred' = conferred, lost' = lost,
           \A h \in Sha : runs'[h].used = runs[h].used,
           \A h \in Sha : Counting(h)' = Counting(h)
    PROVE  ConfersAreCounted'
  BY DEF ConfersAreCounted

LEMMA CountStep == ConferInv /\ Next => ConfersAreCounted'
  <1> SUFFICES ASSUME ConferInv, Next PROVE ConfersAreCounted'
    OBVIOUS
  <1>0. /\ GitHubTyped /\ RunsTyped /\ TypeOK /\ ConfersAreCounted
        /\ lost \in [Sha -> Nat]
    BY Parts DEF ConferInv
  <1>n. \A h \in Sha :
            /\ conferred[h][OB] \in Nat /\ conferred[h][OOB] \in Nat
            /\ runs[h].used \in Nat /\ lost[h] \in Nat
            /\ Cardinality(Counting(h)) \in Nat
    BY <1>0, Finite, Sets DEF GitHubTyped, Identity
  <1>1. ASSUME UNCHANGED <<at, job>> PROVE \A h \in Sha : Counting(h)' = Counting(h)
    BY <1>1 DEF Counting, Uncounted
  <1>2. CASE Push \/ (\E h \in Sha, i \in Identity : ReviewPosts(h, i)) \/ \E j \in Row : Comment(j)
    BY <1>0, <1>1, <1>2, NobodyCounts DEF Push, ReviewPosts, Comment, github
  <1>3. ASSUME NEW h \in Sha, NEW i \in Identity, ReviewRecords(h, i)
        PROVE  ConfersAreCounted'
    BY <1>0, <1>1, <1>3, UsedKept, NobodyCounts DEF ReviewRecords, github
  <1>4. ASSUME NEW w \in Worker, Others(w), ~Uncounted(w), ~Uncounted(w)',
               UNCHANGED <<conferred, runs, lost>>
        PROVE  ConfersAreCounted'
    BY <1>0, <1>4, CountingKept, NobodyCounts
  <1>5. ASSUME NEW w \in Worker, NEW j \in Row, Lease(w, j)
        PROVE  ConfersAreCounted'
    <2>1. at[w] = "idle" /\ Others(w) /\ at'[w] = "fetching"
      BY <1>0, <1>5 DEF Lease, Go, RunsTyped, Others
    <2> QED BY <1>4, <1>5, <2>1 DEF Lease, github, Uncounted
  <1>6. ASSUME NEW w \in Worker, FetchContext(w) \/ Choose(w) \/ Decline(w) \/ Review(w)
        PROVE  ConfersAreCounted'
    <2>1. at[w] \in {"fetching", "choosing", "reviewing"} /\ UNCHANGED <<conferred, runs, lost>>
      BY <1>6 DEF FetchContext, Choose, Decline, Review, Go, github
    <2>2. ASSUME Return(w) PROVE Others(w) /\ at'[w] = "idle"
      BY <1>0, <2>2 DEF Return, EndRun, RunsTyped, Others
    <2>3. CASE FetchContext(w)
      BY <1>0, <2>2, <2>3, <1>4, <2>1 DEF FetchContext, RunsTyped, Others, Uncounted
    <2>4. CASE Choose(w)
      <3>1. PICK i \in Summons(runs[job[w].sha]) : job' = [job EXCEPT ![w].summon = i]
        BY <2>4 DEF Choose
      <3>2. at' = [at EXCEPT ![w] = "reviewing"]
        BY <2>4 DEF Choose, Go
      <3>3. Others(w) /\ at'[w] = "reviewing"
        BY <1>0, <3>1, <3>2 DEF RunsTyped, Others
      <3> QED BY <1>4, <2>1, <3>3 DEF Uncounted
    <2>5. CASE Decline(w)
      BY <2>2, <2>5, <1>4, <2>1 DEF Decline, Uncounted
    <2>6. CASE Review(w)
      BY <1>0, <2>2, <2>6, <1>4, <2>1 DEF Review, RunsTyped, Others, Uncounted
    <2> QED BY <1>6, <2>3, <2>4, <2>5, <2>6
  <1>7. ASSUME NEW w \in Worker, Post(w) PROVE ConfersAreCounted'
    <2>1. /\ at[w] = "posting" /\ at' = [at EXCEPT ![w] = "recording"]
          /\ conferred' = [conferred EXCEPT ![job[w].sha][job[w].summon] = @ + 1]
          /\ UNCHANGED <<runs, job, lost>>
      BY <1>7 DEF Post, Go
    <2>2. job[w].sha \in Sha /\ job[w].summon \in {OB, OOB} /\ job[w].summon \in Identity
      BY <1>0, <2>1, RunHas DEF InHand
    <2>3. Others(w) /\ at'[w] = "recording"
      BY <1>0, <2>1 DEF RunsTyped, Others
    <2>4. ~Uncounted(w) /\ Uncounted(w)'
      BY <2>1, <2>3 DEF Uncounted
    <2>5. ASSUME NEW h \in Sha
          PROVE  conferred'[h][OB] + conferred'[h][OOB]
                   = runs'[h].used + Cardinality(Counting(h)') + lost'[h]
      <3>1. CASE h # job[w].sha
        <4>1. Counting(h)' = Counting(h)
          BY <2>1, <2>3, <2>4, <3>1, CountingGains
        <4>2. conferred'[h] = conferred[h]
          BY <1>0, <2>1, <3>1 DEF GitHubTyped
        <4> QED BY <1>0, <2>1, <4>1, <4>2 DEF ConfersAreCounted
      <3>2. CASE h = job[w].sha
        <4>1. Counting(h)' = Counting(h) \cup {w} /\ w \notin Counting(h)
          BY <2>1, <2>3, <2>4, <3>2, CountingGains
        <4>2. Cardinality(Counting(h)') = Cardinality(Counting(h)) + 1
          BY <4>1, Joined, Sets
        <4>3. conferred[h] \in [Identity -> Nat]
          BY <1>0 DEF GitHubTyped
        <4>4. conferred'[h] = [conferred[h] EXCEPT ![job[w].summon] = @ + 1]
          BY <1>0, <2>1, <2>2, <3>2 DEF GitHubTyped
        <4>5. OB # OOB /\ OB \in Identity /\ OOB \in Identity
          BY DEF OB, OOB, Identity
        <4>6. conferred'[h][OB] + conferred'[h][OOB] = conferred[h][OB] + conferred[h][OOB] + 1
          <5>1. CASE job[w].summon = OB
            BY <1>n, <4>3, <4>4, <4>5, <5>1
          <5>2. CASE job[w].summon = OOB
            BY <1>n, <4>3, <4>4, <4>5, <5>2
          <5> QED BY <2>2, <5>1, <5>2
        <4>7. runs'[h].used = runs[h].used /\ lost'[h] = lost[h]
          BY <2>1
        <4>8. conferred[h][OB] + conferred[h][OOB]
                = runs[h].used + Cardinality(Counting(h)) + lost[h]
          BY <1>0 DEF ConfersAreCounted
        <4> QED BY ONLY <1>n, <4>2, <4>6, <4>7, <4>8
      <3> QED BY <3>1, <3>2
    <2> QED BY <2>5 DEF ConfersAreCounted
  <1>8. ASSUME NEW w \in Worker, Record(w) PROVE ConfersAreCounted'
    <2>1. /\ at[w] = "recording" /\ at' = [at EXCEPT ![w] = "counting"]
          /\ UNCHANGED <<github, job, lost>> /\ RecordAs(job[w].sha, job[w].summon)
      BY <1>8 DEF Record, RecordPost, Go
    <2>2. job[w].sha \in Sha /\ job[w].summon \in Identity
      BY <1>0, <2>1, RunHas DEF InHand
    <2>3. Others(w) /\ at'[w] = "counting" /\ job'[w] = job[w]
      BY <1>0, <2>1 DEF RunsTyped, Others
    <2>4. Uncounted(w) /\ Uncounted(w)'
      BY <2>1, <2>3 DEF Uncounted
    <2>5. \A h \in Sha : Counting(h)' = Counting(h)
      BY <2>3, <2>4, CountingKept
    <2> QED BY <1>0, <2>1, <2>2, <2>5, UsedKept, NobodyCounts DEF github
  <1>9. ASSUME NEW w \in Worker, Count(w) PROVE ConfersAreCounted'
    <2>1. /\ at[w] = "counting" /\ Return(w) /\ UNCHANGED <<conferred, lost>>
          /\ runs' = [runs EXCEPT ![job[w].sha].used = @ + 1]
      BY <1>9 DEF Count, RecordConferUsed, github
    <2>2. job[w].sha \in Sha
      BY <1>0, <2>1, RunHas DEF InHand
    <2>3. Others(w) /\ at'[w] = "idle"
      BY <1>0, <2>1 DEF Return, EndRun, RunsTyped, Others
    <2>4. Uncounted(w) /\ ~Uncounted(w)'
      BY <2>1, <2>3 DEF Uncounted
    <2>5. ASSUME NEW h \in Sha
          PROVE  conferred'[h][OB] + conferred'[h][OOB]
                   = runs'[h].used + Cardinality(Counting(h)') + lost'[h]
      <3>1. CASE h # job[w].sha
        <4>1. Counting(h)' = Counting(h) /\ runs'[h] = runs[h]
          BY <1>0, <2>1, <2>3, <2>4, <3>1, CountingLoses DEF GitHubTyped
        <4> QED BY <1>0, <2>1, <4>1 DEF ConfersAreCounted
      <3>2. CASE h = job[w].sha
        <4>1. Counting(h)' = Counting(h) \ {w} /\ w \in Counting(h)
          BY <2>3, <2>4, <3>2, CountingLoses
        <4>2. Cardinality(Counting(h)') = Cardinality(Counting(h)) - 1
          BY <4>1, Leaving, Sets
        <4>3. runs'[h].used = runs[h].used + 1
          BY <1>0, <2>1, <3>2 DEF GitHubTyped
        <4> QED BY <1>0, <1>n, <2>1, <4>2, <4>3 DEF ConfersAreCounted
      <3> QED BY <3>1, <3>2
    <2> QED BY <2>5 DEF ConfersAreCounted
  <1>10. ASSUME NEW w \in Worker, Interrupt(w) PROVE ConfersAreCounted'
    <2>1. PICK state \in {"none", "expired", "pending"} : EndRun(w, state)
      BY <1>10 DEF Interrupt
    <2>2. /\ lost' = IF Uncounted(w) THEN [lost EXCEPT ![job[w].sha] = @ + 1] ELSE lost
          /\ UNCHANGED <<conferred, runs>>
      BY <1>10 DEF Interrupt, Lose, github
    <2>3. Others(w) /\ at'[w] = "idle"
      BY <1>0, <2>1 DEF EndRun, RunsTyped, Others
    <2>4. CASE ~Uncounted(w)
      BY <1>4, <2>2, <2>3, <2>4 DEF Uncounted
    <2>5. CASE Uncounted(w)
      <3>1. job[w].sha \in Sha
        BY <1>0, <2>5, RunHas DEF InHand, Uncounted
      <3>2. ~Uncounted(w)'
        BY <2>3 DEF Uncounted
      <3>3. ASSUME NEW h \in Sha
            PROVE  conferred'[h][OB] + conferred'[h][OOB]
                     = runs'[h].used + Cardinality(Counting(h)') + lost'[h]
        <4>1. CASE h # job[w].sha
          <5>1. Counting(h)' = Counting(h) /\ lost'[h] = lost[h]
            BY <1>0, <2>2, <2>3, <2>5, <3>2, <4>1, CountingLoses
          <5> QED BY <1>0, <2>2, <5>1 DEF ConfersAreCounted
        <4>2. CASE h = job[w].sha
          <5>1. Counting(h)' = Counting(h) \ {w} /\ w \in Counting(h)
            BY <2>3, <2>5, <3>2, <4>2, CountingLoses
          <5>2. Cardinality(Counting(h)') = Cardinality(Counting(h)) - 1
            BY <5>1, Leaving, Sets
          <5>3. lost'[h] = lost[h] + 1
            BY <1>0, <2>2, <2>5, <4>2
          <5>4. runs'[h].used = runs[h].used /\ conferred'[h] = conferred[h]
            BY <2>2
          <5>5. conferred[h][OB] + conferred[h][OOB]
                  = runs[h].used + Cardinality(Counting(h)) + lost[h]
            BY <1>0 DEF ConfersAreCounted
          <5> QED BY ONLY <1>n, <5>2, <5>3, <5>4, <5>5
        <4> QED BY <4>1, <4>2
      <3> QED BY <3>3 DEF ConfersAreCounted
    <2> QED BY <2>4, <2>5
  <1> QED BY <1>2, <1>3, <1>5, <1>6, <1>7, <1>8, <1>9, <1>10 DEF Next, Handle

-----------------------------------------------------------------------------
(* The budget.                                                             *)

(* A head holds its budget while no run of it is admitted and none is      *)
(* counted.                                                                *)
LEMMA NobodyAdmitted ==
    ASSUME BudgetHolds, TypeOK,
           \A h \in Sha : runs'[h].used = runs[h].used,
           \A h \in Sha : Admitted(h)' \subseteq Admitted(h)
    PROVE  BudgetHolds'
  <1> SUFFICES ASSUME NEW h \in Sha
               PROVE  \/ runs'[h].used = 0 /\ Admitted(h)' = {}
                      \/ runs'[h].used + Cardinality(Admitted(h)')
                           <= MaxPerPr + Cardinality(Worker) - 1
    BY DEF BudgetHolds
  <1>1. CASE runs[h].used = 0 /\ Admitted(h) = {}
    BY <1>1
  <1>2. CASE runs[h].used + Cardinality(Admitted(h)) <= MaxPerPr + Cardinality(Worker) - 1
    <2>1. /\ Admitted(h) \in SUBSET Worker /\ IsFiniteSet(Admitted(h))
          /\ Cardinality(Admitted(h)) \in Nat /\ Cardinality(Worker) \in Nat
      BY Sets, Finite
    <2>2. Cardinality(Admitted(h)') <= Cardinality(Admitted(h)) /\ Cardinality(Admitted(h)') \in Nat
      BY <2>1, FS_Subset, FS_CardinalityType
    <2>3. runs[h].used \in Nat /\ MaxPerPr \in Nat
      BY Parts, ConferAssumption DEF GitHubTyped
    <2> QED BY <1>2, <2>1, <2>2, <2>3
  <1> QED BY <1>1, <1>2 DEF BudgetHolds

(* The runs that are admitted, as one run goes on.                         *)
LEMMA AdmittedKept ==
    ASSUME NEW w \in Worker, Others(w),
           at'[w] \in InHand => at[w] \in InHand /\ job'[w].sha = job[w].sha, NEW h
    PROVE  Admitted(h)' \subseteq Admitted(h)
  <1>1. \A v \in Worker :
            at'[v] \in InHand /\ job'[v].sha = h => at[v] \in InHand /\ job[v].sha = h
    BY DEF Others
  <1> QED BY <1>1 DEF Admitted, InHand

LEMMA AdmittedApart ==
    ASSUME NEW w \in Worker, Others(w),
           at'[w] \in InHand => job'[w].sha = job[w].sha, NEW h, h # job[w].sha
    PROVE  Admitted(h)' \subseteq Admitted(h)
  <1>1. \A v \in Worker :
            at'[v] \in InHand /\ job'[v].sha = h => at[v] \in InHand /\ job[v].sha = h
    BY DEF Others
  <1> QED BY <1>1 DEF Admitted, InHand

LEMMA BudgetStep == ConferInv /\ Next => BudgetHolds'
  <1> SUFFICES ASSUME ConferInv, Next PROVE BudgetHolds'
    OBVIOUS
  <1>0. GitHubTyped /\ RunsTyped /\ TypeOK /\ BudgetHolds
    BY Parts DEF ConferInv
  <1>n. /\ MaxPerPr \in Nat /\ Cardinality(Worker) \in Nat
        /\ \A h \in Sha : runs[h].used \in Nat
    <2>1. Cardinality(Worker) \in Nat
      BY ConferAssumption, FS_CardinalityType
    <2> QED BY <1>0, <2>1, ConferAssumption DEF GitHubTyped
  <1>1. ASSUME UNCHANGED <<at, job>> PROVE \A h \in Sha : Admitted(h)' = Admitted(h)
    BY <1>1 DEF Admitted
  <1>2. ASSUME NEW w \in Worker, Others(w), at'[w] \notin InHand, UNCHANGED runs
        PROVE  BudgetHolds'
    BY <1>0, <1>2, AdmittedKept, NobodyAdmitted
  <1>3. ASSUME NEW w \in Worker, Return(w) \/ Interrupt(w)
        PROVE  Others(w) /\ at'[w] = "idle" /\ at'[w] \notin InHand
    BY <1>0, <1>3 DEF Return, Interrupt, EndRun, RunsTyped, Others, InHand
  <1>4. CASE Push \/ (\E h \in Sha, i \in Identity : ReviewPosts(h, i)) \/ \E j \in Row : Comment(j)
    BY <1>0, <1>1, <1>4, NobodyAdmitted DEF Push, ReviewPosts, Comment, github
  <1>5. ASSUME NEW h \in Sha, NEW i \in Identity, ReviewRecords(h, i)
        PROVE  BudgetHolds'
    BY <1>0, <1>1, <1>5, UsedKept, NobodyAdmitted DEF ReviewRecords
  <1>6. ASSUME NEW w \in Worker, NEW j \in Row, Lease(w, j)
        PROVE  BudgetHolds'
    <2>1. Others(w) /\ at'[w] = "fetching" /\ UNCHANGED runs
      BY <1>0, <1>6 DEF Lease, Go, RunsTyped, Others
    <2> QED BY <1>2, <2>1 DEF InHand
  <1>7. ASSUME NEW w \in Worker, Interrupt(w) PROVE BudgetHolds'
    BY <1>2, <1>3, <1>7 DEF Interrupt
  <1>8. ASSUME NEW w \in Worker, FetchContext(w) PROVE BudgetHolds'
    <2>1. UNCHANGED runs
      BY <1>8 DEF FetchContext
    <2>2. CASE Return(w)
      BY <1>2, <1>3, <2>1, <2>2
    <2>3. CASE at' = [at EXCEPT ![w] = "choosing"] /\ job' = [job EXCEPT ![w].sha = head]
      <3>1. Others(w) /\ at'[w] \notin InHand
        BY <1>0, <2>3 DEF RunsTyped, Others, InHand
      <3> QED BY <1>2, <2>1, <3>1
    <2> QED BY <1>8, <2>2, <2>3 DEF FetchContext
  <1>9. ASSUME NEW w \in Worker, Choose(w) PROVE BudgetHolds'
    <2>1. /\ at[w] = "choosing" /\ at' = [at EXCEPT ![w] = "reviewing"]
          /\ ~UsedUp(runs[job[w].sha]) /\ UNCHANGED runs
      BY <1>9 DEF Choose, Go
    <2>2. PICK i \in Summons(runs[job[w].sha]) : job' = [job EXCEPT ![w].summon = i]
      BY <1>9 DEF Choose
    <2>3. Others(w) /\ job'[w].sha = job[w].sha
      BY <1>0, <2>1, <2>2 DEF RunsTyped, Others
    <2>4. ASSUME NEW h \in Sha, h # job[w].sha
          PROVE  \/ runs'[h].used = 0 /\ Admitted(h)' = {}
                 \/ runs'[h].used + Cardinality(Admitted(h)')
                      <= MaxPerPr + Cardinality(Worker) - 1
      <3>1. Admitted(h)' \subseteq Admitted(h)
        BY <2>3, <2>4, AdmittedApart
      <3>2. \A v \in Worker :
                v \in Admitted(h) => v \in Admitted(h)'
        BY <2>1, <2>3 DEF Admitted, Others
      <3>3. Admitted(h)' = Admitted(h)
        BY <3>1, <3>2, Sets
      <3> QED BY <1>0, <2>1, <3>3 DEF BudgetHolds
    <2>5. ASSUME NEW h \in Sha, h = job[w].sha
          PROVE  runs'[h].used + Cardinality(Admitted(h)')
                      <= MaxPerPr + Cardinality(Worker) - 1
      <3>1. runs[h].used < MaxPerPr
        BY <1>n, <2>1, <2>5 DEF UsedUp
      <3>2. Admitted(h)' \in SUBSET Worker
        BY DEF Admitted
      <3>3. Cardinality(Admitted(h)') \in Nat /\ Cardinality(Admitted(h)') <= Cardinality(Worker)
        BY <3>2, Finite
      <3> QED BY <1>n, <2>1, <3>1, <3>3
    <2> QED BY <2>4, <2>5 DEF BudgetHolds
  <1>10. ASSUME NEW w \in Worker, Decline(w) PROVE BudgetHolds'
    BY <1>2, <1>3, <1>10 DEF Decline
  <1>11. ASSUME NEW w \in Worker, Review(w) PROVE BudgetHolds'
    <2>1. UNCHANGED runs /\ at[w] \in InHand
      BY <1>11 DEF Review, InHand
    <2>2. CASE Return(w)
      BY <1>2, <1>3, <2>1, <2>2
    <2>3. CASE at' = [at EXCEPT ![w] = "posting"] /\ UNCHANGED <<queue, job>>
      <3>1. Others(w) /\ job'[w].sha = job[w].sha
        BY <1>0, <2>3 DEF RunsTyped, Others
      <3> QED BY <1>0, <2>1, <3>1, AdmittedKept, NobodyAdmitted
    <2> QED BY <1>11, <2>2, <2>3 DEF Review
  <1>12. ASSUME NEW w \in Worker, Post(w) PROVE BudgetHolds'
    <2>1. /\ at[w] \in InHand /\ at' = [at EXCEPT ![w] = "recording"]
          /\ UNCHANGED <<runs, job>>
      BY <1>12 DEF Post, Go, InHand
    <2>2. Others(w) /\ job'[w].sha = job[w].sha
      BY <1>0, <2>1 DEF RunsTyped, Others
    <2> QED BY <1>0, <2>1, <2>2, AdmittedKept, NobodyAdmitted
  <1>13. ASSUME NEW w \in Worker, Record(w) PROVE BudgetHolds'
    <2>1. /\ at[w] = "recording" /\ at' = [at EXCEPT ![w] = "counting"]
          /\ UNCHANGED job /\ RecordAs(job[w].sha, job[w].summon)
      BY <1>13 DEF Record, RecordPost, Go
    <2>2. Others(w) /\ job'[w].sha = job[w].sha /\ at[w] \in InHand
      BY <1>0, <2>1 DEF RunsTyped, Others, InHand
    <2>3. job[w].sha \in Sha /\ job[w].summon \in Identity
      BY <1>0, <2>2, RunHas
    <2> QED BY <1>0, <2>1, <2>2, <2>3, AdmittedKept, UsedKept, NobodyAdmitted
  <1>14. ASSUME NEW w \in Worker, Count(w) PROVE BudgetHolds'
    <2>1. /\ at[w] = "counting" /\ Return(w)
          /\ runs' = [runs EXCEPT ![job[w].sha].used = @ + 1]
      BY <1>14 DEF Count, RecordConferUsed
    <2>2. job[w].sha \in Sha /\ at[w] \in InHand
      BY <1>0, <2>1, RunHas DEF InHand
    <2>3. Others(w) /\ at'[w] \notin InHand
      BY <1>3, <2>1
    <2>4. ASSUME NEW h \in Sha
          PROVE  \/ runs'[h].used = 0 /\ Admitted(h)' = {}
                 \/ runs'[h].used + Cardinality(Admitted(h)')
                      <= MaxPerPr + Cardinality(Worker) - 1
      <3>1. \A v \in Worker : v \in Admitted(h)' <=> v \in Admitted(h) /\ v # w
        BY <2>3 DEF Admitted, Others, InHand
      <3>2. Admitted(h)' = Admitted(h) \ {w}
        <4>1. Admitted(h) \subseteq Worker /\ Admitted(h)' \subseteq Worker
          BY DEF Admitted
        <4> QED BY <3>1, <4>1
      <3>3. CASE h # job[w].sha
        <4>1. w \notin Admitted(h)
          BY <3>3 DEF Admitted
        <4>2. Admitted(h)' = Admitted(h)
          BY <3>2, <4>1
        <4>3. runs'[h] = runs[h]
          BY <1>0, <2>1, <3>3 DEF GitHubTyped
        <4> QED BY <1>0, <4>2, <4>3 DEF BudgetHolds
      <3>4. CASE h = job[w].sha
        <4>1. w \in Admitted(h)
          BY <2>1, <3>4 DEF Admitted
        <4>2. /\ Cardinality(Admitted(h)') = Cardinality(Admitted(h)) - 1
              /\ Cardinality(Admitted(h)) \in Nat
          BY <3>2, <4>1, Leaving, Sets, Finite
        <4>3. runs'[h].used = runs[h].used + 1
          BY <1>0, <2>1, <3>4 DEF GitHubTyped
        <4>4. runs[h].used + Cardinality(Admitted(h)) <= MaxPerPr + Cardinality(Worker) - 1
          BY <1>0, <4>1 DEF BudgetHolds
        <4> QED BY <1>n, <4>2, <4>3, <4>4
      <3> QED BY <3>3, <3>4
    <2> QED BY <2>4 DEF BudgetHolds
  <1> QED BY <1>4, <1>5, <1>6, <1>7, <1>8, <1>9, <1>10, <1>11, <1>12, <1>13, <1>14
          DEF Next, Handle

-----------------------------------------------------------------------------
(* The invariant is inductive.                                             *)
LEMMA StepCorrect == ConferInv /\ [Next]_vars => ConferInv'
  <1>1. ConferInv /\ Next => ConferInv'
    BY TypeStep, RecordsStep, LastStep, SummonsStep, CountStep, BudgetStep DEF ConferInv
  <1>2. ConferInv /\ UNCHANGED vars => ConferInv'
    BY DEF ConferInv, TypeOK, RecordsAreTrue, LastComesLast, SummonsInOrder,
           ConfersAreCounted, BudgetHolds, Posted, Counting, Uncounted, Admitted,
           vars, github
  <1> QED BY <1>1, <1>2

LEMMA ConferInvariance == Spec => []ConferInv
  BY InitCorrect, StepCorrect, PTL DEF Spec

(* A run has a row, a head and somebody to summon when it needs them.      *)
THEOREM ConferTyping == Spec => []TypeOK
  <1>1. ConferInv => TypeOK
    BY DEF ConferInv
  <1> QED BY <1>1, ConferInvariance, PTL

(* Nobody is on record who has not posted (multi_review.rs:25).            *)
THEOREM RecordsStayTrue == Spec => []RecordsAreTrue
  <1>1. ConferInv => RecordsAreTrue
    BY DEF ConferInv
  <1> QED BY <1>1, ConferInvariance, PTL

(* Other Other Barry never comes before Other Barry (README.md:235).       *)
THEOREM TheLastComesLast == Spec => []LastComesLast
  <1>1. ConferInv => LastComesLast
    BY DEF ConferInv
  <1> QED BY <1>1, ConferInvariance, PTL

(* No confer is counted twice, or not at all, but those of interrupted     *)
(* runs (actor.rs, RecordConferUsed).                                      *)
THEOREM EveryConferIsCounted == Spec => []ConfersAreCounted
  <1>1. ConferInv => ConfersAreCounted
    BY DEF ConferInv
  <1> QED BY <1>1, ConferInvariance, PTL

(* The budget is overrun by the runs under way together at most            *)
(* (confer.rs:70).                                                         *)
THEOREM TheBudgetHolds == Spec => []BudgetHolds
  <1>1. ConferInv => BudgetHolds
    BY DEF ConferInv
  <1> QED BY <1>1, ConferInvariance, PTL

-----------------------------------------------------------------------------
(* Numbers, and the prompts' sizes.                                        *)

LEMMA Least ==
    ASSUME NEW T, T \subseteq Nat, T # {}
    PROVE  \E n \in T : \A m \in T : n <= m
<1> DEFINE Smaller == OpToRel(<, Nat)
<1>1. IsWellFoundedOn(Smaller, Nat)
  BY NatLessThanWellFounded
<1>2. \A x, y \in Nat : <<y, x>> \in Smaller <=> y < x
  BY DEF OpToRel
<1> HIDE DEF Smaller
<1>3. \E x \in T : \A y \in T : ~(<<y, x>> \in Smaller)
  BY <1>1, WFMin
<1>4. PICK n \in T : \A m \in T : ~(<<m, n>> \in Smaller)
  BY <1>3
<1>5. ASSUME NEW m \in T PROVE n <= m
  <2>1. n \in Nat /\ m \in Nat /\ ~(m < n)
    BY <1>2, <1>4
  <2> QED BY <2>1
<1> QED BY <1>5

LEMMA Induction ==
    ASSUME NEW S, 0 \in S, \A k \in Nat : k \in S => k + 1 \in S
    PROVE  Nat \subseteq S
<1> SUFFICES ASSUME Nat \ S # {} PROVE FALSE
  OBVIOUS
<1> DEFINE T == Nat \ S
<1>1. PICK n \in T : \A m \in T : n <= m
  <2>1. T \subseteq Nat /\ T # {}
    OBVIOUS
  <2> HIDE DEF T
  <2> QED BY <2>1, Least
<1>2. n \in Nat /\ n # 0 /\ n \notin S
  BY <1>1
<1>3. n - 1 \in Nat /\ (n - 1) + 1 = n /\ ~(n <= n - 1)
  BY <1>2
<1>4. n - 1 \in S
  BY <1>1, <1>3
<1> QED BY <1>2, <1>3, <1>4

LEMMA PromptIs ==
    /\ Len(Prompt) \in Nat /\ Len(Prompt) > 0 /\ Persona = 1 .. Len(Prompt)
    /\ \A p \in Persona : Prompt[p] \in Nat
BY OrchestratorAssumption DEF Persona

LEMMA PromptsAreBounded == \E b \in Nat : \A p \in Persona : Prompt[p] <= b
<1> DEFINE Bounded(k) == \E b \in Nat : \A p \in 1 .. k : Prompt[p] <= b
           S == {k \in Nat : k <= Len(Prompt) => Bounded(k)}
<1>1. 0 \in S
  OBVIOUS
<1>2. ASSUME NEW k \in Nat, k \in S, k + 1 <= Len(Prompt) PROVE Bounded(k + 1)
  <2>1. k <= Len(Prompt) /\ k + 1 \in Persona
    BY <1>2, PromptIs
  <2>2. PICK b \in Nat : \A p \in 1 .. k : Prompt[p] <= b
    BY <1>2, <2>1
  <2> DEFINE y == Prompt[k + 1]
  <2>3. y \in Nat /\ \A p \in 1 .. k : Prompt[p] \in Nat
    BY <2>1, PromptIs
  <2>4. \A p \in 1 .. k + 1 : p \in 1 .. k \/ p = k + 1
    OBVIOUS
  <2> DEFINE c == IF y <= b THEN b ELSE y
  <2>5. c \in Nat /\ b <= c /\ y <= c
    <3> HIDE DEF y
    <3> QED BY <2>3
  <2>6. ASSUME NEW p \in 1 .. k PROVE Prompt[p] <= c
    <3> DEFINE x == Prompt[p]
    <3>1. x \in Nat /\ x <= b
      BY <2>2, <2>3
    <3> HIDE DEF x, c
    <3>2. x <= c
      BY <2>5, <3>1
    <3> QED BY <3>2 DEF x
  <2>7. ASSUME NEW p \in 1 .. k + 1 PROVE Prompt[p] <= c
    <3> HIDE DEF c
    <3> QED BY <2>4, <2>5, <2>6
  <2> HIDE DEF c
  <2> QED BY <2>5, <2>7
<1>3. Nat \subseteq S
  <2> HIDE DEF Bounded
  <2>1. \A k \in Nat : k \in S => k + 1 \in S
    BY <1>2
  <2> HIDE DEF S
  <2> QED BY <1>1, <2>1, Induction
<1>4. Bounded(Len(Prompt))
  <2> HIDE DEF Bounded
  <2> QED BY <1>3, PromptIs
<1> QED BY <1>4, PromptIs

LEMMA LargestIs == Largest \in Nat /\ \A p \in Persona : Prompt[p] <= Largest
<1> DEFINE Bound == {b \in Nat : \A p \in Persona : Prompt[p] <= b}
           S == {Prompt[p] : p \in Persona}
<1>1. Bound \subseteq Nat /\ Bound # {}
  BY PromptsAreBounded
<1> HIDE DEF Bound
<1>2. PICK b \in Bound : \A c \in Bound : b <= c
  BY <1>1, Least
<1> USE DEF Bound
<1>3. b \in S
  <2> SUFFICES ASSUME b \notin S PROVE FALSE
    OBVIOUS
  <2>1. \A p \in Persona : Prompt[p] \in Nat /\ Prompt[p] <= b /\ Prompt[p] # b
    BY <1>2, PromptIs
  <2>2. 1 \in Persona /\ b \in Nat
    BY <1>2, PromptIs
  <2>3. b - 1 \in Nat /\ \A p \in Persona : Prompt[p] <= b - 1
    BY <2>1, <2>2
  <2> QED BY <1>2, <2>2, <2>3
<1>4. \A y \in S : b >= y
  BY <1>2, PromptIs
<1>5. Largest \in S /\ \A y \in S : Largest >= y
  BY <1>3, <1>4 DEF Largest, Max
<1> QED BY <1>5, PromptIs

LEMMA CostIs ==
    /\ Cost(Largest) \in Nat
    /\ \A p \in Persona : Cost(Prompt[p]) \in Nat /\ Cost(Prompt[p]) <= Cost(Largest)
BY PromptIs, LargestIs, OrchestratorAssumption DEF Cost, EstimateTokens

-----------------------------------------------------------------------------
(* The sum of costs over a set of personas.                                *)

Some(s) == CHOOSE x \in s : TRUE

Rest(S) == S \ {Some(S)}

Add(f, s) == IF s = {} THEN 0 ELSE Cost(Prompt[Some(s)]) + f[Rest(s)]

Small(S, n) == {s \in SUBSET S : Cardinality(s) <= n}

LEMMA RestIs ==
    ASSUME NEW S, IsFiniteSet(S), NEW s \in SUBSET S, s # {}
    PROVE  /\ Some(s) \in s /\ Some(s) \in S /\ Rest(s) \in SUBSET S
           /\ Cardinality(s) \in Nat \ {0}
           /\ Cardinality(Rest(s)) = Cardinality(s) - 1
<1>1. Some(s) \in s
  BY DEF Some
<1>2. IsFiniteSet(s)
  BY FS_Subset
<1>3. Cardinality(s) \in Nat /\ Cardinality(s) # 0
  BY <1>2, FS_CardinalityType, FS_EmptySet
<1>4. Cardinality(Rest(s)) = Cardinality(s) - 1
  BY <1>1, <1>2, FS_RemoveElement DEF Rest
<1> QED BY <1>1, <1>3, <1>4 DEF Rest

\* The recursion that defines the sum has a solution.
LEMMA SumsOfSmall ==
    ASSUME NEW S, S \subseteq Persona, IsFiniteSet(S), NEW n \in Nat
    PROVE  \E f \in [Small(S, n) -> Nat] : \A s \in Small(S, n) : f[s] = Add(f, s)
<1> DEFINE Solved(k) == \E f \in [Small(S, k) -> Nat] : \A s \in Small(S, k) : f[s] = Add(f, s)
<1>1. Solved(0)
  <2> DEFINE f == [s \in Small(S, 0) |-> 0]
  <2>1. \A s \in Small(S, 0) : s = {}
    BY RestIs, FS_Subset, FS_CardinalityType DEF Small
  <2>2. \A s \in Small(S, 0) : f[s] = Add(f, s)
    BY <2>1 DEF Add
  <2> QED BY <2>2
<1>2. ASSUME NEW k \in Nat, Solved(k) PROVE Solved(k + 1)
  <2>1. PICK g \in [Small(S, k) -> Nat] : \A s \in Small(S, k) : g[s] = Add(g, s)
    BY <1>2
  <2> DEFINE f == [s \in Small(S, k + 1) |-> Add(g, s)]
  <2>2. ASSUME NEW s \in Small(S, k + 1), s # {}
        PROVE  Rest(s) \in Small(S, k) /\ Rest(s) \in Small(S, k + 1) /\ Some(s) \in Persona
    BY <2>2, RestIs DEF Small
  <2>3. ASSUME NEW s \in Small(S, k + 1) PROVE Add(g, s) \in Nat
    <3>1. CASE s = {}
      BY <3>1 DEF Add
    <3>2. CASE s # {}
      <4>1. g[Rest(s)] \in Nat /\ Cost(Prompt[Some(s)]) \in Nat
        BY <2>2, <3>2, CostIs
      <4> QED BY <3>2, <4>1 DEF Add
    <3> QED BY <3>1, <3>2
  <2>4. ASSUME NEW s \in Small(S, k + 1) PROVE f[s] = Add(f, s)
    <3>1. CASE s = {}
      BY <3>1 DEF Add
    <3>2. CASE s # {}
      <4>1. f[Rest(s)] = g[Rest(s)]
        BY <2>1, <2>2, <3>2
      <4> QED BY <3>2, <4>1 DEF Add
    <3> QED BY <3>1, <3>2
  <2>5. f \in [Small(S, k + 1) -> Nat]
    BY <2>3
  <2> HIDE DEF f
  <2> QED BY <2>4, <2>5
<1>3. Solved(n)
  <2> HIDE DEF Solved
  <2> DEFINE T == {k \in Nat : Solved(k)}
  <2>1. 0 \in T /\ \A k \in Nat : k \in T => k + 1 \in T
    BY <1>1, <1>2
  <2>2. Nat \subseteq T
    <3> HIDE DEF T
    <3> QED BY <2>1, Induction
  <2> QED BY <2>2
<1> QED BY <1>3

Total(S) == MapThenSumSet(LAMBDA p : Cost(Prompt[p]), S)

LEMMA TotalIsBounded ==
    ASSUME NEW S, S \subseteq Persona, IsFiniteSet(S)
    PROVE  Total(S) \in Nat /\ Total(S) <= Cardinality(S) * Cost(Largest)
<1> DEFINE Unfolds(f) ==
               f = [s \in SUBSET S |->
                       IF s = {} THEN 0
                       ELSE LET x == CHOOSE x \in s : TRUE
                            IN  Cost(Prompt[x]) + f[s \ {x}]]
           g == CHOOSE f : Unfolds(f)
<1>1. Total(S) = g[S]
  BY DEF Total, MapThenSumSet, MapThenFoldSet
<1>2. \E f : Unfolds(f)
  <2>1. Cardinality(S) \in Nat /\ Small(S, Cardinality(S)) = SUBSET S
    BY FS_CardinalityType, FS_Subset DEF Small
  <2> DEFINE D == Small(S, Cardinality(S))
  <2>2. \E f \in [D -> Nat] : \A s \in D : f[s] = Add(f, s)
    BY <2>1, SumsOfSmall
  <2>3. D = SUBSET S
    BY <2>1
  <2> HIDE DEF D
  <2>4. PICK f \in [SUBSET S -> Nat] : \A s \in SUBSET S : f[s] = Add(f, s)
    BY <2>2, <2>3
  <2>5. Unfolds(f)
    BY <2>4 DEF Add, Some, Rest
  <2> QED BY <2>5
<1>3. Unfolds(g)
  <2> HIDE DEF Unfolds
  <2> QED BY <1>2
<1>4. \A s \in SUBSET S : g[s] = Add(g, s)
  <2> HIDE DEF g
  <2> QED BY <1>3 DEF Add, Some, Rest
<1> HIDE DEF g
<1> DEFINE M == Cost(Largest)
           Fits(n) == \A s \in SUBSET S : Cardinality(s) = n => g[s] \in Nat /\ g[s] <= n * M
<1>5. Fits(0)
  <2>1. \A s \in SUBSET S : Cardinality(s) = 0 => s = {}
    BY RestIs
  <2>2. {} \in SUBSET S /\ g[{}] = 0
    BY <1>4 DEF Add
  <2>3. 0 <= 0 * M
    <3>1. M \in Nat
      BY CostIs
    <3> HIDE DEF M
    <3> QED BY <3>1
  <2> HIDE DEF M
  <2> QED BY <2>1, <2>2, <2>3
<1>6. ASSUME NEW n \in Nat, Fits(n) PROVE Fits(n + 1)
  <2> SUFFICES ASSUME NEW s \in SUBSET S, Cardinality(s) = n + 1
               PROVE  g[s] \in Nat /\ g[s] <= (n + 1) * M
    OBVIOUS
  <2>1. s # {}
    BY FS_EmptySet
  <2>2. Some(s) \in Persona /\ Rest(s) \in SUBSET S /\ Cardinality(Rest(s)) = n
    BY <2>1, RestIs
  <2> DEFINE w == Cost(Prompt[Some(s)])
             t == g[Rest(s)]
  <2>3. w \in Nat /\ w <= M /\ M \in Nat
    BY <2>2, CostIs
  <2>4. t \in Nat /\ t <= n * M
    BY <1>6, <2>2
  <2>5. g[s] = w + t
    BY <1>4, <2>1 DEF Add
  <2> HIDE DEF w, t, M
  <2>6. (n + 1) * M = n * M + M /\ n * M \in Nat
    BY <2>3
  <2> QED BY <2>3, <2>4, <2>5, <2>6
<1>7. \A n \in Nat : Fits(n)
  <2> HIDE DEF Fits
  <2> DEFINE T == {n \in Nat : Fits(n)}
  <2>1. 0 \in T /\ \A k \in Nat : k \in T => k + 1 \in T
    BY <1>5, <1>6
  <2>2. Nat \subseteq T
    <3> HIDE DEF T
    <3> QED BY <2>1, Induction
  <2> QED BY <2>2
<1> QED BY <1>1, <1>7, FS_CardinalityType

-----------------------------------------------------------------------------
(* Turns.                                                                  *)

LEMMA MaxOfTwo ==
    ASSUME NEW a \in Int, NEW b \in Int
    PROVE  Max({a, b}) = IF a >= b THEN a ELSE b
<1>1. \E x \in {a, b} : \A y \in {a, b} : x >= y
  OBVIOUS
<1>2. Max({a, b}) \in {a, b} /\ \A y \in {a, b} : Max({a, b}) >= y
  BY <1>1 DEF Max
<1> QED BY <1>2

LEMMA MinOfTwo ==
    ASSUME NEW a \in Int, NEW b \in Int
    PROVE  Min({a, b}) = IF a <= b THEN a ELSE b
<1>1. \E x \in {a, b} : \A y \in {a, b} : x <= y
  OBVIOUS
<1>2. Min({a, b}) \in {a, b} /\ \A y \in {a, b} : Min({a, b}) <= y
  BY <1>1 DEF Min
<1> QED BY <1>2

LEMMA ConcurrencyIs ==
    ASSUME NEW context \in Contexts
    PROVE  PersonaConcurrency(context) \in Nat
<1>1. CASE context = Hosted
  BY <1>1, PromptIs DEF PersonaConcurrency
<1>2. CASE context # Hosted
  <2> DEFINE d == Max({Cost(Largest), 1})
             q == context \div d
             m == Min({q, Len(Prompt)})
  <2>1. d \in Nat /\ d > 0 /\ context \in Nat
    BY <1>2, OrchestratorAssumption, CostIs, MaxOfTwo
  <2> HIDE DEF d
  <2>2. q \in Nat
    BY <2>1
  <2> HIDE DEF q
  <2>3. m \in Nat
    BY <2>2, PromptIs, MinOfTwo
  <2> HIDE DEF m
  <2>4. Max({1, m}) \in Nat
    BY <2>3, MaxOfTwo
  <2> QED BY <1>2, <2>4 DEF PersonaConcurrency, Fit, d, q, m
<1> QED BY <1>1, <1>2

(* As many as get a turn fit the window, if they are more than one.        *)
LEMMA TurnsFit ==
    ASSUME NEW context \in Contexts, context # Hosted,
           NEW k \in Nat, k > 1, k <= PersonaConcurrency(context)
    PROVE  k * Cost(Largest) <= context
<1> DEFINE c == Cost(Largest)
           d == Max({c, 1})
           q == context \div d
           m == Min({q, Len(Prompt)})
<1>1. context \in Nat /\ Len(Prompt) \in Nat /\ c \in Nat
  BY OrchestratorAssumption, PromptIs, CostIs
<1>2. k <= Max({1, m})
  BY DEF PersonaConcurrency, Fit
<1>3. d \in Nat /\ d > 0 /\ c <= d
  BY <1>1, MaxOfTwo
<1>4. q \in Nat /\ q * d <= context
  <2> HIDE DEF d
  <2> QED BY <1>1, <1>3
<1>5. m \in Int /\ m <= q
  <2> HIDE DEF q
  <2> QED BY <1>1, <1>4, MinOfTwo
<1>6. k <= q
  <2> HIDE DEF m, q
  <2> QED BY <1>2, <1>4, <1>5, MaxOfTwo
<1> HIDE DEF c, d, q
<1>7. k * c <= k * d
  BY <1>1, <1>3
<1>8. k * d <= q * d
  BY <1>3, <1>4, <1>6
<1>9. k * c \in Nat /\ k * d \in Nat /\ q * d \in Nat
  BY <1>1, <1>3, <1>4
<1>10. k * c <= context
  BY <1>1, <1>4, <1>7, <1>8, <1>9
<1> QED BY <1>10 DEF c

-----------------------------------------------------------------------------
(* The invariant.                                                          *)

Phase == {"drafts", "first", "peer", "judge", "done"}

\* What may come of a synthesis, and of any call.
Ends == {"error", "truncated", "unparsed"} \cup Outcome

Gots == {"nothing", "usable", "unusable", "agree", "disagree"} \cup Ends

Call == [at : {"idle", "gate", "line", "sent", "waiting", "done"},
         attempt : Nat, again : {"no", "cut", "unparsed"}, got : Gots]

OrchestratorTyped ==
    /\ way \in {"run", "run_barry_only", "judge_reviews"}
    /\ window \in [Both -> Contexts]
    /\ phase \in Phase
    /\ call \in [Caller -> Call]
    /\ line \in Seq(Caller \cup {Elsewhere})
    /\ drafts \in [Both -> {"none", "error", "usable", "unusable"}]
    /\ review \in [Both -> Opinion]

\* The calls that the phase is made of.
Made ==
    CASE phase = "drafts" -> Reviewers \X Persona
      [] phase = "first"  -> {<<i, 0>> : i \in Writers}
      [] phase = "peer"   -> Writer
      [] phase = "judge"  -> {Judge}
      [] OTHER            -> {}

Quiet == \A c \in Caller : c \notin Made => call[c] = Idle

(* Who stands in line waits for a permit, and stands there once.           *)
LineWaits ==
    /\ \A n \in DOMAIN line : line[n] # Elsewhere => call[line[n]].at = "line"
    /\ \A m, n \in DOMAIN line : line[m] # Elsewhere /\ line[m] = line[n] => m = n

GotLast ==
    /\ \A c \in Caller : ~Done(c) => call[c].got = "nothing"
    /\ \A c \in Writer : Done(c) => call[c].got \in Ends

TurnsKept ==
    \A i \in Both : Cardinality(Started(i)) <= PersonaConcurrency(window[i])

(* There is no first round without Barry's drafts, and none after it       *)
(* without both reviews.                                                   *)
Reached ==
    /\ phase = "first" => Barry \in Writers
    /\ phase \in {"peer", "judge"} =>
          \A i \in Both : review[i].by = i /\ review[i].round > 0

OrchestratorInv ==
    /\ OrchestratorTyped /\ Quiet /\ LineWaits /\ GotLast /\ TurnsKept /\ Reached
    /\ VerdictIsEarned

-----------------------------------------------------------------------------
(* Steps.                                                                  *)

LEMMA Callers ==
    /\ Writer \subseteq Caller /\ Drafter \subseteq Caller /\ Judge \in Caller
    /\ Writer \cap Drafter = {} /\ Judge \notin Writer \cup Drafter
    /\ Elsewhere \notin Caller
    /\ \A i \in Both : <<i, 0>> \in Writer
BY PromptIs DEF Caller, Writer, Drafter, Judge, Elsewhere, Both, Barry, OtherBarry

\* What an answer, or none, makes of a call.
Answered(c, r) ==
    /\ call' = [call EXCEPT ![c] = r]
    /\ \/ line' = line /\ r.at \in {"waiting", "done"}
       \/ line' = Append(line, c) /\ r.at = "line" /\ c \notin Drafter
    /\ r.at # "done" => r.got = "nothing"
    /\ r.at = "done" /\ c \in Writer => r.got \in Ends

LEMMA EndedIs ==
    ASSUME NEW c \in Caller, NEW got \in Gots, c \in Writer => got \in Ends, Ended(c, got)
    PROVE  \E r \in Call : Answered(c, r)
<1> DEFINE r == [Idle EXCEPT !.at = "done", !.got = got]
<1>1. r \in Call /\ r.at = "done" /\ r.got = got
  BY DEF Idle, Call, Gots
<1> HIDE DEF r
<1>2. call' = [call EXCEPT ![c] = r] /\ line' = line
  BY DEF Ended, r
<1> QED BY <1>1, <1>2 DEF Answered

LEMMA AskAgainIs ==
    ASSUME NEW c \in Caller, c \notin Drafter, NEW why \in {"cut", "unparsed"}, AskAgain(c, why)
    PROVE  \E r \in Call : Answered(c, r)
<1> DEFINE r == [Idle EXCEPT !.at = "line", !.again = why]
<1>1. r \in Call /\ r.at = "line" /\ r.got = "nothing"
  BY DEF Idle, Call, Gots
<1> HIDE DEF r
<1>2. call' = [call EXCEPT ![c] = r] /\ line' = Append(line, c)
  BY DEF AskAgain, r
<1> QED BY <1>1, <1>2 DEF Answered

LEMMA ErrorIs == "error" \in Gots /\ "error" \in Ends
BY DEF Gots, Ends

LEMMA FailsIs ==
    ASSUME OrchestratorTyped, GotLast, NEW c \in Caller, call[c].at = "sent",
           NEW e, Fails(c, e)
    PROVE  \E r \in Call : Answered(c, r)
<1>1. CASE Transient(e) /\ call[c].attempt < MaxAttempts
  <2> DEFINE r == [call[c] EXCEPT !.at = "waiting"]
  <2>1. call[c] \in Call /\ call[c].got = "nothing"
    BY DEF OrchestratorTyped, GotLast, Done
  <2>2. r \in Call /\ r.at = "waiting" /\ r.got = "nothing"
    BY <2>1 DEF Call
  <2>3. call' = [call EXCEPT ![c] = r] /\ line' = line
    BY <1>1 DEF Fails
  <2> HIDE DEF r
  <2> QED BY <2>2, <2>3 DEF Answered
<1>2. CASE ~(Transient(e) /\ call[c].attempt < MaxAttempts)
  BY <1>2, ErrorIs, EndedIs DEF Fails
<1> QED BY <1>1, <1>2

LEMMA ReplyIs ==
    ASSUME OrchestratorTyped, GotLast, NEW c \in Caller, Reply(c)
    PROVE  /\ call[c].at = "sent"
           /\ \E r \in Call : Answered(c, r)
           /\ UNCHANGED <<way, window, phase, others, drafts, review, verdict>>
<1>1. /\ call[c].at = "sent"
      /\ UNCHANGED <<way, window, phase, others, drafts, review, verdict>>
  BY DEF Reply
<1>2. CASE \E e \in Failure : Fails(c, e)
  BY <1>1, <1>2, FailsIs
<1>3. CASE Ended(c, "error")
  BY <1>1, <1>3, ErrorIs, EndedIs
<1>4. ASSUME NEW a \in Answer, c \in Drafter, Drafted(c, a)
      PROVE  \E r \in Call : Answered(c, r)
  <2>1. \E got \in {"error", "unusable", "usable"} : Ended(c, got)
    BY <1>4 DEF Drafted, Answer, Text
  <2>2. {"error", "unusable", "usable"} \subseteq Gots /\ c \notin Writer
    BY <1>4, Callers DEF Gots, Ends
  <2> QED BY <2>1, <2>2, EndedIs
<1>5. ASSUME NEW a \in Answer, c \in Writer, Synthesized(c, a)
      PROVE  \E r \in Call : Answered(c, r)
  <2>1. \/ \E got \in Ends : Ended(c, got)
        \/ \E why \in {"cut", "unparsed"} : AskAgain(c, why)
    BY <1>5 DEF Synthesized, Ends
  <2>2. Ends \subseteq Gots
    BY DEF Gots
  <2> QED BY <1>5, <2>1, <2>2, EndedIs, AskAgainIs, Callers
<1>6. ASSUME NEW a \in Answer, c = Judge, Judged(c, a)
      PROVE  \E r \in Call : Answered(c, r)
  <2>1. \/ \E got \in {"agree", "disagree", "unparsed"} : Ended(c, got)
        \/ AskAgain(c, "unparsed")
    BY <1>6 DEF Judged
  <2>2. /\ {"agree", "disagree", "unparsed"} \subseteq Gots
        /\ c \notin Writer /\ c \notin Drafter
    BY <1>6, Callers DEF Gots, Ends
  <2> QED BY <2>1, <2>2, EndedIs, AskAgainIs
<1> QED BY <1>1, <1>2, <1>3, <1>4, <1>5, <1>6 DEF Reply

HasTurn(c) ==
    \A i \in Both, p \in Persona :
        c = <<i, p>> => Cardinality(Started(i)) < PersonaConcurrency(window[i])

(* A call goes on: it joins the line, gets the permit as the first in it,  *)
(* or goes from one state outside it to another.                           *)
Moved(c, r) ==
    /\ call' = [call EXCEPT ![c] = r]
    /\ call[c].at = "gate" => HasTurn(c)
    /\ UNCHANGED <<way, window, phase, drafts, review, verdict>>
    /\ \/ call[c].at \in {"gate", "sent"} /\ r.at = "line" /\ line' = Append(line, c)
       \/ /\ call[c].at = "line" /\ r.at = "sent"
          /\ line # <<>> /\ c = Head(line) /\ line' = Tail(line)
       \/ /\ call[c].at \in {"sent", "waiting"} /\ r.at \in {"sent", "waiting", "done"}
          /\ line' = line
    /\ r.at # "done" => r.got = "nothing"
    /\ r.at = "done" /\ c \in Writer => r.got \in Ends

\* A request of another review does.
Aside ==
    /\ UNCHANGED <<way, window, phase, call, drafts, review, verdict>>
    /\ \/ line' = Append(line, Elsewhere) \/ line' = line
       \/ line # <<>> /\ line' = Tail(line)

LEMMA TakeTurnMoves ==
    ASSUME OrchestratorTyped, GotLast, NEW i \in Both, NEW p \in Persona, TakeTurn(i, p)
    PROVE  \E c \in Caller, r \in Call : Moved(c, r)
<1> DEFINE c == <<i, p>>
           r == [call[c] EXCEPT !.at = "line"]
<1>1. c \in Caller
  BY DEF Caller, Drafter
<1>2. call[c].at = "gate" /\ call[c] \in Call /\ call[c].got = "nothing"
  BY <1>1 DEF TakeTurn, OrchestratorTyped, GotLast, Done
<1>3. r \in Call /\ r.at = "line" /\ r.got = "nothing"
  BY <1>2 DEF Call
<1>4. /\ call' = [call EXCEPT ![c] = r] /\ line' = Append(line, c)
      /\ UNCHANGED <<way, window, phase, drafts, review, verdict>>
  BY DEF TakeTurn
<1>5. HasTurn(c)
  BY DEF TakeTurn, HasTurn
<1> HIDE DEF c, r
<1> QED BY <1>1, <1>2, <1>3, <1>4, <1>5 DEF Moved

LEMMA AcquireMoves ==
    ASSUME OrchestratorTyped, GotLast, LineWaits, Acquire
    PROVE  Aside \/ \E c \in Caller, r \in Call : Moved(c, r)
<1>1. CASE Head(line) = Elsewhere
  BY <1>1 DEF Acquire, Aside
<1>2. CASE Head(line) # Elsewhere
  <2> DEFINE c == Head(line)
             r == [call[c] EXCEPT !.at = "sent"]
  <2>1. line # <<>> /\ line' = Tail(line) /\ call' = [call EXCEPT ![c] = r]
        /\ UNCHANGED <<way, window, phase, drafts, review, verdict>>
    BY <1>2 DEF Acquire
  <2>2. c = line[1] /\ 1 \in DOMAIN line /\ c \in Caller
    BY <1>2, <2>1 DEF OrchestratorTyped
  <2>3. call[c].at = "line" /\ call[c] \in Call /\ call[c].got = "nothing"
    BY <1>2, <2>2 DEF LineWaits, OrchestratorTyped, GotLast, Done
  <2>4. r \in Call /\ r.at = "sent" /\ r.got = "nothing"
    BY <2>3 DEF Call
  <2>5. c = Head(line)
    OBVIOUS
  <2> HIDE DEF c, r
  <2> QED BY <2>1, <2>2, <2>3, <2>4, <2>5 DEF Moved
<1> QED BY <1>1, <1>2

LEMMA WakeMoves ==
    ASSUME OrchestratorTyped, GotLast, NEW c \in Caller, Wake(c)
    PROVE  \E r \in Call : Moved(c, r)
<1> DEFINE r == [call[c] EXCEPT !.at = "sent", !.attempt = @ + 1]
<1>1. call[c].at = "waiting" /\ call[c] \in Call /\ call[c].got = "nothing"
  BY DEF Wake, OrchestratorTyped, GotLast, Done
<1>2. r \in Call /\ r.at = "sent" /\ r.got = "nothing"
  <2> DEFINE d == call[c]
             n == d.attempt + 1
  <2>1. d \in Call /\ d.got = "nothing" /\ n \in Nat
    BY <1>1 DEF Call
  <2>2. r = [d EXCEPT !.at = "sent", !.attempt = n]
    OBVIOUS
  <2> HIDE DEF d, n, r
  <2> QED BY <2>1, <2>2 DEF Call
<1>3. call' = [call EXCEPT ![c] = r]
  BY DEF Wake
<1>4. UNCHANGED <<way, window, phase, line, drafts, review, verdict>>
  BY DEF Wake
<1> HIDE DEF r
<1> QED BY <1>1, <1>2, <1>3, <1>4 DEF Moved

LEMMA ReplyMoves ==
    ASSUME OrchestratorTyped, GotLast, NEW c \in Caller, Reply(c)
    PROVE  \E r \in Call : Moved(c, r)
<1>1. PICK r \in Call : Answered(c, r)
  BY ReplyIs
<1>2. Moved(c, r)
  BY <1>1, ReplyIs DEF Answered, Moved
<1> QED BY <1>2

PhaseStep == DraftsIn \/ FirstsIn \/ PeersIn \/ JudgeIn

LEMMA StepIs ==
    ASSUME OrchestratorTyped, GotLast, LineWaits, [OrchestratorNext]_orchestratorVars
    PROVE  \/ Aside
           \/ \E c \in Caller, r \in Call : Moved(c, r)
           \/ PhaseStep
<1>1. CASE UNCHANGED orchestratorVars
  BY <1>1 DEF orchestratorVars, Aside
<1>2. CASE \E i \in Both, p \in Persona : TakeTurn(i, p)
  BY <1>2, TakeTurnMoves
<1>3. CASE Acquire
  BY <1>3, AcquireMoves
<1>4. CASE OtherAsks \/ OtherEnds
  BY <1>4 DEF OtherAsks, OtherEnds, Aside
<1>5. CASE \E c \in Caller : Reply(c)
  BY <1>5, ReplyMoves
<1>6. CASE \E c \in Caller : Wake(c)
  BY <1>6, WakeMoves
<1>7. CASE PhaseStep
  BY <1>7
<1> QED
  BY <1>1, <1>2, <1>3, <1>4, <1>5, <1>6, <1>7 DEF OrchestratorNext, PhaseStep

-----------------------------------------------------------------------------
(* The line.                                                               *)

LEMMA Sequences ==
    ASSUME NEW S, NEW s \in Seq(S), NEW x \in S
    PROVE  /\ Append(s, x) \in Seq(S) /\ Len(Append(s, x)) = Len(s) + 1
           /\ \A n \in 1 .. Len(s) : Append(s, x)[n] = s[n]
           /\ Append(s, x)[Len(s) + 1] = x
           /\ s # <<>> => /\ Tail(s) \in Seq(S) /\ Len(Tail(s)) = Len(s) - 1
                          /\ Head(s) = s[1] /\ Len(s) > 0
                          /\ \A n \in 1 .. Len(s) - 1 : Tail(s)[n] = s[n + 1]
OBVIOUS

LEMMA LineIs ==
    ASSUME OrchestratorTyped
    PROVE  /\ line \in Seq(Caller \cup {Elsewhere}) /\ Len(line) \in Nat
           /\ DOMAIN line = 1 .. Len(line)
BY DEF OrchestratorTyped

LEMMA LineWaitsMoved ==
    ASSUME OrchestratorTyped, LineWaits, NEW c \in Caller, NEW r \in Call, Moved(c, r)
    PROVE  LineWaits' /\ line' \in Seq(Caller \cup {Elsewhere})
<1> DEFINE S == Caller \cup {Elsewhere}
<1>1. c # Elsewhere /\ c \in S
  BY Callers
<1>2. /\ call' = [call EXCEPT ![c] = r] /\ DOMAIN call = Caller
      /\ call'[c] = r
  BY DEF Moved, OrchestratorTyped
<1>3. \A d \in Caller : d # c => call'[d] = call[d]
  BY <1>2
<1>4. \A n \in 1 .. Len(line) : line[n] \in S
  BY LineIs
<1>5. CASE call[c].at \in {"gate", "sent"} /\ r.at = "line" /\ line' = Append(line, c)
  <2>1. /\ line' \in Seq(S) /\ DOMAIN line' = 1 .. Len(line) + 1
        /\ \A n \in 1 .. Len(line) : line'[n] = line[n]
        /\ line'[Len(line) + 1] = c
    BY <1>1, <1>5, LineIs, Sequences
  <2>2. \A n \in 1 .. Len(line) : line[n] # c
    BY <1>1, <1>5, LineIs DEF LineWaits
  <2>3. \A n \in 1 .. Len(line) + 1 : n \in 1 .. Len(line) \/ n = Len(line) + 1
    BY LineIs
  <2>4. \A n \in DOMAIN line' : line'[n] # Elsewhere => call'[line'[n]].at = "line"
    BY <1>2, <1>3, <1>4, <1>5, <2>1, <2>2, <2>3, LineIs DEF LineWaits
  <2>5. ASSUME NEW m \in DOMAIN line', NEW n \in DOMAIN line',
               line'[m] # Elsewhere, line'[m] = line'[n]
        PROVE  m = n
    BY <2>1, <2>2, <2>3, <2>5, LineIs DEF LineWaits
  <2> QED BY <2>1, <2>4, <2>5 DEF LineWaits
<1>6. CASE /\ call[c].at = "line" /\ r.at = "sent"
           /\ line # <<>> /\ c = Head(line) /\ line' = Tail(line)
  <2>1. /\ line' \in Seq(S) /\ DOMAIN line' = 1 .. Len(line) - 1
        /\ \A n \in 1 .. Len(line) - 1 : line'[n] = line[n + 1]
        /\ line[1] = c /\ Len(line) > 0
    BY <1>1, <1>6, LineIs, Sequences
  <2>2. ASSUME NEW n \in 1 .. Len(line) - 1
        PROVE  n + 1 \in 1 .. Len(line) /\ line[n + 1] # c
    <3>1. n + 1 \in 1 .. Len(line) /\ 1 \in 1 .. Len(line) /\ n + 1 # 1
      BY LineIs
    <3> QED BY <1>1, <2>1, <3>1, LineIs DEF LineWaits
  <2>3. \A n \in DOMAIN line' : line'[n] # Elsewhere => call'[line'[n]].at = "line"
    BY <1>3, <1>4, <2>1, <2>2, LineIs DEF LineWaits
  <2>4. ASSUME NEW m \in DOMAIN line', NEW n \in DOMAIN line',
               line'[m] # Elsewhere, line'[m] = line'[n]
        PROVE  m = n
    <3>1. m \in Int /\ n \in Int /\ m + 1 \in DOMAIN line /\ n + 1 \in DOMAIN line
      BY <2>1, <2>2, LineIs
    <3>2. m + 1 = n + 1
      BY <2>1, <2>4, <3>1 DEF LineWaits
    <3> QED BY <3>1, <3>2
  <2> QED BY <2>1, <2>3, <2>4 DEF LineWaits
<1>7. CASE call[c].at \in {"sent", "waiting"} /\ line' = line
  <2>1. \A n \in DOMAIN line : line[n] # c
    BY <1>1, <1>7 DEF LineWaits
  <2> QED BY <1>3, <1>4, <1>7, <2>1, LineIs DEF LineWaits
<1> QED BY <1>5, <1>6, <1>7 DEF Moved

LEMMA LineWaitsAside ==
    ASSUME OrchestratorTyped, LineWaits, Aside
    PROVE  LineWaits' /\ line' \in Seq(Caller \cup {Elsewhere})
<1> DEFINE S == Caller \cup {Elsewhere}
<1>1. CASE line' = Append(line, Elsewhere)
  <2>1. /\ line' \in Seq(S) /\ DOMAIN line' = 1 .. Len(line) + 1
        /\ \A n \in 1 .. Len(line) : line'[n] = line[n]
        /\ line'[Len(line) + 1] = Elsewhere
    BY <1>1, LineIs, Sequences
  <2>2. \A n \in 1 .. Len(line) + 1 : n \in 1 .. Len(line) \/ n = Len(line) + 1
    BY LineIs
  <2> QED BY <2>1, <2>2, LineIs DEF LineWaits, Aside
<1>2. CASE line # <<>> /\ line' = Tail(line)
  <2>1. /\ line' \in Seq(S) /\ DOMAIN line' = 1 .. Len(line) - 1
        /\ \A n \in 1 .. Len(line) - 1 : line'[n] = line[n + 1]
    BY <1>2, LineIs, Sequences
  <2>2. \A n \in DOMAIN line' : n \in Int /\ n + 1 \in DOMAIN line
    BY <2>1, LineIs
  <2>3. ASSUME NEW m \in DOMAIN line', NEW n \in DOMAIN line',
               line'[m] # Elsewhere, line'[m] = line'[n]
        PROVE  m = n
    <3>1. m + 1 = n + 1
      BY <2>1, <2>2, <2>3 DEF LineWaits
    <3> QED BY <2>2, <3>1
  <2>4. \A n \in DOMAIN line' : line'[n] # Elsewhere => call'[line'[n]].at = "line"
    BY <2>1, <2>2 DEF LineWaits, Aside
  <2> QED BY <2>1, <2>3, <2>4 DEF LineWaits
<1>3. CASE line' = line
  BY <1>3, LineIs DEF LineWaits, Aside
<1> QED BY <1>1, <1>2, <1>3 DEF Aside

-----------------------------------------------------------------------------
(* From phase to phase.                                                    *)

LEMMA NobodyWaits ==
    ASSUME OrchestratorTyped, Quiet, LineWaits, \A c \in Made : Done(c)
    PROVE  \A n \in DOMAIN line : line[n] = Elsewhere
<1> SUFFICES ASSUME NEW n \in DOMAIN line, line[n] # Elsewhere PROVE FALSE
  OBVIOUS
<1>1. line[n] \in Caller /\ call[line[n]].at = "line"
  BY LineIs DEF LineWaits
<1>2. CASE line[n] \in Made
  BY <1>1, <1>2 DEF Done
<1>3. CASE line[n] \notin Made
  BY <1>1, <1>3 DEF Quiet, Idle
<1> QED BY <1>2, <1>3

\* The next phase makes the calls C, that join the line in the order of t.
Begun(C, t) ==
    /\ C \subseteq Caller /\ C \cap Drafter = {} /\ C \subseteq Made'
    /\ call' = Calls(C)
    /\ t \in Seq(C) /\ line' = line \o t
    /\ \A m, n \in DOMAIN t : t[m] = t[n] => m = n
    /\ UNCHANGED <<way, window>>

LEMMA BegunIs ==
    ASSUME OrchestratorTyped, Quiet, LineWaits, \A c \in Made : Done(c),
           NEW C, NEW t, Begun(C, t)
    PROVE  /\ LineWaits' /\ Quiet' /\ GotLast' /\ TurnsKept'
           /\ call' \in [Caller -> Call] /\ line' \in Seq(Caller \cup {Elsewhere})
<1> DEFINE S == Caller \cup {Elsewhere}
<1>1. C \subseteq Caller /\ t \in Seq(C) /\ line' = line \o t /\ C \cap Drafter = {}
  BY DEF Begun
<1>2. ASSUME NEW c \in Caller
      PROVE  /\ call'[c] = IF c \in C THEN [Idle EXCEPT !.at = "line"] ELSE Idle
             /\ call'[c] \in Call /\ call'[c].got = "nothing"
             /\ call'[c].at = IF c \in C THEN "line" ELSE "idle"
  <2>1. call'[c] = IF c \in C THEN [Idle EXCEPT !.at = "line"] ELSE Idle
    BY <1>1 DEF Begun, Calls
  <2>2. Idle \in Call /\ [Idle EXCEPT !.at = "line"] \in Call
    BY DEF Idle, Call, Gots
  <2> QED BY <2>1, <2>2 DEF Idle
<1>3. call' \in [Caller -> Call]
  BY <1>2 DEF Begun, Calls
<1>4. Quiet'
  BY <1>2 DEF Begun, Quiet
<1>5. GotLast'
  BY <1>2, Callers DEF GotLast, Done
<1>6. TurnsKept'
  <2> SUFFICES ASSUME NEW i \in Both
               PROVE  Cardinality(Started(i)') <= PersonaConcurrency(window'[i])
    BY DEF TurnsKept
  <2>1. Started(i)' = {}
    BY <1>1, <1>2 DEF Started, Drafter, Caller
  <2>2. PersonaConcurrency(window[i]) \in Nat
    BY ConcurrencyIs DEF OrchestratorTyped
  <2> QED BY <2>1, <2>2, FS_EmptySet DEF Begun
<1>7. t \in Seq(S)
  BY <1>1
<1>8. /\ line' \in Seq(S) /\ Len(line') = Len(line) + Len(t) /\ Len(t) \in Nat
      /\ DOMAIN line' = 1 .. Len(line) + Len(t) /\ DOMAIN t = 1 .. Len(t)
      /\ \A n \in 1 .. Len(line) : line'[n] = line[n]
      /\ \A n \in 1 .. Len(t) : line'[Len(line) + n] = t[n]
  BY <1>1, <1>7, LineIs
<1>9. \A n \in DOMAIN line' : \/ n \in DOMAIN line /\ line'[n] = Elsewhere
                              \/ /\ n - Len(line) \in DOMAIN t
                                 /\ line'[n] = t[n - Len(line)]
  <2>1. \A n \in DOMAIN line' : n \in 1 .. Len(line) \/ n - Len(line) \in 1 .. Len(t)
    BY <1>8, LineIs
  <2>2. ASSUME NEW n \in DOMAIN line', n - Len(line) \in 1 .. Len(t)
        PROVE  line'[n] = t[n - Len(line)]
    <3>1. n = Len(line) + (n - Len(line))
      BY <1>8, LineIs
    <3> QED BY <1>8, <2>2, <3>1
  <2> QED BY <1>8, <2>1, <2>2, NobodyWaits, LineIs
<1>10. LineWaits'
  <2>1. ASSUME NEW n \in DOMAIN line', line'[n] # Elsewhere
        PROVE  call'[line'[n]].at = "line"
    <3>1. line'[n] \in C
      BY <1>1, <1>9, <2>1
    <3> QED BY <1>1, <1>2, <3>1
  <2>2. ASSUME NEW m \in DOMAIN line', NEW n \in DOMAIN line',
               line'[m] # Elsewhere, line'[m] = line'[n]
        PROVE  m = n
    <3>1. m - Len(line) = n - Len(line)
      BY <1>9, <2>2 DEF Begun
    <3> QED BY <1>8, <3>1, LineIs
  <2> QED BY <2>1, <2>2 DEF LineWaits
<1> QED BY <1>3, <1>4, <1>5, <1>6, <1>8, <1>10

LEMMA ConcludesIs ==
    ASSUME OrchestratorTyped, NEW v, Conclude(v), UNCHANGED <<way, window>>
    PROVE  \E C, t : Begun(C, t)
<1>1. line = line \o <<>>
  BY LineIs
<1>2. Begun({}, <<>>)
  BY <1>1 DEF Conclude, Begun
<1> QED BY <1>2

LEMMA OneBegins ==
    ASSUME OrchestratorTyped, NEW c \in Caller, c \notin Drafter, c \in Made',
           call' = Calls({c}), line' = line \o <<c>>, UNCHANGED <<way, window>>
    PROVE  \E C, t : Begun(C, t)
<1>1. Begun({c}, <<c>>)
  BY DEF Begun
<1> QED BY <1>1

LEMMA BothBegin ==
    ASSUME OrchestratorTyped, Writer \subseteq Made', call' = Calls(Writer),
           line' = line \o << <<Barry, 0>>, <<OtherBarry, 0>> >>, UNCHANGED <<way, window>>
    PROVE  \E C, t : Begun(C, t)
<1> DEFINE t == << <<Barry, 0>>, <<OtherBarry, 0>> >>
<1>1. t \in Seq(Writer)
  BY DEF Writer, Both
<1>2. \A m, n \in DOMAIN t : t[m] = t[n] => m = n
  BY DEF Barry, OtherBarry
<1>3. Begun(Writer, t)
  BY <1>1, <1>2, Callers DEF Begun
<1> QED BY <1>3

LEMMA RoundBegins ==
    ASSUME OrchestratorTyped, NEW round, NEW I \in SUBSET Both, Barry \in I,
           Begin(round, I), {<<i, 0>> : i \in I} \subseteq Made', UNCHANGED <<way, window>>
    PROVE  \E C, t : Begun(C, t)
<1>1. CASE I = Both
  <2>1. {<<i, 0>> : i \in I} = Writer
    BY <1>1 DEF Writer
  <2> QED BY <1>1, <2>1, BothBegin DEF Begin, InOrder
<1>2. CASE I # Both
  <2>1. I = {Barry}
    BY <1>2 DEF Both
  <2>2. {<<i, 0>> : i \in I} = {<<Barry, 0>>}
    BY <2>1
  <2>3. <<Barry, 0>> \in Caller /\ <<Barry, 0>> \notin Drafter
    BY Callers DEF Both
  <2> QED BY <1>2, <2>2, <2>3, OneBegins DEF Begin, InOrder
<1> QED BY <1>1, <1>2

\* Where a phase leads.
PhaseEnds ==
    /\ \A c \in Made : Done(c)
    /\ \E C, t : Begun(C, t)
    /\ UNCHANGED <<way, window>>
    /\ phase' \in Phase
    /\ drafts' \in [Both -> {"none", "error", "usable", "unusable"}]
    /\ review' \in [Both -> Opinion]
    /\ Reached'
    /\ VerdictIsEarned'

LEMMA FailedIsEarned ==
    ASSUME verdict' = Failed PROVE VerdictIsEarned'
BY DEF VerdictIsEarned, Failed, Verdict, CheckConclusion, CheckOutcome, NoReview

LEMMA DraftsInEnds ==
    ASSUME OrchestratorInv, DraftsIn
    PROVE  PhaseEnds
<1> DEFINE I == {i \in Reviewers : drafts'[i] # "error"}
<1>1. OrchestratorTyped /\ Reached
  BY DEF OrchestratorInv
<1>2. /\ phase = "drafts" /\ UNCHANGED <<way, window, others, review>>
      /\ drafts' = [i \in Both |-> IF i \in Reviewers THEN DraftsOf(i) ELSE "none"]
      /\ \A i \in Reviewers, p \in Persona : Done(<<i, p>>)
  BY DEF DraftsIn
<1>3. \A c \in Made : Done(c)
  BY <1>2 DEF Made
<1>4. drafts' \in [Both -> {"none", "error", "usable", "unusable"}]
  BY <1>2 DEF DraftsOf
<1>5. Barry \in Reviewers /\ Reviewers \subseteq Both /\ review' \in [Both -> Opinion]
  BY <1>1, <1>2 DEF Reviewers, Both, OrchestratorTyped
<1>6. CASE drafts'[Barry] = "error"
  <2>1. Conclude(Failed)
    BY <1>6 DEF DraftsIn
  <2>2. phase' = "done" /\ verdict' = Failed
    BY <2>1 DEF Conclude
  <2>3. Reached'
    BY <2>2 DEF Reached
  <2> QED BY <1>1, <1>2, <1>3, <1>4, <1>5, <2>1, <2>2, <2>3, ConcludesIs, FailedIsEarned
          DEF PhaseEnds, Phase
<1>7. CASE drafts'[Barry] # "error"
  <2>1. Begin("first", I)
    BY <1>7 DEF DraftsIn
  <2>2. phase' = "first"
    BY <2>1 DEF Begin
  <2>3. Writers' = I
    BY <1>2 DEF Writers, Reviewers
  <2>4. Made' = {<<i, 0>> : i \in I}
    BY <2>2, <2>3 DEF Made
  <2>5. Barry \in I /\ I \in SUBSET Both
    BY <1>5, <1>7
  <2>6. Reached' /\ VerdictIsEarned'
    BY <2>2, <2>3, <2>5 DEF Reached, VerdictIsEarned
  <2>7. \E C, t : Begun(C, t)
    <3> HIDE DEF I
    <3> QED BY <1>1, <1>2, <2>1, <2>4, <2>5, RoundBegins
  <2> QED BY <1>2, <1>3, <1>4, <1>5, <2>2, <2>6, <2>7 DEF PhaseEnds, Phase
<1> QED BY <1>6, <1>7

LEMMA FirstsInEnds ==
    ASSUME OrchestratorInv, FirstsIn
    PROVE  PhaseEnds
<1>1. OrchestratorTyped /\ Reached /\ Quiet /\ GotLast
  BY DEF OrchestratorInv
<1>2. /\ phase = "first" /\ UNCHANGED <<way, window, others, drafts>>
      /\ review' = [i \in Both |->
                        IF i \in Writers /\ Written(i) THEN Wrote(i, 1) ELSE NoReview]
      /\ \A i \in Writers : Done(<<i, 0>>)
  BY DEF FirstsIn
<1>3. \A c \in Made : Done(c)
  BY <1>2 DEF Made
<1>4. /\ drafts' \in [Both -> {"none", "error", "usable", "unusable"}]
      /\ Barry \in Both /\ OtherBarry \in Both /\ Barry # OtherBarry
  BY <1>1, <1>2 DEF OrchestratorTyped, Both, Barry, OtherBarry
<1>5. \A i \in Both : Written(i) => Wrote(i, 1) \in Opinion
  BY DEF Written, Wrote, Opinion
<1>6. review' \in [Both -> Opinion]
  <2>1. NoReview \in Opinion
    BY <1>4 DEF NoReview, Opinion, Outcome
  <2> QED BY <1>2, <1>5, <2>1
<1>7. Barry \in Writers /\ Got(Barry) \in Ends
  BY <1>1, <1>2, <1>4, Callers DEF Reached, GotLast, Got
<1>8. Got(Barry) \in {"truncated", "unparsed", "error"} \/ Written(Barry)
  BY <1>7 DEF Ends, Written
<1>9. Written(OtherBarry) => OtherBarry \in Writers
  <2> SUFFICES ASSUME OtherBarry \notin Writers PROVE ~Written(OtherBarry)
    OBVIOUS
  <2>1. <<OtherBarry, 0>> \notin Made /\ <<OtherBarry, 0>> \in Caller
    BY <1>2, <1>4, Callers DEF Made
  <2>2. Got(OtherBarry) = "nothing"
    BY <1>1, <2>1 DEF Quiet, Got, Idle
  <2> QED BY <2>2 DEF Written, Outcome
<1>10. CASE Got(Barry) \in {"truncated", "unparsed"}
  <2>1. Conclude(BarryFromDrafts)
    BY <1>10 DEF FirstsIn, Written, Outcome
  <2>2. phase' = "done" /\ verdict' = BarryFromDrafts
    BY <2>1 DEF Conclude
  <2>3. Reached'
    BY <2>2 DEF Reached
  <2>4. VerdictIsEarned'
    <3>1. CASE BarryFromDrafts = Failed
      BY <2>2, <3>1, FailedIsEarned
    <3>2. CASE BarryFromDrafts = Alone(NoReview, "synthesis")
      BY <2>2, <3>2
         DEF VerdictIsEarned, Alone, Verdict, CheckConclusion, CheckOutcome, NoReview
    <3> QED BY <3>1, <3>2 DEF BarryFromDrafts, FromDrafts
  <2> QED BY <1>1, <1>2, <1>3, <1>4, <1>6, <2>1, <2>2, <2>3, <2>4, ConcludesIs
          DEF PhaseEnds, Phase
<1>11. CASE Got(Barry) = "error"
  <2>1. Conclude(Failed)
    BY <1>11 DEF FirstsIn, Written, Outcome
  <2>2. phase' = "done" /\ verdict' = Failed
    BY <2>1 DEF Conclude
  <2>3. Reached'
    BY <2>2 DEF Reached
  <2> QED BY <1>1, <1>2, <1>3, <1>4, <1>6, <2>1, <2>2, <2>3, ConcludesIs, FailedIsEarned
          DEF PhaseEnds, Phase
<1>12. CASE Written(Barry) /\ ~Written(OtherBarry)
  <2> DEFINE why == IF way = "run" THEN "other" ELSE "asked"
             b == review'[Barry]
  <2>1. Conclude(Alone(b, why))
    BY <1>12 DEF FirstsIn, Written, Outcome
  <2>2. phase' = "done" /\ verdict' = Alone(b, why)
    BY <2>1 DEF Conclude
  <2>3. Reached'
    BY <2>2 DEF Reached
  <2>4. /\ b.by = Barry /\ b.round = 1 /\ b.outcome \in Outcome
        /\ review'[OtherBarry].round = 0
    BY <1>2, <1>4, <1>7, <1>12 DEF Wrote, Written, NoReview
  <2> HIDE DEF b
  <2>5. VerdictIsEarned'
    BY <2>2, <2>4
       DEF VerdictIsEarned, Alone, Verdict, CheckConclusion, CheckOutcome, Outcome
  <2> QED BY <1>1, <1>2, <1>3, <1>4, <1>6, <2>1, <2>2, <2>3, <2>5, ConcludesIs
          DEF PhaseEnds, Phase
<1>13. CASE Written(Barry) /\ Written(OtherBarry)
  <2>1. Begin("peer", Both)
    BY <1>13 DEF FirstsIn, Written, Outcome
  <2>2. phase' = "peer"
    BY <2>1 DEF Begin
  <2>3. \A i \in Both : review'[i].by = i /\ review'[i].round = 1
    BY <1>2, <1>7, <1>9, <1>13 DEF Both, Wrote
  <2>4. Reached' /\ VerdictIsEarned'
    BY <2>2, <2>3 DEF Reached, VerdictIsEarned
  <2>5. {<<i, 0>> : i \in Both} \subseteq Made'
    BY <2>2 DEF Made, Writer
  <2>6. \E C, t : Begun(C, t)
    BY <1>1, <1>2, <1>4, <2>1, <2>5, RoundBegins
  <2> QED BY <1>2, <1>3, <1>4, <1>6, <2>2, <2>4, <2>6 DEF PhaseEnds, Phase
<1> QED BY <1>8, <1>10, <1>11, <1>12, <1>13

LEMMA PeersInEnds ==
    ASSUME OrchestratorInv, PeersIn
    PROVE  PhaseEnds
<1>1. OrchestratorTyped /\ Reached
  BY DEF OrchestratorInv
<1>2. /\ phase = "peer" /\ UNCHANGED <<way, window, others, drafts>>
      /\ review' = [i \in Both |-> Settle(i)]
      /\ \A i \in Both : Done(<<i, 0>>)
      /\ phase' = "judge" /\ call' = Calls({Judge}) /\ line' = Append(line, Judge)
  BY DEF PeersIn, BeginJudge
<1>3. \A c \in Made : Done(c)
  BY <1>2 DEF Made, Writer
<1>4. ASSUME NEW i \in Both
      PROVE  Settle(i) \in Opinion /\ Settle(i).by = i /\ Settle(i).round > 0
  <2>1. CASE Written(i)
    BY <2>1 DEF Settle, Wrote, Opinion, Written
  <2>2. CASE ~Written(i)
    BY <1>1, <1>2, <2>2 DEF Settle, OrchestratorTyped, Reached
  <2> QED BY <2>1, <2>2
<1>5. line' = line \o <<Judge>>
  BY <1>2, LineIs, <1>1
<1>6. Made' = {Judge}
  BY <1>2 DEF Made
<1>7. \E C, t : Begun(C, t)
  BY <1>1, <1>2, <1>5, <1>6, Callers, OneBegins
<1>8. Reached' /\ VerdictIsEarned'
  BY <1>2, <1>4 DEF Reached, VerdictIsEarned
<1> QED BY <1>1, <1>2, <1>3, <1>4, <1>7, <1>8 DEF PhaseEnds, Phase, OrchestratorTyped

LEMMA JudgeInEnds ==
    ASSUME OrchestratorInv, JudgeIn
    PROVE  PhaseEnds
<1> DEFINE got == call[Judge].got
           v == IF got \in {"agree", "disagree"} THEN VerdictFrom(got = "agree")
                ELSE Alone(review[Barry], "judge")
<1>1. OrchestratorTyped /\ Reached
  BY DEF OrchestratorInv
<1>2. /\ phase = "judge" /\ UNCHANGED <<way, window, others, drafts, review>>
      /\ Done(Judge) /\ Conclude(v)
  BY DEF JudgeIn
<1>3. \A c \in Made : Done(c)
  BY <1>2 DEF Made
<1>4. phase' = "done" /\ verdict' = v
  BY <1>2 DEF Conclude
<1>5. Reached'
  BY <1>4 DEF Reached
<1>6. /\ \A i \in Both : review'[i].by = i /\ review'[i].round > 0
      /\ Barry \in Both /\ OtherBarry \in Both /\ review' = review
      /\ review[Barry].outcome \in Outcome
  BY <1>1, <1>2 DEF Reached, Both, OrchestratorTyped, Opinion
<1> DEFINE b == review[Barry]
           o == review[OtherBarry]
<1>7. /\ b.by = Barry /\ b.round > 0 /\ b.outcome \in Outcome
      /\ o.by = OtherBarry /\ review'[OtherBarry] = o
  BY <1>6
<1> HIDE DEF b
<1>8. ASSUME verdict' \in {Verdict("agree", b, NoReview, "judged"), Alone(b, "judge")}
      PROVE  VerdictIsEarned'
  BY <1>6, <1>7, <1>8
     DEF VerdictIsEarned, Alone, Verdict, CheckConclusion, CheckOutcome, Outcome
<1>9. ASSUME verdict' = Verdict("disagree", b, o, "judged")
      PROVE  VerdictIsEarned'
  <2> HIDE DEF o
  <2>1. CheckConclusion(CheckOutcome(verdict)') = "neutral"
    BY <1>9 DEF Verdict, CheckConclusion, CheckOutcome
  <2> QED BY <1>6, <1>7, <1>9, <2>1 DEF VerdictIsEarned, Verdict
<1>10. VerdictIsEarned'
  <2>1. v \in {Verdict("agree", b, NoReview, "judged"), Alone(b, "judge"),
               Verdict("disagree", b, o, "judged")}
    BY DEF VerdictFrom, b
  <2> HIDE DEF v, o
  <2> QED BY <1>4, <1>8, <1>9, <2>1
<1>11. \E C, t : Begun(C, t)
  BY <1>1, <1>2, ConcludesIs
<1> QED BY <1>1, <1>2, <1>3, <1>4, <1>5, <1>10, <1>11 DEF PhaseEnds, Phase, OrchestratorTyped

-----------------------------------------------------------------------------
(* Within a phase.                                                         *)

LEMMA StartedIs ==
    ASSUME NEW i \in Both
    PROVE  IsFiniteSet(Started(i)) /\ Cardinality(Started(i)) \in Nat
<1>1. IsFiniteSet(Persona)
  BY PromptIs, FS_Interval
<1>2. Started(i) \subseteq Persona
  BY DEF Started
<1> QED BY <1>1, <1>2, FS_Subset, FS_CardinalityType

\* The one that gets a turn had none, and there was one to have.
LEMMA TurnsKeptMoved ==
    ASSUME OrchestratorTyped, TurnsKept, NEW c \in Caller, NEW r \in Call, Moved(c, r)
    PROVE  TurnsKept'
<1> SUFFICES ASSUME NEW i \in Both
             PROVE  Cardinality(Started(i)') <= PersonaConcurrency(window'[i])
  BY DEF TurnsKept
<1>1. /\ window' = window /\ PersonaConcurrency(window[i]) \in Nat
      /\ Cardinality(Started(i)) <= PersonaConcurrency(window[i])
  BY ConcurrencyIs DEF Moved, OrchestratorTyped, TurnsKept
<1>2. \A p \in Persona : <<i, p>> \in Caller
  BY DEF Caller, Drafter
<1>3. \A d \in Caller : call'[d] = IF d = c THEN r ELSE call[d]
  BY DEF Moved, OrchestratorTyped
<1>4. CASE \E p \in Persona : c = <<i, p>> /\ call[c].at = "gate"
  <2>1. PICK p \in Persona : c = <<i, p>> /\ call[c].at = "gate"
    BY <1>4
  <2>2. Cardinality(Started(i)) < PersonaConcurrency(window[i])
    BY <2>1 DEF Moved, HasTurn
  <2>3. Started(i)' \subseteq Started(i) \cup {p}
    BY <1>2, <1>3, <2>1 DEF Started
  <2>4. p \notin Started(i)
    BY <2>1 DEF Started
  <2>5. /\ IsFiniteSet(Started(i) \cup {p})
        /\ Cardinality(Started(i) \cup {p}) = Cardinality(Started(i)) + 1
    BY <2>4, StartedIs, FS_AddElement
  <2>6. /\ Cardinality(Started(i)') \in Nat
        /\ Cardinality(Started(i)') <= Cardinality(Started(i)) + 1
    BY <2>3, <2>5, FS_Subset, FS_CardinalityType
  <2> QED BY <1>1, <2>2, <2>6, StartedIs
<1>5. CASE ~ \E p \in Persona : c = <<i, p>> /\ call[c].at = "gate"
  <2>1. Started(i)' \subseteq Started(i)
    BY <1>2, <1>3, <1>5 DEF Started, Moved
  <2>2. /\ Cardinality(Started(i)') \in Nat
        /\ Cardinality(Started(i)') <= Cardinality(Started(i))
    BY <2>1, StartedIs, FS_Subset, FS_CardinalityType
  <2> QED BY <1>1, <2>2, StartedIs
<1> QED BY <1>4, <1>5

LEMMA SamePhase ==
    ASSUME UNCHANGED <<way, window, phase, drafts, review, verdict>>
    PROVE  /\ Made' = Made
           /\ Reached => Reached'
           /\ VerdictIsEarned => VerdictIsEarned'
<1>1. Writers' = Writers /\ Reviewers' = Reviewers
  BY DEF Writers, Reviewers
<1>2. Made' = Made
  BY <1>1 DEF Made
<1>3. Reached => Reached'
  BY <1>1 DEF Reached
<1>4. VerdictIsEarned => VerdictIsEarned'
  BY DEF VerdictIsEarned
<1> QED BY <1>2, <1>3, <1>4

LEMMA MovedKeeps ==
    ASSUME OrchestratorInv, NEW c \in Caller, NEW r \in Call, Moved(c, r)
    PROVE  OrchestratorInv'
<1>1. /\ OrchestratorTyped /\ Quiet /\ LineWaits /\ GotLast /\ TurnsKept /\ Reached
      /\ VerdictIsEarned
  BY DEF OrchestratorInv
<1>2. /\ call' = [call EXCEPT ![c] = r]
      /\ UNCHANGED <<way, window, phase, drafts, review, verdict>>
  BY DEF Moved
<1>3. \A d \in Caller : call'[d] = IF d = c THEN r ELSE call[d]
  BY <1>1, <1>2 DEF OrchestratorTyped
<1>4. OrchestratorTyped'
  BY <1>1, <1>2, LineWaitsMoved DEF OrchestratorTyped
<1>5. Quiet'
  <2>1. call[c].at # "idle"
    BY DEF Moved
  <2>2. c \in Made
    BY <1>1, <2>1 DEF Quiet, Idle
  <2> QED BY <1>1, <1>2, <1>3, <2>2, SamePhase DEF Quiet
<1>6. GotLast'
  BY <1>1, <1>3, Callers DEF GotLast, Done, Moved
<1> QED BY <1>1, <1>2, <1>4, <1>5, <1>6, LineWaitsMoved, TurnsKeptMoved, SamePhase
        DEF OrchestratorInv

LEMMA AsideKeeps ==
    ASSUME OrchestratorInv, Aside
    PROVE  OrchestratorInv'
<1>1. /\ OrchestratorTyped /\ Quiet /\ LineWaits /\ GotLast /\ TurnsKept /\ Reached
      /\ VerdictIsEarned
  BY DEF OrchestratorInv
<1>2. UNCHANGED <<way, window, phase, call, drafts, review, verdict>>
  BY DEF Aside
<1>3. OrchestratorTyped'
  BY <1>1, <1>2, LineWaitsAside DEF OrchestratorTyped
<1>4. Quiet' /\ GotLast'
  BY <1>1, <1>2, SamePhase DEF Quiet, GotLast, Done
<1>5. TurnsKept'
  BY <1>1, <1>2 DEF TurnsKept, Started
<1> QED BY <1>1, <1>2, <1>3, <1>4, <1>5, LineWaitsAside, SamePhase DEF OrchestratorInv

LEMMA PhaseKeeps ==
    ASSUME OrchestratorInv, PhaseStep
    PROVE  OrchestratorInv'
<1>1. OrchestratorTyped /\ Quiet /\ LineWaits
  BY DEF OrchestratorInv
<1>2. PhaseEnds
  BY DraftsInEnds, FirstsInEnds, PeersInEnds, JudgeInEnds DEF PhaseStep
<1>3. /\ LineWaits' /\ Quiet' /\ GotLast' /\ TurnsKept'
      /\ call' \in [Caller -> Call] /\ line' \in Seq(Caller \cup {Elsewhere})
  <2>1. PICK C, t : Begun(C, t)
    BY <1>2 DEF PhaseEnds
  <2> QED BY <1>1, <1>2, <2>1, BegunIs DEF PhaseEnds
<1>4. OrchestratorTyped'
  BY <1>1, <1>2, <1>3 DEF PhaseEnds, OrchestratorTyped
<1> QED BY <1>2, <1>3, <1>4 DEF PhaseEnds, OrchestratorInv

LEMMA OrchestratorBegins ==
    ASSUME OrchestratorInit
    PROVE  OrchestratorInv
<1>1. /\ way \in {"run", "run_barry_only", "judge_reviews"}
      /\ window \in [Both -> Contexts]
      /\ drafts = [i \in Both |-> "none"]
  BY DEF OrchestratorInit
<1> DEFINE Begins(C) ==
        /\ phase \in {"drafts", "judge"} /\ C = Made /\ call = Calls(C)
        /\ line \in {<<>>, <<Judge>>} /\ (line = <<Judge>> => C = {Judge})
        /\ review \in [Both -> Opinion] /\ Reached
<1>2. \E C \in SUBSET Caller : Begins(C)
  <2>1. CASE way = "judge_reviews"
    <3>1. /\ phase = "judge" /\ call = Calls({Judge}) /\ line = <<Judge>>
          /\ \E o \in [Both -> Outcome] :
                review = [i \in Both |-> [by |-> i, round |-> 1, outcome |-> o[i]]]
      BY <2>1 DEF OrchestratorInit
    <3>2. /\ review \in [Both -> Opinion]
          /\ \A i \in Both : review[i].by = i /\ review[i].round = 1
      BY <3>1 DEF Opinion
    <3>3. Made = {Judge} /\ Reached
      BY <3>1, <3>2 DEF Made, Reached
    <3> QED BY <3>1, <3>2, <3>3, Callers
  <2>2. CASE way # "judge_reviews"
    <3>1. /\ phase = "drafts" /\ call = Calls(Reviewers \X Persona) /\ line = <<>>
          /\ review = [i \in Both |-> NoReview]
      BY <2>2 DEF OrchestratorInit
    <3>2. review \in [Both -> Opinion]
      BY <3>1 DEF NoReview, Opinion, Outcome, Both
    <3>3. Reviewers \X Persona \subseteq Caller
      BY DEF Reviewers, Caller, Drafter, Both
    <3>4. Made = Reviewers \X Persona /\ Reached
      BY <3>1 DEF Made, Reached
    <3> QED BY <3>1, <3>2, <3>3, <3>4
  <2> QED BY <2>1, <2>2
<1>3. PICK C \in SUBSET Caller : Begins(C)
  BY <1>2
<1>4. ASSUME NEW c \in Caller
      PROVE  /\ call[c] \in Call /\ call[c].got = "nothing"
             /\ c \notin C => call[c] = Idle
             /\ c \in C /\ c \notin Drafter => call[c].at = "line"
             /\ call[c].at \in {"idle", "gate", "line"}
             /\ c \in Drafter => call[c].at \in {"idle", "gate"}
  <2>1. call[c] = IF c \notin C THEN Idle
                  ELSE [Idle EXCEPT !.at = IF c \in Drafter THEN "gate" ELSE "line"]
    BY <1>3 DEF Calls
  <2> QED BY <2>1 DEF Idle, Call, Gots
<1>5. call \in [Caller -> Call]
  BY <1>3, <1>4 DEF Calls
<1>6. line \in Seq(Caller \cup {Elsewhere})
  <2> DEFINE S == Caller \cup {Elsewhere}
  <2>1. Judge \in S /\ line \in {<<>>, <<Judge>>}
    BY <1>3, Callers
  <2> HIDE DEF S
  <2>2. \A x \in S : <<>> \in Seq(S) /\ <<x>> \in Seq(S)
    OBVIOUS
  <2>3. line \in Seq(S)
    BY <2>1, <2>2
  <2> QED BY <2>3 DEF S
<1>7. OrchestratorTyped
  BY <1>1, <1>3, <1>5, <1>6 DEF OrchestratorTyped, Phase
<1>8. Quiet /\ GotLast
  BY <1>3, <1>4, Callers DEF Quiet, GotLast, Done
<1>9. LineWaits
  BY <1>3, <1>4, Callers DEF LineWaits
<1>10. TurnsKept
  <2> SUFFICES ASSUME NEW i \in Both
               PROVE  Cardinality(Started(i)) <= PersonaConcurrency(window[i])
    BY DEF TurnsKept
  <2>1. Started(i) = {}
    BY <1>4, Callers DEF Started, Drafter
  <2>2. PersonaConcurrency(window[i]) \in Nat
    BY <1>1, ConcurrencyIs
  <2> QED BY <2>1, <2>2, FS_EmptySet
<1>11. VerdictIsEarned
  BY <1>3 DEF VerdictIsEarned
<1> QED BY <1>3, <1>7, <1>8, <1>9, <1>10, <1>11 DEF OrchestratorInv

-----------------------------------------------------------------------------
(* Theorems.                                                               *)

LEMMA TurnsKeptFit == OrchestratorTyped /\ TurnsKept => FitsTogether
<1> SUFFICES ASSUME OrchestratorTyped, TurnsKept, NEW i \in Both,
                    window[i] # Hosted, ~(Cardinality(InFlight(i)) <= 1)
             PROVE  Total(InFlight(i)) <= window[i]
  BY DEF FitsTogether, Total
<1> DEFINE F == InFlight(i)
           k == Cardinality(F)
<1>1. /\ F \subseteq Started(i) /\ F \subseteq Persona /\ IsFiniteSet(F)
      /\ k \in Nat /\ k <= Cardinality(Started(i))
  <2>1. F \subseteq Started(i) /\ F \subseteq Persona
    BY DEF InFlight, Started
  <2> QED BY <2>1, StartedIs, FS_Subset, FS_CardinalityType
<1>2. /\ window[i] \in Contexts
      /\ Cardinality(Started(i)) <= PersonaConcurrency(window[i])
      /\ PersonaConcurrency(window[i]) \in Nat /\ window[i] \in Nat
  BY ConcurrencyIs, OrchestratorAssumption DEF OrchestratorTyped, TurnsKept
<1>3. k > 1 /\ k <= PersonaConcurrency(window[i])
  BY <1>1, <1>2, StartedIs
<1> HIDE DEF k
<1>4. k * Cost(Largest) <= window[i]
  BY <1>1, <1>2, <1>3, TurnsFit
<1> HIDE DEF F
<1>5. Total(F) \in Nat /\ Total(F) <= k * Cost(Largest)
  BY <1>1, TotalIsBounded DEF k
<1>6. k * Cost(Largest) \in Nat
  BY <1>1, CostIs
<1>7. Total(F) <= window[i]
  BY <1>2, <1>4, <1>5, <1>6
<1> QED BY <1>7 DEF F

(* The calls of a review are those of its phase, each where the line and   *)
(* the turns have it.                                                      *)
THEOREM OrchestratorInvariant == OrchestratorSpec => []OrchestratorInv
<1>1. OrchestratorInv /\ [OrchestratorNext]_orchestratorVars => OrchestratorInv'
  <2> SUFFICES ASSUME OrchestratorInv, [OrchestratorNext]_orchestratorVars
               PROVE  OrchestratorInv'
    OBVIOUS
  <2>1. OrchestratorTyped /\ GotLast /\ LineWaits
    BY DEF OrchestratorInv
  <2> QED BY <2>1, StepIs, MovedKeeps, AsideKeeps, PhaseKeeps
<1> QED BY <1>1, OrchestratorBegins, PTL DEF OrchestratorSpec

(* The persona requests that one review has in flight for one identity fit *)
(* its endpoint's window together, whatever the prompts, the windows and   *)
(* the permits are, and whatever the endpoint answers (orchestrator.rs,    *)
(* persona_concurrency).  What shares the endpoint is not counted, as in   *)
(* the code: see FitsTogether.                                             *)
THEOREM DraftsFitTogether == OrchestratorSpec => []FitsTogether
<1>1. OrchestratorInv => FitsTogether
  BY TurnsKeptFit DEF OrchestratorInv
<1> QED BY <1>1, OrchestratorInvariant, PTL

(* No verdict says more than the rounds reached, and the reason posted     *)
(* with it is true (orchestrator.rs, run).                                 *)
THEOREM VerdictsAreEarned == OrchestratorSpec => []VerdictIsEarned
<1>1. OrchestratorInv => VerdictIsEarned
  BY DEF OrchestratorInv
<1> QED BY <1>1, OrchestratorInvariant, PTL
=============================================================================
