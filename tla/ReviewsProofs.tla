--------------------------- MODULE ReviewsProofs ---------------------------
(* Proofs about Reviews, for every pool of workers and any number of       *)
(* pushes, closes and registrations.                                       *)
EXTENDS Reviews, SequenceTheorems, TLAPS

-----------------------------------------------------------------------------
(* Types, in the groups the actions leave alone.                           *)

GithubOK ==
    /\ heads \in Seq(Sha) /\ Len(heads) \in 1 .. MaxPushes + 1
    /\ replica \in 1 .. Len(heads)
    /\ open \in BOOLEAN
    /\ undelivered \subseteq 2 .. Len(heads)
    /\ closeJobs \in 0 .. MaxCloses

RegistryOK ==
    /\ entry = NoEntry \/ entry \in [generation : 1 .. nextGeneration - 1, sha : Sha]
    /\ nextGeneration \in 1 .. MaxGenerations + 1
    /\ fired \subseteq 1 .. nextGeneration - 1
    /\ recheck \subseteq 1 .. nextGeneration - 1

JobsOK ==
    /\ at \in [Worker -> {"idle", "setup", "reviewing"}]
    /\ sha \in [Worker -> Sha]
    /\ gen \in [Worker -> 0 .. nextGeneration - 1]
    /\ check \in [Worker -> [Checker -> CheckerStates]]
    /\ attempt \in [Worker -> [Checker -> Stages]]
    /\ late \in [Worker -> [Checker -> Nat]]
    /\ condemned \in [Worker -> BOOLEAN]

WatcherOK ==
    /\ watch \in [Worker -> {"off", "waiting", "looking", "asleep",
                             "looking_again", "asleep_again"}]
    /\ floor \in [Worker -> 1 .. Len(heads)]
    /\ told \in [Worker -> 0 .. Len(heads)]
    /\ missed \in [Worker -> BOOLEAN]

LEMMA TypeParts == TypeOK <=> GithubOK /\ RegistryOK /\ JobsOK /\ WatcherOK
BY DEF TypeOK, GithubOK, RegistryOK, JobsOK, WatcherOK

(* A watcher is only on while its review is under way, and a review under  *)
(* way has a generation.                                                   *)
ReviewsShaped ==
    \A w \in Worker :
        /\ watch[w] # "off" => Reviewing(w)
        /\ Reviewing(w) => gen[w] # 0

Typed == TypeOK /\ ReviewsShaped

LEMMA ConstantTypes ==
    Sha # {} /\ MaxPushes \in Nat /\ MaxCloses \in Nat /\ MaxGenerations \in Nat
BY ReviewsAssumption

LEMMA HeadIsSha ==
    ASSUME GithubOK PROVE Seen \in Sha /\ Current \in Sha /\ Len(heads) \in Nat
BY ConstantTypes DEF GithubOK, Seen, Current

LEMMA Assembled ==
    ASSUME GithubOK', RegistryOK', JobsOK', WatcherOK', ReviewsShaped'
    PROVE  Typed'
BY Zenon DEF Typed, TypeOK, GithubOK, RegistryOK, JobsOK, WatcherOK

LEMMA RangesGrow ==
    ASSUME NEW n \in Nat, n >= 1
    PROVE  /\ 1 .. n \subseteq 1 .. n + 1
           /\ 0 .. n \subseteq 0 .. n + 1
           /\ \A S : S \subseteq 2 .. n => S \cup {n + 1} \subseteq 2 .. n + 1
OBVIOUS

LEMMA PushTyped == ASSUME Typed, Push PROVE Typed'
<1>0. GithubOK /\ RegistryOK /\ JobsOK /\ WatcherOK
  BY TypeParts DEF Typed
<1>1. PICK s \in Sha : heads' = Append(heads, s)
  BY DEF Push
<1>2. /\ heads' \in Seq(Sha) /\ Len(heads') = Len(heads) + 1
      /\ Len(heads) \in 1 .. MaxPushes + 1
      /\ Len(heads) <= MaxPushes
  BY <1>0, <1>1 DEF GithubOK, Push
<1>7. Len(heads) \in Nat /\ Len(heads) >= 1
  BY <1>2, ConstantTypes
<1>3. GithubOK'
  <2>1. Len(heads') \in 1 .. MaxPushes + 1
    BY <1>2, ConstantTypes
  <2>2. replica' \in 1 .. Len(heads')
    <3>1. replica' = replica \/ replica' = Len(heads) + 1
      BY DEF Push
    <3>2. replica \in 1 .. Len(heads)
      BY <1>0 DEF GithubOK
    <3> QED
      BY <1>2, <3>1, <3>2, ConstantTypes
  <2>3. undelivered' \subseteq 2 .. Len(heads')
    <3>1. undelivered' = undelivered \cup {Len(heads) + 1}
      BY DEF Push
    <3>2. undelivered \subseteq 2 .. Len(heads)
      BY <1>0 DEF GithubOK
    <3> QED
      BY <1>2, <1>7, <3>1, <3>2, RangesGrow
  <2> QED
    BY <1>0, <1>2, <2>1, <2>2, <2>3, Zenon DEF GithubOK, Push
<1>4. RegistryOK' /\ JobsOK'
  BY <1>0 DEF RegistryOK, JobsOK, registry, posting, Push
<1>5. WatcherOK'
  <2>2. UNCHANGED <<watch, floor, told, missed>>
    BY DEF watcher, Push
  <2>3. /\ floor' \in [Worker -> 1 .. Len(heads')]
        /\ told' \in [Worker -> 0 .. Len(heads')]
    <3>1. /\ floor \in [Worker -> 1 .. Len(heads)]
          /\ told \in [Worker -> 0 .. Len(heads)]
      BY <1>0 DEF WatcherOK
    <3>2. /\ 1 .. Len(heads) \subseteq 1 .. Len(heads')
          /\ 0 .. Len(heads) \subseteq 0 .. Len(heads')
      BY <1>2, <1>7, RangesGrow
    <3> QED
      BY <2>2, <3>1, <3>2, Zenon
  <2> QED
    BY <1>0, <2>2, <2>3 DEF WatcherOK
<1>6. ReviewsShaped'
  BY DEF ReviewsShaped, watcher, Reviewing, Push, Typed
<1> QED
  BY <1>3, <1>4, <1>5, <1>6, Assembled

(* The other steps of GitHub, and of push_arrived. *)
LEMMA GithubTyped ==
    ASSUME Typed, CatchUp \/ Close \/ Reopen
    PROVE  Typed'
<1>0. GithubOK /\ RegistryOK /\ JobsOK /\ WatcherOK /\ ReviewsShaped
  BY TypeParts DEF Typed
<1>1. /\ UNCHANGED <<entry, nextGeneration, fired, recheck>>
      /\ UNCHANGED <<at, sha, gen, check, attempt, late, condemned>>
      /\ UNCHANGED <<watch, floor, told, missed>>
      /\ UNCHANGED <<heads, undelivered>>
  BY DEF CatchUp, Close, Reopen, registry, posting, watcher
<1>2. replica' \in 1 .. Len(heads)
  <2>1. replica' = replica \/ replica' = Len(heads)
    BY DEF CatchUp, Close, Reopen
  <2>2. Len(heads) \in 1 .. Len(heads)
    BY <1>0, ConstantTypes DEF GithubOK
  <2> QED
    BY <1>0, <2>1, <2>2 DEF GithubOK
<1>3. closeJobs' \in 0 .. MaxCloses
  <2>1. \/ closeJobs' = closeJobs
        \/ closeJobs < MaxCloses /\ closeJobs' = closeJobs + 1
    BY DEF CatchUp, Close, Reopen
  <2>2. closeJobs \in 0 .. MaxCloses
    BY <1>0 DEF GithubOK
  <2> QED
    BY <2>1, <2>2, ConstantTypes
<1>4. open' \in BOOLEAN
  BY <1>0, Zenon DEF CatchUp, Close, Reopen, GithubOK
<1>5. GithubOK'
  BY <1>0, <1>1, <1>2, <1>3, <1>4, Zenon DEF GithubOK
<1>6. RegistryOK' /\ JobsOK' /\ WatcherOK' /\ ReviewsShaped'
  BY <1>0, <1>1, Zenon DEF RegistryOK, JobsOK, WatcherOK, ReviewsShaped, Reviewing
<1> QED
  BY <1>5, <1>6, Assembled

LEMMA EntryGeneration ==
    ASSUME RegistryOK
    PROVE  /\ entry = NoEntry => entry.generation = 0
           /\ entry # NoEntry => /\ entry.generation \in 1 .. nextGeneration - 1
                                 /\ entry.sha \in Sha
BY DEF RegistryOK, NoEntry

LEMMA PushArrivedTyped ==
    ASSUME Typed, NEW k \in undelivered, PushArrived(k)
    PROVE  Typed'
<1>0. GithubOK /\ RegistryOK /\ JobsOK /\ WatcherOK /\ ReviewsShaped
  BY TypeParts DEF Typed
<1>1. /\ UNCHANGED <<entry, nextGeneration, fired>>
      /\ UNCHANGED <<at, sha, gen, check, attempt, late, condemned>>
      /\ UNCHANGED <<watch, floor, missed>>
      /\ UNCHANGED <<heads, replica, open, closeJobs>>
      /\ undelivered' = undelivered \ {k}
  BY DEF PushArrived, posting
<1>2. GithubOK'
  BY <1>0, <1>1, Zenon DEF GithubOK
<1>3. recheck' \subseteq 1 .. nextGeneration - 1
  BY <1>0, EntryGeneration DEF PushArrived, RegistryOK
<1>4. told' \in [Worker -> 0 .. Len(heads)]
  <2>1. k \in 0 .. Len(heads)
    <3>1. k \in 2 .. Len(heads)
      BY <1>0 DEF GithubOK
    <3>2. Len(heads) \in Nat
      BY <1>0, ConstantTypes DEF GithubOK
    <3> QED
      BY <3>1, <3>2
  <2>2. told \in [Worker -> 0 .. Len(heads)]
    BY <1>0 DEF WatcherOK
  <2>3. \/ told' = told
        \/ told' = [w \in Worker |->
              IF Reviewing(w) /\ gen[w] = entry.generation /\ told[w] < k
              THEN k ELSE told[w]]
    BY DEF PushArrived
  <2> QED
    BY <2>1, <2>2, <2>3, Zenon
<1>5. RegistryOK' /\ JobsOK' /\ WatcherOK' /\ ReviewsShaped'
  BY <1>0, <1>1, <1>3, <1>4, Zenon
  DEF RegistryOK, JobsOK, WatcherOK, ReviewsShaped, Reviewing
<1> QED
  BY <1>2, <1>5, Assembled

(* A job that does not register changes only where its worker is, and the  *)
(* head it read.                                                           *)
LEMMA NotRegisteringTyped ==
    ASSUME Typed, NEW w \in Worker, FetchContext(w) \/ GiveUp(w) \/ Skip(w)
    PROVE  Typed'
<1>0. GithubOK /\ RegistryOK /\ JobsOK /\ WatcherOK /\ ReviewsShaped
  BY TypeParts DEF Typed
<1>1. UNCHANGED <<github, registry, gen, posting, watcher, condemned>>
  BY DEF FetchContext, GiveUp, Skip
<1>2. /\ at[w] # "reviewing"
      /\ at' = [at EXCEPT ![w] = "setup"] \/ at' = [at EXCEPT ![w] = "idle"]
      /\ sha' = sha \/ sha' = [sha EXCEPT ![w] = Seen]
  BY DEF FetchContext, GiveUp, Skip
<1>3. GithubOK' /\ RegistryOK' /\ WatcherOK'
  BY <1>0, <1>1, Zenon DEF GithubOK, RegistryOK, WatcherOK, github, registry, watcher
<1>4. JobsOK'
  <2>1. UNCHANGED <<gen, check, attempt, late, condemned, nextGeneration>>
    BY <1>1 DEF registry, posting
  <2>2. at' \in [Worker -> {"idle", "setup", "reviewing"}]
    BY <1>0, <1>2 DEF JobsOK
  <2>3. sha' \in [Worker -> Sha]
    BY <1>0, <1>2, HeadIsSha DEF JobsOK
  <2> QED
    BY <1>0, <2>1, <2>2, <2>3, Zenon DEF JobsOK
<1>5. ReviewsShaped'
  <2>1. UNCHANGED <<watch, gen>>
    BY <1>1 DEF watcher
  <2>2. \A v \in Worker : Reviewing(v)' <=> Reviewing(v)
    BY <1>0, <1>2 DEF JobsOK, Reviewing
  <2> QED
    BY <1>0, <2>1, <2>2 DEF ReviewsShaped
<1> QED
  BY <1>3, <1>4, <1>5, Assembled

LEMMA RegisterTyped ==
    ASSUME Typed, NEW w \in Worker, Register(w)
    PROVE  Typed'
<1>0. GithubOK /\ RegistryOK /\ JobsOK /\ WatcherOK /\ ReviewsShaped
  BY TypeParts DEF Typed
<1>1. /\ UNCHANGED <<heads, replica, open, undelivered, closeJobs>>
      /\ UNCHANGED <<recheck, sha, floor>>
      /\ nextGeneration' = nextGeneration + 1
      /\ nextGeneration <= MaxGenerations
      /\ at' = [at EXCEPT ![w] = "reviewing"]
      /\ gen' = [gen EXCEPT ![w] = nextGeneration]
  BY DEF Register, github, LaterGeneration
<1>2. nextGeneration \in Nat /\ nextGeneration >= 1
  BY <1>0, ConstantTypes DEF RegistryOK
<1>3. 1 .. nextGeneration - 1 \subseteq 1 .. nextGeneration' - 1
  BY <1>1, <1>2
<1>4. GithubOK'
  BY <1>0, <1>1, Zenon DEF GithubOK
<1>5. RegistryOK'
  <2>1. nextGeneration' \in 1 .. MaxGenerations + 1
    BY <1>1, <1>2, ConstantTypes
  <2>2. fired' \subseteq 1 .. nextGeneration' - 1
    <3>1. fired' \subseteq fired \cup ({entry.generation} \ {0})
      BY DEF Register, FireEntry
    <3>2. fired \subseteq 1 .. nextGeneration - 1
      BY <1>0 DEF RegistryOK
    <3>3. {entry.generation} \ {0} \subseteq 1 .. nextGeneration - 1
      BY <1>0, EntryGeneration
    <3> QED
      BY <1>3, <3>1, <3>2, <3>3, Zenon
  <2>3. recheck' \subseteq 1 .. nextGeneration' - 1
    BY <1>0, <1>1, <1>3, Zenon DEF RegistryOK
  <2>4. entry' \in [generation : 1 .. nextGeneration' - 1, sha : Sha]
    <3>1. entry' = [generation |-> nextGeneration, sha |-> sha[w]]
      BY DEF Register
    <3>2. sha[w] \in Sha
      BY <1>0 DEF JobsOK
    <3> QED
      BY <1>1, <1>2, <3>1, <3>2
  <2> QED
    BY <2>1, <2>2, <2>3, <2>4, Zenon DEF RegistryOK
<1>6. JobsOK'
  <2>1. at' \in [Worker -> {"idle", "setup", "reviewing"}]
    BY <1>0, <1>1 DEF JobsOK
  <2>2. gen' \in [Worker -> 0 .. nextGeneration' - 1]
    <3>1. gen \in [Worker -> 0 .. nextGeneration - 1]
      BY <1>0 DEF JobsOK
    <3> QED
      BY <1>1, <1>2, <3>1
  <2>3. check' \in [Worker -> [Checker -> CheckerStates]]
    <3>1. [c \in Checker |-> "running"] \in [Checker -> CheckerStates]
      BY DEF CheckerStates
    <3>2. check' = [check EXCEPT ![w] = [c \in Checker |-> "running"]]
      BY DEF Register
    <3> QED
      BY <1>0, <3>1, <3>2, Zenon DEF JobsOK
  <2>5. /\ attempt' \in [Worker -> [Checker -> Stages]]
        /\ late' \in [Worker -> [Checker -> Nat]]
    <3>1. /\ [c \in Checker |-> "none"] \in [Checker -> Stages]
          /\ [c \in Checker |-> 0] \in [Checker -> Nat]
      BY DEF Stages
    <3>2. /\ attempt' = [attempt EXCEPT ![w] = [c \in Checker |-> "none"]]
          /\ late' = [late EXCEPT ![w] = [c \in Checker |-> 0]]
      BY DEF Register
    <3> QED
      BY <1>0, <3>1, <3>2, Zenon DEF JobsOK
  <2>4. condemned' \in [Worker -> BOOLEAN]
    <3>1. condemned' = [v \in Worker |-> v # w /\ (condemned[v] \/ Reviewing(v))]
      BY DEF Register
    <3>2. \A v \in Worker : (v # w /\ (condemned[v] \/ Reviewing(v))) \in BOOLEAN
      OBVIOUS
    <3> QED
      BY <3>1, <3>2
  <2> QED
    BY <1>0, <1>1, <2>1, <2>2, <2>3, <2>4, <2>5, Zenon DEF JobsOK
<1>7. WatcherOK'
  <2>1. /\ watch' = [watch EXCEPT ![w] = "waiting"]
        /\ told' = [told EXCEPT ![w] = 0]
        /\ missed' = [missed EXCEPT ![w] = FALSE]
    BY DEF Register
  <2>2. 0 \in 0 .. Len(heads)
    BY <1>0, ConstantTypes DEF GithubOK
  <2>3. /\ watch \in [Worker -> {"off", "waiting", "looking", "asleep",
                                 "looking_again", "asleep_again"}]
        /\ told \in [Worker -> 0 .. Len(heads)]
        /\ missed \in [Worker -> BOOLEAN]
    BY <1>0 DEF WatcherOK
  <2>4. watch' \in [Worker -> {"off", "waiting", "looking", "asleep",
                               "looking_again", "asleep_again"}]
    BY <2>1, <2>3
  <2>5. told' \in [Worker -> 0 .. Len(heads)] /\ missed' \in [Worker -> BOOLEAN]
    BY <2>1, <2>2, <2>3, Zenon
  <2> QED
    BY <1>0, <1>1, <2>4, <2>5, Zenon DEF WatcherOK
<1>8. ReviewsShaped'
  <2>1. watch' = [watch EXCEPT ![w] = "waiting"]
    BY DEF Register
  <2> QED
    <3>1. /\ at'[w] = "reviewing" /\ gen'[w] = nextGeneration
          /\ \A v \in Worker : v # w =>
                at'[v] = at[v] /\ gen'[v] = gen[v] /\ watch'[v] = watch[v]
      BY <1>0, <1>1, <2>1 DEF JobsOK, WatcherOK
    <3>2. nextGeneration # 0
      BY <1>2
    <3> QED
      BY <1>0, <3>1, <3>2, Zenon DEF ReviewsShaped, Reviewing
<1> QED
  BY <1>4, <1>5, <1>6, <1>7, <1>8, Assembled

LEMMA EndReviewTyped ==
    ASSUME Typed, NEW w \in Worker, EndReview(w)
    PROVE  Typed'
<1>0. GithubOK /\ RegistryOK /\ JobsOK /\ WatcherOK /\ ReviewsShaped
  BY TypeParts DEF Typed
<1>1. /\ UNCHANGED <<heads, replica, open, undelivered, closeJobs>>
      /\ UNCHANGED <<nextGeneration, fired, recheck>>
      /\ UNCHANGED <<sha, gen, check, attempt, late, floor, told, missed, condemned>>
      /\ at' = [at EXCEPT ![w] = "idle"]
      /\ watch' = [watch EXCEPT ![w] = "off"]
      /\ entry' = NoEntry \/ entry' = entry
  BY DEF EndReview, Drop, github, posting
<1>2. GithubOK' /\ RegistryOK'
  BY <1>0, <1>1, Zenon DEF GithubOK, RegistryOK
<1>3. JobsOK' /\ WatcherOK'
  <2>1. /\ at' \in [Worker -> {"idle", "setup", "reviewing"}]
        /\ watch' \in [Worker -> {"off", "waiting", "looking", "asleep",
                                  "looking_again", "asleep_again"}]
    BY <1>0, <1>1 DEF JobsOK, WatcherOK
  <2> QED
    BY <1>0, <1>1, <2>1, Zenon DEF JobsOK, WatcherOK
<1>4. ReviewsShaped'
  <2>1. /\ at'[w] = "idle" /\ watch'[w] = "off"
        /\ \A v \in Worker : v # w => at'[v] = at[v] /\ watch'[v] = watch[v]
    BY <1>0, <1>1 DEF JobsOK, WatcherOK
  <2> QED
    BY <1>0, <1>1, <2>1 DEF ReviewsShaped, Reviewing
<1> QED
  BY <1>2, <1>3, <1>4, Assembled

LEMMA CancelReviewTyped ==
    ASSUME Typed, NEW w \in Worker, CancelReview(w)
    PROVE  Typed'
<1>0. GithubOK /\ RegistryOK /\ JobsOK /\ WatcherOK /\ ReviewsShaped
  BY TypeParts DEF Typed
<1>1. /\ UNCHANGED <<heads, replica, open, undelivered>>
      /\ UNCHANGED <<nextGeneration, recheck, at, sha, gen, check, attempt, late>>
      /\ UNCHANGED <<watch, floor, told, missed>>
      /\ closeJobs > 0 /\ closeJobs' = closeJobs - 1
      /\ entry' = NoEntry
      /\ condemned' = [v \in Worker |-> condemned[v] \/ Reviewing(v)]
  BY DEF CancelReview, posting, watcher
<1>2. closeJobs' \in 0 .. MaxCloses
  <2>1. closeJobs \in 0 .. MaxCloses
    BY <1>0 DEF GithubOK
  <2> QED
    BY <1>1, <2>1, ConstantTypes
<1>3. fired' \subseteq 1 .. nextGeneration - 1
  <2>1. fired' = fired \cup ({entry.generation} \ {0})
    BY DEF CancelReview, FireEntry
  <2> QED
    BY <1>0, <2>1, EntryGeneration DEF RegistryOK
<1>4. condemned' \in [Worker -> BOOLEAN]
  <2>1. \A v \in Worker : (condemned[v] \/ Reviewing(v)) \in BOOLEAN
    OBVIOUS
  <2> QED
    BY <1>1, <2>1
<1>5. GithubOK' /\ RegistryOK' /\ JobsOK' /\ WatcherOK' /\ ReviewsShaped'
  BY <1>0, <1>1, <1>2, <1>3, <1>4, Zenon
  DEF GithubOK, RegistryOK, JobsOK, WatcherOK, ReviewsShaped, Reviewing
<1> QED
  BY <1>5, Assembled

(* A checker's steps change only where it is, how far its write has got    *)
(* and what it has sent.                                                   *)
LEMMA CheckerMoves ==
    ASSUME NEW w \in Worker, NEW c \in Checker,
           \/ Finish(w, c) \/ Abort(w, c) \/ LastPost(w, c) \/ StillCurrent(w, c)
           \/ NotCurrent(w, c) \/ StartWrite(w, c) \/ EndWrite(w, c)
           \/ TryLater(w, c) \/ WaitOver(w, c) \/ Resend(w, c)
    PROVE  /\ UNCHANGED <<github, registry, at, sha, gen, watcher, condemned>>
           /\ Reviewing(w)
           /\ check' = check \/ \E to \in CheckerStates :
                  check' = [check EXCEPT ![w][c] = to]
           /\ attempt' = attempt \/ \E stage \in Stages :
                  attempt' = [attempt EXCEPT ![w][c] = stage]
           /\ late' = late \/ CountLate(w, c)
<1> DEFINE Moves ==
      /\ UNCHANGED <<github, registry, at, sha, gen, watcher, condemned>>
      /\ Reviewing(w)
      /\ \E to \in CheckerStates : check' = [check EXCEPT ![w][c] = to]
    Sends ==
      /\ UNCHANGED <<github, registry, at, sha, gen, watcher, condemned>>
      /\ Reviewing(w)
      /\ check' = check
      /\ \E stage \in Stages : attempt' = [attempt EXCEPT ![w][c] = stage]
<1>1. ASSUME NEW from, NEW to \in CheckerStates, CheckerGoes(w, c, from, to)
      PROVE  Moves
  BY <1>1, Zenon DEF CheckerGoes
<1>2. ASSUME NEW from, NEW to \in Stages, WriteGoes(w, c, from, to)
      PROVE  Sends
  BY <1>2, Zenon DEF WriteGoes, Writing
<1>3. \A s \in Writes : After(s) \subseteq CheckerStates
  BY DEF After, Writes, CheckerStates
<1>4. /\ {"running", "outcome", "check_run", "done"} \subseteq CheckerStates
      /\ Stages = {"none", "sent", "waiting", "settling", "looking"}
  BY DEF CheckerStates, Writes, Stages
<1>5. CASE Finish(w, c) \/ LastPost(w, c) \/ StillCurrent(w, c) \/ NotCurrent(w, c)
  <2>1. Moves
    BY <1>1, <1>4, <1>5 DEF Finish, LastPost, StillCurrent, NotCurrent
  <2>2. attempt' = attempt /\ (late' = late \/ CountLate(w, c))
    BY <1>5 DEF Finish, LastPost, StillCurrent, NotCurrent
  <2> QED BY <2>1, <2>2
<1>6. CASE Abort(w, c) \/ EndWrite(w, c)
  <2>1. Moves
    BY <1>1, <1>3, <1>4, <1>6 DEF Abort, EndWrite
  <2>2. attempt' = [attempt EXCEPT ![w][c] = "none"] /\ late' = late
    BY <1>6 DEF Abort, EndWrite
  <2> QED BY <1>4, <2>1, <2>2
<1>7. CASE StartWrite(w, c) \/ TryLater(w, c) \/ WaitOver(w, c) \/ Resend(w, c)
  <2>1. Sends
    BY <1>2, <1>4, <1>7 DEF StartWrite, TryLater, WaitOver, Resend
  <2>2. late' = late \/ CountLate(w, c)
    BY <1>7 DEF StartWrite, TryLater, WaitOver, Resend
  <2> QED BY <2>1, <2>2
<1> QED
  BY <1>5, <1>6, <1>7

LEMMA CheckerStepTyped ==
    ASSUME Typed, NEW w \in Worker, CheckerStep(w)
    PROVE  Typed'
<1>0. GithubOK /\ RegistryOK /\ JobsOK /\ WatcherOK /\ ReviewsShaped
  BY TypeParts DEF Typed
<1>1. PICK c \in Checker :
        \/ Finish(w, c) \/ Abort(w, c) \/ LastPost(w, c) \/ StillCurrent(w, c)
        \/ NotCurrent(w, c) \/ StartWrite(w, c) \/ EndWrite(w, c)
        \/ TryLater(w, c) \/ WaitOver(w, c) \/ Resend(w, c)
  BY DEF CheckerStep
<1>2. /\ UNCHANGED <<heads, replica, open, undelivered, closeJobs>>
      /\ UNCHANGED <<entry, nextGeneration, fired, recheck, at, sha, gen>>
      /\ UNCHANGED <<watch, floor, told, missed, condemned>>
  BY <1>1, CheckerMoves DEF github, registry, watcher
<1>3. check' \in [Worker -> [Checker -> CheckerStates]]
  <2>1. check' = check \/ \E to \in CheckerStates : check' = [check EXCEPT ![w][c] = to]
    BY <1>1, CheckerMoves
  <2>2. check \in [Worker -> [Checker -> CheckerStates]]
    BY <1>0 DEF JobsOK
  <2>3. \A to \in CheckerStates : [check[w] EXCEPT ![c] = to] \in [Checker -> CheckerStates]
    BY <2>2
  <2> QED
    BY <2>1, <2>2, <2>3
<1>4. attempt' \in [Worker -> [Checker -> Stages]]
  <2>1. attempt' = attempt
          \/ \E stage \in Stages : attempt' = [attempt EXCEPT ![w][c] = stage]
    BY <1>1, CheckerMoves
  <2>2. attempt \in [Worker -> [Checker -> Stages]]
    BY <1>0 DEF JobsOK
  <2>3. \A stage \in Stages : [attempt[w] EXCEPT ![c] = stage] \in [Checker -> Stages]
    BY <2>2
  <2> QED
    BY <2>1, <2>2, <2>3
<1>5. late' \in [Worker -> [Checker -> Nat]]
  <2>1. late' = late \/ CountLate(w, c)
    BY <1>1, CheckerMoves
  <2>2. late \in [Worker -> [Checker -> Nat]]
    BY <1>0 DEF JobsOK
  <2>3. \A n \in Nat : [late[w] EXCEPT ![c] = n] \in [Checker -> Nat]
    BY <2>2
  <2>4. late[w][c] \in Nat /\ late[w][c] + 1 \in Nat
    BY <2>2
  <2> QED
    BY <2>1, <2>2, <2>3, <2>4 DEF CountLate
<1>6. GithubOK' /\ RegistryOK' /\ JobsOK' /\ WatcherOK' /\ ReviewsShaped'
  BY <1>0, <1>2, <1>3, <1>4, <1>5, Zenon
  DEF GithubOK, RegistryOK, JobsOK, WatcherOK, ReviewsShaped, Reviewing
<1> QED
  BY <1>6, Assembled

LEMMA WatcherStepTyped ==
    ASSUME Typed, NEW w \in Worker, WatcherStep(w)
    PROVE  Typed'
<1>0. GithubOK /\ RegistryOK /\ JobsOK /\ WatcherOK /\ ReviewsShaped
  BY TypeParts DEF Typed
<1>1. /\ UNCHANGED <<heads, replica, open, undelivered, closeJobs>>
      /\ UNCHANGED <<entry, nextGeneration, at, sha, gen, check, attempt, late, told>>
  BY DEF WatcherStep, Wake, SeeMove, SeeNone, SleepOver, github, registry, posting
<1>2. watch[w] # "off"
  BY DEF WatcherStep, Wake, SeeMove, SeeNone, SleepOver, Looking
<1>3. gen[w] \in 1 .. nextGeneration - 1
  <2>1. gen[w] # 0 /\ gen[w] \in 0 .. nextGeneration - 1
    BY <1>0, <1>2 DEF ReviewsShaped, JobsOK
  <2>2. nextGeneration \in Nat
    BY <1>0, ConstantTypes DEF RegistryOK
  <2> QED
    BY <2>1, <2>2
<1>4. fired' \subseteq 1 .. nextGeneration - 1 /\ recheck' \subseteq 1 .. nextGeneration - 1
  <2>1. /\ fired' = fired \/ fired' = fired \cup {gen[w]}
        /\ recheck' \subseteq recheck
    BY DEF WatcherStep, Wake, SeeMove, SeeNone, SleepOver, registry
  <2> QED
    BY <1>0, <1>3, <2>1 DEF RegistryOK
<1>5. \E s \in {"off", "waiting", "looking", "asleep", "looking_again", "asleep_again"} :
         watch' = [watch EXCEPT ![w] = s]
  BY DEF WatcherStep, Wake, SeeMove, SeeNone, SleepOver, SleepOf
<1>6. watch' \in [Worker -> {"off", "waiting", "looking", "asleep",
                             "looking_again", "asleep_again"}]
  BY <1>0, <1>5 DEF WatcherOK
<1>7. floor' \in [Worker -> 1 .. Len(heads)]
  <2>1. floor' = floor \/ floor' = [floor EXCEPT ![w] = Len(heads)]
    BY DEF WatcherStep, Wake, SeeMove, SeeNone, SleepOver
  <2>2. Len(heads) \in 1 .. Len(heads)
    BY <1>0, ConstantTypes DEF GithubOK
  <2> QED
    BY <1>0, <2>1, <2>2, Zenon DEF WatcherOK
<1>8. missed' \in [Worker -> BOOLEAN] /\ condemned' \in [Worker -> BOOLEAN]
  <2>1. /\ missed' = missed \/ \E b \in BOOLEAN : missed' = [missed EXCEPT ![w] = b]
        /\ condemned' = condemned \/ condemned' = [condemned EXCEPT ![w] = TRUE]
    BY Zenon DEF WatcherStep, Wake, SeeMove, SeeNone, SleepOver
  <2> QED
    BY <1>0, <2>1, Zenon DEF JobsOK, WatcherOK
<1>9. GithubOK' /\ RegistryOK' /\ JobsOK' /\ WatcherOK'
  BY <1>0, <1>1, <1>4, <1>6, <1>7, <1>8, Zenon
  DEF GithubOK, RegistryOK, JobsOK, WatcherOK
<1>10. ReviewsShaped'
  BY <1>0, <1>1, <1>2, <1>5 DEF ReviewsShaped, Reviewing, WatcherOK
<1> QED
  BY <1>9, <1>10, Assembled

LEMMA StepTyped == Typed /\ [Next]_vars => Typed'
<1> SUFFICES ASSUME Typed, [Next]_vars PROVE Typed'
  OBVIOUS
<1>1. CASE UNCHANGED vars
  BY <1>1, Zenon DEF vars, github, registry, posting, watcher, Typed, TypeOK, ReviewsShaped,
                     Reviewing
<1>2. ASSUME NEW w \in Worker, JobStep(w) PROVE Typed'
  BY <1>2, NotRegisteringTyped, RegisterTyped, EndReviewTyped, CancelReviewTyped
  DEF JobStep
<1> QED
  BY <1>1, <1>2, PushTyped, GithubTyped, PushArrivedTyped, CheckerStepTyped,
     WatcherStepTyped
  DEF Next

LEMMA InitTyped == Init => Typed
<1> SUFFICES ASSUME Init PROVE Typed
  OBVIOUS
<1>1. PICK s \in Sha : heads = <<s>> /\ sha = [w \in Worker |-> s]
  BY DEF Init
<1>2. heads \in Seq(Sha) /\ Len(heads) = 1
  BY <1>1
<1>3. GithubOK
  <2>1. /\ replica = 1 /\ undelivered = {} /\ closeJobs = 0
        /\ open \in BOOLEAN
    BY Zenon DEF Init
  <2>2. 1 \in 1 .. MaxPushes + 1 /\ 1 \in 1 .. 1 /\ 0 \in 0 .. MaxCloses
    BY ConstantTypes
  <2> QED
    BY <1>2, <2>1, <2>2, Zenon DEF GithubOK
<1>4. RegistryOK
  BY ConstantTypes DEF Init, RegistryOK
<1>5. JobsOK
  <2>1. 0 \in 0 .. nextGeneration - 1
    BY DEF Init
  <2>2. /\ at = [w \in Worker |-> "idle"]
        /\ gen = [w \in Worker |-> 0]
        /\ check = [w \in Worker |-> [c \in Checker |-> "done"]]
        /\ attempt = [w \in Worker |-> [c \in Checker |-> "none"]]
        /\ late = [w \in Worker |-> [c \in Checker |-> 0]]
        /\ condemned = [w \in Worker |-> FALSE]
    BY DEF Init
  <2>3. /\ [c \in Checker |-> "done"] \in [Checker -> CheckerStates]
        /\ [c \in Checker |-> "none"] \in [Checker -> Stages]
        /\ [c \in Checker |-> 0] \in [Checker -> Nat]
    BY DEF CheckerStates, Stages
  <2>4. /\ check \in [Worker -> [Checker -> CheckerStates]]
        /\ attempt \in [Worker -> [Checker -> Stages]]
        /\ late \in [Worker -> [Checker -> Nat]]
    BY <2>2, <2>3, Zenon
  <2>5. condemned \in [Worker -> BOOLEAN]
    BY <2>2, Zenon
  <2>6. /\ at \in [Worker -> {"idle", "setup", "reviewing"}]
        /\ sha \in [Worker -> Sha]
        /\ gen \in [Worker -> 0 .. nextGeneration - 1]
    BY <1>1, <2>1, <2>2
  <2> QED
    BY <2>4, <2>5, <2>6, Zenon DEF JobsOK
<1>6. WatcherOK
  <2>1. /\ watch = [w \in Worker |-> "off"]
        /\ floor = [w \in Worker |-> 1]
        /\ told = [w \in Worker |-> 0]
        /\ missed = [w \in Worker |-> FALSE]
    BY DEF Init
  <2>2. missed \in [Worker -> BOOLEAN]
    BY <2>1, Zenon
  <2>3. /\ watch \in [Worker -> {"off", "waiting", "looking", "asleep",
                                 "looking_again", "asleep_again"}]
        /\ floor \in [Worker -> 1 .. Len(heads)]
        /\ told \in [Worker -> 0 .. Len(heads)]
    BY <1>2, <2>1
  <2> QED
    BY <2>2, <2>3, Zenon DEF WatcherOK
<1>7. ReviewsShaped
  BY DEF Init, ReviewsShaped, Reviewing
<1> QED
  BY <1>3, <1>4, <1>5, <1>6, <1>7, TypeParts DEF Typed

(* The variables keep their types.  *)
THEOREM Typing == Spec => []TypeOK
<1>1. Typed => TypeOK
  BY DEF Typed
<1> QED
  BY <1>1, InitTyped, StepTyped, PTL DEF Spec

-----------------------------------------------------------------------------
(* The registry.                                                           *)

(* Steps that leave alone the registry and the reviews under way. *)
LEMMA RegistryLeftAlone ==
    ASSUME RegistryInv,
           UNCHANGED <<entry, nextGeneration, fired, gen, condemned>>,
           \A v \in Worker : /\ Reviewing(v)' <=> Reviewing(v)
                             /\ Reviewing(v) => sha'[v] = sha[v]
    PROVE  RegistryInv'
<1>1. GenerationsApart' /\ CondemnedAreFired'
  BY DEF RegistryInv, GenerationsApart, CondemnedAreFired
<1>2. \A v \in Worker : Live(v)' <=> Live(v)
  BY DEF Live
<1>3. EntryIsUnderWay' /\ LiveIsRegistered'
  BY <1>2 DEF RegistryInv, EntryIsUnderWay, LiveIsRegistered, Live
<1> QED
  BY <1>1, <1>3 DEF RegistryInv

LEMMA RegisterKeeps ==
    ASSUME Typed, RegistryInv, NEW w \in Worker, Register(w)
    PROVE  RegistryInv'
<1>1. /\ fired' = fired \cup ({entry.generation} \ {0})
      /\ entry' = [generation |-> nextGeneration, sha |-> sha[w]]
      /\ nextGeneration' = nextGeneration + 1
      /\ sha' = sha
      /\ condemned' = [v \in Worker |-> v # w /\ (condemned[v] \/ Reviewing(v))]
      /\ ~Reviewing(w)
  BY DEF Register, FireEntry, LaterGeneration, Reviewing
<1>2. /\ Reviewing(w)' /\ gen'[w] = nextGeneration
      /\ \A v \in Worker : v # w => (Reviewing(v)' <=> Reviewing(v)) /\ gen'[v] = gen[v]
  BY DEF Register, Reviewing, Typed, TypeOK
<1>3. nextGeneration \in Nat /\ nextGeneration >= 1
  BY DEF RegistryInv, GenerationsApart
<1>4. \A v \in Worker : Reviewing(v) => gen[v] \in Nat /\ gen[v] # 0 /\ gen[v] < nextGeneration
  BY <1>3 DEF RegistryInv, GenerationsApart
<1>5. entry.generation < nextGeneration
  <2>1. entry = NoEntry => entry.generation = 0
    BY DEF NoEntry
  <2> QED
    BY <1>3, <1>4, <2>1 DEF RegistryInv, EntryIsUnderWay
<1>6. GenerationsApart'
  <2>1. \A g \in fired' : g < nextGeneration'
    <3>1. fired \subseteq Nat
      <4>1. fired \subseteq 1 .. nextGeneration - 1
        BY DEF Typed, TypeOK
      <4> QED
        BY <1>3, <4>1
    <3>2. entry.generation \in Nat
      <4>1. CASE entry = NoEntry
        BY <4>1 DEF NoEntry
      <4>2. CASE entry # NoEntry
        BY <1>4, <4>2 DEF RegistryInv, EntryIsUnderWay
      <4> QED
        BY <4>1, <4>2
    <3> QED
      <4>1. \A g \in fired : g \in Nat /\ g < nextGeneration
        BY <3>1 DEF RegistryInv, GenerationsApart
      <4>2. \A g \in {entry.generation} \ {0} : g \in Nat /\ g < nextGeneration
        BY <1>5, <3>2
      <4>3. \A g \in fired' : g \in Nat /\ g < nextGeneration
        BY <1>1, <4>1, <4>2
      <4> QED
        BY <1>1, <1>3, <4>3
  <2>2. \A v \in Worker : Reviewing(v)' => gen'[v] \in 1 .. nextGeneration' - 1
    BY <1>1, <1>2, <1>3, <1>4
  <2>3. \A u, v \in Worker : Reviewing(u)' /\ Reviewing(v)' /\ gen'[u] = gen'[v] => u = v
    BY <1>2, <1>3, <1>4 DEF RegistryInv, GenerationsApart
  <2> QED
    BY <1>1, <1>3, <2>1, <2>2, <2>3 DEF GenerationsApart
<1>7. \A v \in Worker : Reviewing(v) => gen[v] \in fired'
  <2>1. SUFFICES ASSUME NEW v \in Worker, Live(v) PROVE gen[v] \in fired'
    BY <1>1 DEF Live
  <2>2. entry.generation = gen[v]
    BY <2>1 DEF RegistryInv, LiveIsRegistered
  <2> QED
    BY <1>1, <1>4, <2>1, <2>2 DEF Live
<1>8. CondemnedAreFired'
  BY <1>1, <1>2, <1>7 DEF CondemnedAreFired
<1>9. EntryIsUnderWay' /\ LiveIsRegistered'
  BY <1>1, <1>2, <1>7 DEF EntryIsUnderWay, LiveIsRegistered, Live
<1> QED
  BY <1>6, <1>8, <1>9 DEF RegistryInv

LEMMA EndReviewKeeps ==
    ASSUME Typed, RegistryInv, NEW w \in Worker, EndReview(w)
    PROVE  RegistryInv'
<1>1. /\ UNCHANGED <<nextGeneration, fired, sha, gen, condemned>>
      /\ entry' = IF entry.generation = gen[w] THEN NoEntry ELSE entry
      /\ Reviewing(w)
  BY DEF EndReview, Drop
<1>2. /\ ~Reviewing(w)'
      /\ \A v \in Worker : v # w => (Reviewing(v)' <=> Reviewing(v))
  BY DEF EndReview, Reviewing, Typed, TypeOK
<1>3. GenerationsApart' /\ CondemnedAreFired'
  BY <1>1, <1>2 DEF RegistryInv, GenerationsApart, CondemnedAreFired
<1>4. EntryIsUnderWay'
  BY <1>1, <1>2 DEF RegistryInv, EntryIsUnderWay
<1>5. LiveIsRegistered'
  <2>1. SUFFICES ASSUME NEW v \in Worker, Live(v)'
                 PROVE  entry' = [generation |-> gen[v], sha |-> sha[v]]
    BY <1>1 DEF LiveIsRegistered
  <2>2. v # w /\ Live(v)
    BY <1>1, <1>2, <2>1 DEF Live
  <2>3. entry = [generation |-> gen[v], sha |-> sha[v]] /\ gen[v] # gen[w]
    BY <1>1, <2>2 DEF RegistryInv, LiveIsRegistered, GenerationsApart, Live
  <2> QED
    BY <1>1, <2>3
<1> QED
  BY <1>3, <1>4, <1>5 DEF RegistryInv

LEMMA CancelReviewKeeps ==
    ASSUME Typed, RegistryInv, NEW w \in Worker, CancelReview(w)
    PROVE  RegistryInv'
<1>1. /\ UNCHANGED <<nextGeneration, at, sha, gen>>
      /\ fired' = fired \cup ({entry.generation} \ {0})
      /\ entry' = NoEntry
      /\ condemned' = [v \in Worker |-> condemned[v] \/ Reviewing(v)]
  BY DEF CancelReview, FireEntry
<1>2. \A v \in Worker : Reviewing(v)' <=> Reviewing(v)
  BY <1>1 DEF Reviewing
<1>3. \A v \in Worker : Reviewing(v) => gen[v] \in fired'
  <2>1. SUFFICES ASSUME NEW v \in Worker, Live(v) PROVE gen[v] \in fired'
    BY <1>1 DEF Live
  <2>2. entry.generation = gen[v] /\ gen[v] # 0
    BY <2>1 DEF RegistryInv, LiveIsRegistered, GenerationsApart, Live
  <2> QED
    BY <1>1, <2>2
<1>4. GenerationsApart'
  <2>1. \A g \in {entry.generation} \ {0} : g < nextGeneration
    BY DEF RegistryInv, EntryIsUnderWay, GenerationsApart, NoEntry
  <2> QED
    BY <1>1, <1>2, <2>1 DEF RegistryInv, GenerationsApart
<1>5. CondemnedAreFired' /\ EntryIsUnderWay' /\ LiveIsRegistered'
  BY <1>1, <1>2, <1>3 DEF CondemnedAreFired, EntryIsUnderWay, LiveIsRegistered, Live
<1> QED
  BY <1>4, <1>5 DEF RegistryInv

(* The watcher cancels its own review. *)
LEMMA SeeMoveKeeps ==
    ASSUME Typed, RegistryInv, NEW w \in Worker, SeeMove(w)
    PROVE  RegistryInv'
<1>1. /\ UNCHANGED <<entry, nextGeneration, at, sha, gen>>
      /\ fired' = fired \cup {gen[w]}
      /\ condemned' = [condemned EXCEPT ![w] = TRUE]
      /\ watch[w] # "off"
  BY DEF SeeMove, Looking
<1>2. \A v \in Worker : Reviewing(v)' <=> Reviewing(v)
  BY <1>1 DEF Reviewing
<1>3. gen[w] < nextGeneration
  <2>1. Reviewing(w)
    BY <1>1 DEF Typed, ReviewsShaped
  <2> QED
    BY <2>1 DEF RegistryInv, GenerationsApart
<1>4. GenerationsApart'
  BY <1>1, <1>2, <1>3 DEF RegistryInv, GenerationsApart
<1>5. CondemnedAreFired'
  BY <1>1, <1>2 DEF RegistryInv, CondemnedAreFired, Typed, TypeOK
<1>6. EntryIsUnderWay' /\ LiveIsRegistered'
  BY <1>1, <1>2 DEF RegistryInv, EntryIsUnderWay, LiveIsRegistered, Live
<1> QED
  BY <1>4, <1>5, <1>6 DEF RegistryInv

LEMMA RegistryStep == Typed /\ RegistryInv /\ [Next]_vars => RegistryInv'
<1> SUFFICES ASSUME Typed, RegistryInv, [Next]_vars PROVE RegistryInv'
  OBVIOUS
<1>1. CASE \/ Push \/ CatchUp \/ Close \/ Reopen \/ UNCHANGED vars
           \/ \E k \in undelivered : PushArrived(k)
  <2>1. UNCHANGED <<entry, nextGeneration, fired, gen, condemned, at, sha>>
    BY <1>1 DEF Push, CatchUp, Close, Reopen, vars, PushArrived, registry
  <2> QED
    BY <2>1, RegistryLeftAlone DEF Reviewing
<1>2. ASSUME NEW w \in Worker, FetchContext(w) \/ GiveUp(w) \/ Skip(w)
      PROVE  RegistryInv'
  <2>1. /\ UNCHANGED <<entry, nextGeneration, fired, gen, condemned>>
        /\ at[w] # "reviewing"
        /\ at' = [at EXCEPT ![w] = "setup"] \/ at' = [at EXCEPT ![w] = "idle"]
        /\ sha' = sha \/ sha' = [sha EXCEPT ![w] = Seen]
    BY <1>2 DEF FetchContext, GiveUp, Skip, registry
  <2>2. \A v \in Worker : /\ Reviewing(v)' <=> Reviewing(v)
                          /\ Reviewing(v) => sha'[v] = sha[v]
    BY <2>1 DEF Reviewing, Typed, TypeOK
  <2> QED
    BY <2>1, <2>2, RegistryLeftAlone
<1>3. ASSUME NEW w \in Worker, CheckerStep(w)
      PROVE  RegistryInv'
  <2>1. UNCHANGED <<entry, nextGeneration, fired, gen, condemned, at, sha>>
    BY <1>3, CheckerMoves DEF CheckerStep, registry
  <2> QED
    BY <2>1, RegistryLeftAlone DEF Reviewing
<1>4. ASSUME NEW w \in Worker, WatcherStep(w)
      PROVE  RegistryInv'
  <2>1. CASE SeeMove(w)
    BY <2>1, SeeMoveKeeps
  <2>2. CASE ~SeeMove(w)
    <3>1. UNCHANGED <<entry, nextGeneration, fired, gen, condemned, at, sha>>
      BY <1>4, <2>2 DEF WatcherStep, Wake, SeeNone, SleepOver, registry
    <3> QED
      BY <3>1, RegistryLeftAlone DEF Reviewing
  <2> QED
    BY <2>1, <2>2
<1> QED
  BY <1>1, <1>2, <1>3, <1>4, RegisterKeeps, EndReviewKeeps, CancelReviewKeeps
  DEF Next, JobStep

THEOREM RegistryInvariant == Spec => [](Typed /\ RegistryInv)
<1>1. Init => RegistryInv
  BY DEF Init, RegistryInv, GenerationsApart, EntryIsUnderWay, LiveIsRegistered,
         CondemnedAreFired, Reviewing, Live, NoEntry
<1> QED
  BY <1>1, InitTyped, StepTyped, RegistryStep, PTL DEF Spec

(* At most one review of a pull request may still post, in whatever order  *)
(* its jobs read the head, register, replace one another and end.          *)
THEOREM OneReviewLives == Spec => []OneLive
<1>1. RegistryInv => OneLive
  BY DEF RegistryInv, LiveIsRegistered, GenerationsApart, OneLive, Live
<1> QED
  BY <1>1, RegistryInvariant, PTL

(* The map holds no review that is over, so a job that skips its review    *)
(* because one is in flight is right.                                      *)
THEOREM EntriesAreUnderWay == Spec => []EntryIsUnderWay
<1>1. RegistryInv => EntryIsUnderWay
  BY DEF RegistryInv
<1> QED
  BY <1>1, RegistryInvariant, PTL

(* A close reaches every review that may still post: it is the one in the  *)
(* map, under its own token.                                               *)
THEOREM LiveReviewsAreRegistered == Spec => []LiveIsRegistered
<1>1. RegistryInv => LiveIsRegistered
  BY DEF RegistryInv
<1> QED
  BY <1>1, RegistryInvariant, PTL

-----------------------------------------------------------------------------
(* The writes of a condemned review.                                       *)

(* Steps of anything but a checker. *)
LEMMA WritesLeftAlone ==
    ASSUME Typed, WritesInv, [Next]_vars, ~\E w \in Worker : CheckerStep(w)
    PROVE  WritesInv'
<1> SUFFICES ASSUME NEW w \in Worker, NEW c \in Checker, Reviewing(w)'
             PROVE  /\ check'[w][c] \notin Writes => attempt'[w][c] = "none"
                    /\ late'[w][c] # 0 =>
                          /\ condemned'[w]
                          /\ check'[w][c] # "running"
                          /\ attempt'[w][c] \in {"none", "sent"}
  BY DEF WritesInv
<1>0. /\ check \in [Worker -> [Checker -> CheckerStates]]
      /\ attempt \in [Worker -> [Checker -> Stages]]
      /\ late \in [Worker -> [Checker -> Nat]]
      /\ at \in [Worker -> {"idle", "setup", "reviewing"}]
      /\ condemned \in [Worker -> BOOLEAN]
  BY DEF Typed, TypeOK
<1>1. CASE Register(w)
  <2>1. /\ check' = [check EXCEPT ![w] = [d \in Checker |-> "running"]]
        /\ attempt' = [attempt EXCEPT ![w] = [d \in Checker |-> "none"]]
        /\ late' = [late EXCEPT ![w] = [d \in Checker |-> 0]]
    BY <1>1 DEF Register
  <2> QED BY <1>0, <2>1
<1>2. CASE ~Register(w)
  <2>1. /\ check'[w] = check[w] /\ attempt'[w] = attempt[w] /\ late'[w] = late[w]
        /\ Reviewing(w) /\ (condemned[w] => condemned'[w])
    <3>1. CASE \E v \in Worker : Register(v)
      <4>1. PICK v \in Worker : Register(v)
        BY <3>1
      <4>2. /\ v # w
            /\ at' = [at EXCEPT ![v] = "reviewing"]
            /\ check' = [check EXCEPT ![v] = [d \in Checker |-> "running"]]
            /\ attempt' = [attempt EXCEPT ![v] = [d \in Checker |-> "none"]]
            /\ late' = [late EXCEPT ![v] = [d \in Checker |-> 0]]
            /\ condemned' = [u \in Worker |-> u # v /\ (condemned[u] \/ Reviewing(u))]
        BY <1>2, <4>1 DEF Register
      <4> QED BY <1>0, <4>2 DEF Reviewing
    <3>2. CASE ~\E v \in Worker : Register(v)
      <4>1. UNCHANGED posting
        BY <3>2, Zenon DEF Next, JobStep, WatcherStep, vars, Push, CatchUp, Close, Reopen,
           PushArrived, FetchContext, GiveUp, Skip, EndReview, CancelReview, Wake,
           SeeMove, SeeNone, SleepOver
      <4>2. \/ condemned' = condemned
            \/ condemned' = [v \in Worker |-> condemned[v] \/ Reviewing(v)]
            \/ \E v \in Worker : condemned' = [condemned EXCEPT ![v] = TRUE]
        BY <3>2, Zenon DEF Next, JobStep, WatcherStep, vars, Push, CatchUp, Close, Reopen,
           PushArrived, FetchContext, GiveUp, Skip, EndReview, CancelReview, Wake,
           SeeMove, SeeNone, SleepOver
      <4>3. \/ at' = at
            \/ \E v \in Worker : \/ at' = [at EXCEPT ![v] = "setup"]
                                 \/ at' = [at EXCEPT ![v] = "idle"]
        BY <3>2, Zenon DEF Next, JobStep, WatcherStep, vars, Push, CatchUp, Close, Reopen,
           PushArrived, FetchContext, GiveUp, Skip, EndReview, CancelReview, Wake,
           SeeMove, SeeNone, SleepOver
      <4>4. Reviewing(w)
        BY <1>0, <4>3 DEF Reviewing
      <4>5. condemned[w] => condemned'[w]
        BY <1>0, <4>2
      <4> QED BY <4>1, <4>4, <4>5 DEF posting
    <3> QED BY <3>1, <3>2
  <2> QED BY <2>1 DEF WritesInv
<1> QED BY <1>1, <1>2

(* What a checker's step leads to where it is made.  A request is sent by  *)
(* a condemned review only from where none has been sent since.            *)
LEMMA CheckersWindDown ==
    ASSUME Typed, RegistryInv, WritesInv, NEW w \in Worker, NEW c \in Checker,
           \/ Finish(w, c) \/ Abort(w, c) \/ LastPost(w, c) \/ StillCurrent(w, c)
           \/ NotCurrent(w, c) \/ StartWrite(w, c) \/ EndWrite(w, c)
           \/ TryLater(w, c) \/ WaitOver(w, c) \/ Resend(w, c)
    PROVE  /\ check'[w][c] \notin Writes => attempt'[w][c] = "none"
           /\ late'[w][c] # 0 =>
                 /\ condemned[w]
                 /\ check'[w][c] # "running"
                 /\ attempt'[w][c] \in {"none", "sent"}
           /\ late'[w][c] # late[w][c] =>
                 /\ late[w][c] = 0
                 /\ attempt[w][c] # "none" \/ check[w][c] = "running"
<1>0. /\ check \in [Worker -> [Checker -> CheckerStates]]
      /\ attempt \in [Worker -> [Checker -> Stages]]
      /\ late \in [Worker -> [Checker -> Nat]]
      /\ condemned \in [Worker -> BOOLEAN]
  BY DEF Typed, TypeOK
<1>1. Reviewing(w)
  BY CheckerMoves
<1>2. /\ check[w][c] \notin Writes => attempt[w][c] = "none"
      /\ late[w][c] # 0 => /\ condemned[w]
                           /\ check[w][c] # "running"
                           /\ attempt[w][c] \in {"none", "sent"}
  BY <1>1 DEF WritesInv
<1>3. condemned[w] => gen[w] \in fired
  BY <1>1 DEF RegistryInv, CondemnedAreFired
<1>4. "running" \notin Writes /\ "outcome" \notin Writes /\ "done" \notin Writes
  BY DEF Writes
<1>5. \A s \in Writes : "running" \notin After(s)
  BY DEF After, Writes
<1>6. CASE Finish(w, c) \/ StillCurrent(w, c) \/ NotCurrent(w, c)
  <2>1. /\ check[w][c] \in {"running", "outcome"}
        /\ \E to \in {"outcome", "check_run", "done"} : check' = [check EXCEPT ![w][c] = to]
        /\ UNCHANGED <<attempt, late>>
    BY <1>6 DEF Finish, StillCurrent, NotCurrent, CheckerGoes
  <2> QED BY <1>0, <1>2, <1>4, <2>1
<1>7. CASE Abort(w, c)
  <2>1. /\ check' = [check EXCEPT ![w][c] = "done"]
        /\ attempt' = [attempt EXCEPT ![w][c] = "none"]
        /\ late' = late
    BY <1>7 DEF Abort, CheckerGoes
  <2> QED BY <1>0, <1>2, <2>1
<1>8. CASE LastPost(w, c)
  <2>1. /\ check[w][c] = "running"
        /\ check' = [check EXCEPT ![w][c] = "done"]
        /\ attempt' = attempt
        /\ late' = [late EXCEPT ![w][c] = IF condemned[w] THEN @ + 1 ELSE @]
    BY <1>8 DEF LastPost, CheckerGoes, CountLate
  <2> QED BY <1>0, <1>2, <1>4, <2>1
<1>9. CASE StartWrite(w, c) \/ TryLater(w, c)
  <2>1. ~condemned[w] /\ late[w][c] = 0
    BY <1>2, <1>3, <1>9 DEF StartWrite, MayWrite, TryLater
  <2>2. /\ check[w][c] \in Writes /\ check' = check
        /\ \E to \in Stages : attempt' = [attempt EXCEPT ![w][c] = to]
        /\ late'[w][c] = late[w][c]
    BY <1>0, <1>9, <2>1
    DEF StartWrite, TryLater, WriteGoes, Writing, CountLate, Stages
  <2> QED BY <1>0, <1>2, <2>1, <2>2
<1>10. CASE EndWrite(w, c)
  <2>1. /\ \E s \in Writes : \E t \in After(s) : check' = [check EXCEPT ![w][c] = t]
        /\ attempt' = [attempt EXCEPT ![w][c] = "none"]
        /\ late' = late
    BY <1>10 DEF EndWrite, CheckerGoes
  <2> QED BY <1>0, <1>2, <1>5, <2>1
<1>11. CASE WaitOver(w, c) \/ Resend(w, c)
  <2>1. /\ check[w][c] \in Writes /\ check' = check
        /\ attempt[w][c] \in {"waiting", "settling", "looking"}
        /\ \/ /\ attempt' = [attempt EXCEPT ![w][c] = "sent"]
              /\ late' = [late EXCEPT ![w][c] = IF condemned[w] THEN @ + 1 ELSE @]
           \/ late' = late
    BY <1>11 DEF WaitOver, Resend, WriteGoes, Writing, CountLate
  <2>2. late[w][c] = 0
    BY <1>2, <2>1
  <2> QED BY <1>0, <1>4, <2>1, <2>2
<1> QED BY <1>6, <1>7, <1>8, <1>9, <1>10, <1>11

LEMMA WritesStep ==
    ASSUME Typed, RegistryInv, WritesInv, [Next]_vars PROVE WritesInv'
<1>1. CASE ~\E w \in Worker : CheckerStep(w)
  BY <1>1, WritesLeftAlone
<1>2. ASSUME NEW v \in Worker, CheckerStep(v) PROVE WritesInv'
  <2>1. PICK d \in Checker :
          \/ Finish(v, d) \/ Abort(v, d) \/ LastPost(v, d) \/ StillCurrent(v, d)
          \/ NotCurrent(v, d) \/ StartWrite(v, d) \/ EndWrite(v, d)
          \/ TryLater(v, d) \/ WaitOver(v, d) \/ Resend(v, d)
    BY <1>2 DEF CheckerStep
  <2>2. /\ UNCHANGED <<at, condemned>>
        /\ \A w \in Worker, c \in Checker : w # v \/ c # d =>
              /\ check'[w][c] = check[w][c]
              /\ attempt'[w][c] = attempt[w][c]
              /\ late'[w][c] = late[w][c]
    <3>1. /\ check \in [Worker -> [Checker -> CheckerStates]]
          /\ attempt \in [Worker -> [Checker -> Stages]]
          /\ late \in [Worker -> [Checker -> Nat]]
      BY DEF Typed, TypeOK
    <3>2. /\ check' = check \/ \E to \in CheckerStates : check' = [check EXCEPT ![v][d] = to]
          /\ attempt' = attempt
               \/ \E stage \in Stages : attempt' = [attempt EXCEPT ![v][d] = stage]
          /\ late' = late
               \/ late' = [late EXCEPT ![v][d] = IF condemned[v] THEN @ + 1 ELSE @]
      BY <2>1, CheckerMoves DEF CountLate
    <3>3. UNCHANGED <<at, condemned>>
      BY <2>1, CheckerMoves
    <3> QED BY <3>1, <3>2, <3>3
  <2>3. /\ check'[v][d] \notin Writes => attempt'[v][d] = "none"
        /\ late'[v][d] # 0 => /\ condemned[v]
                              /\ check'[v][d] # "running"
                              /\ attempt'[v][d] \in {"none", "sent"}
    BY <2>1, CheckersWindDown
  <2> QED BY <2>2, <2>3 DEF WritesInv, Reviewing
<1> QED BY <1>1, <1>2

THEOREM WritesInvariant == Spec => []WritesInv
<1>1. Init => WritesInv
  BY DEF Init, WritesInv, Reviewing
<1> QED
  BY <1>1, WritesStep, RegistryInvariant, PTL DEF Spec

(* Once a close, a newer review or its own watcher has put an end to a     *)
(* review, its checkers begin no write, and each sends at most one more    *)
(* request, of the write it was at (client.rs:271-364) or a last one of    *)
(* its own (run.rs:238).                                                   *)
THEOREM TheCondemnedWindDown == Spec => CondemnedWindsDown
<1> DEFINE Sends == \A w \in Worker, c \in Checker :
             late'[w][c] > late[w][c] =>
                 late[w][c] = 0 /\ (attempt[w][c] # "none" \/ check[w][c] = "running")
<1>1. ASSUME Typed, RegistryInv, WritesInv, [Next]_vars PROVE Sends \/ UNCHANGED vars
  <2> SUFFICES ASSUME NEW w \in Worker, NEW c \in Checker, late'[w][c] > late[w][c]
               PROVE  late[w][c] = 0 /\ (attempt[w][c] # "none" \/ check[w][c] = "running")
    OBVIOUS
  <2>1. late \in [Worker -> [Checker -> Nat]]
    BY <1>1 DEF Typed, TypeOK
  <2>2. late'[w][c] # late[w][c]
    BY <2>1
  <2>3. CASE \E v \in Worker : CheckerStep(v)
    <3>1. PICK v \in Worker, d \in Checker :
            \/ Finish(v, d) \/ Abort(v, d) \/ LastPost(v, d) \/ StillCurrent(v, d)
            \/ NotCurrent(v, d) \/ StartWrite(v, d) \/ EndWrite(v, d)
            \/ TryLater(v, d) \/ WaitOver(v, d) \/ Resend(v, d)
      BY <2>3 DEF CheckerStep
    <3>2. late' = late \/ CountLate(v, d)
      BY <3>1, CheckerMoves
    <3>3. w = v /\ c = d
      BY <2>1, <2>2, <3>2 DEF CountLate
    <3> QED BY <1>1, <2>2, <3>1, <3>3, CheckersWindDown
  <2>4. CASE ~\E v \in Worker : CheckerStep(v)
    <3>1. late' = late \/ \E v \in Worker : late' = [late EXCEPT ![v] = [d \in Checker |-> 0]]
      BY <1>1, <2>4, Zenon DEF Next, JobStep, WatcherStep, vars, posting, Push, CatchUp, Close,
         Reopen, PushArrived, FetchContext, GiveUp, Skip, Register, EndReview,
         CancelReview, Wake, SeeMove, SeeNone, SleepOver
    <3>2. late'[w][c] = late[w][c] \/ late'[w][c] = 0
      BY <2>1, <3>1
    <3> QED BY <2>1, <2>2, <3>2
  <2> QED BY <2>3, <2>4
<1> QED
  BY <1>1, RegistryInvariant, WritesInvariant, PTL DEF Spec, CondemnedWindsDown

-----------------------------------------------------------------------------
(* The watcher.                                                            *)

(* What a watcher that was told of a push, and has woken since, has done   *)
(* about it: it sleeps until reads show that push, looks at what they show *)
(* and, if that lookup succeeds, has seen the head its review is of.       *)
Told(w) == Live(w) /\ gen[w] \notin recheck /\ told[w] # 0

Answered(w) ==
    Told(w) =>
        /\ watch[w] \in {"asleep", "looking_again"} => told[w] <= floor[w]
        /\ watch[w] = "looking_again" => floor[w] <= replica
        /\ watch[w] \in {"asleep_again", "waiting"} /\ missed[w] = FALSE =>
              \E k \in told[w] .. Len(heads) : heads[k] = sha[w]

WatcherInv == \A w \in Worker : Answered(w)

(* Pushes are only ever added, and reads do not go back. *)
LEMMA HeadsGrow ==
    ASSUME Typed, [Next]_vars
    PROVE  /\ Len(heads) \in Nat /\ Len(heads') \in Nat /\ Len(heads) <= Len(heads')
           /\ \A k \in 1 .. Len(heads) : heads'[k] = heads[k]
           /\ replica \in 1 .. Len(heads) /\ replica' \in Int /\ replica <= replica'
<1>1. heads \in Seq(Sha) /\ replica \in 1 .. Len(heads) /\ Len(heads) \in Nat
  BY ConstantTypes DEF Typed, TypeOK
<1>2. CASE Push
  <2>1. PICK s \in Sha : heads' = Append(heads, s)
    BY <1>2 DEF Push
  <2>2. replica' = replica \/ replica' = Len(heads) + 1
    BY <1>2 DEF Push
  <2> QED BY <1>1, <2>1, <2>2
<1>3. CASE CatchUp
  BY <1>1, <1>3 DEF CatchUp
<1>4. CASE \E w \in Worker : CheckerStep(w)
  <2>1. UNCHANGED github
    BY <1>4, CheckerMoves DEF CheckerStep
  <2> QED BY <1>1, <2>1 DEF github
<1>5. ASSUME ~Push, ~CatchUp, ~\E w \in Worker : CheckerStep(w)
      PROVE  heads' = heads /\ replica' = replica
  BY <1>5, ZenonT(60) DEF Next, vars, github, Close, Reopen, PushArrived, JobStep,
     WatcherStep, FetchContext, GiveUp, Skip, Register, EndReview, CancelReview, Wake,
     SeeMove, SeeNone, SleepOver
<1> QED BY <1>1, <1>2, <1>3, <1>4, <1>5

(* A step that does not touch a watcher leaves it what it has seen. *)
LEMMA WatcherLeftAlone ==
    ASSUME Typed, [Next]_vars, NEW w \in Worker, Answered(w),
           watch'[w] = watch[w], floor'[w] = floor[w], missed'[w] = missed[w],
           Told(w)' => Told(w) /\ told'[w] = told[w] /\ sha'[w] = sha[w]
    PROVE  Answered(w)'
<1> SUFFICES ASSUME Told(w)'
             PROVE  /\ watch[w] \in {"asleep", "looking_again"} => told[w] <= floor[w]
                    /\ watch[w] = "looking_again" => floor[w] <= replica'
                    /\ watch[w] \in {"asleep_again", "waiting"} /\ missed[w] = FALSE =>
                          \E k \in told[w] .. Len(heads') : heads'[k] = sha[w]
  BY Zenon DEF Answered
<1>1. /\ Told(w) /\ floor[w] \in Int /\ told[w] \in 0 .. Len(heads) /\ told[w] # 0
  BY DEF Typed, TypeOK, Told
<1>2. /\ watch[w] \in {"asleep", "looking_again"} => told[w] <= floor[w]
      /\ watch[w] = "looking_again" => floor[w] <= replica
      /\ watch[w] \in {"asleep_again", "waiting"} /\ missed[w] = FALSE =>
            \E k \in told[w] .. Len(heads) : heads[k] = sha[w]
  BY <1>1 DEF Answered
<1>3. ASSUME NEW k \in told[w] .. Len(heads), heads[k] = sha[w]
      PROVE  k \in told[w] .. Len(heads') /\ heads'[k] = sha[w]
  BY <1>1, <1>3, HeadsGrow
<1>4. watch[w] = "looking_again" => floor[w] <= replica'
  BY <1>1, <1>2, HeadsGrow
<1> QED BY <1>2, <1>3, <1>4

(* One case for each step that moves a watcher, registers or notifies it.  *)
LEMMA WatcherInvStep ==
    ASSUME Typed, RegistryInv, WatcherInv, [Next]_vars PROVE WatcherInv'
<1> SUFFICES ASSUME NEW w \in Worker PROVE Answered(w)'
  BY DEF WatcherInv
<1>0. /\ Answered(w) /\ at \in [Worker -> {"idle", "setup", "reviewing"}]
      /\ sha \in [Worker -> Sha] /\ told \in [Worker -> 0 .. Len(heads)]
      /\ watch \in [Worker -> {"off", "waiting", "looking", "asleep",
                               "looking_again", "asleep_again"}]
      /\ floor \in [Worker -> 1 .. Len(heads)] /\ missed \in [Worker -> BOOLEAN]
      /\ gen \in [Worker -> 0 .. nextGeneration - 1]
      /\ Len(heads) \in Nat
  BY HeadsGrow DEF Typed, TypeOK, WatcherInv
<1>1. CASE Push \/ CatchUp \/ Close \/ Reopen \/ UNCHANGED vars
  <2>1. UNCHANGED <<registry, at, sha, gen, watcher>>
    BY <1>1 DEF Push, CatchUp, Close, Reopen, vars
  <2>2. Told(w)' <=> Told(w)
    BY <2>1 DEF Told, Live, Reviewing, registry, watcher
  <2> QED BY <1>0, <2>1, <2>2, WatcherLeftAlone DEF watcher
<1>2. ASSUME NEW k \in undelivered, PushArrived(k) PROVE Answered(w)'
  <2>1. /\ UNCHANGED <<watch, floor, missed, sha, at, gen, fired, entry>>
        /\ \/ recheck' = recheck /\ told' = told
           \/ /\ recheck' = recheck \cup {entry.generation}
              /\ told' = [v \in Worker |->
                    IF Reviewing(v) /\ gen[v] = entry.generation /\ told[v] < k
                    THEN k ELSE told[v]]
    BY <1>2 DEF PushArrived
  <2>2. Told(w)' => Told(w) /\ told'[w] = told[w]
    BY <2>1 DEF Told, Live, Reviewing
  <2> QED BY <1>0, <2>1, <2>2, WatcherLeftAlone
<1>3. ASSUME NEW v \in Worker, FetchContext(v) \/ GiveUp(v) \/ Skip(v) PROVE Answered(w)'
  <2>1. /\ UNCHANGED <<watch, floor, missed, told, gen, fired, recheck>>
        /\ at[v] # "reviewing" /\ at'[v] # "reviewing"
        /\ \A u \in Worker \ {v} : at'[u] = at[u] /\ sha'[u] = sha[u]
    BY <1>0, <1>3 DEF FetchContext, GiveUp, Skip, registry, watcher
  <2>2. Told(w)' => Told(w) /\ sha'[w] = sha[w]
    BY <2>1 DEF Told, Live, Reviewing
  <2> QED BY <1>0, <2>1, <2>2, WatcherLeftAlone
<1>4. ASSUME NEW v \in Worker, Register(v) PROVE Answered(w)'
  <2>1. /\ UNCHANGED <<floor, recheck, sha>> /\ fired \subseteq fired'
        /\ told'[v] = 0
        /\ \A u \in Worker \ {v} : /\ at'[u] = at[u] /\ gen'[u] = gen[u]
                                   /\ watch'[u] = watch[u] /\ told'[u] = told[u]
                                   /\ missed'[u] = missed[u]
    BY <1>0, <1>4 DEF Register, FireEntry
  <2>2. CASE w = v
    BY <2>1, <2>2, Zenon DEF Answered, Told
  <2>3. CASE w # v
    <3>1. Told(w)' => Told(w)
      BY <2>1, <2>3 DEF Told, Live, Reviewing
    <3> QED BY <1>0, <2>1, <2>3, <3>1, WatcherLeftAlone
  <2> QED BY <2>2, <2>3
<1>5. ASSUME NEW v \in Worker, EndReview(v) PROVE Answered(w)'
  <2>1. /\ UNCHANGED <<floor, missed, told, sha, gen, fired, recheck>>
        /\ at'[v] = "idle" 
        /\ \A u \in Worker \ {v} : at'[u] = at[u] /\ watch'[u] = watch[u]
    BY <1>0, <1>5 DEF EndReview
  <2>2. CASE w = v
    BY <2>1, <2>2 DEF Answered, Told, Live, Reviewing
  <2>3. CASE w # v
    <3>1. Told(w)' => Told(w)
      BY <2>1, <2>3 DEF Told, Live, Reviewing
    <3> QED BY <1>0, <2>1, <2>3, <3>1, WatcherLeftAlone
  <2> QED BY <2>2, <2>3
<1>6. ASSUME NEW v \in Worker, CancelReview(v) PROVE Answered(w)'
  <2>1. UNCHANGED <<watch, floor, missed, told, sha, gen, at, recheck>> /\ fired \subseteq fired'
    BY <1>6 DEF CancelReview, FireEntry, watcher
  <2>2. Told(w)' => Told(w)
    BY <2>1 DEF Told, Live, Reviewing
  <2> QED BY <1>0, <2>1, <2>2, WatcherLeftAlone
<1>7. ASSUME NEW v \in Worker, CheckerStep(v) PROVE Answered(w)'
  <2>1. UNCHANGED <<registry, at, sha, gen, watcher>>
    BY <1>7, CheckerMoves DEF CheckerStep
  <2>2. Told(w)' <=> Told(w)
    BY <2>1 DEF Told, Live, Reviewing, registry, watcher
  <2> QED BY <1>0, <2>1, <2>2, WatcherLeftAlone DEF watcher
<1>8. ASSUME NEW v \in Worker, Wake(v) PROVE Answered(w)'
  <2>1. /\ UNCHANGED <<floor, missed, told, sha, gen, at, fired>>
        /\ watch'[v] = "looking" /\ recheck' = recheck \ {gen[v]} /\ Reviewing(v)
        /\ \A u \in Worker \ {v} : watch'[u] = watch[u]
    BY <1>0, <1>8 DEF Wake, Typed, ReviewsShaped
  <2>2. CASE w = v
    BY <2>1, <2>2 DEF Answered
  <2>3. CASE w # v
    <3>1. Told(w)' => Told(w)
      BY <2>1, <2>3 DEF Told, Live, Reviewing, RegistryInv, GenerationsApart
    <3> QED BY <1>0, <2>1, <2>3, <3>1, WatcherLeftAlone
  <2> QED BY <2>2, <2>3
<1>9. ASSUME NEW v \in Worker, SeeMove(v) PROVE Answered(w)'
  <2>1. /\ UNCHANGED <<floor, missed, told, sha, gen, at, recheck>>
        /\ fired' = fired \cup {gen[v]}
        /\ \A u \in Worker \ {v} : watch'[u] = watch[u]
    BY <1>0, <1>9 DEF SeeMove
  <2>2. CASE w = v
    BY <2>1, <2>2 DEF Answered, Told, Live
  <2>3. CASE w # v
    <3>1. Told(w)' => Told(w)
      BY <2>1, <2>3 DEF Told, Live, Reviewing
    <3> QED BY <1>0, <2>1, <2>3, <3>1, WatcherLeftAlone
  <2> QED BY <2>2, <2>3
<1>10. ASSUME NEW v \in Worker, NEW failed \in BOOLEAN, SeeNone(v, failed) PROVE Answered(w)'
  <2>1. /\ UNCHANGED <<told, sha, gen, at, recheck, fired, heads, replica>>
        /\ watch' = [watch EXCEPT ![v] = SleepOf(v)]
        /\ floor' = [floor EXCEPT ![v] = Len(heads)]
        /\ missed' = [missed EXCEPT ![v] = failed]
        /\ Looking(v) /\ (failed = FALSE => Seen = sha[v])
    BY <1>10 DEF SeeNone, registry, github
  <2>2. Told(w)' <=> Told(w)
    BY <2>1 DEF Told, Live, Reviewing
  <2>3. CASE w = v
    <3>1. told[w] <= Len(heads) /\ told[w] \in Nat
      BY <1>0
    <3>2. CASE watch[w] = "looking"
      <4>1. watch'[w] = "asleep" /\ floor'[w] = Len(heads)
        BY <1>0, <2>1, <2>3, <3>2 DEF SleepOf
      <4> QED BY <2>1, <3>1, <4>1 DEF Answered
    <3>3. CASE watch[w] = "looking_again"
      <4>1. watch'[w] = "asleep_again" /\ missed'[w] = failed
        BY <1>0, <2>1, <2>3, <3>3 DEF SleepOf
      <4>2. ASSUME Told(w), failed = FALSE
            PROVE  \E k \in told[w] .. Len(heads) : heads[k] = sha[w]
        <5>1. told[w] <= floor[w] /\ floor[w] <= replica
          BY <1>0, <3>3, <4>2 DEF Answered
        <5>2. replica \in told[w] .. Len(heads)
          BY <1>0, <3>1, <5>1, HeadsGrow
        <5> QED BY <2>1, <2>3, <4>2, <5>2 DEF Seen
      <4> QED BY <2>1, <2>2, <4>1, <4>2, Zenon DEF Answered
    <3> QED BY <2>1, <2>3, <3>2, <3>3 DEF Looking
  <2>4. CASE w # v
    BY <1>0, <2>1, <2>2, <2>4, WatcherLeftAlone
  <2> QED BY <2>3, <2>4
<1>11. ASSUME NEW v \in Worker, SleepOver(v) PROVE Answered(w)'
  <2>1. /\ UNCHANGED <<told, sha, gen, at, recheck, fired, heads, replica, floor, missed>>
        /\ floor[v] <= replica
        /\ \/ watch[v] = "asleep" /\ watch' = [watch EXCEPT ![v] = "looking_again"]
           \/ watch[v] = "asleep_again" /\ watch' = [watch EXCEPT ![v] = "waiting"]
    BY <1>0, <1>11, HeadsGrow DEF SleepOver, registry, github
  <2>2. Told(w)' <=> Told(w)
    BY <2>1 DEF Told, Live, Reviewing
  <2>3. CASE w = v
    <3>1. \/ watch[w] = "asleep" /\ watch'[w] = "looking_again"
          \/ watch[w] = "asleep_again" /\ watch'[w] = "waiting"
      BY <1>0, <2>1, <2>3
    <3> QED BY <1>0, <2>1, <2>2, <2>3, <3>1 DEF Answered
  <2>4. CASE w # v
    BY <1>0, <2>1, <2>2, <2>4, WatcherLeftAlone
  <2> QED BY <2>3, <2>4
<1> QED BY <1>1, <1>2, <1>3, <1>4, <1>5, <1>6, <1>7, <1>8, <1>9, <1>10, <1>11, Zenon
        DEF Next, JobStep, WatcherStep

(* watch_head loses no wake-up (dispatcher/run.rs:560): a watcher that     *)
(* waits has seen its head at the last push it was told of or after it,    *)
(* however late GitHub's reads and deliveries are, if they lag by less     *)
(* than RECHECK_INTERVAL and the repeated lookup succeeds.                 *)
THEOREM WatchersCatchUp == Spec => []WatcherCaughtUp
<1>1. Init => WatcherInv
  BY DEF Init, WatcherInv, Answered, Told
<1>2. Typed /\ RegistryInv /\ WatcherInv /\ [Next]_vars => WatcherInv'
  BY WatcherInvStep
<1>3. Typed /\ WatcherInv => WatcherCaughtUp
  <2> SUFFICES ASSUME Typed, WatcherInv, NEW w \in Worker, watch[w] = "waiting", Live(w),
                      gen[w] \notin recheck, told[w] # 0, ~missed[w]
               PROVE  \E k \in told[w] .. Len(heads) : heads[k] = sha[w]
    BY DEF WatcherCaughtUp
  <2>1. missed[w] = FALSE
    BY DEF Typed, TypeOK
  <2> QED BY <2>1 DEF WatcherInv, Answered, Told
<1> QED
  BY <1>1, <1>2, <1>3, RegistryInvariant, PTL DEF Spec
=============================================================================
