------------------------- MODULE CredentialsProofs -------------------------
(***************************************************************************)
(* Credentials, for any callers, any lifetimes, margins and delays, and    *)
(* any number of installations.  CredentialsInv dates everything a call or *)
(* a cache holds: a token by the last instant its installation was there,  *)
(* a miss by the last instant there was none.  These instants never go     *)
(* back, so a call or an entry that is overtaken stays as true as it was.  *)
(***************************************************************************)
EXTENDS Credentials, TLAPS

(* The invariant holds at first.                                           *)
THEOREM InitCorrect == Init => CredentialsInv
  <1> SUFFICES ASSUME Init PROVE CredentialsInv
    OBVIOUS
  <1> USE CredentialsAssumption DEF Init
  <1>1. TypeOK
    BY DEF TypeOK, NoEntry, Installation, Results
  <1>2. GitHubInv
    BY DEF GitHubInv
  <1>3. CachesInv
    BY DEF CachesInv, NoEntry
  <1>4. \A c \in Caller : CallInv(c)
    BY DEF CallInv, Over, Results, Resolving
  <1> QED BY <1>1, <1>2, <1>3, <1>4 DEF CredentialsInv

-----------------------------------------------------------------------------
(* The invariant by owner: GitHub, the caches, and each call.              *)
GitHubOK ==
    /\ clock \in 0 .. MaxTime /\ missing \in 0 .. MaxTime
    /\ app \in Installation \cup {0}
    /\ alive \in [Installation -> -1 .. MaxTime]
    /\ GitHubInv

CachesOK ==
    /\ entry \in [kind : {"none", "missing", "cached"},
                  id : Installation \cup {0}, at : 0 .. MaxTime]
    /\ entry.kind = "cached" => Known(entry.id)
    /\ tokens \in [Installation -> Nat]
    /\ memory \in [Installation -> Nat]
    /\ \A i \in Installation : tokens[i] > 0 \/ memory[i] > 0 => Known(i)
    /\ CachesInv

Places == Results \cup Resolving \cup {"entry", "lookup", "put", "invalidate"}

LocalsTyped ==
    /\ at \in [Caller -> Places]
    /\ began \in [Caller -> 0 .. MaxTime]
    /\ id \in [Caller -> Installation \cup {0}]
    /\ expires \in [Caller -> Nat]
    /\ retry \in [Caller -> {"may", "done", "never"}]

CallOK(c) ==
    /\ at[c] \in Resolving => Known(id[c])
    /\ CallInv(c)

(* The three parts are the invariant.                                      *)
LEMMA Parts ==
    CredentialsInv <=>
        GitHubOK /\ CachesOK /\ LocalsTyped /\ \A c \in Caller : CallOK(c)
  <1>1. Places = Results \cup {"entry", "lookup", "put", "memory", "table",
                     "fill", "mint", "store", "forget", "invalidate"}
    BY DEF Places, Resolving
  <1>2. (/\ LocalsTyped
         /\ \A c \in Caller : at[c] \in Resolving => Known(id[c]))
        <=>
        (/\ at \in [Caller -> Results \cup {"entry", "lookup", "put", "memory", "table",
                     "fill", "mint", "store", "forget", "invalidate"}]
         /\ began \in [Caller -> 0 .. MaxTime]
         /\ id \in [Caller -> Installation \cup {0}]
         /\ expires \in [Caller -> Nat]
         /\ retry \in [Caller -> {"may", "done", "never"}]
         /\ \A c \in Caller :
              at[c] \in {"memory", "table", "fill", "mint", "store", "forget"} =>
                  Known(id[c]))
    BY <1>1 DEF LocalsTyped, Resolving
  <1>3. (\A c \in Caller : CallOK(c)) <=>
        /\ \A c \in Caller : at[c] \in Resolving => Known(id[c])
        /\ \A c \in Caller : CallInv(c)
    BY DEF CallOK
  <1> QED BY <1>2, <1>3, Zenon DEF CredentialsInv, TypeOK, GitHubOK, CachesOK

(* What a step does that other calls can notice. *)
Grow ==
    /\ clock' >= clock /\ missing' >= missing
    /\ \A i \in Installation : alive'[i] >= alive[i]

Others(c) ==
    \A d \in Caller \ {c} :
        /\ at'[d] = at[d] /\ began'[d] = began[d] /\ id'[d] = id[d]
        /\ expires'[d] = expires[d] /\ retry'[d] = retry[d]

EntryIsNews ==
    \/ entry' = entry
    \/ entry'.kind = "cached" => alive'[entry'.id] >= clock' - Late

(* The clock does not go back, nor do the last instants: GitHub's steps    *)
(* only move them, the others leave them alone.                            *)
LEMMA TimesOnlyGrow ==
    ASSUME GitHubOK, Next
    PROVE  GitHubOK' /\ Grow
  <1>0. /\ MaxTime \in Nat /\ 0 \notin Installation /\ Installation \subseteq Int
        /\ clock \in 0 .. MaxTime /\ missing \in 0 .. MaxTime
        /\ app \in Installation \cup {0}
        /\ alive \in [Installation -> -1 .. MaxTime]
        /\ GitHubInv
    BY CredentialsAssumption DEF GitHubOK, Installation
  <1>1. CASE Tick
    <2>1. /\ clock < MaxTime /\ clock' = clock + 1 /\ app' = app
          /\ alive' = IF app = 0 THEN alive ELSE [alive EXCEPT ![app] = clock + 1]
          /\ missing' = IF app = 0 THEN clock + 1 ELSE missing
      BY <1>1 DEF Tick
    <2>2. CASE app = 0
      BY <1>0, <2>1, <2>2 DEF GitHubInv, GitHubOK, Grow
    <2>3. CASE app # 0
      BY <1>0, <2>1, <2>3 DEF GitHubInv, GitHubOK, Grow
    <2> QED BY <2>2, <2>3
  <1>2. CASE Install
    <2> PICK i \in Installation :
            /\ \A j \in Installation : alive[j] = -1 <=> j >= i
            /\ app' = i
            /\ alive' = [alive EXCEPT ![i] = clock]
      BY <1>2 DEF Install
    <2>1. clock' = clock /\ missing' = missing
      BY <1>2 DEF Install
    <2>2. alive[i] = -1
      BY <1>0
    <2> QED BY <1>0, <2>1, <2>2 DEF GitHubInv, GitHubOK, Grow
  <1>3. CASE Uninstall
    <2>1. /\ app' = 0 /\ missing' = clock /\ clock' = clock /\ alive' = alive
      BY <1>3 DEF Uninstall
    <2> QED BY <1>0, <2>1 DEF GitHubInv, GitHubOK, Grow
  <1>4. ASSUME UNCHANGED github PROVE GitHubOK' /\ Grow
    <2>1. clock' = clock /\ app' = app /\ alive' = alive /\ missing' = missing
      BY <1>4 DEF github
    <2> QED BY <1>0, <2>1 DEF GitHubInv, GitHubOK, Grow
  <1>5. Webhook \/ Restart => UNCHANGED github
    BY DEF Webhook, Restart
  <1>6. ASSUME NEW c \in Caller,
               ForIdentity(c) \/ ForInstallation(c) \/ Resolve(c) \/ GetOrMint(c) \/ Fail(c)
        PROVE  UNCHANGED github
    BY <1>6 DEF ForIdentity, ForInstallation, Begin, Resolve, ReadEntry, Lookup,
                PutEntry, Invalidate, GetOrMint, GetCached, GetToken, Fill, Mint,
                MintUnauthorized, Store, Forget, Fail
  <1> QED BY <1>1, <1>2, <1>3, <1>4, <1>5, <1>6 DEF Next

(* A call is not disturbed by a step it takes no part in: what it knows is *)
(* dated, and the dates only grow.  Time may pass while it is within its   *)
(* stall, and an entry that somebody put is news.                          *)
LEMMA CallIsNotDisturbed ==
    ASSUME GitHubOK, GitHubOK', Grow, LocalsTyped, NEW d \in Caller, CallOK(d),
           at'[d] = at[d], began'[d] = began[d], id'[d] = id[d],
           expires'[d] = expires[d], retry'[d] = retry[d],
           clock' = clock \/ (clock' = clock + 1 /\ (Over(d) \/ clock < began[d] + Stall)),
           CachesOK, CachesOK', EntryIsNews
    PROVE  CallOK(d)'
  <1>0. /\ clock \in Nat /\ clock' \in Nat /\ missing \in Int /\ missing' \in Int
        /\ began[d] \in Nat /\ id[d] \in Installation \cup {0} /\ expires[d] \in Nat
        /\ \A i \in Installation :
              alive[i] \in Int /\ alive'[i] \in Int /\ alive'[i] >= alive[i]
        /\ Stall \in Nat /\ Delay \in Nat /\ Late \in Nat /\ Life \in Nat /\ Margin \in Nat
        /\ missing' >= missing /\ clock' >= clock
    BY CredentialsAssumption DEF GitHubOK, LocalsTyped, Grow, Late
  <1>1. at[d] \in Resolving => Known(id[d]) /\ Known(id[d])'
    BY <1>0 DEF CallOK, Known
  <1>2. (~Over(d) => began[d] <= clock /\ clock <= began[d] + Stall)'
    BY <1>0 DEF CallOK, CallInv, Over
  <1>3. (at[d] \in {"fill", "store", "forget"} =>
          /\ expires[d] > began[d] + Margin
          /\ expires[d] <= alive[id[d]] + Life)'
    BY <1>0, <1>1 DEF CallOK, CallInv, Resolving, Known
  <1>4. (at[d] = "put" /\ id[d] = 0 => missing >= began[d])'
    BY <1>0 DEF CallOK, CallInv
  <1>5. (at[d] = "put" /\ id[d] # 0 => alive[id[d]] >= began[d])'
    BY <1>0 DEF CallOK, CallInv
  <1>6. (retry[d] = "done" /\ at[d] \in Resolving => alive[id[d]] >= began[d] - Late)'
    BY <1>0, <1>1 DEF CallOK, CallInv, Known
  <1>7. (retry[d] = "done" /\ at[d] = "entry" /\ entry.kind = "cached" =>
          alive[entry.id] >= began[d] - Late)'
    <2> SUFFICES ASSUME retry[d] = "done", at[d] = "entry", entry'.kind = "cached"
                 PROVE  alive'[entry'.id] >= began[d] - Late
      OBVIOUS
    <2>1. entry'.id \in Installation
      BY DEF CachesOK, Known
    <2>2. CASE entry' = entry
      BY <1>0, <2>1, <2>2 DEF CallOK, CallInv
    <2>3. CASE alive'[entry'.id] >= clock' - Late
      <3>1. began[d] <= clock'
        BY <1>2 DEF Over, Results
      <3> QED BY <1>0, <2>1, <2>3, <3>1
    <2> QED BY <2>2, <2>3 DEF EntryIsNews
  <1> QED BY <1>1, <1>2, <1>3, <1>4, <1>5, <1>6, <1>7 DEF CallOK, CallInv

-----------------------------------------------------------------------------
(* The caches, one at a time.                                              *)
EntryOK ==
    /\ entry \in [kind : {"none", "missing", "cached"},
                  id : Installation \cup {0}, at : 0 .. MaxTime]
    /\ entry.kind = "cached" => Known(entry.id)
    /\ entry.kind = "missing" => missing >= entry.at

CacheOK(cache) ==
    /\ cache \in [Installation -> Nat]
    /\ \A i \in Installation :
          cache[i] > 0 => Known(i) /\ cache[i] <= alive[i] + Life

(* What the caches need, cache by cache.                                   *)
LEMMA CacheByCache == CachesOK <=> EntryOK /\ CacheOK(tokens) /\ CacheOK(memory)
  BY Zenon DEF CachesOK, CachesInv, EntryOK, CacheOK

(* What is not written stays true of the dates as they grow.               *)
LEMMA EntryStays ==
    ASSUME GitHubOK, GitHubOK', Grow, EntryOK, entry' = entry
    PROVE  EntryOK' /\ EntryIsNews
  <1>1. missing' \in Int /\ missing \in Int /\ missing' >= missing
    BY CredentialsAssumption DEF GitHubOK, Grow
  <1>2. \A i \in Installation : Known(i) => Known(i)'
    BY CredentialsAssumption DEF GitHubOK, Grow, Known
  <1>3. entry.kind = "cached" => Known(entry.id)'
    BY <1>2 DEF EntryOK, Known
  <1>4. entry.at \in Int
    BY CredentialsAssumption DEF EntryOK
  <1> QED BY <1>1, <1>3, <1>4 DEF EntryOK, EntryIsNews, Known

LEMMA CacheStays ==
    ASSUME GitHubOK, GitHubOK', Grow
    PROVE  /\ CacheOK(tokens) /\ tokens' = tokens => CacheOK(tokens)'
           /\ CacheOK(memory) /\ memory' = memory => CacheOK(memory)'
  <1>1. \A i \in Installation :
            /\ Known(i) => Known(i)'
            /\ alive[i] \in Int /\ alive'[i] \in Int /\ alive'[i] >= alive[i]
    BY CredentialsAssumption DEF GitHubOK, Grow, Known
  <1>2. ASSUME NEW f \in [Installation -> Nat], NEW i \in Installation,
               f[i] > 0 => Known(i) /\ f[i] <= alive[i] + Life
        PROVE  f[i] > 0 => Known(i)' /\ f[i] <= alive'[i] + Life
    <2>1. f[i] \in Nat /\ Life \in Nat
      BY CredentialsAssumption
    <2> QED BY <1>1, <1>2, <2>1
  <1>3. CacheOK(tokens) /\ tokens' = tokens => CacheOK(tokens)'
    BY <1>2 DEF CacheOK
  <1>4. CacheOK(memory) /\ memory' = memory => CacheOK(memory)'
    BY <1>2 DEF CacheOK
  <1> QED BY <1>3, <1>4

LEMMA CachesStay ==
    ASSUME GitHubOK, GitHubOK', Grow, CachesOK, UNCHANGED caches
    PROVE  CachesOK' /\ EntryIsNews
  <1>1. entry' = entry /\ tokens' = tokens /\ memory' = memory
    BY DEF caches
  <1>2. EntryOK /\ CacheOK(tokens) /\ CacheOK(memory)
    BY CacheByCache
  <1>3. EntryOK' /\ EntryIsNews /\ CacheOK(tokens)' /\ CacheOK(memory)'
    BY <1>1, <1>2, EntryStays, CacheStays
  <1>4. CachesOK'
    BY <1>3, CacheByCache, PTL
  <1> QED BY <1>3, <1>4

(* A token that an installation which was there accounts for may be put in *)
(* either cache.                                                           *)
LEMMA CacheTakes ==
    ASSUME GitHubOK, NEW i \in Installation, NEW e \in Nat, NEW f,
           CacheOK(f), e > 0 => Known(i) /\ e <= alive[i] + Life
    PROVE  CacheOK([f EXCEPT ![i] = e])
  BY DEF CacheOK

(* How a call goes on.                                                     *)
LEMMA Returning ==
    ASSUME LocalsTyped, NEW c \in Caller, NEW result \in Results, Return(c, result)
    PROVE  LocalsTyped' /\ Others(c) /\ CallOK(c)'
  <1>1. at'[c] = result /\ at'[c] \in Results /\ result \in Places
    BY DEF LocalsTyped, Return, Places
  <1>2. LocalsTyped'
    BY <1>1, CredentialsAssumption DEF LocalsTyped, Return
  <1>3. Others(c)
    BY DEF LocalsTyped, Return, Others
  <1>4. at'[c] \notin Resolving \cup {"put", "entry"}
    BY <1>1 DEF Results, Resolving
  <1> QED BY <1>1, <1>2, <1>3, <1>4 DEF CallOK, CallInv, Over, Resolving

LEMMA Going ==
    ASSUME LocalsTyped, NEW c \in Caller, NEW place \in Places, Goto(c, place)
    PROVE  /\ LocalsTyped' /\ Others(c) /\ at'[c] = place
           /\ began' = began /\ id' = id /\ expires' = expires /\ retry' = retry
  BY DEF LocalsTyped, Goto, Others, locals

-----------------------------------------------------------------------------
(* Each step of a call leaves the caches and the call as the invariant     *)
(* wants them.                                                             *)
Before(c) ==
    /\ GitHubOK /\ GitHubOK' /\ Grow
    /\ CachesOK /\ LocalsTyped /\ CallOK(c)

After(c) == LocalsTyped' /\ Others(c) /\ CallOK(c)' /\ CachesOK' /\ EntryIsNews

(* The numbers the steps reckon with.                                      *)
LEMMA Numbers ==
    ASSUME GitHubOK, LocalsTyped, NEW c \in Caller
    PROVE  /\ clock \in Nat /\ missing \in Nat /\ began[c] \in Nat /\ expires[c] \in Nat
           /\ \A i \in Installation : alive[i] \in Int
           /\ Life \in Nat /\ Margin \in Nat /\ Margin < Life
           /\ Stall \in Nat /\ Delay \in Nat /\ Late \in Nat
           /\ Late >= Stall /\ Late >= Delay /\ NegativeTtl \in Nat
           /\ 0 \notin Installation
  BY CredentialsAssumption DEF GitHubOK, LocalsTyped, Late, Installation

LEMMA BeginStep ==
    ASSUME NEW c \in Caller, Before(c), ForIdentity(c) \/ ForInstallation(c)
    PROVE  After(c)
  <1>1. PICK installation \in Installation \cup {0},
             from \in {"entry", "memory"}, retries \in {"may", "never"} :
            /\ Begin(c, installation, from, retries)
            /\ retries # "done"
            /\ from = "memory" => Known(installation)
    BY DEF ForIdentity, ForInstallation, Known
  <1>2. CachesOK' /\ EntryIsNews
    BY <1>1, CachesStay DEF Before, Begin
  <1>3. /\ at'[c] = from /\ began'[c] = clock /\ id'[c] = installation
        /\ retry'[c] = retries
    BY <1>1 DEF Before, Begin, LocalsTyped
  <1>4. LocalsTyped'
    BY <1>1 DEF Before, Begin, LocalsTyped, GitHubOK, Places, Resolving
  <1>5. Others(c)
    BY <1>1 DEF Before, Begin, LocalsTyped, Others
  <1>6. clock' = clock /\ alive' = alive
    BY <1>1 DEF Begin, github
  <1>7. CallOK(c)'
    BY <1>1, <1>3, <1>6, Numbers DEF Before, CallOK, CallInv, Known, Resolving
  <1> QED BY <1>2, <1>4, <1>5, <1>7 DEF After

(* The installation is resolved: the call has one that was there no longer *)
(* before the call than news may be late, if it has started over.          *)
LEMMA ResolvedStep ==
    ASSUME NEW c \in Caller, Before(c), NEW i \in Installation, Known(i), Resolved(c, i),
           ~Over(c), UNCHANGED github,
           retry[c] = "done" => alive[i] >= began[c] - Late
    PROVE  LocalsTyped' /\ Others(c) /\ CallOK(c)'
  <1>1. CASE retry[c] = "may" /\ Return(c, "ok")
    BY <1>1, Returning DEF Before, Results
  <1>2. CASE /\ at' = [at EXCEPT ![c] = "memory"]
             /\ id' = [id EXCEPT ![c] = i]
             /\ UNCHANGED <<began, expires, retry>>
    <2>1. LocalsTyped' /\ Others(c)
      BY <1>2 DEF Before, LocalsTyped, Others, Places, Resolving
    <2>2. at'[c] = "memory" /\ id'[c] = i /\ began' = began /\ retry' = retry
      BY <1>2 DEF Before, LocalsTyped
    <2>3. clock' = clock /\ alive' = alive
      BY DEF github
    <2>4. CallOK(c)'
      BY <2>2, <2>3 DEF Before, CallOK, CallInv, Known, Resolving, Over, Results
    <2> QED BY <2>1, <2>4
  <1> QED BY <1>1, <1>2 DEF Resolved

(* resolve_installation, await by await.                                   *)
LEMMA ReadEntryStep ==
    ASSUME NEW c \in Caller, Before(c), ReadEntry(c)
    PROVE  After(c)
  <1>1. CachesOK' /\ EntryIsNews /\ UNCHANGED github /\ at[c] = "entry"
    BY CachesStay DEF Before, ReadEntry
  <1>2. CASE entry.kind = "cached" /\ Resolved(c, entry.id)
    <2>1. entry.id \in Installation /\ Known(entry.id)
      BY <1>2 DEF Before, CachesOK, Known
    <2>2. retry[c] = "done" => alive[entry.id] >= began[c] - Late
      BY <1>1, <1>2 DEF Before, CallOK, CallInv
    <2>3. ~Over(c)
      BY <1>1 DEF Over, Results
    <2> QED BY <1>1, <1>2, <2>1, <2>2, <2>3, ResolvedStep DEF After
  <1>3. CASE Return(c, "refused")
    BY <1>1, <1>3, Returning DEF Before, After, Results
  <1>4. CASE Goto(c, "lookup")
    <2>1. /\ LocalsTyped' /\ Others(c) /\ at'[c] = "lookup"
          /\ began' = began /\ clock' = clock
      BY <1>1, <1>4, Going DEF Before, Places, github
    <2>2. CallOK(c)'
      BY <1>1, <2>1 DEF Before, CallOK, CallInv, Resolving, Over, Results
    <2> QED BY <1>1, <2>1, <2>2 DEF After
  <1> QED BY <1>2, <1>3, <1>4 DEF ReadEntry

LEMMA LookupStep ==
    ASSUME NEW c \in Caller, Before(c), Lookup(c)
    PROVE  After(c)
  <1>1. CachesOK' /\ EntryIsNews
    BY CachesStay DEF Before, Lookup
  <1>2. /\ at[c] = "lookup" /\ at' = [at EXCEPT ![c] = "put"]
        /\ id' = [id EXCEPT ![c] = app] /\ began' = began /\ retry' = retry
        /\ expires' = expires /\ clock' = clock /\ alive' = alive /\ missing' = missing
    BY DEF Lookup, Go, github
  <1>3. LocalsTyped' /\ Others(c) /\ at'[c] = "put" /\ id'[c] = app
    BY <1>2 DEF Before, LocalsTyped, Others, GitHubOK, Places
  <1>4. began[c] <= clock /\ clock <= began[c] + Stall
    BY <1>2 DEF Before, CallOK, CallInv, Over, Results
  <1>5. /\ app = 0 => missing >= began[c]
        /\ app # 0 => alive[app] >= began[c]
    BY <1>4, Numbers DEF Before, GitHubOK, GitHubInv
  <1>6. CallOK(c)'
    BY <1>2, <1>3, <1>4, <1>5 DEF CallOK, CallInv, Resolving
  <1> QED BY <1>1, <1>3, <1>6 DEF After

LEMMA PutEntryStep ==
    ASSUME NEW c \in Caller, Before(c), PutEntry(c)
    PROVE  After(c)
  <1>1. at[c] = "put" /\ UNCHANGED <<github, tokens, memory>> /\ ~Over(c)
    BY DEF PutEntry, Over, Results
  <1>2. began[c] <= clock /\ clock <= began[c] + Stall /\ began[c] \in 0 .. MaxTime
    BY <1>1 DEF Before, CallOK, CallInv, LocalsTyped
  <1>3. CacheOK(tokens)' /\ CacheOK(memory)'
    BY <1>1, CacheByCache, CacheStays DEF Before
  <1>4. clock' = clock /\ alive' = alive /\ missing' = missing
    BY <1>1 DEF github
  <1>5. EntryOK' => CachesOK'
    BY <1>3, CacheByCache, PTL
  <1>6. CASE id[c] = 0 /\ entry' = Missed(began[c]) /\ Return(c, "refused")
    <2>1. missing >= began[c]
      BY <1>1, <1>6 DEF Before, CallOK, CallInv
    <2>2. EntryOK' /\ EntryIsNews
      BY <1>2, <1>4, <1>6, <2>1 DEF EntryOK, EntryIsNews, Missed
    <2> QED BY <1>5, <1>6, <2>2, Returning DEF Before, After, Results
  <1>7. CASE id[c] # 0 /\ entry' = Cached(id[c]) /\ Resolved(c, id[c])
    <2>1. id[c] \in Installation /\ alive[id[c]] >= began[c]
      BY <1>1, <1>7 DEF Before, CallOK, CallInv, LocalsTyped
    <2>2. /\ Known(id[c]) /\ alive[id[c]] >= began[c] - Late
          /\ alive[id[c]] >= clock - Late
      BY <1>2, <2>1, Numbers DEF Before, Known
    <2>3. EntryIsNews
      BY <1>4, <1>7, <2>2 DEF EntryIsNews, Cached
    <2>4. EntryOK'
      <3>1. 0 \in 0 .. MaxTime
        BY CredentialsAssumption
      <3> QED BY <1>4, <1>7, <2>1, <2>2, <3>1 DEF EntryOK, Cached, Known
    <2> QED BY <1>1, <1>5, <1>7, <2>1, <2>2, <2>3, <2>4, ResolvedStep DEF After
  <1> QED BY <1>6, <1>7 DEF PutEntry

(* A call that has resolved its installation goes on with it, and without  *)
(* a token.                                                                *)
LEMMA StayingResolved ==
    ASSUME NEW c \in Caller, Before(c), UNCHANGED <<clock, alive>>,
           at[c] \in Resolving, NEW place \in {"table", "mint"}, Goto(c, place)
    PROVE  LocalsTyped' /\ Others(c) /\ CallOK(c)'
  <1>1. /\ LocalsTyped' /\ Others(c) /\ at'[c] = place
        /\ began' = began /\ id' = id /\ retry' = retry
    BY Going DEF Before, Places, Resolving
  <1>2. CallOK(c)'
    BY <1>1 DEF Before, CallOK, CallInv, Known, Resolving, Over, Results
  <1> QED BY <1>1, <1>2

(* get_or_mint_for, await by await.                                        *)
LEMMA GetCachedStep ==
    ASSUME NEW c \in Caller, Before(c), GetCached(c)
    PROVE  After(c)
  <1>1. CachesOK' /\ EntryIsNews /\ UNCHANGED <<clock, alive>> /\ at[c] \in Resolving
    BY CachesStay DEF Before, GetCached, github, Resolving
  <1>2. CASE Return(c, "ok")
    BY <1>1, <1>2, Returning DEF Before, After, Results
  <1>3. CASE Goto(c, "table")
    BY <1>1, <1>3, StayingResolved DEF After
  <1> QED BY <1>2, <1>3 DEF GetCached

LEMMA GetTokenStep ==
    ASSUME NEW c \in Caller, Before(c), GetToken(c)
    PROVE  After(c)
  <1>1. /\ CachesOK' /\ EntryIsNews /\ UNCHANGED <<clock, alive>>
        /\ at[c] = "table" /\ at[c] \in Resolving
    BY CachesStay DEF Before, GetToken, github, Resolving
  <1>2. CASE Goto(c, "mint")
    BY <1>1, <1>2, StayingResolved DEF After
  <1>3. CASE /\ Usable(tokens[id[c]], began[c])
             /\ at' = [at EXCEPT ![c] = "fill"]
             /\ expires' = [expires EXCEPT ![c] = tokens[id[c]]]
             /\ UNCHANGED <<began, id, retry>>
    <2>1. Known(id[c]) /\ id[c] \in Installation
      BY <1>1 DEF Before, CallOK, Known
    <2>2. /\ tokens[id[c]] \in Nat
          /\ tokens[id[c]] > 0 => tokens[id[c]] <= alive[id[c]] + Life
      BY <2>1 DEF Before, CachesOK, CachesInv
    <2>3. tokens[id[c]] > began[c] + Margin /\ tokens[id[c]] <= alive[id[c]] + Life
      BY <1>3, <2>2, Numbers DEF Before, Usable
    <2>4. LocalsTyped' /\ Others(c)
      BY <1>3, <2>2 DEF Before, LocalsTyped, Others, Places, Resolving
    <2>5. /\ at'[c] = "fill" /\ expires'[c] = tokens[id[c]]
          /\ began' = began /\ id' = id /\ retry' = retry
      BY <1>3 DEF Before, LocalsTyped
    <2>6. CallOK(c)'
      BY <1>1, <2>1, <2>3, <2>5 DEF Before, CallOK, CallInv, Known, Resolving, Over, Results
    <2> QED BY <1>1, <2>4, <2>6 DEF After
  <1> QED BY <1>2, <1>3 DEF GetToken

LEMMA FillStep ==
    ASSUME NEW c \in Caller, Before(c), Fill(c)
    PROVE  After(c)
  <1>1. /\ at[c] = "fill" /\ Return(c, "ok") /\ UNCHANGED <<github, entry, tokens>>
        /\ memory' = [memory EXCEPT ![id[c]] = expires[c]]
    BY DEF Fill
  <1>2. /\ id[c] \in Installation /\ Known(id[c]) /\ expires[c] \in Nat
        /\ expires[c] <= alive[id[c]] + Life
    BY <1>1 DEF Before, CallOK, CallInv, Resolving, LocalsTyped, Known
  <1>3. CacheOK(memory) /\ CacheOK(tokens)' /\ EntryOK' /\ EntryIsNews
    BY <1>1, CacheByCache, CacheStays, EntryStays DEF Before
  <1>4. CacheOK([memory EXCEPT ![id[c]] = expires[c]])
    BY <1>2, <1>3, CacheTakes DEF Before
  <1>5. CacheOK(memory)'
    BY <1>1, <1>4 DEF CacheOK, github, Known
  <1>6. CachesOK'
    BY <1>3, <1>5, CacheByCache, PTL
  <1> QED BY <1>1, <1>3, <1>6, Returning DEF Before, After, Results

LEMMA ForgetStep ==
    ASSUME NEW c \in Caller, Before(c), Forget(c)
    PROVE  After(c)
  <1>1. /\ at[c] = "forget" /\ Return(c, "ok") /\ UNCHANGED <<github, entry, tokens>>
        /\ memory' = [memory EXCEPT ![id[c]] = 0]
    BY DEF Forget
  <1>2. id[c] \in Installation
    BY <1>1 DEF Before, CallOK, Resolving, Known
  <1>3. CacheOK(memory) /\ CacheOK(tokens)' /\ EntryOK' /\ EntryIsNews
    BY <1>1, CacheByCache, CacheStays, EntryStays DEF Before
  <1>4. CacheOK([memory EXCEPT ![id[c]] = 0])
    BY <1>2, <1>3, CacheTakes DEF Before
  <1>5. CacheOK(memory)'
    BY <1>1, <1>4 DEF CacheOK, github, Known
  <1>6. CachesOK'
    BY <1>3, <1>5, CacheByCache, PTL
  <1> QED BY <1>1, <1>3, <1>6, Returning DEF Before, After, Results

LEMMA MintStep ==
    ASSUME NEW c \in Caller, Before(c), Mint(c)
    PROVE  After(c)
  <1>1. CachesOK' /\ EntryIsNews
    BY CachesStay DEF Before, Mint
  <1>2. /\ at[c] = "mint" /\ at' = [at EXCEPT ![c] = "store"] /\ id[c] = app
        /\ expires' = [expires EXCEPT ![c] = clock + Life]
        /\ began' = began /\ id' = id /\ retry' = retry
        /\ clock' = clock /\ alive' = alive
    BY DEF Mint, Go, github
  <1>3. /\ Known(id[c]) /\ id[c] \in Installation
        /\ began[c] <= clock /\ clock <= began[c] + Stall
    BY <1>2 DEF Before, CallOK, CallInv, Known, Resolving, Over, Results
  <1>4. alive[id[c]] = clock
    BY <1>2, <1>3, Numbers DEF Before, GitHubOK, GitHubInv
  <1>5. clock + Life > began[c] + Margin /\ clock + Life <= alive[id[c]] + Life
    BY <1>3, <1>4, Numbers DEF Before
  <1>6. clock + Life \in Nat
    BY Numbers DEF Before
  <1>7. LocalsTyped' /\ Others(c) /\ at'[c] = "store" /\ expires'[c] = clock + Life
    BY <1>2, <1>6 DEF Before, LocalsTyped, Others, Places, Resolving
  <1>8. CallOK(c)'
    BY <1>2, <1>3, <1>5, <1>7 DEF Before, CallOK, CallInv, Known, Resolving
  <1> QED BY <1>1, <1>7, <1>8 DEF After

LEMMA MintUnauthorizedStep ==
    ASSUME NEW c \in Caller, Before(c), MintUnauthorized(c)
    PROVE  After(c)
  <1>1. /\ CachesOK' /\ EntryIsNews /\ UNCHANGED <<clock, alive>> /\ at[c] = "mint"
    BY CachesStay DEF Before, MintUnauthorized, github
  <1>2. CASE Goto(c, "invalidate")
    <2>1. /\ LocalsTyped' /\ Others(c) /\ at'[c] = "invalidate" /\ began' = began
      BY <1>2, Going DEF Before, Places
    <2>2. CallOK(c)'
      BY <1>1, <2>1 DEF Before, CallOK, CallInv, Resolving, Over, Results
    <2> QED BY <1>1, <2>1, <2>2 DEF After
  <1>3. CASE Return(c, "refused") \/ Return(c, "idle")
    BY <1>1, <1>3, Returning DEF Before, After, Results
  <1> QED BY <1>2, <1>3 DEF MintUnauthorized

LEMMA InvalidateStep ==
    ASSUME NEW c \in Caller, Before(c), Invalidate(c)
    PROVE  After(c)
  <1>1. /\ at[c] = "invalidate" /\ at' = [at EXCEPT ![c] = "entry"]
        /\ entry' = NoEntry /\ UNCHANGED <<github, tokens, memory>>
        /\ id' = [id EXCEPT ![c] = 0] /\ retry' = [retry EXCEPT ![c] = "done"]
        /\ began' = began /\ expires' = expires
    BY DEF Invalidate, Go, Invalidated
  <1>2. CacheOK(tokens)' /\ CacheOK(memory)'
    BY <1>1, CacheByCache, CacheStays DEF Before
  <1>3. EntryOK' /\ EntryIsNews
    BY <1>1, CredentialsAssumption DEF EntryOK, EntryIsNews, NoEntry
  <1>4. CachesOK'
    BY <1>2, <1>3, CacheByCache, PTL
  <1>5. LocalsTyped' /\ Others(c)
    BY <1>1 DEF Before, LocalsTyped, Others, Places
  <1>6. at'[c] = "entry" /\ id'[c] = 0 /\ clock' = clock /\ entry'.kind = "none"
    BY <1>1 DEF Before, LocalsTyped, github, NoEntry
  <1>7. CallOK(c)'
    BY <1>1, <1>6 DEF Before, CallOK, CallInv, Resolving, Over, Results
  <1> QED BY <1>3, <1>4, <1>5, <1>7 DEF After

LEMMA StoreStep ==
    ASSUME NEW c \in Caller, Before(c), Store(c)
    PROVE  After(c)
  <1>1. /\ at[c] = "store" /\ Goto(c, "forget") /\ UNCHANGED <<github, entry, memory>>
        /\ tokens' = [tokens EXCEPT ![id[c]] = expires[c]]
    BY DEF Store, Stored
  <1>2. /\ id[c] \in Installation /\ Known(id[c]) /\ expires[c] \in Nat
        /\ expires[c] <= alive[id[c]] + Life
    BY <1>1 DEF Before, CallOK, CallInv, Resolving, LocalsTyped, Known
  <1>3. CacheOK(tokens) /\ CacheOK(memory)' /\ EntryOK' /\ EntryIsNews
    BY <1>1, CacheByCache, CacheStays, EntryStays DEF Before
  <1>4. CacheOK([tokens EXCEPT ![id[c]] = expires[c]])
    BY <1>2, <1>3, CacheTakes DEF Before
  <1>5. CacheOK(tokens)'
    BY <1>1, <1>4 DEF CacheOK, github, Known
  <1>6. CachesOK'
    BY <1>3, <1>5, CacheByCache, PTL
  <1>7. /\ LocalsTyped' /\ Others(c) /\ at'[c] = "forget" /\ clock' = clock /\ alive' = alive
        /\ began' = began /\ id' = id /\ expires' = expires /\ retry' = retry
    BY <1>1, Going DEF Before, Places, Resolving, github
  <1>8. CallOK(c)'
    BY <1>1, <1>7 DEF Before, CallOK, CallInv, Known, Resolving, Over, Results
  <1> QED BY <1>3, <1>6, <1>7, <1>8 DEF After

LEMMA FailStep ==
    ASSUME NEW c \in Caller, Before(c), Fail(c)
    PROVE  After(c)
  BY Returning, CachesStay DEF Before, After, Fail, Results

(* Any step of a call, together.                                           *)
LEMMA CallStep ==
    ASSUME NEW c \in Caller, Before(c),
           \/ ForIdentity(c) \/ ForInstallation(c) \/ Resolve(c) \/ GetOrMint(c) \/ Fail(c)
    PROVE  After(c) /\ clock' = clock
  <1>1. After(c)
    BY BeginStep, ReadEntryStep, LookupStep, PutEntryStep, InvalidateStep,
       GetCachedStep, GetTokenStep, FillStep, MintStep, MintUnauthorizedStep,
       StoreStep, ForgetStep, FailStep
       DEF Resolve, GetOrMint
  <1>2. UNCHANGED github
    BY DEF ForIdentity, ForInstallation, Begin, Resolve, ReadEntry, Lookup,
           PutEntry, Invalidate, GetOrMint, GetCached, GetToken, Fill, Mint,
           MintUnauthorized, Store, Forget, Fail
  <1> QED BY <1>1, <1>2 DEF github

(* The invariant is inductive.                                             *)
LEMMA StepCorrect == CredentialsInv /\ [Next]_vars => CredentialsInv'
  <1> SUFFICES ASSUME CredentialsInv, [Next]_vars PROVE CredentialsInv'
    OBVIOUS
  <1>1. GitHubOK /\ CachesOK /\ LocalsTyped /\ \A c \in Caller : CallOK(c)
    BY Parts
  <1>2. GitHubOK' /\ CachesOK' /\ LocalsTyped' /\ (\A c \in Caller : CallOK(c))'
        => CredentialsInv'
    BY Parts, PTL
  <1>3. CASE UNCHANGED vars
    BY <1>3 DEF vars, github, caches, locals, CredentialsInv, TypeOK, GitHubInv,
                CachesInv, CallInv, Known, Over
  <1>4. ASSUME Next PROVE CredentialsInv'
    <2>1. GitHubOK' /\ Grow
      BY <1>1, <1>4, TimesOnlyGrow
    <2>2. \A d \in Caller :
              /\ at'[d] = at[d] /\ began'[d] = began[d] /\ id'[d] = id[d]
              /\ expires'[d] = expires[d] /\ retry'[d] = retry[d]
              /\ \/ clock' = clock
                 \/ clock' = clock + 1 /\ (Over(d) \/ clock < began[d] + Stall)
              /\ CachesOK' /\ EntryIsNews
              => CallOK(d)'
      BY <1>1, <2>1, CallIsNotDisturbed
    <2>3. CASE Tick \/ Install \/ Uninstall
      <3>1. UNCHANGED <<caches, at, locals>>
        BY <2>3 DEF Tick, Install, Uninstall
      <3>2. CachesOK' /\ EntryIsNews
        BY <1>1, <2>1, <3>1, CachesStay
      <3>3. \/ clock' = clock
            \/ /\ clock' = clock + 1
               /\ \A d \in Caller : Over(d) \/ clock < began[d] + Stall
        BY <2>3 DEF Tick, Install, Uninstall
      <3>4. LocalsTyped'
        BY <1>1, <3>1 DEF LocalsTyped, locals
      <3>5. \A d \in Caller : CallOK(d)'
        BY <2>2, <3>1, <3>2, <3>3 DEF locals
      <3> QED BY <1>2, <2>1, <3>2, <3>4, <3>5
    <2>4. CASE Webhook
      <3>1. PICK i \in Installation :
                alive[i] >= 0 /\ alive[i] >= clock - Delay /\ entry' = Cached(i)
        BY <2>4 DEF Webhook
      <3>2. UNCHANGED <<github, tokens, memory, at, locals>>
        BY <2>4 DEF Webhook
      <3>3. CacheOK(tokens)' /\ CacheOK(memory)'
        BY <1>1, <2>1, <3>2, CacheByCache, CacheStays
      <3>4. EntryOK'
        BY <3>1, <3>2, CredentialsAssumption DEF EntryOK, Cached, Known, github
      <3>5. EntryIsNews
        <4>1. /\ clock \in Int /\ alive[i] \in Int /\ Delay \in Nat
              /\ Late \in Nat /\ Late >= Delay
          BY <1>1, CredentialsAssumption DEF GitHubOK, Late
        <4>2. alive[i] >= clock - Late
          BY <3>1, <4>1
        <4> QED BY <3>1, <3>2, <4>2 DEF EntryIsNews, Cached, github
      <3>6. CachesOK'
        BY <3>3, <3>4, CacheByCache, PTL
      <3>7. LocalsTyped'
        BY <1>1, <3>2 DEF LocalsTyped, locals
      <3>8. \A d \in Caller : CallOK(d)'
        BY <2>2, <3>2, <3>5, <3>6 DEF locals, github
      <3> QED BY <1>2, <2>1, <3>6, <3>7, <3>8
    <2>5. CASE Restart
      <3>1. /\ UNCHANGED <<github, entry, tokens>>
            /\ memory' = [i \in Installation |-> 0]
            /\ at' = [c \in Caller |-> "idle"]
            /\ began' = [c \in Caller |-> 0]
            /\ id' = [c \in Caller |-> 0]
            /\ expires' = [c \in Caller |-> 0]
            /\ retry' = [c \in Caller |-> "may"]
        BY <2>5 DEF Restart
      <3>2. EntryOK' /\ CacheOK(tokens)'
        BY <1>1, <2>1, <3>1, CacheByCache, CacheStays, EntryStays
      <3>3. CacheOK(memory)'
        BY <3>1 DEF CacheOK
      <3>4. CachesOK'
        BY <3>2, <3>3, CacheByCache, PTL
      <3>5. LocalsTyped'
        BY <3>1, CredentialsAssumption DEF LocalsTyped, Places, Results
      <3>6. \A d \in Caller : CallOK(d)'
        BY <3>1 DEF CallOK, CallInv, Over, Results, Resolving
      <3> QED BY <1>2, <2>1, <3>4, <3>5, <3>6
    <2>6. ASSUME NEW c \in Caller,
                 \/ ForIdentity(c) \/ ForInstallation(c) \/ Resolve(c) \/ GetOrMint(c) \/ Fail(c)
          PROVE  CredentialsInv'
      <3>1. After(c) /\ clock' = clock
        BY <1>1, <2>1, <2>6, CallStep DEF Before
      <3>2. \A d \in Caller \ {c} : CallOK(d)'
        BY <2>2, <3>1 DEF After, Others
      <3> QED BY <1>2, <2>1, <3>1, <3>2 DEF After
    <2> QED BY <1>4, <2>3, <2>4, <2>5, <2>6 DEF Next
  <1> QED BY <1>3, <1>4

(* The invariant holds throughout.                                         *)
LEMMA Invariance == Spec => []CredentialsInv
  <1> QED BY InitCorrect, StepCorrect, PTL DEF Spec

-----------------------------------------------------------------------------
(* Types, and that tokens and entries are of installations there were.     *)
THEOREM Typing == Spec => []TypeOK
  <1>1. CredentialsInv => TypeOK
    BY DEF CredentialsInv
  <1> QED BY <1>1, Invariance, PTL

(* The step that hands a token out is the caller's own, from the memory,   *)
(* the table or the mint.                                                  *)
LEMMA HandingStep ==
    ASSUME CredentialsInv, [Next]_vars, NEW c \in Caller, Hands(c)
    PROVE  /\ clock' = clock
           /\ \/ at[c] = "memory" /\ Usable(memory[id[c]], began[c])
              \/ at[c] \in {"fill", "forget"}
  <1>1. /\ at \in [Caller -> Places] /\ at'[c] = "ok"
        /\ at[c] \in {"memory", "fill", "forget"} /\ at'[c] # at[c]
    BY Parts DEF LocalsTyped, Hands, Ends
  <1>2. ~(Tick \/ Install \/ Uninstall \/ Webhook \/ Restart \/ UNCHANGED vars)
    BY <1>1 DEF Tick, Install, Uninstall, Webhook, Restart, vars
  <1>3. PICK d \in Caller :
            ForIdentity(d) \/ ForInstallation(d) \/ Resolve(d) \/ GetOrMint(d) \/ Fail(d)
    BY <1>2 DEF Next
  <1>4. clock' = clock
    BY <1>3 DEF ForIdentity, ForInstallation, Begin, Resolve, ReadEntry, Lookup,
                PutEntry, Invalidate, GetOrMint, GetCached, GetToken, Fill, Mint,
                MintUnauthorized, Store, Forget, Fail, github
  <1>5. CASE at[c] = "memory"
    <2>1. \E result \in Places : at' = [at EXCEPT ![d] = result]
      BY <1>3 DEF ForIdentity, ForInstallation, Begin, Resolve, ReadEntry, Resolved, Lookup,
                  PutEntry, Invalidate, GetOrMint, GetCached, GetToken, Fill, Mint,
                  MintUnauthorized, Store, Forget, Fail, Return, Goto, Go, Places,
                  Results, Resolving
    <2>2. d = c
      BY <1>1, <2>1
    <2>3. GetCached(c)
      BY <1>1, <1>3, <1>5, <2>2
         DEF ForIdentity, ForInstallation, Begin, Over, Results, Resolve, ReadEntry,
             Lookup, PutEntry, Invalidate, GetOrMint, GetToken, Fill, Mint,
             MintUnauthorized, Store, Forget, Fail, Return, Go
    <2> QED BY <1>1, <1>4, <1>5, <2>3 DEF GetCached, Goto
  <1> QED BY <1>1, <1>4, <1>5

LEMMA HeldIsDated ==
    ASSUME CredentialsInv, [Next]_vars, NEW c \in Caller, Hands(c)
    PROVE  Held(c) > clock + Margin - Stall /\ Held(c) <= alive[id[c]] + Life
  <1>1. GitHubOK /\ CachesOK /\ LocalsTyped /\ CallOK(c)
    BY Parts
  <1>2. at[c] \in {"memory", "fill", "forget"}
    BY DEF Hands, Ends
  <1>3. id[c] \in Installation /\ clock <= began[c] + Stall
    BY <1>1, <1>2 DEF CallOK, CallInv, Known, Resolving, Over, Results
  <1>4. CASE at[c] \in {"fill", "forget"}
    <2>1. expires[c] > began[c] + Margin /\ expires[c] <= alive[id[c]] + Life
      BY <1>1, <1>4 DEF CallOK, CallInv
    <2> QED BY <1>1, <1>3, <1>4, <2>1, Numbers DEF Held
  <1>5. CASE at[c] = "memory"
    <2>1. memory[id[c]] - Margin > began[c]
      BY <1>5, HandingStep DEF Usable
    <2>2. memory[id[c]] \in Nat
      BY <1>1, <1>3 DEF CachesOK
    <2>3. memory[id[c]] > 0
      BY <1>1, <2>1, <2>2, Numbers
    <2>4. memory[id[c]] <= alive[id[c]] + Life
      BY <1>1, <1>3, <2>3 DEF CachesOK, CachesInv
    <2> QED BY <1>1, <1>3, <1>5, <2>1, <2>2, <2>4, Numbers DEF Held
  <1> QED BY <1>2, <1>4, <1>5

(* A token handed out has the margin left, less what the call took         *)
(* (tokens.rs, cache.rs).                                                  *)
THEOREM HandedTokensAreFresh == Spec => HandedIsFresh
  <1>1. CredentialsInv /\ [Next]_vars =>
            [\A c \in Caller : Hands(c) => Held(c) > clock + Margin - Stall]_vars
    BY HeldIsDated
  <1> QED BY <1>1, Invariance, PTL DEF Spec, HandedIsFresh

(* A token handed out is of an installation there was within the life of a *)
(* token.                                                                  *)
THEOREM HandedTokensAreRecent == Spec => HandedIsRecent
  <1>1. CredentialsInv /\ [Next]_vars =>
            [\A c \in Caller : Hands(c) => Held(c) <= alive[id[c]] + Life]_vars
    BY HeldIsDated
  <1> QED BY <1>1, Invariance, PTL DEF Spec, HandedIsRecent

(* A refusal is the caller's own step too.                                 *)
LEMMA RefusingStep ==
    ASSUME CredentialsInv, [Next]_vars, NEW c \in Caller, at'[c] = "refused",
           at[c] \in {"entry", "put", "mint"}
    PROVE  \/ at[c] = "entry" /\ Believed(began[c])
           \/ at[c] = "put" /\ id[c] = 0
           \/ at[c] = "mint" /\ retry[c] = "done"
  <1>1. at \in [Caller -> Places] /\ at'[c] # at[c]
    BY Parts DEF LocalsTyped
  <1>2. ~(Tick \/ Install \/ Uninstall \/ Webhook \/ Restart \/ UNCHANGED vars)
    BY <1>1 DEF Tick, Install, Uninstall, Webhook, Restart, vars
  <1>3. PICK d \in Caller :
            ForIdentity(d) \/ ForInstallation(d) \/ Resolve(d) \/ GetOrMint(d) \/ Fail(d)
    BY <1>2 DEF Next
  <1>4. \E result \in Places : at' = [at EXCEPT ![d] = result]
    BY <1>3 DEF ForIdentity, ForInstallation, Begin, Resolve, ReadEntry, Resolved, Lookup,
                PutEntry, Invalidate, GetOrMint, GetCached, GetToken, Fill, Mint,
                MintUnauthorized, Store, Forget, Fail, Return, Goto, Go, Places,
                Results, Resolving
  <1>5. d = c
    BY <1>1, <1>4
  <1>6. ReadEntry(c) \/ PutEntry(c) \/ MintUnauthorized(c)
    BY <1>1, <1>3, <1>5
       DEF ForIdentity, ForInstallation, Begin, Over, Results, Resolve, Lookup,
           Invalidate, GetOrMint, GetCached, GetToken, Fill, Mint,
           Store, Forget, Fail, Return, Go
  <1>7. CASE ReadEntry(c)
    BY <1>1, <1>7 DEF ReadEntry, Resolved, Return, Goto
  <1>8. CASE PutEntry(c)
    BY <1>1, <1>8 DEF PutEntry, Resolved, Return
  <1>9. CASE MintUnauthorized(c)
    BY <1>1, <1>9 DEF MintUnauthorized, Return, Goto
  <1> QED BY <1>6, <1>7, <1>8, <1>9

(* A call is told that the App is not installed only if it was not, an     *)
(* hour before the call or later (installation_cache.rs).                  *)
THEOREM RefusalsAreRecent == Spec => NotInstalledIsRecent
  <1>1. ASSUME CredentialsInv, [Next]_vars, NEW c \in Caller,
               Ends(c, {"entry", "put"}, "refused")
        PROVE  missing >= began[c] - NegativeTtl
    <2>1. GitHubOK /\ CachesOK /\ LocalsTyped /\ CallOK(c)
      BY <1>1, Parts
    <2>2. \/ at[c] = "entry" /\ Believed(began[c])
          \/ at[c] = "put" /\ id[c] = 0
      BY <1>1, RefusingStep DEF Ends
    <2>3. CASE at[c] = "put" /\ id[c] = 0
      <3>1. missing >= began[c]
        BY <2>1, <2>3 DEF CallOK, CallInv
      <3> QED BY <2>1, <3>1, Numbers
    <2>4. CASE Believed(began[c])
      <3>1. missing >= entry.at /\ began[c] - entry.at <= NegativeTtl /\ entry.at \in Int
        BY <2>1, <2>4, CredentialsAssumption DEF Believed, CachesOK, CachesInv
      <3> QED BY <2>1, <3>1, Numbers
    <2> QED BY <2>2, <2>3, <2>4
  <1>2. CredentialsInv /\ [Next]_vars =>
            [\A c \in Caller : Ends(c, {"entry", "put"}, "refused") =>
                missing >= began[c] - NegativeTtl]_vars
    BY <1>1
  <1> QED BY <1>2, Invariance, PTL DEF Spec, NotInstalledIsRecent

(* One retry is enough (app_runtime.rs:89): a second refusal is for an     *)
(* installation that went away while the call was under way, or the news   *)
(* it took the entry from.                                                 *)
THEOREM SecondRefusalsAreOfChanges == Spec => RefusedOnlyOnChange
  <1>1. ASSUME CredentialsInv, [Next]_vars, NEW c \in Caller,
               Ends(c, {"mint"}, "refused")
        PROVE  alive[id[c]] >= clock - Stall - Late
    <2>1. GitHubOK /\ CachesOK /\ LocalsTyped /\ CallOK(c)
      BY <1>1, Parts
    <2>2. at[c] = "mint" /\ retry[c] = "done"
      BY <1>1, RefusingStep DEF Ends
    <2>3. /\ id[c] \in Installation /\ alive[id[c]] >= began[c] - Late
          /\ clock <= began[c] + Stall
      BY <2>1, <2>2 DEF CallOK, CallInv, Known, Resolving, Over, Results
    <2> QED BY <2>1, <2>3, Numbers
  <1>2. CredentialsInv /\ [Next]_vars =>
            [\A c \in Caller : Ends(c, {"mint"}, "refused") =>
                alive[id[c]] >= clock - Stall - Late]_vars
    BY <1>1
  <1> QED BY <1>2, Invariance, PTL DEF Spec, RefusedOnlyOnChange
=============================================================================
