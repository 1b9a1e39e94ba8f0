---------------------------- MODULE Credentials ----------------------------
(***************************************************************************)
(* How barry comes by a token (app_runtime.rs, for_identity and            *)
(* for_installation; github/app.rs, get_or_mint_for): the installation of  *)
(* one identity's App on one owner, cached in a table, a miss of it for an *)
(* hour; and the tokens minted for it, cached in a table and in memory.    *)
(*                                                                         *)
(* Calls are concurrent, each reads the clock once, and an owner may       *)
(* uninstall the App and install it again, as a new installation.  A mint  *)
(* for an installation that is gone is answered with 401.                  *)
(***************************************************************************)
EXTENDS Integers

CONSTANTS
    Caller,
    Life,          \* how long GitHub lets a token live
    Margin,        \* the skew margin of the caches
    NegativeTtl,   \* how long a miss is believed
    Stall,         \* how long a call may take
    Delay,         \* how late a webhook may be
    MaxTime,       \* bound: last value of the clock
    MaxInstalls    \* bound: installations of the App

ASSUME CredentialsAssumption ==
    /\ Life \in Nat /\ Margin \in Nat /\ Margin < Life
    /\ NegativeTtl \in Nat
    /\ Stall \in Nat /\ Delay \in Nat
    /\ MaxTime \in Nat /\ MaxInstalls \in Nat

Installation == 1 .. MaxInstalls

VARIABLES
    clock,
    app,        \* the installation there is, or 0
    alive,      \* alive[i]: the last instant i was there, or -1
    missing,    \* the last instant there was none
    entry,      \* the row of installation_cache
    tokens,     \* installation_tokens: tokens[i] expires then; 0 for no row
    memory,     \* the ReadCache, likewise
    at,         \* where each call is
    began,      \* the clock as it read it
    id,         \* the installation it has resolved, or 0
    expires,    \* when the token it holds expires
    retry       \* whether it may start over, has, or never does

github == <<clock, app, alive, missing>>
caches == <<entry, tokens, memory>>
locals == <<began, id, expires, retry>>
vars == <<github, caches, at, locals>>

(* The row: cached_at is read of a miss only. *)
NoEntry       == [kind |-> "none", id |-> 0, at |-> 0]
Cached(i)     == [kind |-> "cached", id |-> i, at |-> 0]

Missed(since) == [kind |-> "missing", id |-> 0, at |-> since]

(* A call is over with a result, with NotInstalled or a second 401, or     *)
(* with another failure, which leaves it idle.                             *)
Results == {"idle", "ok", "refused"}
Over(c) == at[c] \in Results

-----------------------------------------------------------------------------
(* GitHub.                                                                 *)

Tick ==
    /\ clock < MaxTime
    /\ \A c \in Caller : Over(c) \/ clock < began[c] + Stall
    /\ clock' = clock + 1
    /\ alive' = IF app = 0 THEN alive ELSE [alive EXCEPT ![app] = clock + 1]
    /\ missing' = IF app = 0 THEN clock + 1 ELSE missing
    /\ UNCHANGED <<app, caches, at, locals>>

Install ==
    /\ app = 0
    /\ \E i \in Installation :
          /\ \A j \in Installation : alive[j] = -1 <=> j >= i
          /\ app' = i
          /\ alive' = [alive EXCEPT ![i] = clock]
    /\ UNCHANGED <<clock, missing, caches, at, locals>>

Uninstall ==
    /\ app # 0
    /\ app' = 0
    /\ missing' = clock
    /\ UNCHANGED <<clock, alive, caches, at, locals>>

-----------------------------------------------------------------------------
(* The caches, as a call whose clock read `now` sees them.                 *)

\* Variant: a miss is believed for good.
BelievedForGood(now) == entry.kind = "missing"

Believed(now) == entry.kind = "missing" /\ now - entry.at <= NegativeTtl

\* Variant: no margin.
UsableToTheEnd(expiry, now) == expiry > now

Usable(expiry, now) == expiry - Margin > now

(* A webhook names Barry's installation, as it was when the event happened. *)
Webhook ==
    /\ \E i \in Installation :
          /\ alive[i] >= 0 /\ alive[i] >= clock - Delay
          /\ entry' = Cached(i)
    /\ UNCHANGED <<github, tokens, memory, at, locals>>

-----------------------------------------------------------------------------
(* A call, from one await to the next.                                     *)

Go(c, from, to) == at[c] = from /\ at' = [at EXCEPT ![c] = to]

Goto(c, place) ==
    /\ at' = [at EXCEPT ![c] = place]
    /\ UNCHANGED locals

(* A call returns, and its locals are gone. *)
Return(c, result) ==
    /\ at' = [at EXCEPT ![c] = result]
    /\ began' = [began EXCEPT ![c] = 0]
    /\ id' = [id EXCEPT ![c] = 0]
    /\ expires' = [expires EXCEPT ![c] = 0]
    /\ retry' = [retry EXCEPT ![c] = "may"]

Begin(c, installation, from, retries) ==
    /\ Over(c)
    /\ at' = [at EXCEPT ![c] = from]
    /\ began' = [began EXCEPT ![c] = clock]
    /\ id' = [id EXCEPT ![c] = installation]
    /\ retry' = [retry EXCEPT ![c] = retries]
    /\ UNCHANGED <<github, caches, expires>>

(* for_identity and preflight_identity. *)
ForIdentity(c) == Begin(c, 0, "entry", "may")

(* for_installation: a job knows its installation. *)
ForInstallation(c) ==
    \E i \in Installation : alive[i] >= 0 /\ Begin(c, i, "memory", "never")

(* resolve_installation; a preflight ends with it. *)
Resolved(c, i) ==
    \/ /\ at' = [at EXCEPT ![c] = "memory"]
       /\ id' = [id EXCEPT ![c] = i]
       /\ UNCHANGED <<began, expires, retry>>
    \/ retry[c] = "may" /\ Return(c, "ok")

ReadEntry(c) ==
    /\ at[c] = "entry"
    /\ \/ entry.kind = "cached" /\ Resolved(c, entry.id)
       \/ Believed(began[c]) /\ Return(c, "refused")
       \/ /\ entry.kind # "cached" /\ ~Believed(began[c])
          /\ Goto(c, "lookup")
    /\ UNCHANGED <<github, caches>>

(* resolve_installation_id_for_repo. *)
Lookup(c) ==
    /\ Go(c, "lookup", "put")
    /\ id' = [id EXCEPT ![c] = app]
    /\ UNCHANGED <<github, caches, began, expires, retry>>

PutEntry(c) ==
    /\ at[c] = "put"
    /\ \/ id[c] = 0 /\ entry' = Missed(began[c]) /\ Return(c, "refused")
       \/ id[c] # 0 /\ entry' = Cached(id[c]) /\ Resolved(c, id[c])
    /\ UNCHANGED <<github, tokens, memory>>

(* get_installation_token_for: the memory first, then the table, which     *)
(* fills the memory.                                                       *)
GetCached(c) ==
    /\ at[c] = "memory"
    /\ IF Usable(memory[id[c]], began[c])
       THEN Return(c, "ok")
       ELSE Goto(c, "table")
    /\ UNCHANGED <<github, caches>>

GetToken(c) ==
    /\ at[c] = "table"
    /\ IF Usable(tokens[id[c]], began[c])
       THEN /\ at' = [at EXCEPT ![c] = "fill"]
            /\ expires' = [expires EXCEPT ![c] = tokens[id[c]]]
            /\ UNCHANGED <<began, id, retry>>
       ELSE Goto(c, "mint")
    /\ UNCHANGED <<github, caches>>

Fill(c) ==
    /\ at[c] = "fill"
    /\ memory' = [memory EXCEPT ![id[c]] = expires[c]]
    /\ Return(c, "ok")
    /\ UNCHANGED <<github, entry, tokens>>

(* fetch_installation_token. *)
Mint(c) ==
    /\ Go(c, "mint", "store")
    /\ id[c] = app
    /\ expires' = [expires EXCEPT ![c] = clock + Life]
    /\ UNCHANGED <<github, caches, began, id, retry>>

(* 401: the entry is stale, and the call starts over, once. *)
MintUnauthorized(c) ==
    /\ at[c] = "mint"
    /\ id[c] # app
    /\ \/ retry[c] = "may"   /\ Goto(c, "invalidate")
       \/ retry[c] = "done"  /\ Return(c, "refused")
       \/ retry[c] = "never" /\ Return(c, "idle")
    /\ UNCHANGED <<github, caches>>

\* Variant: the stale entry stays.
KeepEntry == entry

Invalidated == NoEntry

Invalidate(c) ==
    /\ Go(c, "invalidate", "entry")
    /\ entry' = Invalidated
    /\ id' = [id EXCEPT ![c] = 0]
    /\ retry' = [retry EXCEPT ![c] = "done"]
    /\ UNCHANGED <<github, tokens, memory, began, expires>>

\* Variant: the row is the identity's, whatever the installation.
StoreForAll(c) == [i \in Installation |-> expires[c]]

Stored(c) == [tokens EXCEPT ![id[c]] = expires[c]]

(* put_installation_token_for: the table, then the memory forgets. *)
Store(c) ==
    /\ at[c] = "store"
    /\ tokens' = Stored(c)
    /\ Goto(c, "forget")
    /\ UNCHANGED <<github, entry, memory>>

Forget(c) ==
    /\ at[c] = "forget"
    /\ memory' = [memory EXCEPT ![id[c]] = 0]
    /\ Return(c, "ok")
    /\ UNCHANGED <<github, entry, tokens>>

(* A request or the database fails, or the call is dropped. *)
Fail(c) ==
    /\ ~Over(c)
    /\ Return(c, "idle")
    /\ UNCHANGED <<github, caches>>

(* The next process: the tables stay, the memory and the calls do not. *)
Restart ==
    /\ memory' = [i \in Installation |-> 0]
    /\ at' = [c \in Caller |-> "idle"]
    /\ began' = [c \in Caller |-> 0]
    /\ id' = [c \in Caller |-> 0]
    /\ expires' = [c \in Caller |-> 0]
    /\ retry' = [c \in Caller |-> "may"]
    /\ UNCHANGED <<github, entry, tokens>>

-----------------------------------------------------------------------------
Init ==
    /\ clock = 0 /\ app = 0 /\ missing = 0
    /\ alive = [i \in Installation |-> -1]
    /\ entry = NoEntry
    /\ tokens = [i \in Installation |-> 0]
    /\ memory = [i \in Installation |-> 0]
    /\ at = [c \in Caller |-> "idle"]
    /\ began = [c \in Caller |-> 0]
    /\ id = [c \in Caller |-> 0]
    /\ expires = [c \in Caller |-> 0]
    /\ retry = [c \in Caller |-> "may"]

Resolve(c) == ReadEntry(c) \/ Lookup(c) \/ PutEntry(c) \/ Invalidate(c)

GetOrMint(c) ==
    GetCached(c) \/ GetToken(c) \/ Fill(c) \/ Mint(c) \/ MintUnauthorized(c)
    \/ Store(c) \/ Forget(c)

Next ==
    \/ Tick \/ Install \/ Uninstall \/ Webhook \/ Restart
    \/ \E c \in Caller :
          ForIdentity(c) \/ ForInstallation(c) \/ Resolve(c) \/ GetOrMint(c) \/ Fail(c)

Spec == Init /\ [][Next]_vars

-----------------------------------------------------------------------------
(* Properties.                                                             *)

(* Types: an entry, a token and a call are of installations there have     *)
(* been, and a call past resolve_installation has one.                     *)
Known(i) == i \in Installation /\ alive[i] >= 0

TypeOK ==
    /\ clock \in 0 .. MaxTime
    /\ app \in Installation \cup {0}
    /\ alive \in [Installation -> -1 .. MaxTime]
    /\ missing \in 0 .. MaxTime
    /\ entry \in [kind : {"none", "missing", "cached"},
                  id : Installation \cup {0}, at : 0 .. MaxTime]
    /\ tokens \in [Installation -> Nat]
    /\ memory \in [Installation -> Nat]
    /\ at \in [Caller -> Results \cup {"entry", "lookup", "put", "memory", "table",
                     "fill", "mint", "store", "forget", "invalidate"}]
    /\ began \in [Caller -> 0 .. MaxTime]
    /\ id \in [Caller -> Installation \cup {0}]
    /\ expires \in [Caller -> Nat]
    /\ retry \in [Caller -> {"may", "done", "never"}]
    /\ entry.kind = "cached" => Known(entry.id)
    /\ \A i \in Installation : tokens[i] > 0 \/ memory[i] > 0 => Known(i)
    /\ \A c \in Caller :
          at[c] \in {"memory", "table", "fill", "mint", "store", "forget"} =>
              Known(id[c])

Ends(c, places, result) == at[c] \in places /\ at'[c] = result

Hands(c) == Ends(c, {"memory", "fill", "forget"}, "ok")

Held(c) == IF at[c] = "memory" THEN memory[id[c]] ELSE expires[c]

(* The 60 s margin of both caches (tokens.rs, cache.rs) is what a call may *)
(* take: whatever the caches, a slow call and others' mints do between, a  *)
(* token handed out has the margin left, less what the call itself took.   *)
HandedIsFresh ==
    [][\A c \in Caller : Hands(c) => Held(c) > clock + Margin - Stall]_vars

(* An owner who uninstalls the App is not acted on with tokens for longer  *)
(* than one lives: those handed out are of installations there were within *)
(* the life of a token, through any number of reinstallations.             *)
HandedIsRecent ==
    [][\A c \in Caller : Hands(c) =>
          Held(c) <= alive[id[c]] + Life]_vars

(* "Negative cache entries older than 1h return None"                      *)
(* (installation_cache.rs): a call is told that the App is not installed   *)
(* only if it was not, an hour before the call or later, whatever lookups  *)
(* were overtaken by an installation before they were put.                 *)
NotInstalledIsRecent ==
    [][\A c \in Caller : Ends(c, {"entry", "put"}, "refused") =>
          missing >= began[c] - NegativeTtl]_vars

Late == IF Stall >= Delay THEN Stall ELSE Delay

(* "Invalidate, retry once" (app_runtime.rs:89) is enough: a call refused  *)
(* for a second time is refused for an installation that went away while   *)
(* it, or the lookup or webhook it takes the entry from, was under way.    *)
RefusedOnlyOnChange ==
    [][\A c \in Caller : Ends(c, {"mint"}, "refused") =>
          alive[id[c]] >= clock - Stall - Late]_vars

(* The inductive invariant behind them.                                    *)
GitHubInv ==
    /\ \A i \in Installation : alive[i] <= clock
    /\ app # 0 => alive[app] = clock
    /\ missing <= clock
    /\ app = 0 => missing = clock

CachesInv ==
    /\ entry.kind = "missing" => missing >= entry.at
    /\ \A i \in Installation :
          /\ tokens[i] > 0 => tokens[i] <= alive[i] + Life
          /\ memory[i] > 0 => memory[i] <= alive[i] + Life

Resolving == {"memory", "table", "fill", "mint", "store", "forget"}

CallInv(c) ==
    /\ ~Over(c) => began[c] <= clock /\ clock <= began[c] + Stall
    /\ at[c] \in {"fill", "store", "forget"} =>
          /\ expires[c] > began[c] + Margin
          /\ expires[c] <= alive[id[c]] + Life
    /\ at[c] = "put" /\ id[c] = 0 => missing >= began[c]
    /\ at[c] = "put" /\ id[c] # 0 => alive[id[c]] >= began[c]
    /\ retry[c] = "done" /\ at[c] = "entry" /\ entry.kind = "cached" =>
          alive[entry.id] >= began[c] - Late
    /\ retry[c] = "done" /\ at[c] \in Resolving => alive[id[c]] >= began[c] - Late

CredentialsInv ==
    TypeOK /\ GitHubInv /\ CachesInv /\ \A c \in Caller : CallInv(c)
=============================================================================
