------------------------------- MODULE Relay -------------------------------
(***************************************************************************)
(* From GitHub to the queue: the smee.io channel barry holds open, the     *)
(* bytes that arrive on it in whatever pieces the network makes of them,   *)
(* the frames the relay finds and posts to barry's own endpoint            *)
(* (relay.rs), and everything the endpoint checks before a delivery        *)
(* becomes a job (webhook/server.rs, event.rs, verify.rs).                 *)
(*                                                                         *)
(* The relay posts one delivery at a time; Deliveries has the copies of    *)
(* one body that other clients post at once, and the age of a claim.       *)
(***************************************************************************)
EXTENDS Integers, Sequences

CONSTANTS
    Event,             \* deliveries, and frames that are none
    Commander,         \* logins in commands_from
    RequireSignature,  \* relay.require_signature
    MaxSends           \* bound: bodies posted to the channel, copies included

ASSUME RelayAssumption == RequireSignature \in BOOLEAN /\ MaxSends \in Nat

VARIABLES
    link,      \* the relay: connecting, up, waiting or ended
    stopping,  \* the shutdown token
    stream,    \* bytes on their way, in order
    buf,       \* what the relay has decoded and not yet used
    post,      \* the delivery being handled, and how far it is
    claimed,   \* bodies claimed
    jobs,      \* jobs queued, in order
    asked,     \* pushes that asked the review in flight to look at its head
    sent,      \* bodies posted to the channel
    excused    \* history: bodies lost by a disconnection, or by a failure here

relay    == <<link, stopping, stream, buf>>
endpoint == <<claimed, jobs, asked>>
relayVars == <<relay, post, endpoint, sent, excused>>

-----------------------------------------------------------------------------
(* What a delivery is to the endpoint.  A body holds one character, of two *)
(* bytes if it is wide, and ends with a blank line.                        *)

Bytes(e) == IF e.wide THEN << <<e, 1>>, <<e, 2>>, <<e, 3>> >>
                      ELSE << <<e, 1>>, <<e, 3>> >>

Actionable(a) == a \in {"opened", "synchronize", "reopened", "ready_for_review"}

AsksBarry(e) ==
    /\ e.header = "issue_comment"
    /\ e.action = "created" /\ e.on_pr
    /\ e.body \in {"/barry approve", "/barry review", "/barry confer",
                   "/barry ?", "@barry-dylan"}

\* Ignored events have no repository.
RepoOf(e) == e.header \in {"pull_request", "issue_comment"}

\* parse: the header, and the fields the structs need.
Parses(e) ==
    /\ e.header # "none"
    /\ RepoOf(e) => e.wellformed

ActsOn(e) ==
    \/ e.header = "pull_request" /\ (Actionable(e.action) \/ e.action = "closed")
    \/ AsksBarry(e)

\* Variant: a commander's comment opens its repository to everything.
OnDemandAll(e) == e.author \in Commander

OnDemand(e) == AsksBarry(e) /\ e.author \in Commander

\* The endpoint's checks, in order, up to the claim of the body.
Refusal(e, intact, signed) ==
    IF ~(intact /\ signed) THEN "signature"
    ELSE IF ~Parses(e) THEN "parse"
    ELSE IF AsksBarry(e) /\ e.author \notin Commander THEN "not a commander"
    ELSE IF RepoOf(e) /\ ~e.listed /\ ~OnDemand(e) THEN "repo"
    ELSE IF ~ActsOn(e) THEN "not actionable"
    ELSE IF e.age # "fresh" THEN "stale"
    ELSE "none"

ShortCommand(body) ==
    CASE body = "/barry approve" -> "approve"
      [] body = "/barry review"  -> "review"
      [] body = "/barry confer"  -> "confer"
      [] body = "@barry-dylan"   -> "review"
      [] OTHER -> "unknown"

NoJob == [kind |-> "none"]

Job(kind, e, actor, debounced) ==
    [kind |-> kind, of |-> e, actor |-> actor, debounced |-> debounced]

\* The arms of the match in webhook.
JobOf(e) ==
    CASE e.header = "pull_request" /\ Actionable(e.action) ->
            Job(e.action, e, "nobody", e.action = "synchronize")
      [] AsksBarry(e) -> Job(ShortCommand(e.body), e, e.sender, FALSE)
      [] e.header = "pull_request" /\ e.action = "closed" ->
            Job("closed", e, "nobody", FALSE)
      [] OTHER -> NoJob

-----------------------------------------------------------------------------
(* The channel.                                                            *)

(* GitHub, or whoever knows the channel's address, posts a body to it.     *)
(* smee keeps no backlog.                                                  *)
Send(e) ==
    /\ Len(sent) < MaxSends
    /\ sent' = Append(sent, e)
    /\ IF link = "up"
       THEN stream' = stream \o Bytes(e) /\ UNCHANGED excused
       ELSE excused' = excused \cup {e} /\ UNCHANGED stream
    /\ UNCHANGED <<link, stopping, buf, post, endpoint>>

Connect ==
    /\ link = "connecting"
    /\ link' = "up"
    /\ UNCHANGED <<stopping, stream, buf, post, endpoint, sent, excused>>

Pending == {s[1] : s \in {stream[n] : n \in DOMAIN stream}}
           \cup {s[1] : s \in {buf[n] : n \in DOMAIN buf}}

(* The stream ends, as smee ends long-lived ones; or there is no           *)
(* connection, an error, or nothing to read for two minutes.  What was on  *)
(* its way is gone.  The relay waits, longer after each failure.           *)
Disconnect ==
    /\ link \in {"connecting", "up"} /\ post.at = "none"
    /\ link' = IF stopping THEN "ended" ELSE "waiting"
    /\ stream' = <<>> /\ buf' = <<>>
    /\ excused' = excused \cup Pending
    /\ UNCHANGED <<stopping, post, endpoint, sent>>

Reconnect ==
    /\ link = "waiting"
    /\ link' = IF stopping THEN "ended" ELSE "connecting"
    /\ UNCHANGED <<stopping, stream, buf, post, endpoint, sent, excused>>

Stop ==
    /\ ~stopping
    /\ stopping' = TRUE
    /\ UNCHANGED <<link, stream, buf, post, endpoint, sent, excused>>

(* A chunk is decoded by itself: half a character at either end of it      *)
(* becomes a replacement character.                                        *)
Decoded(chunk) ==
    [n \in DOMAIN chunk |->
        LET e == chunk[n][1]
            half == chunk[n][2]
        IN  <<e, half, \/ ~e.wide \/ half = 3
                       \/ half = 1 /\ n < Len(chunk)
                       \/ half = 2 /\ n > 1>>]

\* Variant: a frame is whole once the next one begins.
CompleteByNext == \E n \in DOMAIN buf : buf[n][2] = 3 /\ n < Len(buf)

Complete == \E n \in DOMAIN buf : buf[n][2] = 3

(* The next chunk, of any length.                                          *)
ReadChunk ==
    /\ link = "up" /\ post.at = "none"
    /\ ~Complete
    /\ \E len \in 1 .. Len(stream) :
          /\ buf' = buf \o Decoded(SubSeq(stream, 1, len))
          /\ stream' = SubSeq(stream, len + 1, Len(stream))
    /\ UNCHANGED <<link, stopping, post, endpoint, sent, excused>>

NoPost == [at |-> "none"]

\* The first frame: its end, and whether all of it came through intact.
FrameEnd == CHOOSE n \in DOMAIN buf :
               buf[n][2] = 3 /\ \A m \in 1 .. n - 1 : buf[m][2] # 3

\* Variant: the buffer starts afresh after a frame.
NothingRest == <<>>

Rest == SubSeq(buf, FrameEnd + 1, Len(buf))

FrameIntact == \A n \in 1 .. FrameEnd : buf[n][3]

(* A frame is complete.  ready and ping frames, and one that does not      *)
(* parse, are dropped; a delivery is posted, re-signed if so configured.   *)
TakeFrame ==
    /\ link = "up" /\ post.at = "none"
    /\ Complete
    /\ LET e == buf[FrameEnd][1]
       IN  post' = IF e.frame = "message"
                   THEN [at |-> "posted", of |-> e, intact |-> FrameIntact,
                         signed |-> ~RequireSignature \/ e.signed]
                   ELSE NoPost
    /\ buf' = Rest
    /\ UNCHANGED <<link, stopping, stream, endpoint, sent, excused>>

(* barry's own endpoint cannot be reached: logged, not retried.            *)
Unreachable ==
    /\ post.at = "posted"
    /\ post' = NoPost
    /\ excused' = excused \cup {post.of}
    /\ UNCHANGED <<relay, endpoint, sent>>

-----------------------------------------------------------------------------
(* The endpoint.                                                           *)

\* A body that came through mangled is still signed by whoever re-signs it.
Verified == post.intact \/ ~RequireSignature

\* What is claimed is the digest of the body as it came through.
Digest == <<post.of, post.intact>>

RefuseBody ==
    /\ post.at = "posted"
    /\ \/ Refusal(post.of, Verified, post.signed) # "none"
       \/ Digest \in claimed
    /\ post' = NoPost
    /\ UNCHANGED <<relay, endpoint, sent, excused>>

(* claim_delivery, then the push asks the review in flight to look.        *)
ClaimBody ==
    /\ post.at = "posted"
    /\ Refusal(post.of, Verified, post.signed) = "none"
    /\ Digest \notin claimed
    /\ claimed' = claimed \cup {Digest}
    /\ asked' = IF post.of.action = "synchronize" THEN asked \cup {post.of} ELSE asked
    /\ post' = [post EXCEPT !.at = "claimed"]
    /\ UNCHANGED <<relay, jobs, sent, excused>>

(* The claim fails: an error status, and nothing happened.                 *)
ClaimFails ==
    /\ post.at = "posted"
    /\ Refusal(post.of, Verified, post.signed) = "none"
    /\ excused' = excused \cup {post.of}
    /\ post' = NoPost
    /\ UNCHANGED <<relay, endpoint, sent>>

QueueJob ==
    /\ post.at = "claimed"
    /\ jobs' = IF JobOf(post.of) = NoJob THEN jobs ELSE Append(jobs, JobOf(post.of))
    /\ post' = NoPost
    /\ UNCHANGED <<relay, claimed, asked, sent, excused>>

(* The enqueue fails; the claim is released, or that fails too.            *)
QueueFails ==
    /\ post.at = "claimed"
    /\ claimed' \in {claimed, claimed \ {Digest}}
    /\ excused' = excused \cup {post.of}
    /\ post' = NoPost
    /\ UNCHANGED <<relay, jobs, asked, sent>>

-----------------------------------------------------------------------------
RelayInit ==
    /\ link = "connecting" /\ stopping = FALSE
    /\ stream = <<>> /\ buf = <<>>
    /\ post = NoPost
    /\ claimed = {} /\ jobs = <<>> /\ asked = {}
    /\ sent = <<>>
    /\ excused = {}

RelayNext ==
    \/ \E e \in Event : Send(e)
    \/ Connect \/ Disconnect \/ Reconnect \/ Stop
    \/ ReadChunk \/ TakeFrame \/ Unreachable
    \/ RefuseBody \/ ClaimBody \/ ClaimFails \/ QueueJob \/ QueueFails

RelaySpec == RelayInit /\ [][RelayNext]_relayVars

(* The relay's task reads as bytes come, and the endpoint answers.         *)
RelayFairness ==
    /\ WF_relayVars(ReadChunk) /\ WF_relayVars(TakeFrame) /\ WF_relayVars(Reconnect)
    /\ WF_relayVars(RefuseBody \/ ClaimBody \/ ClaimFails \/ QueueJob \/ QueueFails)
    /\ WF_relayVars(stopping /\ Disconnect)

RelayFairSpec == RelaySpec /\ RelayFairness

-----------------------------------------------------------------------------
(* Properties.                                                             *)

\* The endpoint would act on it, as GitHub or the channel's poster sent it.
Due(e) == /\ e.frame = "message"
          /\ Refusal(e, TRUE, ~RequireSignature \/ e.signed) = "none"

Handled(e) ==
    \/ \E n \in DOMAIN jobs : jobs[n].of = e
    \/ e \in excused \cup Pending
    \/ post.at # "none" /\ post.of = e

(* A delivery barry should act on that is posted to the channel becomes a  *)
(* job, unless the connection or a step of the endpoint failed under it:   *)
(* framing loses none, whatever pieces the network makes of the stream.    *)
(* Of bodies without wide characters, see ChunksDoNotMatter.               *)
JobOrReason ==
    \A n \in DOMAIN sent : Due(sent[n]) /\ ~sent[n].wide => Handled(sent[n])

(* "Anything after the last one is a partial frame and stays in the        *)
(* buffer" (relay.rs:275): where a chunk ends makes no difference to what  *)
(* is delivered.  It does not hold: a chunk is decoded by itself, a wide   *)
(* character cut in two changes the body, and the endpoint answers 401.    *)
ChunksDoNotMatter ==
    \A n \in DOMAIN sent : Due(sent[n]) => Handled(sent[n])

(* Every job, and every push that interrupts a review, passed all of the   *)
(* checks together: signed, young, once for a body, in a listed repository *)
(* or a commander's own comment, and a command only by a commander.        *)
JobsAreAuthorised ==
    /\ \A n \in DOMAIN jobs :
          LET e == jobs[n].of
              commanded == AsksBarry(e) /\ e.author \in Commander
          IN  /\ RequireSignature => e.signed
              /\ e.age = "fresh"
              /\ e.listed \/ commanded
              /\ jobs[n].actor # "nobody" => commanded
    /\ \A m, n \in DOMAIN jobs :
          RequireSignature /\ jobs[m].of = jobs[n].of => m = n
    /\ \A e \in asked : e.listed /\ e.age = "fresh" /\ (RequireSignature => e.signed)

(* What has arrived is dealt with, or goes with its connection: the relay  *)
(* does not sit on a delivery until the next one comes.                    *)
Drains == (Pending # {}) ~> (Pending = {})
=============================================================================
