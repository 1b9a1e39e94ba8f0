--------------------------- MODULE RackJobProofs ---------------------------
(* Proofs about RackJob, for any configurations barry may be started with: *)
(* the invariant is of those that list the three Barrys, each at most once,*)
(* in any order, which is the theorems' premise.                           *)
EXTENDS RackJob, FiniteSetTheorems, SequenceTheorems, TLAPS

-----------------------------------------------------------------------------
(* What a script is, of reviewers rs: at which places a command may stand. *)

\* No server runs there: the script begins, or has stopped its server.
Fresh(p, k) == k = 1 \/ p[k - 1].op = "stop"

Starts(p, k, fail) == k \in DOMAIN p /\ p[k].op = "start" /\ p[k].fail = fail

Reviews(p, k, slug) == k \in DOMAIN p /\ p[k].op = "review" /\ p[k].of = slug

\* Command k starts a server for the n-th reviewer's review.
ServerFor(c, rs, p, k, n) ==
    /\ Starts(p, k, "exit")
    /\ p[k].model = rs[n].model /\ p[k].window = Window(c, rs[n])

StartFits(p, k) ==
    /\ Fresh(p, k)
    /\ \/ /\ p[k].fail = "exit"
          /\ k + 1 \in DOMAIN p /\ p[k + 1].op = "review"
       \/ /\ p[k].fail = "return" /\ p[k].log = "judge"
          /\ k + 1 \in DOMAIN p /\ p[k + 1].op = "judge"

ReviewFits(c, rs, p, k) ==
    /\ k > 1
    /\ \E n \in DOMAIN rs :
          /\ p[k].of = rs[n].identity
          /\ \/ ServerFor(c, rs, p, k - 1, n)
             \/ /\ ~c.bare /\ n > 1 /\ rs[n - 1].model = rs[n].model
                /\ Reviews(p, k - 1, rs[n - 1].identity)

\* Who reviews in the main job, of the three.
Both == {"barry", "other_barry"}

JudgeFits(p, k) ==
    /\ k + 1 \in DOMAIN p /\ p[k + 1].op = "stop"
    /\ {p[k].of[1], p[k].of[2]} = Both
    /\ \A slug \in Both : \E m \in 1 .. k - 1 : Reviews(p, m, slug)

ScriptFits(c, rs, p) ==
    \A k \in DOMAIN p :
        /\ p[k].op \in {"start", "review", "judge", "stop"}
        /\ p[k].op = "start"  => StartFits(p, k)
        /\ p[k].op = "review" => ReviewFits(c, rs, p, k)
        /\ p[k].op = "judge"  => JudgeFits(p, k)

\* What uploads the script leads to.
UploadFits(p, f) ==
    \/ \E k \in DOMAIN p : /\ p[k].op = "review"
                           /\ f \in {ReviewFile(p[k].of), ServerLog(p[k].of)}
    \/ f = Verdict /\ \E k \in DOMAIN p : p[k].op = "judge"
    \/ f = ServerLog("judge") /\ \E k \in DOMAIN p : Starts(p, k, "return")

-----------------------------------------------------------------------------
(* What is true of a job at each of its places.                            *)

P(j) == spec[j].script

IsServer(s) ==
    s = [id |-> s.id, model |-> s.model, window |-> s.window, up |-> s.up] /\ s.up \in BOOLEAN

JobType(j) ==
    /\ at[j] \in {"running", "waiting", "uploading", "done", "failed"}
    /\ pc[j] \in Nat \ {0} /\ pid[j] \in Nat /\ foreign[j] \in BOOLEAN
    /\ \A s \in servers[j] : IsServer(s)
    /\ \A q \in made[j] : q = <<q[1], q[2]>>
    /\ verdict[j].says \in {"nothing", "agree", "disagree", "error"}

Ends(j) == at[j] \in {"uploading", "done", "failed"}

Begun(j) == at[j] = "running" /\ Fresh(P(j), pc[j])

\* The script has been through command m, and went on.
Past(j, m) ==
    /\ at[j] # "failed"
    /\ at[j] \in {"running", "waiting"} => m < pc[j]

Excused == \E f \in faults : f[1] \in {"model", "port"}

Reason == \E f \in faults : f[2] = "exit" \/ f[1] \in {"model", "port"}

\* A job's server is the one a command of its script started.
ServerInv(j) ==
    /\ \A s \in servers[j] :
          /\ s.id = pid[j] /\ s.id \in DOMAIN P(j) /\ P(j)[s.id].op = "start"
          /\ s.model = P(j)[s.id].model /\ s.window = P(j)[s.id].window
    /\ \A s, t \in servers[j] : s = t
    /\ Ends(j) => servers[j] = {}
    /\ Begun(j) => servers[j] = {} /\ pid[j] = 0

WaitInv(j) ==
    at[j] = "waiting" =>
        /\ pc[j] \in DOMAIN P(j) /\ P(j)[pc[j]].op = "start"
        /\ pid[j] = pc[j] /\ ~foreign[j] /\ ServerLog(P(j)[pc[j]].log) \in files[j]

\* A review is against the server before it, or the review's before it.
TurnInv(j) ==
    /\ at[j] = "running"
    /\ pc[j] \in DOMAIN P(j) /\ P(j)[pc[j]].op = "review"
    => /\ pid[j] # 0 /\ ~foreign[j]
       /\ P(j)[pc[j] - 1].op = "start" => pid[j] = pc[j] - 1
       /\ P(j)[pc[j] - 1].op = "review" =>
             \A s \in Answering(j) : <<P(j)[pc[j] - 1].of, s>> \in made[j]

FileInv(j) ==
    \A m \in DOMAIN P(j) :
        Past(j, m) =>
            /\ P(j)[m].op = "review" =>
                  /\ {ReviewFile(P(j)[m].of), ServerLog(P(j)[m].of)} \subseteq files[j]
                  /\ \E q \in made[j] : q[1] = P(j)[m].of
            /\ P(j)[m].op = "judge" => Verdict \in files[j]
            /\ Starts(P(j), m, "return") => ServerLog("judge") \in files[j] \/ Excused

\* Who reviewed, and against what.
AsConfigured(j) ==
    LET rs == Jobs(Asked)[j]
    IN  \A q \in made[j] : \E n \in DOMAIN rs :
            /\ rs[n].identity = q[1]
            /\ q[2].model = rs[n].model
            /\ \/ q[2].window = Window(Asked, rs[n])
               \/ /\ ~Asked.bare /\ n > 1 /\ rs[n - 1].model = rs[n].model
                  /\ \E r \in made[j] : r[1] = rs[n - 1].identity /\ r[2] = q[2]

OwnServer(j) ==
    Asked.bare => \A q \in made[j] : Reviews(P(j), q[2].id + 1, q[1])

VerdictInv(j) ==
    /\ Verdict \in files[j] => verdict[j].says # "nothing"
    /\ at[j] # "failed" /\ verdict[j].says \in {"agree", "disagree"} =>
          \E m \in DOMAIN P(j) :
              Past(j, m) /\ P(j)[m].op = "judge" /\ verdict[j].of = P(j)[m].of

LostInv(j) == at[j] = "failed" => Reason

JobInv(j) ==
    /\ JobType(j)
    /\ ServerInv(j) /\ WaitInv(j) /\ TurnInv(j) /\ FileInv(j)
    /\ AsConfigured(j) /\ OwnServer(j) /\ VerdictInv(j) /\ LostInv(j)

\* What was submitted is what was asked for.
Submitted ==
    spec # <<>> => spec = Experiment(Asked) /\ Refusal(Asked) = "none"

Outcome ==
    /\ result.is # "refused"
    /\ result.is = "failed" => Reason
    /\ result.by = "rack" => (\A j \in Job : at[j] = "done") /\ VerdictOfThePair

ConfigOK ==
    /\ config \in Config /\ Valid(config) /\ NamedOnce(config.rack) /\ ask \in Ask
    /\ ask = "other_other_barry" => HasReviewer(config.rack, ask)

Domains ==
    /\ DOMAIN at = Job /\ DOMAIN pc = Job /\ DOMAIN servers = Job /\ DOMAIN pid = Job
    /\ DOMAIN files = Job /\ DOMAIN made = Job /\ DOMAIN verdict = Job
    /\ DOMAIN foreign = Job

RackInv ==
    ConfigOK /\ Submitted /\ Domains /\ Outcome /\ \A j \in Job : JobInv(j)
-----------------------------------------------------------------------------
(* Sequences laid end to end.                                              *)

LEMMA Concat ==
    ASSUME NEW S, NEW s \in Seq(S), NEW t \in Seq(S)
    PROVE  /\ s \o t \in Seq(S) /\ Len(s \o t) = Len(s) + Len(t)
           /\ \A k \in 1 .. Len(s) : (s \o t)[k] = s[k]
           /\ \A k \in 1 .. Len(t) : (s \o t)[Len(s) + k] = t[k]
OBVIOUS

LEMMA FlattenNone ==
    ASSUME NEW ss, Len(ss) = 0
    PROVE  FlattenSeq(ss) = ss
BY DEF FlattenSeq

LEMMA FlattenOne ==
    ASSUME NEW ss, Len(ss) = 1
    PROVE  FlattenSeq(ss) = ss[1]
<1> DEFINE Unfolds(f) == f = [i \in 1 .. Len(ss) |-> IF i = 1 THEN ss[i] ELSE f[i - 1] \o ss[i]]
           g == CHOOSE f : Unfolds(f)
<1>1. Unfolds([i \in 1 .. Len(ss) |-> ss[1]])
  OBVIOUS
<1>2. Unfolds(g)
  <2> HIDE DEF Unfolds
  <2> QED BY <1>1
<1>3. FlattenSeq(ss) = g[Len(ss)]
  BY DEF FlattenSeq
<1> HIDE DEF g
<1> QED BY <1>2, <1>3

LEMMA FlattenTwo ==
    ASSUME NEW ss, Len(ss) = 2
    PROVE  FlattenSeq(ss) = ss[1] \o ss[2]
<1> DEFINE Unfolds(f) == f = [i \in 1 .. Len(ss) |-> IF i = 1 THEN ss[i] ELSE f[i - 1] \o ss[i]]
           g == CHOOSE f : Unfolds(f)
           w == [i \in 1 .. Len(ss) |-> IF i = 1 THEN ss[1] ELSE ss[1] \o ss[2]]
<1>1. Unfolds(w)
  OBVIOUS
<1>2. Unfolds(g)
  <2> HIDE DEF Unfolds, w
  <2> QED BY <1>1
<1>3. FlattenSeq(ss) = g[Len(ss)]
  BY DEF FlattenSeq
<1> HIDE DEF g
<1>4. g[2] = g[1] \o ss[2] /\ g[1] = ss[1]
  BY <1>2
<1> QED BY <1>3, <1>4

LEMMA FlattenThree ==
    ASSUME NEW ss, Len(ss) = 3
    PROVE  FlattenSeq(ss) = (ss[1] \o ss[2]) \o ss[3]
<1> DEFINE Unfolds(f) == f = [i \in 1 .. Len(ss) |-> IF i = 1 THEN ss[i] ELSE f[i - 1] \o ss[i]]
           g == CHOOSE f : Unfolds(f)
           two == ss[1] \o ss[2]
           w == [i \in 1 .. Len(ss) |->
                    IF i = 1 THEN ss[1] ELSE IF i = 2 THEN two ELSE two \o ss[3]]
<1>1. Unfolds(w)
  OBVIOUS
<1>2. Unfolds(g)
  <2> HIDE DEF Unfolds, w
  <2> QED BY <1>1
<1>3. FlattenSeq(ss) = g[Len(ss)]
  BY DEF FlattenSeq
<1> HIDE DEF g
<1>4. \A i \in 1 .. 3 : g[i] = IF i = 1 THEN ss[i] ELSE g[i - 1] \o ss[i]
  BY <1>2
<1>5. g[1] = ss[1] /\ g[2] = g[1] \o ss[2] /\ g[3] = g[2] \o ss[3]
  BY <1>4
<1> QED BY <1>3, <1>5
-----------------------------------------------------------------------------
(* The reviewers of a configuration, and those of some names.              *)

\* Reviewers, no name twice: so that there are three at the most.
Named(rs) ==
    /\ rs \in Seq(Reviewer)
    /\ \A n \in DOMAIN rs : rs[n].identity \in Slug
    /\ \A m, n \in DOMAIN rs : rs[m].identity = rs[n].identity => m = n

LEMMA AtMostThree ==
    ASSUME NEW rs, Named(rs)
    PROVE  Len(rs) \in 0 .. 3
<1>1. DOMAIN rs = 1 .. Len(rs) /\ Len(rs) \in Nat
  BY DEF Named
<1>3. \A n \in DOMAIN rs : rs[n].identity \in Slug
  BY DEF Named
<1>4. \A m, n \in DOMAIN rs : rs[m].identity = rs[n].identity => m = n
  BY DEF Named
<1>5. SUFFICES ASSUME Len(rs) >= 4 PROVE FALSE
  BY <1>1
<1>6. {1, 2, 3, 4} \subseteq DOMAIN rs
  BY <1>1, <1>5
<1>7. /\ rs[1].identity \in Slug /\ rs[2].identity \in Slug
      /\ rs[3].identity \in Slug /\ rs[4].identity \in Slug
  BY <1>3, <1>6
<1>8. /\ rs[1].identity # rs[2].identity /\ rs[1].identity # rs[3].identity
      /\ rs[1].identity # rs[4].identity /\ rs[2].identity # rs[3].identity
      /\ rs[2].identity # rs[4].identity /\ rs[3].identity # rs[4].identity
  BY <1>4, <1>6
<1> QED BY <1>7, <1>8 DEF Slug

\* What Only keeps, of each reviewer.
Kept(rs, names, n) == IF rs[n].identity \in names THEN <<rs[n]>> ELSE <<>>

\* Those of the names among the first n reviewers, each once.
Sifted(rs, names, n, s) ==
    /\ s \in Seq(Reviewer)
    /\ \A k \in DOMAIN s : \E i \in 1 .. n : s[k] = rs[i] /\ rs[i].identity \in names
    /\ \A i \in 1 .. n : rs[i].identity \in names => \E k \in DOMAIN s : s[k] = rs[i]
    /\ \A j, k \in DOMAIN s : s[j].identity = s[k].identity => j = k

LEMMA NoneSifted ==
    ASSUME NEW rs, NEW names
    PROVE  Sifted(rs, names, 0, <<>>)
BY DEF Sifted

LEMMA OneMoreSifted ==
    ASSUME NEW rs, Named(rs), NEW names, NEW n \in Nat, NEW m, m = n + 1, m <= Len(rs),
           NEW s, Sifted(rs, names, n, s)
    PROVE  Sifted(rs, names, m, s \o Kept(rs, names, m))
<1> DEFINE r == rs[m]
<1>1. /\ m \in DOMAIN rs /\ 1 .. n \subseteq DOMAIN rs
      /\ 1 .. m = 1 .. n \cup {m} /\ m \notin 1 .. n
  BY DEF Named
<1>2. /\ r \in Reviewer
      /\ \A i \in 1 .. n : rs[i].identity # r.identity
  BY <1>1 DEF Named
<1>3. /\ s \in Seq(Reviewer)
      /\ \A k \in DOMAIN s : \E i \in 1 .. n : s[k] = rs[i] /\ rs[i].identity \in names
      /\ \A i \in 1 .. n : rs[i].identity \in names => \E k \in DOMAIN s : s[k] = rs[i]
      /\ \A j, k \in DOMAIN s : s[j].identity = s[k].identity => j = k
  BY DEF Sifted
<1>4. CASE r.identity \notin names
  <2>1. s \o Kept(rs, names, m) = s
    BY <1>3, <1>4 DEF Kept
  <2> HIDE DEF r
  <2>2. Sifted(rs, names, m, s)
    BY <1>1, <1>3, <1>4 DEF Sifted, r
  <2> QED BY <2>1, <2>2
<1>5. CASE r.identity \in names
  <2> DEFINE t == s \o <<r>>
  <2>1. s \o Kept(rs, names, m) = t
    BY <1>5 DEF Kept
  <2>2. /\ t \in Seq(Reviewer) /\ Len(s) \in Nat /\ DOMAIN s = 1 .. Len(s)
        /\ DOMAIN t = DOMAIN s \cup {Len(s) + 1} /\ Len(s) + 1 \notin DOMAIN s
        /\ \A k \in DOMAIN s : t[k] = s[k]
        /\ t[Len(s) + 1] = r
    BY <1>2, <1>3
  <2> HIDE DEF t, r
  <2>3. \A k \in DOMAIN t : \E i \in 1 .. m : t[k] = rs[i] /\ rs[i].identity \in names
    BY <1>1, <1>3, <1>5, <2>2 DEF r
  <2>4. \A i \in 1 .. m : rs[i].identity \in names => \E k \in DOMAIN t : t[k] = rs[i]
    BY <1>1, <1>3, <2>2 DEF r
  <2>5. \A k \in DOMAIN s : s[k].identity # r.identity
    BY <1>2, <1>3
  <2>6. \A j, k \in DOMAIN t : t[j].identity = t[k].identity => j = k
    BY <1>3, <2>2, <2>5
  <2>7. Sifted(rs, names, m, t)
    BY <2>2, <2>3, <2>4, <2>6 DEF Sifted
  <2> QED BY <2>1, <2>7
<1> QED BY <1>4, <1>5

LEMMA OnlySifts ==
    ASSUME NEW rs, Named(rs), NEW names
    PROVE  Sifted(rs, names, Len(rs), Only(rs, names))
<1> DEFINE ss == [n \in DOMAIN rs |-> Kept(rs, names, n)]
           K(n) == Kept(rs, names, n)
<1>1. Only(rs, names) = FlattenSeq(ss)
  BY DEF Only, Kept
<1>2. DOMAIN rs = 1 .. Len(rs) /\ Len(rs) \in 0 .. 3
  BY AtMostThree DEF Named
<1>3. Len(ss) = Len(rs) /\ \A n \in 1 .. Len(rs) : ss[n] = K(n)
  BY <1>2
<1>4. ASSUME Len(rs) >= 1 PROVE Sifted(rs, names, 1, K(1))
  <2>1. K(1) \in Seq(Reviewer)
    BY <1>2, <1>4 DEF Kept, Named
  <2>2. <<>> \o K(1) = K(1)
    BY <2>1
  <2>3. \A s : Sifted(rs, names, 0, s) => Sifted(rs, names, 1, s \o K(1))
    BY <1>2, <1>4, OneMoreSifted DEF K
  <2> QED BY <2>2, <2>3, NoneSifted
<1>5. ASSUME Len(rs) >= 2 PROVE Sifted(rs, names, 2, K(1) \o K(2))
  <2>1. \A s : Sifted(rs, names, 1, s) => Sifted(rs, names, 2, s \o K(2))
    BY <1>2, <1>5, OneMoreSifted
  <2> QED BY <2>1, <1>2, <1>4, <1>5
<1>6. ASSUME Len(rs) >= 3 PROVE Sifted(rs, names, 3, (K(1) \o K(2)) \o K(3))
  <2>1. \A s : Sifted(rs, names, 2, s) => Sifted(rs, names, 3, s \o K(3))
    BY <1>2, <1>6, OneMoreSifted
  <2> QED BY <2>1, <1>2, <1>5, <1>6
<1> HIDE DEF ss, K
<1>7. CASE Len(rs) = 0
  <2>1. ss = <<>>
    BY <1>2, <1>7 DEF ss
  <2> QED BY <2>1, <1>1, <1>3, <1>7, FlattenNone, NoneSifted
<1>8. CASE Len(rs) = 1
  <2>1. ss[1] = K(1) /\ Len(ss) = 1
    BY <1>3, <1>8
  <2>2. FlattenSeq(ss) = K(1)
    BY <2>1, FlattenOne
  <2> QED BY <2>2, <1>1, <1>4, <1>8
<1>9. CASE Len(rs) = 2
  <2>1. ss[1] = K(1) /\ ss[2] = K(2) /\ Len(ss) = 2
    BY <1>3, <1>9
  <2>2. FlattenSeq(ss) = K(1) \o K(2)
    BY <2>1, FlattenTwo
  <2> QED BY <2>2, <1>1, <1>5, <1>9
<1>10. CASE Len(rs) = 3
  <2>1. ss[1] = K(1) /\ ss[2] = K(2) /\ ss[3] = K(3) /\ Len(ss) = 3
    BY <1>3, <1>10
  <2>2. FlattenSeq(ss) = (K(1) \o K(2)) \o K(3)
    BY <2>1, FlattenThree
  <2> QED BY <2>2, <1>1, <1>6, <1>10
<1> QED BY <1>2, <1>7, <1>8, <1>9, <1>10

LEMMA OnlyNamed ==
    ASSUME NEW rs, Named(rs), NEW names
    PROVE  /\ Named(Only(rs, names))
           /\ \A k \in DOMAIN Only(rs, names) : Only(rs, names)[k].identity \in names
           /\ \A n \in DOMAIN rs : rs[n].identity \in names =>
                 \E k \in DOMAIN Only(rs, names) : Only(rs, names)[k] = rs[n]
BY OnlySifts DEF Sifted, Named

LEMMA OnlyOfOne ==
    ASSUME NEW rs, Named(rs), NEW name
    PROVE  Len(Only(rs, {name})) <= 1
<1> DEFINE o == Only(rs, {name})
<1>1. Named(o) /\ \A k \in DOMAIN o : o[k].identity = name
  BY OnlyNamed
<1> HIDE DEF o
<1>2. Len(o) \in Nat /\ DOMAIN o = 1 .. Len(o)
  BY <1>1 DEF Named
<1>3. \A m, n \in DOMAIN o : m = n
  BY <1>1 DEF Named
<1>4. SUFFICES ASSUME Len(o) >= 2 PROVE FALSE
  BY <1>2 DEF o
<1>5. 1 \in DOMAIN o /\ 2 \in DOMAIN o
  BY <1>2, <1>4
<1> QED BY <1>3, <1>5

LEMMA OnlyOfBoth ==
    ASSUME NEW rs, Named(rs)
    PROVE  /\ Len(Only(rs, Both)) <= 2
           /\ Len(Only(rs, Both)) = 2 =>
                 {Only(rs, Both)[1].identity, Only(rs, Both)[2].identity} = Both
<1> DEFINE o == Only(rs, Both)
<1>1. Named(o) /\ \A k \in DOMAIN o : o[k].identity \in Both
  BY OnlyNamed
<1> HIDE DEF o
<1>2. Len(o) \in Nat /\ DOMAIN o = 1 .. Len(o)
  BY <1>1 DEF Named
<1>3. \A m, n \in DOMAIN o : o[m].identity = o[n].identity => m = n
  BY <1>1 DEF Named
<1>4. ASSUME Len(o) >= 3 PROVE FALSE
  <2>1. {1, 2, 3} \subseteq DOMAIN o
    BY <1>2, <1>4
  <2>2. /\ o[1].identity # o[2].identity /\ o[1].identity # o[3].identity
        /\ o[2].identity # o[3].identity
    BY <1>3, <2>1
  <2>3. o[1].identity \in Both /\ o[2].identity \in Both /\ o[3].identity \in Both
    BY <1>1, <2>1
  <2> QED BY <2>2, <2>3 DEF Both
<1>5. ASSUME Len(o) = 2 PROVE {o[1].identity, o[2].identity} = Both
  <2>1. {1, 2} \subseteq DOMAIN o
    BY <1>2, <1>5
  <2>2. o[1].identity # o[2].identity
    BY <1>3, <2>1
  <2>3. o[1].identity \in Both /\ o[2].identity \in Both
    BY <1>1, <2>1
  <2> QED BY <2>2, <2>3 DEF Both
<1>6. Len(o) <= 2
  BY <1>2, <1>4
<1> QED BY <1>5, <1>6 DEF o

\* Two of the two names stay two.
LEMMA BothAgain ==
    ASSUME NEW rs, Named(rs), Len(Only(rs, Both)) >= 2
    PROVE  Len(Only(Only(rs, Both), Both)) >= 2
<1> DEFINE o == Only(rs, Both)
           oo == Only(o, Both)
<1>1. Named(o) /\ \A k \in DOMAIN o : o[k].identity \in Both
  BY OnlyNamed
<1> HIDE DEF o
<1>2. Len(o) \in Nat /\ DOMAIN o = 1 .. Len(o) /\ Len(o) >= 2
  BY <1>1 DEF Named, o
<1>3. 1 \in DOMAIN o /\ 2 \in DOMAIN o
  BY <1>2
<1>4. o[1].identity # o[2].identity
  BY <1>1, <1>3 DEF Named
<1>5. /\ Named(oo)
      /\ \A n \in DOMAIN o : o[n].identity \in Both => \E k \in DOMAIN oo : oo[k] = o[n]
  BY <1>1, OnlyNamed
<1> HIDE DEF oo
<1>6. \A n \in DOMAIN o : \E k \in DOMAIN oo : oo[k] = o[n]
  BY <1>1, <1>5
<1>7. PICK k \in DOMAIN oo : oo[k] = o[1]
  BY <1>3, <1>6
<1>8. PICK l \in DOMAIN oo : oo[l] = o[2]
  BY <1>3, <1>6
<1>9. Len(oo) \in Nat /\ DOMAIN oo = 1 .. Len(oo)
  BY <1>5 DEF Named
<1>10. k # l
  BY <1>4, <1>7, <1>8
<1>11. Len(oo) >= 2
  BY <1>9, <1>10
<1> QED BY <1>11 DEF oo, o

\* Of the three, the main job has these.
LEMMA MainIsBoth ==
    ASSUME NEW rs, Named(rs)
    PROVE  Only(rs, InMain) = Only(rs, Both) /\ Only(rs, InAlone) = Only(rs, {"barry"})
<1>1. \A n \in DOMAIN rs : rs[n] \in Reviewer /\ rs[n].identity \in Slug
  BY DEF Named
<1>2. \A n \in DOMAIN rs : rs[n].identity \in Slug /\ rs[n].identity \in STRING
  BY <1>1 DEF Reviewer
<1>3. \A n \in DOMAIN rs : /\ Kept(rs, InMain, n) = Kept(rs, Both, n)
                          /\ Kept(rs, InAlone, n) = Kept(rs, {"barry"}, n)
  BY <1>2 DEF Kept, Slug, Both, InMain, InAlone
<1>4. /\ [n \in DOMAIN rs |-> Kept(rs, InMain, n)] = [n \in DOMAIN rs |-> Kept(rs, Both, n)]
      /\ [n \in DOMAIN rs |-> Kept(rs, InAlone, n)] = [n \in DOMAIN rs |-> Kept(rs, {"barry"}, n)]
  BY <1>3
<1> QED BY <1>4 DEF Only, Kept

-----------------------------------------------------------------------------
(* What barry asks of the rack.                                            *)

(* A configuration of reviewers that one job may have, besides a judge.    *)
Small(c) ==
    /\ c.bare \in BOOLEAN /\ c.placement \in Placement
    /\ Named(c.reviewers) /\ Len(c.reviewers) <= 2
    /\ Len(c.reviewers) = 2 =>
          {c.reviewers[1].identity, c.reviewers[2].identity} = Both

LEMMA RackFacts ==
    ASSUME ConfigOK
    PROVE  config.rack \in RackSection /\ Named(config.rack.reviewers)
<1>1. config.rack \in RackSection /\ NamedOnce(config.rack)
  BY RackAssumption DEF ConfigOK
<1> QED BY <1>1 DEF RackSection, Named, NamedOnce

\* A configuration with the reviewers rs, judging or not.
Of(c, rs, judge) == [c EXCEPT !.reviewers = rs, !.judge = judge]

LEMMA OfFields ==
    ASSUME NEW c \in RackSection, NEW rs, NEW b
    PROVE  /\ Of(c, rs, b).reviewers = rs /\ Of(c, rs, b).judge = b
           /\ Of(c, rs, b).bare = c.bare /\ Of(c, rs, b).placement = c.placement
           /\ Of(c, rs, b).packages = c.packages /\ Of(c, rs, b).image = c.image
           /\ Of(c, rs, b).plain = c.plain /\ Of(c, rs, b).timeouts = c.timeouts
BY DEF RackSection, Of

LEMMA AskedOf ==
    ASSUME ConfigOK
    PROVE  LET c == config.rack
           IN  \/ /\ ask = "main" /\ Asked = Of(c, Only(c.reviewers, Both), c.judge)
               \/ /\ ask = "main_alone" /\ Asked = Of(c, Only(c.reviewers, {"barry"}), FALSE)
               \/ /\ ask = "other_other_barry" 
                  /\ Asked = Of(c, Only(c.reviewers, {ask}), FALSE)
<1>1. config.rack \in RackSection
  BY RackFacts
<1>2. config.rack.judge \in BOOLEAN
  BY <1>1 DEF RackSection
<1>6. LET rs == config.rack.reviewers
      IN  Only(rs, InMain) = Only(rs, Both) /\ Only(rs, InAlone) = Only(rs, {"barry"})
  BY RackFacts, MainIsBoth
<1>3. CASE ask = "main"
  BY <1>1, <1>2, <1>3, <1>6 DEF Asked, Of, MainReviewJob, RackSection
<1>4. CASE ask = "main_alone"
  BY <1>1, <1>2, <1>4, <1>6 DEF Asked, Of, MainReviewJob, RackSection
<1>5. CASE ask = "other_other_barry"
  BY <1>1, <1>2, <1>5 DEF Asked, Of, ReviewAs
<1> QED BY <1>3, <1>4, <1>5 DEF ConfigOK, Ask
LEMMA AskedSmall ==
    ASSUME ConfigOK
    PROVE  Small(Asked)
<1> DEFINE c == config.rack
           rs == c.reviewers
<1>1. c \in RackSection /\ Named(rs)
  BY RackFacts
<1>2. c.bare \in BOOLEAN /\ c.placement \in Placement
  BY <1>1 DEF RackSection
<1> HIDE DEF c, rs
<1>3. /\ Asked.bare = c.bare /\ Asked.placement = c.placement
      /\ \/ ask = "main" /\ Asked.reviewers = Only(rs, Both)
         \/ ask = "main_alone" /\ Asked.reviewers = Only(rs, {"barry"})
         \/ ask = "other_other_barry" /\ Asked.reviewers = Only(rs, {ask})
  <2>1. \A names, b : /\ Of(c, Only(rs, names), b).reviewers = Only(rs, names)
                      /\ Of(c, Only(rs, names), b).bare = c.bare
                      /\ Of(c, Only(rs, names), b).placement = c.placement
    BY <1>1, OfFields
  <2>2. \/ ask = "main" /\ Asked = Of(c, Only(rs, Both), c.judge)
        \/ ask = "main_alone" /\ Asked = Of(c, Only(rs, {"barry"}), FALSE)
        \/ ask = "other_other_barry" /\ Asked = Of(c, Only(rs, {ask}), FALSE)
    BY AskedOf DEF c, rs
  <2> QED BY <2>1, <2>2
<1>4. CASE Asked.reviewers = Only(rs, Both)
  BY <1>1, <1>2, <1>3, <1>4, OnlyOfBoth, OnlyNamed DEF Small
<1>5. ASSUME NEW name, Asked.reviewers = Only(rs, {name})
      PROVE  Small(Asked)
  <2>1. Named(Only(rs, {name})) /\ Len(Only(rs, {name})) <= 1
    BY <1>1, OnlyOfOne, OnlyNamed
  <2>2. Len(Only(rs, {name})) \in Nat
    BY <2>1 DEF Named
  <2>3. Len(Only(rs, {name})) # 2
    BY <2>1, <2>2
  <2> QED BY <1>2, <1>3, <1>5, <2>1, <2>2, <2>3 DEF Small
<1> QED BY <1>3, <1>4, <1>5

LEMMA NotRefused ==
    ASSUME ConfigOK
    PROVE  Refusal(Asked) # "refused"
<1> DEFINE c == config.rack
           rs == c.reviewers
<1>1. c \in RackSection /\ Named(rs)
  BY RackFacts
<1>2. ValidRack(c)
  BY DEF ConfigOK, Valid
<1> HIDE DEF c
<1>3. ASSUME NEW d, NEW names, NEW b \in BOOLEAN,
             d = Of(c, Only(rs, names), b),
             b => c.judge /\ Pair(d)
      PROVE  ValidRack(d)
  <2>1. /\ d.judge = b /\ d.bare = c.bare /\ d.placement = c.placement
        /\ d.packages = c.packages /\ d.image = c.image /\ d.plain = c.plain
        /\ d.timeouts = c.timeouts
    BY <1>1, <1>3, OfFields
  <2> QED BY <1>2, <1>3, <2>1 DEF ValidRack
<1>4. CASE ask = "main"
  <2>1. Asked = Of(c, Only(rs, Both), c.judge)
    BY <1>4, AskedOf DEF c, rs
  <2>2. Asked.reviewers = Only(rs, Both)
    BY <1>1, <2>1, OfFields
  <2>3. c.judge => Len(Only(rs, Both)) >= 2
    BY <1>1, <1>2, MainIsBoth DEF ValidRack, Pair, rs
  <2>7. Only(Only(rs, Both), InMain) = Only(Only(rs, Both), Both)
    BY <1>1, OnlyNamed, MainIsBoth
  <2>4. c.judge => Pair(Asked)
    BY <1>1, <2>2, <2>3, <2>7, BothAgain DEF Pair
  <2>5. ValidRack(Asked)
    BY <1>1, <1>3, <2>1, <2>4 DEF RackSection
  <2>6. HasReviewer(Asked, "barry") => Asked.reviewers # <<>>
    BY DEF HasReviewer
  <2> QED BY <1>4, <2>5, <2>6 DEF Refusal
<1>5. CASE ask = "main_alone"
  <2>1. Asked = Of(c, Only(rs, {"barry"}), FALSE)
    BY <1>5, AskedOf DEF c, rs
  <2>2. ValidRack(Asked)
    BY <1>3, <2>1
  <2>3. HasReviewer(Asked, "barry") => Asked.reviewers # <<>>
    BY DEF HasReviewer
  <2> QED BY <1>5, <2>2, <2>3 DEF Refusal
<1>6. CASE ask = "other_other_barry"
  <2>1. Asked = Of(c, Only(rs, {ask}), FALSE)
    BY <1>6, AskedOf DEF c, rs
  <2>2. ValidRack(Asked)
    BY <1>3, <2>1
  <2>3. PICK n \in DOMAIN rs : rs[n].identity = ask
    BY <1>6 DEF ConfigOK, HasReviewer, c
  <2>4. Asked.reviewers = Only(rs, {ask})
    <3>1. \A names, b : Of(c, names, b).reviewers = names
      BY <1>1, OfFields
    <3> QED BY <2>1, <3>1
  <2>5. \E k \in DOMAIN Asked.reviewers : Asked.reviewers[k] = rs[n]
    BY <1>1, <2>3, <2>4, OnlyNamed
  <2>6. Asked.reviewers # <<>>
    BY <2>5
  <2> QED BY <1>6, <2>2, <2>6 DEF Refusal
<1> QED BY <1>4, <1>5, <1>6 DEF ConfigOK, Ask

-----------------------------------------------------------------------------
(* Lists of commands laid end to end.                                      *)

LEMMA SameSequence ==
    ASSUME NEW S, NEW s \in Seq(S), NEW t \in Seq(S), Len(s) = Len(t),
           \A k \in 1 .. Len(s) : s[k] = t[k]
    PROVE  s = t
OBVIOUS

LEMMA Join11 ==
    ASSUME NEW S, NEW a \in S, NEW b \in S
    PROVE  <<a>> \o <<b>> = <<a, b>>
<1> DEFINE s == <<a>>
           t == <<b>>
           u == <<a, b>>
<1>1. s \in Seq(S) /\ t \in Seq(S) /\ u \in Seq(S)
  OBVIOUS
<1>2. s \o t \in Seq(S) /\ Len(s \o t) = 2 /\ Len(u) = 2
  OBVIOUS
<1>3. \A k \in 1 .. 2 : (s \o t)[k] = u[k]
  OBVIOUS
<1> QED BY <1>1, <1>2, <1>3, SameSequence

LEMMA Join21 ==
    ASSUME NEW S, NEW a \in S, NEW b \in S, NEW c \in S
    PROVE  <<a, b>> \o <<c>> = <<a, b, c>>
<1> DEFINE s == <<a, b>>
           t == <<c>>
           u == <<a, b, c>>
<1>1. s \in Seq(S) /\ t \in Seq(S) /\ u \in Seq(S)
  OBVIOUS
<1>2. s \o t \in Seq(S) /\ Len(s \o t) = 3 /\ Len(u) = 3
  OBVIOUS
<1>3. \A k \in 1 .. 3 : (s \o t)[k] = u[k]
  OBVIOUS
<1> QED BY <1>1, <1>2, <1>3, SameSequence

LEMMA Join22 ==
    ASSUME NEW S, NEW a \in S, NEW b \in S, NEW c \in S, NEW d \in S
    PROVE  <<a, b>> \o <<c, d>> = <<a, b, c, d>>
<1> DEFINE s == <<a, b>>
           t == <<c, d>>
           u == <<a, b, c, d>>
<1>1. s \in Seq(S) /\ t \in Seq(S) /\ u \in Seq(S)
  OBVIOUS
<1>2. s \o t \in Seq(S) /\ Len(s \o t) = 4 /\ Len(u) = 4
  OBVIOUS
<1>3. \A k \in 1 .. 4 : (s \o t)[k] = u[k]
  OBVIOUS
<1> QED BY <1>1, <1>2, <1>3, SameSequence

LEMMA Join23 ==
    ASSUME NEW S, NEW a \in S, NEW b \in S, NEW c \in S, NEW d \in S, NEW e \in S
    PROVE  <<a, b>> \o <<c, d, e>> = <<a, b, c, d, e>>
<1> DEFINE s == <<a, b>>
           t == <<c, d, e>>
           u == <<a, b, c, d, e>>
<1>1. s \in Seq(S) /\ t \in Seq(S) /\ u \in Seq(S)
  OBVIOUS
<1>2. s \o t \in Seq(S) /\ Len(s \o t) = 5 /\ Len(u) = 5
  OBVIOUS
<1>3. \A k \in 1 .. 5 : (s \o t)[k] = u[k]
  OBVIOUS
<1> QED BY <1>1, <1>2, <1>3, SameSequence

LEMMA Join31 ==
    ASSUME NEW S, NEW a \in S, NEW b \in S, NEW c \in S, NEW d \in S
    PROVE  <<a, b, c>> \o <<d>> = <<a, b, c, d>>
<1> DEFINE s == <<a, b, c>>
           t == <<d>>
           u == <<a, b, c, d>>
<1>1. s \in Seq(S) /\ t \in Seq(S) /\ u \in Seq(S)
  OBVIOUS
<1>2. s \o t \in Seq(S) /\ Len(s \o t) = 4 /\ Len(u) = 4
  OBVIOUS
<1>3. \A k \in 1 .. 4 : (s \o t)[k] = u[k]
  OBVIOUS
<1> QED BY <1>1, <1>2, <1>3, SameSequence

LEMMA Join33 ==
    ASSUME NEW S, NEW a \in S, NEW b \in S, NEW c \in S, NEW d \in S, NEW e \in S,
           NEW f \in S
    PROVE  <<a, b, c>> \o <<d, e, f>> = <<a, b, c, d, e, f>>
<1> DEFINE s == <<a, b, c>>
           t == <<d, e, f>>
           u == <<a, b, c, d, e, f>>
<1>1. s \in Seq(S) /\ t \in Seq(S) /\ u \in Seq(S)
  OBVIOUS
<1>2. s \o t \in Seq(S) /\ Len(s \o t) = 6 /\ Len(u) = 6
  OBVIOUS
<1>3. \A k \in 1 .. 6 : (s \o t)[k] = u[k]
  OBVIOUS
<1> QED BY <1>1, <1>2, <1>3, SameSequence

LEMMA Join34 ==
    ASSUME NEW S, NEW a \in S, NEW b \in S, NEW c \in S, NEW d \in S, NEW e \in S,
           NEW f \in S, NEW g \in S
    PROVE  <<a, b, c>> \o <<d, e, f, g>> = <<a, b, c, d, e, f, g>>
<1> DEFINE s == <<a, b, c>>
           t == <<d, e, f, g>>
           u == <<a, b, c, d, e, f, g>>
<1>1. s \in Seq(S) /\ t \in Seq(S) /\ u \in Seq(S)
  OBVIOUS
<1>2. s \o t \in Seq(S) /\ Len(s \o t) = 7 /\ Len(u) = 7
  OBVIOUS
<1>3. \A k \in 1 .. 7 : (s \o t)[k] = u[k]
  OBVIOUS
<1> QED BY <1>1, <1>2, <1>3, SameSequence

LEMMA Join36 ==
    ASSUME NEW S, NEW a \in S, NEW b \in S, NEW c \in S, NEW d \in S, NEW e \in S,
           NEW f \in S, NEW g \in S, NEW h \in S, NEW i \in S
    PROVE  <<a, b, c>> \o <<d, e, f, g, h, i>> = <<a, b, c, d, e, f, g, h, i>>
<1> DEFINE s == <<a, b, c>>
           t == <<d, e, f, g, h, i>>
           u == <<a, b, c, d, e, f, g, h, i>>
<1>1. s \in Seq(S) /\ t \in Seq(S) /\ u \in Seq(S)
  OBVIOUS
<1>2. s \o t \in Seq(S) /\ Len(s \o t) = 9 /\ Len(u) = 9
  OBVIOUS
<1>3. \A k \in 1 .. 9 : (s \o t)[k] = u[k]
  OBVIOUS
<1> QED BY <1>1, <1>2, <1>3, SameSequence

LEMMA Join41 ==
    ASSUME NEW S, NEW a \in S, NEW b \in S, NEW c \in S, NEW d \in S, NEW e \in S
    PROVE  <<a, b, c, d>> \o <<e>> = <<a, b, c, d, e>>
<1> DEFINE s == <<a, b, c, d>>
           t == <<e>>
           u == <<a, b, c, d, e>>
<1>1. s \in Seq(S) /\ t \in Seq(S) /\ u \in Seq(S)
  OBVIOUS
<1>2. s \o t \in Seq(S) /\ Len(s \o t) = 5 /\ Len(u) = 5
  OBVIOUS
<1>3. \A k \in 1 .. 5 : (s \o t)[k] = u[k]
  OBVIOUS
<1> QED BY <1>1, <1>2, <1>3, SameSequence

LEMMA Join42 ==
    ASSUME NEW S, NEW a \in S, NEW b \in S, NEW c \in S, NEW d \in S, NEW e \in S,
           NEW f \in S
    PROVE  <<a, b, c, d>> \o <<e, f>> = <<a, b, c, d, e, f>>
<1> DEFINE s == <<a, b, c, d>>
           t == <<e, f>>
           u == <<a, b, c, d, e, f>>
<1>1. s \in Seq(S) /\ t \in Seq(S) /\ u \in Seq(S)
  OBVIOUS
<1>2. s \o t \in Seq(S) /\ Len(s \o t) = 6 /\ Len(u) = 6
  OBVIOUS
<1>3. \A k \in 1 .. 6 : (s \o t)[k] = u[k]
  OBVIOUS
<1> QED BY <1>1, <1>2, <1>3, SameSequence

LEMMA Join51 ==
    ASSUME NEW S, NEW a \in S, NEW b \in S, NEW c \in S, NEW d \in S, NEW e \in S,
           NEW f \in S
    PROVE  <<a, b, c, d, e>> \o <<f>> = <<a, b, c, d, e, f>>
<1> DEFINE s == <<a, b, c, d, e>>
           t == <<f>>
           u == <<a, b, c, d, e, f>>
<1>1. s \in Seq(S) /\ t \in Seq(S) /\ u \in Seq(S)
  OBVIOUS
<1>2. s \o t \in Seq(S) /\ Len(s \o t) = 6 /\ Len(u) = 6
  OBVIOUS
<1>3. \A k \in 1 .. 6 : (s \o t)[k] = u[k]
  OBVIOUS
<1> QED BY <1>1, <1>2, <1>3, SameSequence

-----------------------------------------------------------------------------
(* The script of one reviewer, and of two.                                 *)

StartFor(c, r)   == Start(c, r, r.identity, "exit")
JudgeStart(c, r) == Start(c, r, "judge", "return")
ReviewOf(r)      == [op |-> "review", of |-> r.identity]
JudgeOf(rs)      == [op |-> "judge", of |-> <<rs[1].identity, rs[2].identity>>]

JudgesAfter(c, rs, n) == Judging(c, rs) /\ n = Len(rs)

LEMMA SectionIs ==
    ASSUME NEW c, NEW rs, NEW n
    PROVE  LET a == StartFor(c, rs[n])
               b == ReviewOf(rs[n])
               t == JudgeStart(c, rs[n])
               j == JudgeOf(rs)
               z == Stop
               section == Section(c, rs, n)
           IN  /\ StartsServer(c, rs, n) /\ ~JudgesAfter(c, rs, n) /\ StopsServer(c, rs, n)
                     => section = <<a, b, z>>
               /\ StartsServer(c, rs, n) /\ ~JudgesAfter(c, rs, n) /\ ~StopsServer(c, rs, n)
                     => section = <<a, b>>
               /\ ~StartsServer(c, rs, n) /\ ~JudgesAfter(c, rs, n) /\ StopsServer(c, rs, n)
                     => section = <<b, z>>
               /\ StartsServer(c, rs, n) /\ JudgesAfter(c, rs, n) /\ ~c.bare
                     => section = <<a, b, j, z>>
               /\ ~StartsServer(c, rs, n) /\ JudgesAfter(c, rs, n) /\ ~c.bare
                     => section = <<b, j, z>>
               /\ StartsServer(c, rs, n) /\ JudgesAfter(c, rs, n) /\ c.bare
                     => section = <<a, b, z, t, j, z>>
<1> DEFINE a == StartFor(c, rs[n])
           b == ReviewOf(rs[n])
           t == JudgeStart(c, rs[n])
           j == JudgeOf(rs)
           z == Stop
           S == {a, b, t, j, z}
           server == IF StartsServer(c, rs, n) THEN <<a>> ELSE <<>>
           own    == IF JudgesAfter(c, rs, n) /\ c.bare THEN <<z, t>> ELSE <<>>
           judge  == IF JudgesAfter(c, rs, n) THEN <<j>> ELSE <<>>
           stop   == IF StopsServer(c, rs, n) \/ JudgesAfter(c, rs, n) THEN <<z>> ELSE <<>>
<1>1. Section(c, rs, n) = server \o <<b>> \o own \o judge \o stop
  BY DEF Section, JudgesAfter, StartFor, JudgeStart, ReviewOf, JudgeOf
<1>2. a \in S /\ b \in S /\ t \in S /\ j \in S /\ z \in S
  OBVIOUS
<1> HIDE DEF a, b, t, j, z, S
<1>3. /\ <<>> \o <<b>> = <<b>> /\ <<b>> \o <<>> = <<b>> /\ <<a, b>> \o <<>> = <<a, b>>
  BY <1>2
<1>4. <<a>> \o <<b>> = <<a, b>> /\ <<b>> \o <<j>> = <<b, j>> /\ <<b>> \o <<z>> = <<b, z>>
  BY <1>2, Join11
<1>5. /\ <<a, b>> \o <<j>> = <<a, b, j>> /\ <<a, b>> \o <<z>> = <<a, b, z>>
      /\ <<b, j>> \o <<z>> = <<b, j, z>>
  BY <1>2, Join21
<1>6. <<a, b>> \o <<z, t>> = <<a, b, z, t>> /\ <<a, b, j>> \o <<z>> = <<a, b, j, z>>
  BY <1>2, Join22, Join31
<1>7. /\ <<a, b, z, t>> \o <<j>> = <<a, b, z, t, j>>
      /\ <<a, b, z, t, j>> \o <<z>> = <<a, b, z, t, j, z>>
  BY <1>2, Join41, Join51
<1>8. CASE StartsServer(c, rs, n) /\ ~JudgesAfter(c, rs, n) /\ StopsServer(c, rs, n)
  BY <1>1, <1>3, <1>4, <1>5, <1>8 DEF a, b, z
<1>9. CASE StartsServer(c, rs, n) /\ ~JudgesAfter(c, rs, n) /\ ~StopsServer(c, rs, n)
  BY <1>1, <1>3, <1>4, <1>9 DEF a, b
<1>10. CASE ~StartsServer(c, rs, n) /\ ~JudgesAfter(c, rs, n) /\ StopsServer(c, rs, n)
  BY <1>1, <1>3, <1>4, <1>10 DEF b, z
<1>11. CASE StartsServer(c, rs, n) /\ JudgesAfter(c, rs, n) /\ ~c.bare
  BY <1>1, <1>3, <1>4, <1>5, <1>6, <1>11 DEF a, b, j, z
<1>12. CASE ~StartsServer(c, rs, n) /\ JudgesAfter(c, rs, n) /\ ~c.bare
  BY <1>1, <1>3, <1>4, <1>5, <1>12 DEF b, j, z
<1>13. CASE StartsServer(c, rs, n) /\ JudgesAfter(c, rs, n) /\ c.bare
  BY <1>1, <1>4, <1>6, <1>7, <1>13 DEF a, b, t, j, z
<1> QED BY <1>8, <1>9, <1>10, <1>11, <1>12, <1>13
\* The reviewers of a job.
OneOrTwo(rs) ==
    /\ rs \in Seq(Reviewer) /\ Len(rs) \in {1, 2}
    /\ Len(rs) = 2 => {rs[1].identity, rs[2].identity} = Both

LEMMA JobReviewers ==
    ASSUME NEW c, Small(c), NEW n \in DOMAIN Jobs(c), Len(c.reviewers) # 0
    PROVE  OneOrTwo(Jobs(c)[n])
<1> DEFINE rs == c.reviewers
<1>1. /\ rs \in Seq(Reviewer) /\ Len(rs) \in {1, 2} /\ DOMAIN rs = 1 .. Len(rs)
      /\ Len(rs) = 2 => {rs[1].identity, rs[2].identity} = Both
  <2>1. rs \in Seq(Reviewer) /\ Len(rs) <= 2 /\ Len(rs) # 0
    BY DEF Small, Named
  <2>2. Len(rs) = 2 => {rs[1].identity, rs[2].identity} = Both
    BY DEF Small
  <2> HIDE DEF rs
  <2>3. Len(rs) \in Nat /\ DOMAIN rs = 1 .. Len(rs)
    BY <2>1
  <2> QED BY <2>1, <2>2, <2>3
<1> HIDE DEF rs
<1>2. CASE c.placement = "sequential"
  <2>1. Jobs(c) = <<rs>>
    BY <1>2 DEF Jobs, rs
  <2>2. n = 1 /\ Jobs(c)[n] = rs
    BY <2>1
  <2> QED BY <1>1, <2>2 DEF OneOrTwo
<1>3. CASE c.placement # "sequential"
  <2>1. Jobs(c) = [m \in LastOfName(rs) |-> <<rs[m]>>]
    BY <1>3 DEF Jobs, rs
  <2>2. n \in DOMAIN rs /\ Jobs(c)[n] = <<rs[n]>>
    BY <2>1 DEF LastOfName
  <2>3. rs[n] \in Reviewer
    BY <1>1, <2>2
  <2> QED BY <2>2, <2>3 DEF OneOrTwo
<1> QED BY <1>2, <1>3

LEMMA PayloadIs ==
    ASSUME NEW c, NEW rs, OneOrTwo(rs)
    PROVE  LET a == StartFor(c, rs[1])
               b == ReviewOf(rs[1])
               d == StartFor(c, rs[2])
               e == ReviewOf(rs[2])
               t == JudgeStart(c, rs[2])
               j == JudgeOf(rs)
               z == Stop
               two == Len(rs) = 2
               one == ~c.bare /\ rs[1].model = rs[2].model
               script == Payload(c, rs)
           IN  /\ Len(rs) = 1                       => script = <<a, b, z>>
               /\ two /\ one /\ ~c.judge            => script = <<a, b, e, z>>
               /\ two /\ one /\ c.judge             => script = <<a, b, e, j, z>>
               /\ two /\ ~one /\ ~c.judge           => script = <<a, b, z, d, e, z>>
               /\ two /\ ~one /\ c.judge /\ ~c.bare => script = <<a, b, z, d, e, j, z>>
               /\ two /\ c.judge /\ c.bare          => script = <<a, b, z, d, e, z, t, j, z>>
<1> DEFINE a == StartFor(c, rs[1])
           b == ReviewOf(rs[1])
           d == StartFor(c, rs[2])
           e == ReviewOf(rs[2])
           t == JudgeStart(c, rs[2])
           j == JudgeOf(rs)
           z == Stop
           S == {a, b, d, e, t, j, z}
           one == ~c.bare /\ rs[1].model = rs[2].model
           s1 == Section(c, rs, 1)
           s2 == Section(c, rs, 2)
           ss == [n \in DOMAIN rs |-> Section(c, rs, n)]
<1>1. DOMAIN rs = 1 .. Len(rs) /\ Len(rs) \in {1, 2}
  BY DEF OneOrTwo
<1>2. Len(ss) = Len(rs) /\ ss[1] = s1 /\ (Len(rs) = 2 => ss[2] = s2)
  BY <1>1
<1>3. Payload(c, rs) = FlattenSeq(ss)
  BY DEF Payload
<1>4. a \in S /\ b \in S /\ d \in S /\ e \in S /\ t \in S /\ j \in S /\ z \in S
  OBVIOUS
<1> HIDE DEF ss
<1>5. CASE Len(rs) = 1
  <2>1. StartsServer(c, rs, 1) /\ StopsServer(c, rs, 1) /\ ~JudgesAfter(c, rs, 1)
    BY <1>5 DEF StartsServer, StopsServer, JudgesAfter, Judging
  <2>2. s1 = <<a, b, z>>
    BY <2>1, SectionIs
  <2> QED BY <1>2, <1>3, <1>5, <2>2, FlattenOne
<1>6. CASE Len(rs) = 2
  <2>1. Payload(c, rs) = s1 \o s2
    BY <1>2, <1>3, <1>6, FlattenTwo
  <2>2. StartsServer(c, rs, 1) /\ ~JudgesAfter(c, rs, 1) /\ StopsServer(c, rs, 2)
    BY <1>6 DEF StartsServer, StopsServer, JudgesAfter
  <2>3. /\ (StartsServer(c, rs, 2) <=> ~one) /\ (StopsServer(c, rs, 1) <=> ~one)
        /\ (JudgesAfter(c, rs, 2) <=> c.judge)
    BY <1>6 DEF StartsServer, StopsServer, JudgesAfter, Judging
  <2>4. (one => s1 = <<a, b>>) /\ (~one => s1 = <<a, b, z>>)
    BY <2>2, <2>3, SectionIs
  <2>5. /\ one /\ ~c.judge => s2 = <<e, z>>
        /\ one /\ c.judge => s2 = <<e, j, z>>
        /\ ~one /\ ~c.judge => s2 = <<d, e, z>>
        /\ ~one /\ c.judge /\ ~c.bare => s2 = <<d, e, j, z>>
        /\ c.judge /\ c.bare => s2 = <<d, e, z, t, j, z>>
    BY <2>2, <2>3, SectionIs
  <2> HIDE DEF a, b, d, e, t, j, z, S, s1, s2
  <2>6. /\ <<a, b>> \o <<e, z>> = <<a, b, e, z>>
        /\ <<a, b>> \o <<e, j, z>> = <<a, b, e, j, z>>
    BY <1>4, Join22, Join23
  <2>7. /\ <<a, b, z>> \o <<d, e, z>> = <<a, b, z, d, e, z>>
        /\ <<a, b, z>> \o <<d, e, j, z>> = <<a, b, z, d, e, j, z>>
    BY <1>4, Join33, Join34
  <2>8. <<a, b, z>> \o <<d, e, z, t, j, z>> = <<a, b, z, d, e, z, t, j, z>>
    BY <1>4, Join36
  <2>9. /\ one /\ ~c.judge            => Payload(c, rs) = <<a, b, e, z>>
        /\ one /\ c.judge             => Payload(c, rs) = <<a, b, e, j, z>>
    BY <2>1, <2>4, <2>5, <2>6
  <2>10. /\ ~one /\ ~c.judge           => Payload(c, rs) = <<a, b, z, d, e, z>>
         /\ ~one /\ c.judge /\ ~c.bare => Payload(c, rs) = <<a, b, z, d, e, j, z>>
    BY <2>1, <2>4, <2>5, <2>7
  <2>11. c.judge /\ c.bare => Payload(c, rs) = <<a, b, z, d, e, z, t, j, z>>
    BY <2>1, <2>4, <2>5, <2>8
  <2> QED BY <1>6, <2>9, <2>10, <2>11 DEF a, b, d, e, t, j, z
<1> QED BY <1>1, <1>5, <1>6

-----------------------------------------------------------------------------
(* The scripts are as they are to be.                                      *)

LEMMA Fields ==
    ASSUME NEW c, NEW r, NEW rs
    PROVE  /\ StartFor(c, r).op = "start" /\ StartFor(c, r).fail = "exit"
           /\ StartFor(c, r).model = r.model /\ StartFor(c, r).window = Window(c, r)
           /\ StartFor(c, r).log = r.identity
           /\ JudgeStart(c, r).op = "start" /\ JudgeStart(c, r).fail = "return"
           /\ JudgeStart(c, r).log = "judge"
           /\ ReviewOf(r).op = "review" /\ ReviewOf(r).of = r.identity
           /\ JudgeOf(rs).op = "judge"
           /\ JudgeOf(rs).of[1] = rs[1].identity /\ JudgeOf(rs).of[2] = rs[2].identity
           /\ Stop.op = "stop"
BY DEF StartFor, JudgeStart, ReviewOf, JudgeOf, Start, Stop

LEMMA FitsOne ==
    ASSUME NEW c, NEW rs, OneOrTwo(rs), Len(rs) = 1
    PROVE  LET a == StartFor(c, rs[1])
               b == ReviewOf(rs[1])
               z == Stop
           IN  ScriptFits(c, rs, <<a, b, z>>)
<1> DEFINE a == StartFor(c, rs[1])
           b == ReviewOf(rs[1])
           z == Stop
           p == <<a, b, z>>
<1>1. DOMAIN p = 1 .. 3
  OBVIOUS
<1>2. p[1] = a /\ p[2] = b /\ p[3] = z
  OBVIOUS
<1>3. DOMAIN rs = 1 .. Len(rs) /\ (Len(rs) = 2 => {rs[1].identity, rs[2].identity} = Both)
  BY DEF OneOrTwo
<1> HIDE DEF p
<1>4. ASSUME NEW k \in DOMAIN p
      PROVE  /\ p[k].op \in {"start", "review", "judge", "stop"}
             /\ p[k].op = "start"  => StartFits(p, k)
             /\ p[k].op = "review" => ReviewFits(c, rs, p, k)
             /\ p[k].op = "judge"  => JudgeFits(p, k)
  BY <1>1, <1>2, <1>3, Fields
  DEF StartFits, ReviewFits, JudgeFits, Fresh, ServerFor, Reviews, Starts, Both
<1>5. ScriptFits(c, rs, p)
  BY <1>4 DEF ScriptFits
<1> QED BY <1>5 DEF p

LEMMA FitsSharedAlone ==
    ASSUME NEW c, NEW rs, OneOrTwo(rs), Len(rs) = 2, ~c.bare, rs[1].model = rs[2].model
    PROVE  LET a == StartFor(c, rs[1])
               b == ReviewOf(rs[1])
               e == ReviewOf(rs[2])
               z == Stop
           IN  ScriptFits(c, rs, <<a, b, e, z>>)
<1> DEFINE a == StartFor(c, rs[1])
           b == ReviewOf(rs[1])
           e == ReviewOf(rs[2])
           z == Stop
           p == <<a, b, e, z>>
<1>1. DOMAIN p = 1 .. 4
  OBVIOUS
<1>2. p[1] = a /\ p[2] = b /\ p[3] = e /\ p[4] = z
  OBVIOUS
<1>3. DOMAIN rs = 1 .. Len(rs) /\ (Len(rs) = 2 => {rs[1].identity, rs[2].identity} = Both)
  BY DEF OneOrTwo
<1> HIDE DEF p
<1>4. ASSUME NEW k \in DOMAIN p
      PROVE  /\ p[k].op \in {"start", "review", "judge", "stop"}
             /\ p[k].op = "start"  => StartFits(p, k)
             /\ p[k].op = "review" => ReviewFits(c, rs, p, k)
             /\ p[k].op = "judge"  => JudgeFits(p, k)
  <2>1. CASE k \in {1, 2, 4}
    BY <1>1, <1>2, <1>3, <2>1, Fields
    DEF StartFits, ReviewFits, JudgeFits, Fresh, ServerFor, Reviews, Starts, Both
  <2>3. CASE k = 3
    <3>1. Reviews(p, 2, rs[1].identity) /\ p[3].of = rs[2].identity /\ p[3].op = "review"
      BY <1>1, <1>2, Fields DEF Reviews
    <3>2. 2 \in DOMAIN rs /\ 2 - 1 = 1 /\ 3 - 1 = 2
      BY <1>3
    <3>3. ReviewFits(c, rs, p, 3)
      BY <3>1, <3>2 DEF ReviewFits
    <3> QED BY <2>3, <3>1, <3>3
  <2> QED BY <1>1, <2>1, <2>3
<1>5. ScriptFits(c, rs, p)
  BY <1>4 DEF ScriptFits
<1> QED BY <1>5 DEF p

LEMMA FitsSharedJudged ==
    ASSUME NEW c, NEW rs, OneOrTwo(rs), Len(rs) = 2, ~c.bare, rs[1].model = rs[2].model
    PROVE  LET a == StartFor(c, rs[1])
               b == ReviewOf(rs[1])
               e == ReviewOf(rs[2])
               j == JudgeOf(rs)
               z == Stop
           IN  ScriptFits(c, rs, <<a, b, e, j, z>>)
<1> DEFINE a == StartFor(c, rs[1])
           b == ReviewOf(rs[1])
           e == ReviewOf(rs[2])
           j == JudgeOf(rs)
           z == Stop
           p == <<a, b, e, j, z>>
<1>1. DOMAIN p = 1 .. 5
  OBVIOUS
<1>2. p[1] = a /\ p[2] = b /\ p[3] = e /\ p[4] = j /\ p[5] = z
  OBVIOUS
<1>3. DOMAIN rs = 1 .. Len(rs) /\ (Len(rs) = 2 => {rs[1].identity, rs[2].identity} = Both)
  BY DEF OneOrTwo
<1> HIDE DEF p
<1>4. ASSUME NEW k \in DOMAIN p
      PROVE  /\ p[k].op \in {"start", "review", "judge", "stop"}
             /\ p[k].op = "start"  => StartFits(p, k)
             /\ p[k].op = "review" => ReviewFits(c, rs, p, k)
             /\ p[k].op = "judge"  => JudgeFits(p, k)
  <2>1. CASE k \in {1, 2, 5}
    BY <1>1, <1>2, <1>3, <2>1, Fields
    DEF StartFits, ReviewFits, JudgeFits, Fresh, ServerFor, Reviews, Starts, Both
  <2>3. CASE k = 3
    <3>1. Reviews(p, 2, rs[1].identity) /\ p[3].of = rs[2].identity /\ p[3].op = "review"
      BY <1>1, <1>2, Fields DEF Reviews
    <3>2. 2 \in DOMAIN rs /\ 2 - 1 = 1 /\ 3 - 1 = 2
      BY <1>3
    <3>3. ReviewFits(c, rs, p, 3)
      BY <3>1, <3>2 DEF ReviewFits
    <3> QED BY <2>3, <3>1, <3>3
  <2>4. CASE k = 4
    <3>1. Reviews(p, 2, rs[1].identity) /\ Reviews(p, 3, rs[2].identity)
      BY <1>1, <1>2, Fields DEF Reviews
    <3>2. p[4].op = "judge" /\ p[4].of[1] = rs[1].identity /\ p[4].of[2] = rs[2].identity
      BY <1>2, Fields
    <3>3. \A slug \in Both : \E m \in 1 .. 3 : Reviews(p, m, slug)
      BY <1>3, <3>1
    <3>4. 5 \in DOMAIN p /\ p[5].op = "stop"
      BY <1>1, <1>2, Fields
    <3>5. JudgeFits(p, 4)
      BY <1>3, <3>2, <3>3, <3>4 DEF JudgeFits
    <3> QED BY <2>4, <3>2, <3>5
  <2> QED BY <1>1, <2>1, <2>3, <2>4
<1>5. ScriptFits(c, rs, p)
  BY <1>4 DEF ScriptFits
<1> QED BY <1>5 DEF p

LEMMA FitsTwoAlone ==
    ASSUME NEW c, NEW rs, OneOrTwo(rs), Len(rs) = 2
    PROVE  LET a == StartFor(c, rs[1])
               b == ReviewOf(rs[1])
               d == StartFor(c, rs[2])
               e == ReviewOf(rs[2])
               z == Stop
           IN  ScriptFits(c, rs, <<a, b, z, d, e, z>>)
<1> DEFINE a == StartFor(c, rs[1])
           b == ReviewOf(rs[1])
           d == StartFor(c, rs[2])
           e == ReviewOf(rs[2])
           z == Stop
           p == <<a, b, z, d, e, z>>
<1>1. DOMAIN p = 1 .. 6
  OBVIOUS
<1>2. /\ p[1] = a /\ p[2] = b /\ p[3] = z
      /\ p[4] = d /\ p[5] = e /\ p[6] = z
  OBVIOUS
<1>3. DOMAIN rs = 1 .. Len(rs) /\ (Len(rs) = 2 => {rs[1].identity, rs[2].identity} = Both)
  BY DEF OneOrTwo
<1> HIDE DEF p
<1>4. ASSUME NEW k \in DOMAIN p
      PROVE  /\ p[k].op \in {"start", "review", "judge", "stop"}
             /\ p[k].op = "start"  => StartFits(p, k)
             /\ p[k].op = "review" => ReviewFits(c, rs, p, k)
             /\ p[k].op = "judge"  => JudgeFits(p, k)
  BY <1>1, <1>2, <1>3, Fields
  DEF StartFits, ReviewFits, JudgeFits, Fresh, ServerFor, Reviews, Starts, Both
<1>5. ScriptFits(c, rs, p)
  BY <1>4 DEF ScriptFits
<1> QED BY <1>5 DEF p

LEMMA FitsTwoJudged ==
    ASSUME NEW c, NEW rs, OneOrTwo(rs), Len(rs) = 2
    PROVE  LET a == StartFor(c, rs[1])
               b == ReviewOf(rs[1])
               d == StartFor(c, rs[2])
               e == ReviewOf(rs[2])
               j == JudgeOf(rs)
               z == Stop
           IN  ScriptFits(c, rs, <<a, b, z, d, e, j, z>>)
<1> DEFINE a == StartFor(c, rs[1])
           b == ReviewOf(rs[1])
           d == StartFor(c, rs[2])
           e == ReviewOf(rs[2])
           j == JudgeOf(rs)
           z == Stop
           p == <<a, b, z, d, e, j, z>>
<1>1. DOMAIN p = 1 .. 7
  OBVIOUS
<1>2. /\ p[1] = a /\ p[2] = b /\ p[3] = z /\ p[4] = d
      /\ p[5] = e /\ p[6] = j /\ p[7] = z
  OBVIOUS
<1>3. DOMAIN rs = 1 .. Len(rs) /\ (Len(rs) = 2 => {rs[1].identity, rs[2].identity} = Both)
  BY DEF OneOrTwo
<1> HIDE DEF p
<1>4. ASSUME NEW k \in DOMAIN p
      PROVE  /\ p[k].op \in {"start", "review", "judge", "stop"}
             /\ p[k].op = "start"  => StartFits(p, k)
             /\ p[k].op = "review" => ReviewFits(c, rs, p, k)
             /\ p[k].op = "judge"  => JudgeFits(p, k)
  <2>1. CASE k \in {1, 2, 3, 4, 5, 7}
    BY <1>1, <1>2, <1>3, <2>1, Fields
    DEF StartFits, ReviewFits, JudgeFits, Fresh, ServerFor, Reviews, Starts, Both
  <2>6. CASE k = 6
    <3>1. Reviews(p, 2, rs[1].identity) /\ Reviews(p, 5, rs[2].identity)
      BY <1>1, <1>2, Fields DEF Reviews
    <3>2. p[6].op = "judge" /\ p[6].of[1] = rs[1].identity /\ p[6].of[2] = rs[2].identity
      BY <1>2, Fields
    <3>3. \A slug \in Both : \E m \in 1 .. 5 : Reviews(p, m, slug)
      BY <1>3, <3>1
    <3>4. 7 \in DOMAIN p /\ p[7].op = "stop"
      BY <1>1, <1>2, Fields
    <3>5. JudgeFits(p, 6)
      BY <1>3, <3>2, <3>3, <3>4 DEF JudgeFits
    <3> QED BY <2>6, <3>2, <3>5
  <2> QED BY <1>1, <2>1, <2>6
<1>5. ScriptFits(c, rs, p)
  BY <1>4 DEF ScriptFits
<1> QED BY <1>5 DEF p

LEMMA FitsBareJudged ==
    ASSUME NEW c, NEW rs, OneOrTwo(rs), Len(rs) = 2
    PROVE  LET a == StartFor(c, rs[1])
               b == ReviewOf(rs[1])
               d == StartFor(c, rs[2])
               e == ReviewOf(rs[2])
               t == JudgeStart(c, rs[2])
               j == JudgeOf(rs)
               z == Stop
           IN  ScriptFits(c, rs, <<a, b, z, d, e, z, t, j, z>>)
<1> DEFINE a == StartFor(c, rs[1])
           b == ReviewOf(rs[1])
           d == StartFor(c, rs[2])
           e == ReviewOf(rs[2])
           t == JudgeStart(c, rs[2])
           j == JudgeOf(rs)
           z == Stop
           p == <<a, b, z, d, e, z, t, j, z>>
<1>1. DOMAIN p = 1 .. 9
  OBVIOUS
<1>2. /\ p[1] = a /\ p[2] = b /\ p[3] = z /\ p[4] = d /\ p[5] = e
      /\ p[6] = z /\ p[7] = t /\ p[8] = j /\ p[9] = z
  OBVIOUS
<1>3. DOMAIN rs = 1 .. Len(rs) /\ (Len(rs) = 2 => {rs[1].identity, rs[2].identity} = Both)
  BY DEF OneOrTwo
<1> HIDE DEF p
<1>4. ASSUME NEW k \in DOMAIN p
      PROVE  /\ p[k].op \in {"start", "review", "judge", "stop"}
             /\ p[k].op = "start"  => StartFits(p, k)
             /\ p[k].op = "review" => ReviewFits(c, rs, p, k)
             /\ p[k].op = "judge"  => JudgeFits(p, k)
  <2>1. CASE k \in {1, 2, 3, 4, 5, 6, 7, 9}
    BY <1>1, <1>2, <1>3, <2>1, Fields
    DEF StartFits, ReviewFits, JudgeFits, Fresh, ServerFor, Reviews, Starts, Both
  <2>8. CASE k = 8
    <3>1. Reviews(p, 2, rs[1].identity) /\ Reviews(p, 5, rs[2].identity)
      BY <1>1, <1>2, Fields DEF Reviews
    <3>2. p[8].op = "judge" /\ p[8].of[1] = rs[1].identity /\ p[8].of[2] = rs[2].identity
      BY <1>2, Fields
    <3>3. \A slug \in Both : \E m \in 1 .. 7 : Reviews(p, m, slug)
      BY <1>3, <3>1
    <3>4. 9 \in DOMAIN p /\ p[9].op = "stop"
      BY <1>1, <1>2, Fields
    <3>5. JudgeFits(p, 8)
      BY <1>3, <3>2, <3>3, <3>4 DEF JudgeFits
    <3> QED BY <2>8, <3>2, <3>5
  <2> QED BY <1>1, <2>1, <2>8
<1>5. ScriptFits(c, rs, p)
  BY <1>4 DEF ScriptFits
<1> QED BY <1>5 DEF p
LEMMA PayloadFits ==
    ASSUME NEW c, NEW rs, OneOrTwo(rs)
    PROVE  /\ ScriptFits(c, rs, Payload(c, rs))
           /\ Len(Payload(c, rs)) \in Nat /\ DOMAIN Payload(c, rs) = 1 .. Len(Payload(c, rs))
<1> DEFINE a == StartFor(c, rs[1])
           b == ReviewOf(rs[1])
           d == StartFor(c, rs[2])
           e == ReviewOf(rs[2])
           t == JudgeStart(c, rs[2])
           j == JudgeOf(rs)
           z == Stop
           one == ~c.bare /\ rs[1].model = rs[2].model
           p == Payload(c, rs)
<1>1. \/ Len(rs) = 1 /\ p = <<a, b, z>>
      \/ Len(rs) = 2 /\ one /\ p = <<a, b, e, z>>
      \/ Len(rs) = 2 /\ one /\ p = <<a, b, e, j, z>>
      \/ Len(rs) = 2 /\ p = <<a, b, z, d, e, z>>
      \/ Len(rs) = 2 /\ p = <<a, b, z, d, e, j, z>>
      \/ Len(rs) = 2 /\ p = <<a, b, z, d, e, z, t, j, z>>
  <2> HIDE DEF a, b, d, e, t, j, z, p
  <2>1. Len(rs) \in {1, 2}
    BY DEF OneOrTwo
  <2>2. /\ Len(rs) = 1                    => p = <<a, b, z>>
        /\ Len(rs) = 2 /\ one /\ ~c.judge => p = <<a, b, e, z>>
        /\ Len(rs) = 2 /\ one /\ c.judge  => p = <<a, b, e, j, z>>
        /\ Len(rs) = 2 /\ ~one /\ ~c.judge => p = <<a, b, z, d, e, z>>
        /\ Len(rs) = 2 /\ ~one /\ c.judge /\ ~c.bare => p = <<a, b, z, d, e, j, z>>
        /\ Len(rs) = 2 /\ c.judge /\ c.bare => p = <<a, b, z, d, e, z, t, j, z>>
    BY PayloadIs DEF a, b, d, e, t, j, z, p
  <2> QED BY <2>1, <2>2
<1>2. Len(p) \in Nat /\ DOMAIN p = 1 .. Len(p)
  <2> HIDE DEF a, b, d, e, t, j, z, p
  <2> QED BY <1>1
<1>3. ScriptFits(c, rs, p)
  BY <1>1, FitsOne, FitsSharedAlone, FitsSharedJudged, FitsTwoAlone, FitsTwoJudged,
     FitsBareJudged
<1> QED BY <1>2, <1>3

LEMMA UploadsAre ==
    ASSUME NEW c, NEW rs, OneOrTwo(rs)
    PROVE  LET f == ReviewFile(rs[1].identity)
               g == ServerLog(rs[1].identity)
               h == ReviewFile(rs[2].identity)
               i == ServerLog(rs[2].identity)
               v == Verdict
               w == ServerLog("judge")
               two == Len(rs) = 2
               up == Uploads(c, rs)
           IN  /\ Len(rs) = 1                => up = <<f, g>>
               /\ two /\ ~c.judge            => up = <<f, g, h, i>>
               /\ two /\ c.judge /\ ~c.bare  => up = <<f, g, h, i, v>>
               /\ two /\ c.judge /\ c.bare   => up = <<f, g, h, i, v, w>>
<1> DEFINE f == ReviewFile(rs[1].identity)
           g == ServerLog(rs[1].identity)
           h == ReviewFile(rs[2].identity)
           i == ServerLog(rs[2].identity)
           v == Verdict
           w == ServerLog("judge")
           S == {f, g, h, i, v, w}
           ss == [n \in DOMAIN rs |-> <<ReviewFile(rs[n].identity), ServerLog(rs[n].identity)>>]
<1>1. DOMAIN rs = 1 .. Len(rs) /\ Len(rs) \in {1, 2}
  BY DEF OneOrTwo
<1>2. Len(ss) = Len(rs) /\ ss[1] = <<f, g>> /\ (Len(rs) = 2 => ss[2] = <<h, i>>)
  BY <1>1
<1>3. f \in S /\ g \in S /\ h \in S /\ i \in S /\ v \in S /\ w \in S
  OBVIOUS
<1>4. Uploads(c, rs) = FlattenSeq(ss)
                       \o (IF ~Judging(c, rs) THEN <<>> ELSE IF c.bare THEN <<v, w>> ELSE <<v>>)
  BY DEF Uploads
<1>5. Judging(c, rs) <=> c.judge /\ Len(rs) = 2
  BY <1>1 DEF Judging
<1> HIDE DEF f, g, h, i, v, w, S, ss
<1>6. <<f, g>> \o <<>> = <<f, g>> /\ <<f, g, h, i>> \o <<>> = <<f, g, h, i>>
  BY <1>3
<1>7. <<f, g>> \o <<h, i>> = <<f, g, h, i>> /\ <<f, g, h, i>> \o <<v>> = <<f, g, h, i, v>>
  BY <1>3, Join22, Join41
<1>8. <<f, g, h, i>> \o <<v, w>> = <<f, g, h, i, v, w>>
  BY <1>3, Join42
<1>9. CASE Len(rs) = 1
  <2>1. FlattenSeq(ss) = <<f, g>>
    BY <1>2, <1>9, FlattenOne
  <2> QED BY <1>4, <1>5, <1>6, <1>9, <2>1 DEF f, g
<1>10. CASE Len(rs) = 2
  <2>1. FlattenSeq(ss) = <<f, g>> \o <<h, i>>
    BY <1>2, <1>10, FlattenTwo
  <2>2. FlattenSeq(ss) = <<f, g, h, i>>
    BY <1>7, <2>1
  <2>3. CASE ~c.judge
    <3>1. Uploads(c, rs) = <<f, g, h, i>> \o <<>>
      BY <1>4, <1>5, <2>2, <2>3
    <3>2. Uploads(c, rs) = <<f, g, h, i>>
      BY <1>6, <3>1
    <3> QED BY <1>10, <2>3, <3>2 DEF f, g, h, i
  <2>4. CASE c.judge /\ ~c.bare
    BY <1>4, <1>5, <1>7, <1>10, <2>2, <2>4 DEF f, g, h, i, v
  <2>5. CASE c.judge /\ c.bare
    BY <1>4, <1>5, <1>8, <1>10, <2>2, <2>5 DEF f, g, h, i, v, w
  <2> QED BY <1>10, <2>3, <2>4, <2>5
<1> QED BY <1>1, <1>9, <1>10
LEMMA PayloadHas ==
    ASSUME NEW c, NEW rs, OneOrTwo(rs)
    PROVE  LET p == Payload(c, rs)
           IN  /\ \A n \in DOMAIN rs : \E k \in DOMAIN p : p[k] = ReviewOf(rs[n])
               /\ Len(rs) = 2 /\ c.judge => \E k \in DOMAIN p : p[k] = JudgeOf(rs)
               /\ Len(rs) = 2 /\ c.judge /\ c.bare =>
                     \E k \in DOMAIN p : p[k] = JudgeStart(c, rs[2])
<1> DEFINE a == StartFor(c, rs[1])
           b == ReviewOf(rs[1])
           d == StartFor(c, rs[2])
           e == ReviewOf(rs[2])
           t == JudgeStart(c, rs[2])
           j == JudgeOf(rs)
           z == Stop
           p == Payload(c, rs)
           one == ~c.bare /\ rs[1].model = rs[2].model
<1>1. DOMAIN rs = 1 .. Len(rs) /\ Len(rs) \in {1, 2}
  BY DEF OneOrTwo
<1>2. /\ Len(rs) = 1                    => p = <<a, b, z>>
      /\ Len(rs) = 2 /\ one /\ ~c.judge => p = <<a, b, e, z>>
      /\ Len(rs) = 2 /\ one /\ c.judge  => p = <<a, b, e, j, z>>
      /\ Len(rs) = 2 /\ ~one /\ ~c.judge => p = <<a, b, z, d, e, z>>
      /\ Len(rs) = 2 /\ ~one /\ c.judge /\ ~c.bare => p = <<a, b, z, d, e, j, z>>
      /\ Len(rs) = 2 /\ c.judge /\ c.bare => p = <<a, b, z, d, e, z, t, j, z>>
  BY PayloadIs
<1> HIDE DEF a, b, d, e, t, j, z, p
<1>3. 2 \in DOMAIN p /\ p[2] = b
  BY <1>1, <1>2
<1>4. Len(rs) = 2 => \E k \in DOMAIN p : p[k] = e
  <2>1. SUFFICES ASSUME Len(rs) = 2 PROVE \E k \in DOMAIN p : p[k] = e
    OBVIOUS
  <2>2. CASE one
    <3>1. 3 \in DOMAIN p /\ p[3] = e
      BY <1>2, <2>1, <2>2
    <3> QED BY <3>1
  <2>3. CASE ~one
    <3>1. 5 \in DOMAIN p /\ p[5] = e
      BY <1>2, <2>1, <2>3
    <3> QED BY <3>1
  <2> QED BY <2>2, <2>3
<1>5. Len(rs) = 2 /\ c.judge => \E k \in DOMAIN p : p[k] = j
  <2>1. SUFFICES ASSUME Len(rs) = 2, c.judge PROVE \E k \in DOMAIN p : p[k] = j
    OBVIOUS
  <2>2. CASE one
    <3>1. 4 \in DOMAIN p /\ p[4] = j
      BY <1>2, <2>1, <2>2
    <3> QED BY <3>1
  <2>3. CASE ~one /\ ~c.bare
    <3>1. 6 \in DOMAIN p /\ p[6] = j
      BY <1>2, <2>1, <2>3
    <3> QED BY <3>1
  <2>4. CASE c.bare
    <3>1. 8 \in DOMAIN p /\ p[8] = j
      BY <1>2, <2>1, <2>4
    <3> QED BY <3>1
  <2> QED BY <2>2, <2>3, <2>4
<1>6. Len(rs) = 2 /\ c.judge /\ c.bare => 7 \in DOMAIN p /\ p[7] = t
  BY <1>2
<1>7. \A n \in DOMAIN rs : \E k \in DOMAIN p : p[k] = ReviewOf(rs[n])
  BY <1>1, <1>3, <1>4 DEF b, e
<1> QED BY <1>5, <1>6, <1>7 DEF p, j, t

LEMMA UploadsFit ==
    ASSUME NEW c, NEW rs, OneOrTwo(rs)
    PROVE  LET up == Uploads(c, rs)
           IN  /\ Len(up) \in Nat /\ DOMAIN up = 1 .. Len(up)
               /\ \A k \in DOMAIN up : UploadFits(Payload(c, rs), up[k])
<1> DEFINE f == ReviewFile(rs[1].identity)
           g == ServerLog(rs[1].identity)
           h == ReviewFile(rs[2].identity)
           i == ServerLog(rs[2].identity)
           v == Verdict
           w == ServerLog("judge")
           up == Uploads(c, rs)
           p == Payload(c, rs)
<1>1. DOMAIN rs = 1 .. Len(rs) /\ Len(rs) \in {1, 2}
  BY DEF OneOrTwo
<1>2. /\ Len(rs) = 1                          => up = <<f, g>>
      /\ Len(rs) = 2 /\ ~c.judge              => up = <<f, g, h, i>>
      /\ Len(rs) = 2 /\ c.judge /\ ~c.bare    => up = <<f, g, h, i, v>>
      /\ Len(rs) = 2 /\ c.judge /\ c.bare     => up = <<f, g, h, i, v, w>>
  BY UploadsAre
<1>3. \A n \in DOMAIN rs : /\ UploadFits(p, ReviewFile(rs[n].identity))
                          /\ UploadFits(p, ServerLog(rs[n].identity))
  <2>1. TAKE n \in DOMAIN rs
  <2>2. PICK k \in DOMAIN p : p[k] = ReviewOf(rs[n])
    BY PayloadHas
  <2>3. p[k].op = "review" /\ p[k].of = rs[n].identity
    BY <2>2, Fields
  <2> QED BY <2>3 DEF UploadFits
<1>4. Len(rs) = 2 /\ c.judge => UploadFits(p, v)
  <2>1. SUFFICES ASSUME Len(rs) = 2, c.judge PROVE UploadFits(p, v)
    OBVIOUS
  <2>2. PICK k \in DOMAIN p : p[k] = JudgeOf(rs)
    BY <2>1, PayloadHas
  <2>3. p[k].op = "judge"
    BY <2>2, Fields
  <2> QED BY <2>3 DEF UploadFits
<1>5. Len(rs) = 2 /\ c.judge /\ c.bare => UploadFits(p, w)
  <2>1. SUFFICES ASSUME Len(rs) = 2, c.judge, c.bare PROVE UploadFits(p, w)
    OBVIOUS
  <2>2. PICK k \in DOMAIN p : p[k] = JudgeStart(c, rs[2])
    BY <2>1, PayloadHas
  <2>3. Starts(p, k, "return")
    BY <2>2 DEF Starts, JudgeStart, Start
  <2> QED BY <2>3 DEF UploadFits
<1>6. /\ UploadFits(p, f) /\ UploadFits(p, g)
      /\ Len(rs) = 2 => UploadFits(p, h) /\ UploadFits(p, i)
  BY <1>1, <1>3
<1> HIDE DEF f, g, h, i, v, w, up, p
<1>7. Len(up) \in Nat /\ DOMAIN up = 1 .. Len(up)
  BY <1>1, <1>2
<1>8. \A k \in DOMAIN up : UploadFits(p, up[k])
  BY <1>1, <1>2, <1>4, <1>5, <1>6
<1> QED BY <1>7, <1>8 DEF up, p
-----------------------------------------------------------------------------
(* The jobs of an experiment.                                              *)

JobFits(j) ==
    /\ OneOrTwo(Jobs(Asked)[j])
    /\ Len(P(j)) \in Nat /\ DOMAIN P(j) = 1 .. Len(P(j))
    /\ ScriptFits(Asked, Jobs(Asked)[j], P(j))
    /\ Len(spec[j].uploads) \in Nat /\ DOMAIN spec[j].uploads = 1 .. Len(spec[j].uploads)
    /\ \A k \in DOMAIN spec[j].uploads : UploadFits(P(j), spec[j].uploads[k])

LEMMA Fitting ==
    ASSUME ConfigOK, Submitted, NEW j \in Job
    PROVE  JobFits(j)
<1> DEFINE c == Asked
           rs == Jobs(c)[j]
<1>1. spec # <<>>
  BY DEF Job
<1>2. spec = Experiment(c) /\ Refusal(c) = "none"
  BY <1>1 DEF Submitted
<1>3. Small(c)
  BY AskedSmall
<1>4. c.reviewers # <<>>
  BY <1>2 DEF Refusal
<1> HIDE DEF c
<1>5. Len(c.reviewers) # 0
  BY <1>3, <1>4 DEF Small, Named
<1>6. DOMAIN spec = DOMAIN Jobs(c) /\ j \in DOMAIN Jobs(c)
  BY <1>2 DEF Experiment, Job
<1>7. OneOrTwo(rs)
  BY <1>3, <1>5, <1>6, JobReviewers
<1>8. spec[j].script = Payload(c, rs) /\ spec[j].uploads = Uploads(c, rs)
  BY <1>2, <1>6 DEF Experiment
<1> HIDE DEF rs
<1>9. /\ ScriptFits(c, rs, P(j)) /\ Len(P(j)) \in Nat /\ DOMAIN P(j) = 1 .. Len(P(j))
  BY <1>7, <1>8, PayloadFits DEF P
<1>10. /\ Len(spec[j].uploads) \in Nat /\ DOMAIN spec[j].uploads = 1 .. Len(spec[j].uploads)
       /\ \A k \in DOMAIN spec[j].uploads : UploadFits(P(j), spec[j].uploads[k])
  BY <1>7, <1>8, UploadsFit DEF P
<1> QED BY <1>7, <1>9, <1>10 DEF JobFits, c, rs

(* A job that is not touched.                                              *)
LEMMA Untouched ==
    ASSUME NEW j, JobInv(j), UNCHANGED asked, faults \subseteq faults',
           at'[j] = at[j], pc'[j] = pc[j], servers'[j] = servers[j], pid'[j] = pid[j],
           files'[j] = files[j], made'[j] = made[j], verdict'[j] = verdict[j],
           foreign'[j] = foreign[j]
    PROVE  JobInv(j)'
<1>1. spec' = spec /\ Asked' = Asked
  BY DEF asked, Asked
<1>2. P(j)' = P(j)
  BY <1>1 DEF P
<1>3. (Excused => Excused') /\ (Reason => Reason')
  BY DEF Excused, Reason
<1>4. JobType(j)' /\ ServerInv(j)'
  BY <1>2 DEF JobInv, JobType, ServerInv, Begun, Ends
<1>5. WaitInv(j)' /\ TurnInv(j)'
  BY <1>2 DEF JobInv, WaitInv, TurnInv, Answering
<1>6. FileInv(j)' /\ VerdictInv(j)'
  BY <1>2, <1>3 DEF JobInv, FileInv, VerdictInv, Past
<1>7. AsConfigured(j)' /\ OwnServer(j)'
  BY <1>1, <1>2 DEF JobInv, AsConfigured, OwnServer
<1>8. LostInv(j)'
  BY <1>3 DEF JobInv, LostInv
<1> QED BY <1>4, <1>5, <1>6, <1>7, <1>8 DEF JobInv
-----------------------------------------------------------------------------
(* The steps of a job, one lemma for each.                                 *)

LEMMA CommandAt ==
    ASSUME NEW j, JobFits(j), JobInv(j), NEW state, NEW op, At(j, state, op)
    PROVE  /\ pc[j] \in DOMAIN P(j) /\ Command(j) = P(j)[pc[j]]
           /\ P(j)[pc[j]].op = op /\ at[j] = state
<1>1. pc[j] \in Nat \ {0} /\ at[j] = state
  BY DEF JobInv, JobType, At
<1>2. pc[j] <= Len(P(j)) /\ Command(j) = P(j)[pc[j]] /\ P(j)[pc[j]].op = op
  BY DEF At, Command, P
<1>3. Len(P(j)) \in Nat /\ DOMAIN P(j) = 1 .. Len(P(j))
  BY DEF JobFits
<1> HIDE DEF P
<1> QED BY <1>1, <1>2, <1>3

LEMMA StoppedNone ==
    ASSUME NEW j, ServerInv(j)
    PROVE  Stopped(j) = {} /\ Trap(j) = {}
BY DEF ServerInv, Stopped, Trap

LEMMA FailedKeeps ==
    ASSUME NEW j, JobInv(j), UNCHANGED asked, Reason',
           at'[j] = "failed", pc'[j] \in Nat \ {0}, servers'[j] = {}, pid'[j] \in Nat,
           Verdict \in files'[j] => Verdict \in files[j],
           made'[j] = made[j], verdict'[j] = verdict[j], foreign'[j] = foreign[j]
    PROVE  JobInv(j)'
<1>1. spec' = spec /\ Asked' = Asked
  BY DEF asked, Asked
<1>2. P(j)' = P(j)
  BY <1>1 DEF P
<1>3. JobType(j)' /\ ServerInv(j)'
  BY <1>2 DEF JobInv, JobType, ServerInv, Begun, Ends
<1>4. WaitInv(j)' /\ TurnInv(j)' /\ LostInv(j)'
  BY <1>2 DEF WaitInv, TurnInv, LostInv
<1>5. FileInv(j)' /\ VerdictInv(j)'
  BY <1>2 DEF JobInv, FileInv, VerdictInv, Past
<1>6. AsConfigured(j)' /\ OwnServer(j)'
  BY <1>1, <1>2 DEF JobInv, AsConfigured, OwnServer
<1> QED BY <1>3, <1>4, <1>5, <1>6 DEF JobInv

LEMMA LaunchKeeps ==
    ASSUME NEW j \in Job, Domains, JobFits(j), JobInv(j), Launch(j)
    PROVE  JobInv(j)'
<1> DEFINE p == P(j)
           k == pc[j]
           new == [id |-> k, model |-> p[k].model, window |-> p[k].window, up |-> FALSE]
<1>1. k \in DOMAIN p /\ Command(j) = p[k] /\ p[k].op = "start" /\ at[j] = "running"
  BY CommandAt DEF Launch
<1>2. StartFits(p, k)
  BY <1>1 DEF JobFits, ScriptFits
<1>3. Begun(j)
  BY <1>1, <1>2 DEF StartFits, Begun
<1>4. servers[j] = {}
  BY <1>3 DEF JobInv, ServerInv
<1>5. spec' = spec /\ Asked' = Asked /\ faults' = faults
  BY DEF Launch, asked, Asked
<1>6. p' = p
  BY <1>5 DEF P
<1>7. /\ at'[j] = "waiting" /\ pc'[j] = k /\ servers'[j] = {new} /\ pid'[j] = k
      /\ files'[j] = files[j] \cup {ServerLog(p[k].log)} /\ made'[j] = made[j]
      /\ verdict'[j] = verdict[j] /\ foreign'[j] = foreign[j]
  BY <1>1, <1>4 DEF Launch, Domains
<1>8. ~foreign[j]
  BY DEF Launch, PortTaken, Answering
<1>9. k \in Nat \ {0} /\ k' = k
  BY <1>7 DEF JobInv, JobType
<1> HIDE DEF p, k
<1>10. JobType(j)'
  BY <1>7, <1>9 DEF JobInv, JobType, IsServer
<1>11. ServerInv(j)'
  BY <1>1, <1>6, <1>7 DEF ServerInv, Begun, Ends, p
<1>12. WaitInv(j)'
  BY <1>1, <1>6, <1>7, <1>8, <1>9 DEF WaitInv, p, k
<1>13. TurnInv(j)'
  BY <1>7 DEF TurnInv
<1>14. FileInv(j)'
  BY <1>1, <1>5, <1>6, <1>7 DEF JobInv, FileInv, Past, Excused, p, k
<1>15. AsConfigured(j)' /\ OwnServer(j)'
  BY <1>5, <1>6, <1>7 DEF JobInv, AsConfigured, OwnServer, p
<1>16. VerdictInv(j)'
  <2>1. Verdict \in files'[j] => Verdict \in files[j]
    BY <1>7 DEF Verdict, ServerLog
  <2> QED BY <1>1, <1>6, <1>7, <2>1 DEF JobInv, VerdictInv, Past, p, k
<1>17. LostInv(j)'
  BY <1>7 DEF LostInv
<1> QED BY <1>10, <1>11, <1>12, <1>13, <1>14, <1>15, <1>16, <1>17 DEF JobInv
LEMMA PastOn ==
    ASSUME NEW j, JobFits(j), at[j] \in {"running", "waiting"}, pc[j] \in Nat,
           at'[j] = "running", pc'[j] = pc[j] + 1
    PROVE  /\ \A m \in DOMAIN P(j) : Past(j, m)' => Past(j, m) \/ m = pc[j]
           /\ \A m \in DOMAIN P(j) : Past(j, m) => Past(j, m)'
<1>1. \A m \in DOMAIN P(j) : m \in Nat
  BY DEF JobFits
<1>2. \A m \in Nat : Past(j, m)' <=> m < pc[j] + 1
  BY DEF Past
<1>3. \A m \in Nat : Past(j, m) <=> m < pc[j]
  BY DEF Past
<1> QED BY <1>1, <1>2, <1>3

LEMMA HealthyKeeps ==
    ASSUME NEW j \in Job, Domains, JobFits(j), JobInv(j), Healthy(j)
    PROVE  JobInv(j)'
<1> DEFINE p == P(j)
           k == pc[j]
           up(s) == [s EXCEPT !.up = @ \/ (s.id = pid[j] /\ ~foreign[j])]
<1>1. k \in DOMAIN p /\ Command(j) = p[k] /\ p[k].op = "start" /\ at[j] = "waiting"
  BY CommandAt DEF Healthy
<1>2. StartFits(p, k)
  BY <1>1 DEF JobFits, ScriptFits
<1>3. pid[j] = k /\ ~foreign[j] /\ ServerLog(p[k].log) \in files[j]
  BY <1>1 DEF JobInv, WaitInv
<1>4. spec' = spec /\ Asked' = Asked /\ faults' = faults
  BY DEF Healthy, asked, Asked
<1>5. p' = p
  BY <1>4 DEF P
<1>6. /\ at'[j] = "running" /\ pc'[j] = k + 1 /\ pid'[j] = k
      /\ servers'[j] = {up(s) : s \in servers[j]}
      /\ files'[j] = files[j] /\ made'[j] = made[j]
      /\ verdict'[j] = verdict[j] /\ foreign'[j] = foreign[j]
  BY <1>3 DEF Healthy, GoesOn, Domains
<1>7. k \in Nat \ {0}
  BY DEF JobInv, JobType
<1>8. \A s \in servers[j] : /\ IsServer(up(s)) /\ up(s).id = s.id
                           /\ up(s).model = s.model /\ up(s).window = s.window
  BY DEF JobInv, JobType, IsServer
<1>9. /\ \A m \in DOMAIN p : Past(j, m)' => Past(j, m) \/ m = k
      /\ \A m \in DOMAIN p : Past(j, m) => Past(j, m)'
  BY <1>1, <1>6, <1>7, PastOn
<1> HIDE DEF p, k, up
<1>10. JobType(j)'
  BY <1>6, <1>7, <1>8 DEF JobInv, JobType
<1>11. ServerInv(j)'
  <2>1. /\ \A s \in servers[j] : /\ s.id = pid[j] /\ s.id \in DOMAIN p /\ p[s.id].op = "start"
                               /\ s.model = p[s.id].model /\ s.window = p[s.id].window
        /\ \A s, t \in servers[j] : s = t
    BY DEF JobInv, ServerInv, p
  <2>2. \A s \in servers'[j] : /\ s.id = pid'[j] /\ s.id \in DOMAIN p /\ p[s.id].op = "start"
                              /\ s.model = p[s.id].model /\ s.window = p[s.id].window
    BY <1>3, <1>6, <1>8, <2>1
  <2>3. \A s, t \in servers'[j] : s = t
    BY <1>6, <2>1
  <2>4. ~Begun(j)' /\ ~Ends(j)'
    <3>1. (k + 1) - 1 = k /\ k + 1 # 1
      BY <1>7
    <3> QED BY <1>1, <1>5, <1>6, <3>1 DEF Begun, Ends, Fresh, p
  <2> QED BY <1>5, <2>2, <2>3, <2>4 DEF ServerInv, p
<1>12. WaitInv(j)'
  BY <1>6 DEF WaitInv
<1>13. TurnInv(j)'
  <2>1. (k + 1) - 1 = k /\ k # 0
    BY <1>7
  <2> QED BY <1>1, <1>3, <1>5, <1>6, <2>1 DEF TurnInv, p, k
<1>14. FileInv(j)'
  <2>1. Starts(p, k, "return") => p[k].log = "judge"
    BY <1>2 DEF StartFits, Starts
  <2>2. Excused' = Excused
    BY <1>4 DEF Excused
  <2> QED BY <1>1, <1>3, <1>5, <1>6, <1>9, <2>1, <2>2 DEF JobInv, FileInv, p, k
<1>15. AsConfigured(j)' /\ OwnServer(j)'
  BY <1>4, <1>5, <1>6 DEF JobInv, AsConfigured, OwnServer, p
<1>16. VerdictInv(j)'
  BY <1>1, <1>5, <1>6, <1>9 DEF JobInv, VerdictInv, p, k
<1>17. LostInv(j)'
  BY <1>6 DEF LostInv
<1> QED BY <1>10, <1>11, <1>12, <1>13, <1>14, <1>15, <1>16, <1>17 DEF JobInv
LEMMA StartFailsKeeps ==
    ASSUME NEW j \in Job, Domains, JobFits(j), JobInv(j), NEW why, StartFails(j, why),
           why # {}, NEW state \in {"running", "waiting"}, At(j, state, "start"),
           P(j)[pc[j]].fail = "return" =>
               ServerLog("judge") \in files[j] \/ (\E w \in why : w \in {"model", "port"})
    PROVE  JobInv(j)'
<1> DEFINE p == P(j)
           k == pc[j]
<1>1. k \in DOMAIN p /\ Command(j) = p[k] /\ p[k].op = "start" /\ at[j] = state
  BY CommandAt
<1>2. StartFits(p, k)
  BY <1>1 DEF JobFits, ScriptFits
<1>3. k \in Nat \ {0} /\ pid[j] \in Nat
  BY DEF JobInv, JobType
<1>4. /\ spec' = spec /\ Asked' = Asked /\ UNCHANGED asked
      /\ faults' = faults \cup {<<w, p[k].fail>> : w \in why}
      /\ made' = made /\ foreign' = foreign
  BY <1>1 DEF StartFails, asked, Asked
<1>5. p' = p
  BY <1>4 DEF P
<1>6. CASE p[k].fail = "exit"
  <2>1. /\ at'[j] = "failed" /\ servers'[j] = Trap(j) /\ pid'[j] = 0
        /\ pc'[j] = k /\ files'[j] = files[j] /\ verdict'[j] = verdict[j]
    BY <1>1, <1>6 DEF StartFails, Exit, Domains
  <2>2. Trap(j) = {}
    BY StoppedNone DEF JobInv
  <2>3. Reason'
    <3>1. PICK w \in why : TRUE
      OBVIOUS
    <3>2. <<w, "exit">> \in faults'
      BY <1>4, <1>6
    <3> QED BY <3>2 DEF Reason
  <2> HIDE DEF p, k
  <2> QED BY <1>3, <1>4, <2>1, <2>2, <2>3, FailedKeeps
<1>7. CASE p[k].fail = "return"
  <2>1. /\ at'[j] = "running" /\ pc'[j] = k + 2
        /\ verdict'[j] = [of |-> <<>>, says |-> "error"]
        /\ files'[j] = files[j] \cup {Verdict} /\ servers'[j] = servers[j] /\ pid'[j] = pid[j]
    BY <1>1, <1>7 DEF StartFails, Domains
  <2>2. k + 1 \in DOMAIN p /\ p[k + 1].op = "judge"
    BY <1>2, <1>7 DEF StartFits
  <2>3. p[k + 2].op = "stop"
    <3>1. JudgeFits(p, k + 1)
      BY <2>2 DEF JobFits, ScriptFits
    <3>2. (k + 1) + 1 = k + 2
      BY <1>3
    <3> QED BY <3>1, <3>2 DEF JudgeFits
  <2>4. (k + 2) - 1 = k + 1 /\ k + 2 # 1 /\ k + 2 \in Nat \ {0}
    BY <1>3
  <2>5. ServerLog("judge") \in files[j] \/ Excused'
    <3>1. ASSUME NEW w \in why, w \in {"model", "port"} PROVE Excused'
      <4>1. <<w, "return">> \in faults'
        BY <1>4, <1>7
      <4> QED BY <3>1, <4>1 DEF Excused
    <3> QED BY <1>7, <3>1
  <2>6. /\ \A m \in DOMAIN p : Past(j, m)' => Past(j, m) \/ m = k \/ m = k + 1
    <3>1. \A m \in DOMAIN p : m \in Nat
      BY DEF JobFits
    <3>2. \A m \in Nat : Past(j, m)' <=> m < k + 2
      BY <1>3, <2>1 DEF Past
    <3>3. \A m \in Nat : Past(j, m) <=> m < k
      BY <1>1 DEF Past
    <3> HIDE DEF k
    <3> QED BY <1>3, <3>1, <3>2, <3>3
  <2> HIDE DEF p, k
  <2>7. JobType(j)'
    BY <1>4, <2>1, <2>4 DEF JobInv, JobType
  <2>8. ServerInv(j)'
    <3>1. ~Begun(j)' /\ ~Ends(j)'
      BY <1>5, <2>1, <2>2, <2>4 DEF Begun, Ends, Fresh, p
    <3> QED BY <1>5, <2>1, <3>1 DEF JobInv, ServerInv, p
  <2>9. WaitInv(j)' /\ LostInv(j)'
    BY <2>1 DEF WaitInv, LostInv
  <2>10. TurnInv(j)'
    BY <1>5, <2>1, <2>3 DEF TurnInv, p
  <2>11. FileInv(j)'
    <3>1. Excused => Excused'
      BY <1>4 DEF Excused
    <3>2. p[k].op = "start" /\ p[k + 1].op = "judge"
      BY <1>1, <2>2
    <3>3. ASSUME NEW m \in DOMAIN p, Past(j, m)'
          PROVE  /\ p[m].op = "review" =>
                       /\ {ReviewFile(p[m].of), ServerLog(p[m].of)} \subseteq files'[j]
                       /\ \E q \in made'[j] : q[1] = p[m].of
                 /\ p[m].op = "judge" => Verdict \in files'[j]
                 /\ Starts(p, m, "return") => ServerLog("judge") \in files'[j] \/ Excused'
      <4>1. CASE Past(j, m)
        BY <1>4, <2>1, <3>1, <4>1 DEF JobInv, FileInv, p
      <4>2. CASE m = k \/ m = k + 1
        BY <2>1, <2>5, <3>2, <4>2
      <4> QED BY <2>6, <3>3, <4>1, <4>2
    <3> QED BY <1>5, <3>3 DEF FileInv, p
  <2>12. AsConfigured(j)' /\ OwnServer(j)'
    BY <1>4, <1>5, <2>1 DEF JobInv, AsConfigured, OwnServer, p
  <2>13. VerdictInv(j)'
    BY <2>1 DEF VerdictInv
  <2> QED BY <2>7, <2>8, <2>9, <2>10, <2>11, <2>12, <2>13 DEF JobInv
<1> QED BY <1>1, <1>2, <1>6, <1>7 DEF StartFits

LEMMA NoModelKeeps ==
    ASSUME NEW j \in Job, Domains, JobFits(j), JobInv(j), NoModel(j)
    PROVE  JobInv(j)'
<1>1. At(j, "running", "start") /\ StartFails(j, {"model"})
  BY DEF NoModel
<1> QED BY <1>1, StartFailsKeeps

(* The port is taken by somebody else's server: the job has none there.    *)
LEMMA RefusePortKeeps ==
    ASSUME NEW j \in Job, Domains, JobFits(j), JobInv(j), RefusePort(j)
    PROVE  JobInv(j)'
<1>1. At(j, "running", "start") /\ Answering(j) # {}
  BY DEF RefusePort, PortTaken
<1>2. pc[j] \in DOMAIN P(j) /\ P(j)[pc[j]].op = "start" /\ at[j] = "running"
  BY <1>1, CommandAt
<1>3. Begun(j)
  BY <1>2 DEF JobFits, ScriptFits, StartFits, Begun
<1>4. foreign[j]
  BY <1>1, <1>3 DEF JobInv, ServerInv, Answering
<1>5. StartFails(j, {"port"})
  BY <1>4 DEF RefusePort
<1> QED BY <1>1, <1>5, StartFailsKeeps

LEMMA GiveUpKeeps ==
    ASSUME NEW j \in Job, Domains, JobFits(j), JobInv(j), GiveUp(j)
    PROVE  JobInv(j)'
<1>1. At(j, "waiting", "start") /\ StartFails(j, {"start"})
  BY DEF GiveUp
<1>2. pc[j] \in DOMAIN P(j) /\ P(j)[pc[j]].op = "start" /\ at[j] = "waiting"
  BY <1>1, CommandAt
<1>3. ServerLog(P(j)[pc[j]].log) \in files[j]
  BY <1>2 DEF JobInv, WaitInv
<1>4. StartFits(P(j), pc[j])
  BY <1>2 DEF JobFits, ScriptFits
<1>5. P(j)[pc[j]].fail = "return" => ServerLog("judge") \in files[j]
  BY <1>3, <1>4 DEF StartFits
<1> QED BY <1>1, <1>5, StartFailsKeeps
LEMMA ReviewKeeps ==
    ASSUME NEW j \in Job, Domains, JobFits(j), JobInv(j), Review(j)
    PROVE  JobInv(j)'
<1> DEFINE p == P(j)
           k == pc[j]
           rs == Jobs(Asked)[j]
           of == p[k].of
<1>1. k \in DOMAIN p /\ Command(j) = p[k] /\ p[k].op = "review" /\ at[j] = "running"
  BY CommandAt DEF Review
<1>2. ReviewFits(Asked, rs, p, k)
  BY <1>1 DEF JobFits, ScriptFits
<1>3. /\ pid[j] # 0 /\ ~foreign[j]
      /\ p[k - 1].op = "start" => pid[j] = k - 1
      /\ p[k - 1].op = "review" => \A s \in Answering(j) : <<p[k - 1].of, s>> \in made[j]
  BY <1>1 DEF JobInv, TurnInv
<1>4. spec' = spec /\ Asked' = Asked /\ faults' = faults
  BY DEF Review, asked, Asked
<1>5. p' = p
  BY <1>4 DEF P
<1>6. k \in Nat \ {0}
  BY DEF JobInv, JobType
<1>7. /\ at'[j] = "running" /\ pc'[j] = k + 1 /\ pid'[j] = pid[j] /\ servers'[j] = servers[j]
      /\ verdict'[j] = verdict[j] /\ foreign'[j] = foreign[j]
      /\ files'[j] = files[j] \cup {ReviewFile(of), ServerLog(of)}
  BY <1>1 DEF Review, GoesOn, Domains
<1>8. PICK s \in Answering(j) : made'[j] = made[j] \cup {<<of, s>>}
  BY <1>1 DEF Review, Domains
<1>9. PICK x \in servers[j] : s = [id |-> x.id, model |-> x.model, window |-> x.window]
  BY <1>3 DEF Answering
<1>10. /\ s.id = pid[j] /\ s.model = p[s.id].model /\ s.window = p[s.id].window
       /\ s.id = x.id /\ p[s.id].op = "start"
  BY <1>9 DEF JobInv, ServerInv
<1>11. \A y \in Answering(j) : y = s
  BY <1>3, <1>9 DEF Answering, JobInv, ServerInv
<1>12. /\ \A m \in DOMAIN p : Past(j, m)' => Past(j, m) \/ m = k
       /\ \A m \in DOMAIN p : Past(j, m) => Past(j, m)'
  BY <1>1, <1>6, <1>7, PastOn
<1>13. (k + 1) - 1 = k /\ k + 1 # 1 /\ (k - 1) + 1 = k /\ k + 1 \in Nat \ {0}
  BY <1>6
<1>14. PICK n \in DOMAIN rs :
          /\ of = rs[n].identity
          /\ \/ ServerFor(Asked, rs, p, k - 1, n)
             \/ /\ ~Asked.bare /\ n > 1 /\ rs[n - 1].model = rs[n].model
                /\ Reviews(p, k - 1, rs[n - 1].identity)
  BY <1>2 DEF ReviewFits
<1> HIDE DEF p, k, of, rs
<1>15. ASSUME ServerFor(Asked, rs, p, k - 1, n)
       PROVE  AsConfigured(j)' /\ OwnServer(j)'
  <2>1. s.id = k - 1 /\ s.model = rs[n].model /\ s.window = Window(Asked, rs[n])
    BY <1>3, <1>10, <1>15 DEF ServerFor, Starts
  <2>2. Reviews(p, s.id + 1, of)
    BY <1>1, <1>13, <2>1 DEF Reviews, of
  <2>3. AsConfigured(j)'
    <3>1. ASSUME NEW q \in made'[j]
          PROVE  \E i \in DOMAIN rs :
                    /\ rs[i].identity = q[1] /\ q[2].model = rs[i].model
                    /\ \/ q[2].window = Window(Asked, rs[i])
                       \/ /\ ~Asked.bare /\ i > 1 /\ rs[i - 1].model = rs[i].model
                          /\ \E r \in made'[j] : r[1] = rs[i - 1].identity /\ r[2] = q[2]
      <4>1. CASE q \in made[j]
        BY <1>8, <4>1 DEF JobInv, AsConfigured, rs
      <4>2. CASE q = <<of, s>>
        BY <1>14, <2>1, <4>2
      <4> QED BY <1>8, <4>1, <4>2
    <3> QED BY <1>4, <3>1 DEF AsConfigured, rs
  <2>4. OwnServer(j)'
    BY <1>4, <1>5, <1>8, <2>2 DEF JobInv, OwnServer, p
  <2> QED BY <2>3, <2>4
<1>16. ASSUME ~Asked.bare, n > 1, rs[n - 1].model = rs[n].model,
              Reviews(p, k - 1, rs[n - 1].identity)
       PROVE  AsConfigured(j)' /\ OwnServer(j)'
  <2>1. <<rs[n - 1].identity, s>> \in made[j]
    BY <1>3, <1>8, <1>16 DEF Reviews
  <2>2. PICK i \in DOMAIN rs : rs[i].identity = rs[n - 1].identity /\ s.model = rs[i].model
    BY <2>1 DEF JobInv, AsConfigured, rs
  <2>3. i = n - 1
    <3>1. OneOrTwo(rs)
      BY DEF JobFits, rs
    <3>2. DOMAIN rs = 1 .. Len(rs) /\ Len(rs) \in {1, 2}
      BY <3>1 DEF OneOrTwo
    <3>3. n = 2 /\ Len(rs) = 2 /\ n - 1 = 1 /\ i \in {1, 2}
      BY <1>16, <3>2
    <3>4. rs[1].identity # rs[2].identity
      BY <3>1, <3>3 DEF OneOrTwo, Both
    <3> QED BY <2>2, <3>3, <3>4
  <2>4. s.model = rs[n].model
    BY <1>16, <2>2, <2>3
  <2>5. AsConfigured(j)'
    <3>1. ASSUME NEW q \in made'[j]
          PROVE  \E l \in DOMAIN rs :
                    /\ rs[l].identity = q[1] /\ q[2].model = rs[l].model
                    /\ \/ q[2].window = Window(Asked, rs[l])
                       \/ /\ ~Asked.bare /\ l > 1 /\ rs[l - 1].model = rs[l].model
                          /\ \E r \in made'[j] : r[1] = rs[l - 1].identity /\ r[2] = q[2]
      <4>1. CASE q \in made[j]
        BY <1>8, <4>1 DEF JobInv, AsConfigured, rs
      <4>2. CASE q = <<of, s>>
        BY <1>8, <1>14, <1>16, <2>1, <2>4, <4>2
      <4> QED BY <1>8, <4>1, <4>2
    <3> QED BY <1>4, <3>1 DEF AsConfigured, rs
  <2>6. OwnServer(j)'
    BY <1>4, <1>16 DEF OwnServer
  <2> QED BY <2>5, <2>6
<1>17. JobType(j)'
  BY <1>7, <1>8, <1>13 DEF JobInv, JobType
<1>18. ServerInv(j)'
  <2>1. ~Begun(j)' /\ ~Ends(j)'
    BY <1>1, <1>5, <1>7, <1>13 DEF Begun, Ends, Fresh, p
  <2> QED BY <1>5, <1>7, <2>1 DEF JobInv, ServerInv, p
<1>19. WaitInv(j)' /\ LostInv(j)'
  BY <1>7 DEF WaitInv, LostInv
<1>20. TurnInv(j)'
  <2>1. Answering(j)' = Answering(j)
    BY <1>7 DEF Answering
  <2> QED BY <1>1, <1>3, <1>5, <1>7, <1>8, <1>11, <1>13, <2>1 DEF TurnInv, p, of
<1>21. FileInv(j)'
  <2>1. Excused' = Excused
    BY <1>4 DEF Excused
  <2>2. ASSUME NEW m \in DOMAIN p, Past(j, m)'
        PROVE  /\ p[m].op = "review" =>
                     /\ {ReviewFile(p[m].of), ServerLog(p[m].of)} \subseteq files'[j]
                     /\ \E q \in made'[j] : q[1] = p[m].of
               /\ p[m].op = "judge" => Verdict \in files'[j]
               /\ Starts(p, m, "return") => ServerLog("judge") \in files'[j] \/ Excused'
    <3>1. CASE Past(j, m)
      BY <1>7, <1>8, <2>1, <3>1 DEF JobInv, FileInv, p
    <3>2. CASE m = k
      <4>1. p[m].op = "review" /\ p[m].of = of
        BY <1>1, <3>2 DEF of
      <4>2. <<of, s>> \in made'[j] /\ <<of, s>>[1] = of
        BY <1>8
      <4> QED BY <1>7, <4>1, <4>2 DEF Starts
    <3> QED BY <1>12, <2>2, <3>1, <3>2
  <2> QED BY <1>5, <2>2 DEF FileInv, p
<1>22. VerdictInv(j)'
  <2>1. Verdict \in files'[j] => Verdict \in files[j]
    BY <1>7 DEF Verdict, ServerLog, ReviewFile
  <2> QED BY <1>1, <1>5, <1>7, <1>12, <2>1 DEF JobInv, VerdictInv, p
<1>23. AsConfigured(j)' /\ OwnServer(j)'
  BY <1>14, <1>15, <1>16
<1> QED BY <1>17, <1>18, <1>19, <1>20, <1>21, <1>22, <1>23 DEF JobInv

LEMMA ReviewFailsKeeps ==
    ASSUME NEW j \in Job, Domains, JobFits(j), JobInv(j), ReviewFails(j)
    PROVE  JobInv(j)'
<1>1. /\ pc[j] \in DOMAIN P(j) /\ P(j)[pc[j]].op = "review" /\ at[j] = "running"
      /\ Command(j) = P(j)[pc[j]]
  BY CommandAt DEF ReviewFails
<1>2. pid[j] # 0
  BY <1>1 DEF JobInv, TurnInv
<1>3. <<"review", "exit">> \in faults'
  BY <1>2 DEF ReviewFails
<1>4. Reason'
  BY <1>3 DEF Reason
<1>5. Trap(j) = {}
  BY StoppedNone DEF JobInv
<1>6. /\ at'[j] = "failed" /\ servers'[j] = {} /\ pid'[j] = 0 /\ pc'[j] = pc[j]
      /\ files'[j] = files[j] \cup {ServerLog(P(j)[pc[j]].of)}
      /\ made'[j] = made[j] /\ verdict'[j] = verdict[j] /\ foreign'[j] = foreign[j]
      /\ UNCHANGED asked
  BY <1>1, <1>5 DEF ReviewFails, Exit, Domains
<1>7. Verdict \in files'[j] => Verdict \in files[j]
  BY <1>6 DEF Verdict, ServerLog
<1>8. pc'[j] \in Nat \ {0}
  BY <1>6 DEF JobInv, JobType
<1> QED BY <1>4, <1>6, <1>7, <1>8, FailedKeeps
LEMMA JudgeKeeps ==
    ASSUME NEW j \in Job, Domains, JobFits(j), JobInv(j), Judge(j)
    PROVE  JobInv(j)'
<1> DEFINE p == P(j)
           k == pc[j]
<1>1. k \in DOMAIN p /\ Command(j) = p[k] /\ p[k].op = "judge" /\ at[j] = "running"
  BY CommandAt DEF Judge
<1>2. k + 1 \in DOMAIN p /\ p[k + 1].op = "stop"
  BY <1>1 DEF JobFits, ScriptFits, JudgeFits
<1>3. spec' = spec /\ Asked' = Asked /\ faults' = faults
  BY DEF Judge, asked, Asked
<1>4. p' = p
  BY <1>3 DEF P
<1>5. k \in Nat \ {0}
  BY DEF JobInv, JobType
<1>6. /\ at'[j] = "running" /\ pc'[j] = k + 1 /\ pid'[j] = pid[j] /\ servers'[j] = servers[j]
      /\ made'[j] = made[j] /\ foreign'[j] = foreign[j] /\ files'[j] = files[j] \cup {Verdict}
  BY <1>1 DEF Judge, GoesOn, Domains
<1>7. PICK says \in {"agree", "disagree", "error"} :
         verdict'[j] = [of |-> p[k].of, says |-> says]
  BY <1>1 DEF Judge, Domains
<1>8. /\ \A m \in DOMAIN p : Past(j, m)' => Past(j, m) \/ m = k
  BY <1>1, <1>5, <1>6, PastOn
<1>9. (k + 1) - 1 = k /\ k + 1 # 1 /\ k + 1 \in Nat \ {0} /\ k < k + 1
  BY <1>5
<1>10. \A m : m = k => Past(j, m)'
  BY <1>6, <1>9 DEF Past
<1> HIDE DEF p, k
<1>11. JobType(j)'
  BY <1>6, <1>7, <1>9 DEF JobInv, JobType
<1>12. ServerInv(j)'
  <2>1. ~Begun(j)' /\ ~Ends(j)'
    BY <1>1, <1>4, <1>6, <1>9 DEF Begun, Ends, Fresh, p
  <2> QED BY <1>4, <1>6, <2>1 DEF JobInv, ServerInv, p
<1>13. WaitInv(j)' /\ LostInv(j)'
  BY <1>6 DEF WaitInv, LostInv
<1>14. TurnInv(j)'
  BY <1>2, <1>4, <1>6 DEF TurnInv, p
<1>15. FileInv(j)'
  <2>1. Excused' = Excused
    BY <1>3 DEF Excused
  <2>2. ASSUME NEW m \in DOMAIN p, Past(j, m)'
        PROVE  /\ p[m].op = "review" =>
                     /\ {ReviewFile(p[m].of), ServerLog(p[m].of)} \subseteq files'[j]
                     /\ \E q \in made'[j] : q[1] = p[m].of
               /\ p[m].op = "judge" => Verdict \in files'[j]
               /\ Starts(p, m, "return") => ServerLog("judge") \in files'[j] \/ Excused'
    <3>1. CASE Past(j, m)
      BY <1>6, <2>1, <3>1 DEF JobInv, FileInv, p
    <3>2. CASE m = k
      BY <1>1, <1>6, <3>2 DEF Starts
    <3> QED BY <1>8, <2>2, <3>1, <3>2
  <2> QED BY <1>4, <2>2 DEF FileInv, p
<1>16. AsConfigured(j)' /\ OwnServer(j)'
  BY <1>3, <1>4, <1>6 DEF JobInv, AsConfigured, OwnServer, p
<1>17. VerdictInv(j)'
  <2>1. verdict'[j].says # "nothing" /\ verdict'[j].of = p[k].of
    BY <1>7
  <2>2. \E m \in DOMAIN p :
           Past(j, m)' /\ p[m].op = "judge" /\ verdict'[j].of = p[m].of
    BY <1>1, <1>10, <2>1
  <2> QED BY <1>4, <2>1, <2>2 DEF VerdictInv, p
<1> QED BY <1>11, <1>12, <1>13, <1>14, <1>15, <1>16, <1>17 DEF JobInv

LEMMA StopServerKeeps ==
    ASSUME NEW j \in Job, Domains, JobFits(j), JobInv(j), StopServer(j)
    PROVE  JobInv(j)'
<1> DEFINE p == P(j)
           k == pc[j]
<1>1. k \in DOMAIN p /\ Command(j) = p[k] /\ p[k].op = "stop" /\ at[j] = "running"
  BY CommandAt DEF StopServer
<1>2. spec' = spec /\ Asked' = Asked /\ faults' = faults
  BY DEF StopServer, asked, Asked
<1>3. p' = p
  BY <1>2 DEF P
<1>4. k \in Nat \ {0}
  BY DEF JobInv, JobType
<1>5. /\ at'[j] = "running" /\ pc'[j] = k + 1 /\ pid'[j] = 0 /\ servers'[j] = Stopped(j)
      /\ made'[j] = made[j] /\ foreign'[j] = foreign[j] /\ files'[j] = files[j]
      /\ verdict'[j] = verdict[j]
  BY <1>1 DEF StopServer, GoesOn, Domains
<1>6. Stopped(j) = {}
  BY StoppedNone DEF JobInv
<1>7. /\ \A m \in DOMAIN p : Past(j, m)' => Past(j, m) \/ m = k
      /\ \A m \in DOMAIN p : Past(j, m) => Past(j, m)'
  BY <1>1, <1>4, <1>5, PastOn
<1>8. (k + 1) - 1 = k /\ k + 1 # 1 /\ k + 1 \in Nat \ {0}
  BY <1>4
<1> HIDE DEF p, k
<1>9. JobType(j)'
  BY <1>5, <1>6, <1>8 DEF JobInv, JobType
<1>10. ServerInv(j)'
  BY <1>5, <1>6 DEF ServerInv
<1>11. WaitInv(j)' /\ LostInv(j)'
  BY <1>5 DEF WaitInv, LostInv
<1>12. TurnInv(j)'
  <2>1. ASSUME k + 1 \in DOMAIN p, p[k + 1].op = "review"
        PROVE  FALSE
    <3>1. ReviewFits(Asked, Jobs(Asked)[j], p, k + 1)
      BY <2>1 DEF JobFits, ScriptFits, p
    <3>2. p[k].op \in {"start", "review"}
      BY <1>8, <3>1 DEF ReviewFits, ServerFor, Starts, Reviews
    <3> QED BY <1>1, <3>2
  <2> QED BY <1>3, <1>5, <2>1 DEF TurnInv, p
<1>13. FileInv(j)'
  <2>1. Excused' = Excused
    BY <1>2 DEF Excused
  <2> QED BY <1>1, <1>3, <1>5, <1>7, <2>1 DEF JobInv, FileInv, Starts, p
<1>14. AsConfigured(j)' /\ OwnServer(j)'
  BY <1>2, <1>3, <1>5 DEF JobInv, AsConfigured, OwnServer, p
<1>15. VerdictInv(j)'
  BY <1>1, <1>3, <1>5, <1>7 DEF JobInv, VerdictInv, p
<1> QED BY <1>9, <1>10, <1>11, <1>12, <1>13, <1>14, <1>15 DEF JobInv

LEMMA ScriptOverKeeps ==
    ASSUME NEW j \in Job, Domains, JobFits(j), JobInv(j), ScriptOver(j)
    PROVE  JobInv(j)'
<1> DEFINE p == P(j)
           k == pc[j]
<1>1. at[j] = "running" /\ k > Len(p)
  BY DEF ScriptOver, P
<1>2. spec' = spec /\ Asked' = Asked /\ faults' = faults
  BY DEF ScriptOver, asked, Asked
<1>3. p' = p
  BY <1>2 DEF P
<1>4. k \in Nat \ {0} /\ Len(p) \in Nat /\ DOMAIN p = 1 .. Len(p)
  BY DEF JobInv, JobType, JobFits
<1>5. /\ at'[j] = "uploading" /\ pc'[j] = 1 /\ pid'[j] = 0 /\ servers'[j] = Trap(j)
      /\ made'[j] = made[j] /\ foreign'[j] = foreign[j] /\ files'[j] = files[j]
      /\ verdict'[j] = verdict[j]
  BY <1>1 DEF ScriptOver, Domains
<1>6. Trap(j) = {}
  BY StoppedNone DEF JobInv
<1> HIDE DEF p, k
<1>7. \A m \in DOMAIN p : m < k
  BY <1>1, <1>4
<1>8. \A m \in DOMAIN p : Past(j, m)
  BY <1>1, <1>7 DEF Past, k
<1>9. \A m \in DOMAIN p : Past(j, m)'
  BY <1>5 DEF Past
<1>10. JobType(j)'
  BY <1>5, <1>6 DEF JobInv, JobType
<1>11. ServerInv(j)'
  BY <1>5, <1>6 DEF ServerInv
<1>12. WaitInv(j)' /\ LostInv(j)' /\ TurnInv(j)'
  BY <1>5 DEF WaitInv, LostInv, TurnInv
<1>13. FileInv(j)'
  <2>1. Excused' = Excused
    BY <1>2 DEF Excused
  <2> QED BY <1>3, <1>5, <1>8, <2>1 DEF JobInv, FileInv, p
<1>14. AsConfigured(j)' /\ OwnServer(j)'
  BY <1>2, <1>3, <1>5 DEF JobInv, AsConfigured, OwnServer, p
<1>15. VerdictInv(j)'
  BY <1>1, <1>3, <1>5, <1>9 DEF JobInv, VerdictInv, p
<1> QED BY <1>10, <1>11, <1>12, <1>13, <1>14, <1>15 DEF JobInv

(* Every file the script leads to is there, but for an excuse.             *)
LEMMA UploadKeeps ==
    ASSUME NEW j \in Job, Domains, JobFits(j), JobInv(j), Upload(j)
    PROVE  JobInv(j)'
<1> DEFINE p == P(j)
           k == pc[j]
           up == spec[j].uploads
<1>1. at[j] = "uploading"
  BY DEF Upload
<1>2. spec' = spec /\ Asked' = Asked /\ faults' = faults /\ UNCHANGED asked
  BY DEF Upload, asked, Asked
<1>3. p' = p
  BY <1>2 DEF P
<1>4. /\ k \in Nat \ {0} /\ Len(up) \in Nat /\ DOMAIN up = 1 .. Len(up) /\ pid[j] \in Nat
  BY DEF JobInv, JobType, JobFits
<1>5. /\ pc'[j] = k + 1 /\ pid'[j] = pid[j] /\ servers'[j] = servers[j]
      /\ made'[j] = made[j] /\ foreign'[j] = foreign[j] /\ files'[j] = files[j]
      /\ verdict'[j] = verdict[j]
      /\ at'[j] = IF k > Len(up) THEN "done"
                  ELSE IF up[k] \notin files[j] THEN "failed" ELSE at[j]
  BY DEF Upload, Domains
<1>6. servers[j] = {}
  BY <1>1 DEF JobInv, ServerInv, Ends
<1> HIDE DEF p, k, up
<1>7. \A m \in DOMAIN p : Past(j, m)
  BY <1>1 DEF Past
<1>8. k + 1 \in Nat \ {0}
  BY <1>4
<1>9. CASE at'[j] = "failed"
  <2>1. k \in DOMAIN up /\ up[k] \notin files[j]
    BY <1>1, <1>4, <1>5, <1>9
  <2>2. UploadFits(p, up[k])
    BY <2>1 DEF JobFits, p, up
  <2>3. Excused
    BY <1>7, <2>1, <2>2 DEF UploadFits, JobInv, FileInv, p
  <2>4. Reason'
    BY <1>2, <2>3 DEF Excused, Reason
  <2> QED BY <1>2, <1>4, <1>5, <1>6, <1>8, <1>9, <2>4, FailedKeeps
<1>10. CASE at'[j] # "failed"
  <2>1. at'[j] \in {"uploading", "done"}
    BY <1>1, <1>5, <1>10
  <2>2. \A m \in DOMAIN p : Past(j, m)'
    BY <2>1 DEF Past
  <2>3. JobType(j)'
    BY <1>5, <1>8, <2>1 DEF JobInv, JobType
  <2>4. ServerInv(j)'
    BY <1>5, <1>6, <2>1 DEF ServerInv, Begun
  <2>5. WaitInv(j)' /\ LostInv(j)' /\ TurnInv(j)'
    BY <2>1 DEF WaitInv, LostInv, TurnInv
  <2>6. FileInv(j)'
    <3>1. Excused' = Excused
      BY <1>2 DEF Excused
    <3> QED BY <1>3, <1>5, <1>7, <3>1 DEF JobInv, FileInv, p
  <2>7. AsConfigured(j)' /\ OwnServer(j)'
    BY <1>2, <1>3, <1>5 DEF JobInv, AsConfigured, OwnServer, p
  <2>8. VerdictInv(j)'
    BY <1>1, <1>3, <1>5, <2>2 DEF JobInv, VerdictInv, p
  <2> QED BY <2>3, <2>4, <2>5, <2>6, <2>7, <2>8 DEF JobInv
<1> QED BY <1>9, <1>10

LEMMA ServerDiesKeeps ==
    ASSUME NEW j \in Job, Domains, JobFits(j), JobInv(j), ServerDies(j)
    PROVE  JobInv(j)'
<1>1. spec' = spec /\ Asked' = Asked /\ faults' = faults
  BY DEF ServerDies, asked, Asked
<1>2. P(j)' = P(j)
  BY <1>1 DEF P
<1>3. /\ at'[j] = at[j] /\ pc'[j] = pc[j] /\ pid'[j] = pid[j] /\ servers'[j] = {}
      /\ made'[j] = made[j] /\ foreign'[j] = foreign[j] /\ files'[j] = files[j]
      /\ verdict'[j] = verdict[j]
  BY StoppedNone DEF ServerDies, Domains, JobInv
<1>4. JobType(j)'
  BY <1>3 DEF JobInv, JobType
<1>5. ServerInv(j)'
  BY <1>2, <1>3 DEF JobInv, ServerInv, Begun
<1>6. WaitInv(j)' /\ LostInv(j)'
  BY <1>1, <1>2, <1>3 DEF JobInv, WaitInv, LostInv, Reason
<1>7. TurnInv(j)'
  <2>1. Answering(j)' \subseteq Answering(j)
    BY <1>3 DEF Answering
  <2> QED BY <1>2, <1>3, <2>1 DEF JobInv, TurnInv
<1>8. FileInv(j)' /\ VerdictInv(j)'
  BY <1>1, <1>2, <1>3 DEF JobInv, FileInv, VerdictInv, Past, Excused
<1>9. AsConfigured(j)' /\ OwnServer(j)'
  BY <1>1, <1>2, <1>3 DEF JobInv, AsConfigured, OwnServer
<1> QED BY <1>4, <1>5, <1>6, <1>7, <1>8, <1>9 DEF JobInv

LEMMA HangKeeps ==
    ASSUME NEW j \in Job, Domains, JobFits(j), JobInv(j), Hang(j)
    PROVE  JobInv(j)'
BY Untouched DEF Hang

LEMMA KilledKeeps ==
    ASSUME NEW j \in Job, Domains, JobFits(j), JobInv(j), Killed(j)
    PROVE  JobInv(j)'
<1>1. <<"killed", "exit">> \in faults'
  BY DEF Killed
<1>2. Reason'
  BY <1>1 DEF Reason
<1>3. /\ at'[j] = "failed" /\ servers'[j] = {} /\ pc'[j] = pc[j] /\ pid'[j] = pid[j]
      /\ files'[j] = files[j] /\ made'[j] = made[j] /\ verdict'[j] = verdict[j]
      /\ foreign'[j] = foreign[j] /\ UNCHANGED asked
  BY DEF Killed, Domains
<1>4. pc'[j] \in Nat \ {0} /\ pid'[j] \in Nat
  BY <1>3 DEF JobInv, JobType
<1> QED BY <1>2, <1>3, <1>4, FailedKeeps

LEMMA StrangerLeavesKeeps ==
    ASSUME NEW j \in Job, Domains, JobFits(j), JobInv(j), StrangerLeaves(j)
    PROVE  JobInv(j)'
<1>1. spec' = spec /\ Asked' = Asked /\ faults' = faults
  BY DEF StrangerLeaves, asked, Asked
<1>2. P(j)' = P(j)
  BY <1>1 DEF P
<1>3. /\ at'[j] = at[j] /\ pc'[j] = pc[j] /\ pid'[j] = pid[j] /\ servers'[j] = servers[j]
      /\ made'[j] = made[j] /\ foreign'[j] = FALSE /\ files'[j] = files[j]
      /\ verdict'[j] = verdict[j] /\ foreign[j]
  BY DEF StrangerLeaves, Domains
<1>4. JobType(j)'
  BY <1>3 DEF JobInv, JobType
<1>5. ServerInv(j)'
  BY <1>2, <1>3 DEF JobInv, ServerInv, Begun, Ends
<1>6. WaitInv(j)' /\ LostInv(j)'
  BY <1>1, <1>2, <1>3 DEF JobInv, WaitInv, LostInv, Reason
<1>7. TurnInv(j)'
  BY <1>2, <1>3 DEF JobInv, TurnInv
<1>8. FileInv(j)' /\ VerdictInv(j)'
  BY <1>1, <1>2, <1>3 DEF JobInv, FileInv, VerdictInv, Past, Excused
<1>9. AsConfigured(j)' /\ OwnServer(j)'
  BY <1>1, <1>2, <1>3 DEF JobInv, AsConfigured, OwnServer
<1> QED BY <1>4, <1>5, <1>6, <1>7, <1>8, <1>9 DEF JobInv
-----------------------------------------------------------------------------
(* The steps of the whole.                                                 *)

AnyStep(j) == JobStep(j) \/ ServerDies(j) \/ Hang(j) \/ Killed(j) \/ StrangerLeaves(j)

(* A step of one job is of that job only.                                  *)
Alone(j) ==
    /\ UNCHANGED asked /\ UNCHANGED result /\ faults \subseteq faults'
    /\ DOMAIN at' = DOMAIN at /\ DOMAIN pc' = DOMAIN pc /\ DOMAIN servers' = DOMAIN servers
    /\ DOMAIN pid' = DOMAIN pid /\ DOMAIN files' = DOMAIN files
    /\ DOMAIN made' = DOMAIN made /\ DOMAIN verdict' = DOMAIN verdict
    /\ DOMAIN foreign' = DOMAIN foreign
    /\ \A i \in Job \ {j} :
          /\ at'[i] = at[i] /\ pc'[i] = pc[i] /\ servers'[i] = servers[i] /\ pid'[i] = pid[i]
          /\ files'[i] = files[i] /\ made'[i] = made[i] /\ verdict'[i] = verdict[i]
          /\ foreign'[i] = foreign[i]
    /\ at[j] = "done" => UNCHANGED <<at, made, verdict>>

LEMMA StartFailsAlone ==
    ASSUME NEW j \in Job, Domains, NEW why, StartFails(j, why), at[j] # "done"
    PROVE  Alone(j)
<1>1. CASE Exit(j) /\ UNCHANGED <<pc, files, verdict>>
  BY <1>1 DEF StartFails, Exit, Alone, Domains
<1>2. CASE /\ verdict' = [verdict EXCEPT ![j] = [of |-> <<>>, says |-> "error"]]
           /\ files' = [files EXCEPT ![j] = @ \cup {Verdict}]
           /\ pc' = [pc EXCEPT ![j] = @ + 2]
           /\ at' = [at EXCEPT ![j] = "running"]
           /\ UNCHANGED <<servers, pid>>
  BY <1>2 DEF StartFails, Alone, Domains
<1> QED BY <1>1, <1>2 DEF StartFails

LEMMA StepsAlone ==
    ASSUME NEW j \in Job, Domains, AnyStep(j)
    PROVE  Alone(j)
<1>1. CASE NoModel(j)
  BY <1>1, StartFailsAlone DEF NoModel, At
<1>2. CASE RefusePort(j)
  BY <1>2, StartFailsAlone DEF RefusePort, At
<1>3. CASE Launch(j)
  BY <1>3 DEF Launch, At, Alone, Domains
<1>4. CASE Healthy(j)
  BY <1>4 DEF Healthy, At, GoesOn, Alone, Domains
<1>5. CASE GiveUp(j)
  BY <1>5, StartFailsAlone DEF GiveUp, At
<1>6. CASE Review(j)
  BY <1>6 DEF Review, At, GoesOn, Alone, Domains
<1>7. CASE ReviewFails(j)
  BY <1>7 DEF ReviewFails, At, Exit, Alone, Domains
<1>8. CASE Judge(j)
  BY <1>8 DEF Judge, At, GoesOn, Alone, Domains
<1>9. CASE StopServer(j)
  BY <1>9 DEF StopServer, At, GoesOn, Alone, Domains
<1>10. CASE ScriptOver(j)
  BY <1>10 DEF ScriptOver, Alone, Domains
<1>11. CASE Upload(j)
  BY <1>11 DEF Upload, Alone, Domains
<1>12. CASE ServerDies(j)
  BY <1>12 DEF ServerDies, Alone, Domains
<1>13. CASE Killed(j)
  BY <1>13 DEF Killed, Alone, Domains
<1>14. CASE StrangerLeaves(j)
  BY <1>14 DEF StrangerLeaves, Alone, Domains
<1>15. CASE Hang(j)
  BY <1>15 DEF Hang, Alone, Domains
<1> QED BY <1>1, <1>2, <1>3, <1>4, <1>5, <1>6, <1>7, <1>8, <1>9, <1>10, <1>11,
           <1>12, <1>13, <1>14, <1>15 DEF AnyStep, JobStep

LEMMA StepsKeep ==
    ASSUME NEW j \in Job, Domains, JobFits(j), JobInv(j), AnyStep(j)
    PROVE  JobInv(j)'
BY NoModelKeeps, RefusePortKeeps, LaunchKeeps, HealthyKeeps, GiveUpKeeps, ReviewKeeps,
   ReviewFailsKeeps, JudgeKeeps, StopServerKeeps, ScriptOverKeeps, UploadKeeps,
   ServerDiesKeeps, HangKeeps, KilledKeeps, StrangerLeavesKeeps DEF AnyStep, JobStep

LEMMA AskedStays ==
    ASSUME ConfigOK, UNCHANGED <<config, ask>>
    PROVE  ConfigOK' /\ Asked' = Asked /\ (Refusal(Asked))' = Refusal(Asked)
<1>1. ConfigOK'
  BY DEF ConfigOK
<1>2. Asked' = Asked
  BY DEF Asked
<1>3. (Refusal(Asked))' = Refusal(Asked)
  BY <1>2 DEF Refusal
<1> QED BY <1>1, <1>2, <1>3

LEMMA JobKeepsAll ==
    ASSUME RackInv, NEW j \in Job, AnyStep(j)
    PROVE  RackInv'
<1>1. Alone(j)
  BY StepsAlone DEF RackInv
<1>2. config' = config /\ ask' = ask /\ spec' = spec /\ result' = result /\ UNCHANGED asked
  BY <1>1 DEF Alone, asked
<1>3. ConfigOK' /\ Asked' = Asked /\ (Refusal(Asked))' = Refusal(Asked)
  BY <1>2, AskedStays DEF RackInv
<1>4. Submitted'
  BY <1>2, <1>3 DEF RackInv, Submitted
<1>5. Job' = Job
  BY <1>2 DEF Job
<1>6. Domains'
  BY <1>1, <1>5 DEF RackInv, Domains, Alone
<1>7. ASSUME NEW i \in Job PROVE JobInv(i)'
  <2>1. CASE i = j
    <3>1. JobFits(j)
      BY Fitting DEF RackInv
    <3> QED BY <2>1, <3>1, StepsKeep DEF RackInv
  <2>2. CASE i # j
    <3>1. /\ at'[i] = at[i] /\ pc'[i] = pc[i] /\ servers'[i] = servers[i] /\ pid'[i] = pid[i]
          /\ files'[i] = files[i] /\ made'[i] = made[i] /\ verdict'[i] = verdict[i]
          /\ foreign'[i] = foreign[i] /\ faults \subseteq faults'
      BY <1>1, <2>2 DEF Alone
    <3> QED BY <1>2, <3>1, Untouched DEF RackInv
  <2> QED BY <2>1, <2>2
<1>8. Outcome'
  <2>1. result.is # "refused" /\ (result.is = "failed" => Reason')
    BY <1>1 DEF RackInv, Outcome, Reason, Alone
  <2>2. result.by = "rack" => (\A i \in Job : at'[i] = "done") /\ VerdictOfThePair'
    <3>1. SUFFICES ASSUME result.by = "rack"
                   PROVE  (\A i \in Job : at'[i] = "done") /\ VerdictOfThePair'
      OBVIOUS
    <3>2. (\A i \in Job : at[i] = "done") /\ VerdictOfThePair
      BY <3>1 DEF RackInv, Outcome
    <3>3. at' = at /\ made' = made /\ verdict' = verdict
      BY <1>1, <3>2 DEF Alone
    <3> QED BY <1>2, <1>5, <3>2, <3>3 DEF VerdictOfThePair
  <2> QED BY <1>2, <1>5, <2>1, <2>2 DEF Outcome
<1> QED BY <1>3, <1>4, <1>5, <1>6, <1>7, <1>8 DEF RackInv
FitAll == \A j \in Job : JobFits(j)

LEMMA FittingAll == ConfigOK /\ Submitted => FitAll
BY Fitting DEF FitAll

LEMMA SubmitKeeps ==
    ASSUME RackInv, Submit
    PROVE  RackInv'
<1>1. config' = config /\ ask' = ask /\ result' = Waiting /\ faults' = faults
  BY DEF Submit
<1>2. ConfigOK' /\ Asked' = Asked /\ (Refusal(Asked))' = Refusal(Asked)
  BY <1>1, AskedStays DEF RackInv
<1>3. spec' = Experiment(Asked) /\ Refusal(Asked) = "none"
  BY DEF Submit
<1>4. Submitted'
  BY <1>2, <1>3 DEF Submitted
<1>5. Job' = DOMAIN Jobs(Asked)
  BY <1>3 DEF Job, Experiment
<1>6. FitAll'
  <2>1. (ConfigOK /\ Submitted => FitAll)'
    BY FittingAll, PTL
  <2> QED BY <1>2, <1>4, <2>1
<1>7. Domains'
  BY <1>5 DEF Submit, Domains
<1>8. ASSUME NEW j \in Job'
      PROVE  JobInv(j)'
  <2>1. /\ at'[j] = "running" /\ pc'[j] = 1 /\ servers'[j] = {} /\ pid'[j] = 0
        /\ files'[j] = {} /\ made'[j] = {} /\ verdict'[j] = [of |-> <<>>, says |-> "nothing"]
        /\ foreign'[j] \in BOOLEAN
    <3>1. j \in DOMAIN Jobs(Asked)
      BY <1>5
    <3> QED BY <3>1 DEF Submit
  <2>2. JobFits(j)'
    BY <1>6 DEF FitAll
  <2>3. JobType(j)'
    BY <2>1 DEF JobType
  <2>4. ServerInv(j)' /\ WaitInv(j)' /\ LostInv(j)'
    BY <2>1 DEF ServerInv, Ends, WaitInv, LostInv
  <2>5. TurnInv(j)'
    <3>1. ASSUME 1 \in DOMAIN P(j)', P(j)'[1].op = "review"
          PROVE  FALSE
      BY <2>2, <3>1 DEF JobFits, ScriptFits, ReviewFits
    <3> QED BY <2>1, <3>1 DEF TurnInv
  <2>6. FileInv(j)'
    <3>1. \A m \in DOMAIN P(j)' : m \in Nat \ {0}
      BY <2>2 DEF JobFits
    <3>2. \A m \in DOMAIN P(j)' : ~Past(j, m)'
      BY <2>1, <3>1 DEF Past
    <3> QED BY <3>2 DEF FileInv
  <2>7. AsConfigured(j)' /\ OwnServer(j)'
    BY <2>1 DEF AsConfigured, OwnServer
  <2>8. VerdictInv(j)'
    BY <2>1 DEF VerdictInv
  <2> QED BY <2>3, <2>4, <2>5, <2>6, <2>7, <2>8 DEF JobInv
<1>9. Outcome'
  BY <1>1 DEF Outcome, Waiting
<1> QED BY <1>2, <1>4, <1>7, <1>8, <1>9 DEF RackInv

\* The result changes, and nothing else.
LEMMA ResultOnly ==
    ASSUME RackInv, UNCHANGED <<asked, job, faults>>, Outcome'
    PROVE  RackInv'
<1>1. config' = config /\ ask' = ask /\ spec' = spec /\ UNCHANGED asked /\ faults' = faults
  BY DEF asked
<1>2. /\ at' = at /\ pc' = pc /\ servers' = servers /\ pid' = pid /\ files' = files
      /\ made' = made /\ verdict' = verdict /\ foreign' = foreign
  BY DEF job
<1>3. ConfigOK' /\ Asked' = Asked /\ (Refusal(Asked))' = Refusal(Asked)
  BY <1>1, AskedStays DEF RackInv
<1>4. Submitted' /\ Job' = Job
  BY <1>1, <1>3 DEF RackInv, Submitted, Job
<1>5. Domains'
  BY <1>2, <1>4 DEF RackInv, Domains
<1>6. \A j \in Job : JobInv(j)'
  BY <1>1, <1>2, Untouched DEF RackInv
<1> QED BY <1>3, <1>4, <1>5, <1>6 DEF RackInv

LEMMA RefuseKeeps ==
    ASSUME RackInv, Refuse
    PROVE  RackInv'
<1>1. result' = [is |-> Refusal(Asked), by |-> "nobody"] /\ UNCHANGED <<asked, job, faults>>
  BY DEF Refuse
<1>2. Refusal(Asked) # "refused"
  BY NotRefused DEF RackInv
<1>3. Refusal(Asked) # "failed"
  BY DEF Refusal
<1>4. Outcome'
  BY <1>1, <1>2, <1>3 DEF Outcome
<1> QED BY <1>1, <1>4, ResultOnly

LEMMA CollectKeeps ==
    ASSUME RackInv, Collect
    PROVE  RackInv'
<1>1. /\ \A j \in Job : at[j] \in {"done", "failed"}
      /\ UNCHANGED <<asked, job, faults>>
  BY DEF Collect
<1>2. Job' = Job /\ at' = at /\ faults' = faults /\ verdict' = verdict /\ made' = made
  BY <1>1 DEF asked, job, Job
<1>3. (Reason)' = Reason
  BY <1>2 DEF Reason
<1>4. CASE \E j \in Job : at[j] = "failed"
  <2>1. result' = [is |-> "failed", by |-> "nobody"]
    BY <1>4 DEF Collect
  <2>2. Reason
    BY <1>4 DEF RackInv, JobInv, LostInv
  <2>3. Outcome'
    BY <1>3, <2>1, <2>2 DEF Outcome
  <2> QED BY <1>1, <2>3, ResultOnly
<1>5. CASE ~\E j \in Job : at[j] = "failed"
  <2>1. \A j \in Job : at[j] = "done"
    BY <1>1, <1>5
  <2>2. \/ result' = [is |-> "alone", by |-> "nobody"]
        \/ result' \in {[is |-> "agree", by |-> "here"], [is |-> "disagree", by |-> "here"]}
        \/ \E v \in ReadVerdict : result' = [is |-> v.says, by |-> "rack"]
    BY <1>5 DEF Collect, JudgedHere
  <2>3. CASE result'.by # "rack"
    <3>1. result'.is # "refused" /\ result'.is # "failed"
      BY <2>2, <2>3
    <3>2. Outcome'
      BY <2>3, <3>1 DEF Outcome
    <3> QED BY <1>1, <3>2, ResultOnly
  <2>4. CASE \E v \in ReadVerdict : result' = [is |-> v.says, by |-> "rack"]
    <3>1. PICK j \in Job : /\ Verdict \in files[j] /\ verdict[j].says # "error"
                           /\ result' = [is |-> verdict[j].says, by |-> "rack"]
      BY <2>4 DEF ReadVerdict
    <3>2. JobInv(j) /\ at[j] = "done" /\ JobFits(j)
      BY <2>1, Fitting DEF RackInv
    <3>3. verdict[j].says \in {"agree", "disagree"}
      BY <3>1, <3>2 DEF JobInv, JobType, VerdictInv
    <3>4. PICK m \in DOMAIN P(j) : P(j)[m].op = "judge" /\ verdict[j].of = P(j)[m].of
      BY <3>2, <3>3 DEF JobInv, VerdictInv
    <3>5. JudgeFits(P(j), m)
      BY <3>2, <3>4 DEF JobFits, ScriptFits
    <3>6. \A slug \in Both : \E q \in made[j] : q[1] = slug
      <4>1. TAKE slug \in Both
      <4>2. PICK l \in 1 .. m - 1 : Reviews(P(j), l, slug)
        BY <3>5 DEF JudgeFits
      <4>3. l \in DOMAIN P(j) /\ P(j)[l].op = "review" /\ P(j)[l].of = slug
        BY <4>2 DEF Reviews
      <4>4. Past(j, l)
        BY <3>2 DEF Past
      <4> QED BY <3>2, <4>3, <4>4 DEF JobInv, FileInv
    <3>7. Both \subseteq {q[1] : q \in made[j]}
      BY <3>6
    <3>8. {verdict[j].of[1], verdict[j].of[2]} = Both
      BY <3>4, <3>5 DEF JudgeFits
    <3>9. VerdictOfThePair'
      BY <1>2, <3>1, <3>7, <3>8 DEF VerdictOfThePair, Both
    <3>10. Outcome'
      BY <1>2, <2>1, <3>1, <3>3, <3>9 DEF Outcome
    <3> QED BY <1>1, <3>10, ResultOnly
  <2> QED BY <2>2, <2>3, <2>4
<1> QED BY <1>4, <1>5

LEMMA AbandonKeeps ==
    ASSUME RackInv, Abandon
    PROVE  RackInv'
<1>1. /\ result' \in {[is |-> "cancelled", by |-> "nobody"], [is |-> "given_up", by |-> "nobody"]}
      /\ UNCHANGED <<asked, job, faults>>
  BY DEF Abandon
<1>2. result'.is # "refused" /\ result'.is # "failed" /\ result'.by # "rack"
  BY <1>1
<1>3. Outcome'
  BY <1>2 DEF Outcome
<1> QED BY <1>1, <1>3, ResultOnly

-----------------------------------------------------------------------------
(* The theorems.                                                           *)

LEMMA InitRack == Init => (NamedOnce(config.rack) => RackInv)
<1> SUFFICES ASSUME Init, NamedOnce(config.rack) PROVE RackInv
  OBVIOUS
<1>1. ConfigOK
  BY DEF Init, ConfigOK
<1>2. Submitted /\ Domains
  BY DEF Init, Submitted, Domains, Job
<1>3. Outcome
  BY DEF Init, Outcome, Waiting
<1>4. Job = {}
  BY DEF Init, Job
<1> QED BY <1>1, <1>2, <1>3, <1>4 DEF RackInv

LEMMA NextRack == RackInv /\ [Next]_vars => RackInv'
<1> SUFFICES ASSUME RackInv, [Next]_vars PROVE RackInv'
  OBVIOUS
<1>1. CASE Submit
  BY <1>1, SubmitKeeps
<1>2. CASE Refuse
  BY <1>2, RefuseKeeps
<1>3. CASE Collect
  BY <1>3, CollectKeeps
<1>4. ASSUME NEW j \in Job, AnyStep(j) PROVE RackInv'
  BY <1>4, JobKeepsAll
<1>6. CASE Abandon
  BY <1>6, AbandonKeeps
<1>5. CASE UNCHANGED vars
  <2>1. UNCHANGED <<asked, job, faults>> /\ result' = result
    BY <1>5 DEF vars
  <2>2. Outcome'
    BY <2>1 DEF RackInv, Outcome, Reason, VerdictOfThePair, Job, asked, job
  <2> QED BY <2>1, <2>2, ResultOnly
<1> QED BY <1>1, <1>2, <1>3, <1>4, <1>5, <1>6 DEF Next, AnyStep

\* The configuration does not change.
LEMMA ConfigStays == [Next]_vars => config' = config
<1>1. ASSUME NEW j \in Job, AnyStep(j) PROVE config' = config
  <2>1. ASSUME NEW why, StartFails(j, why) PROVE config' = config
    BY <2>1 DEF StartFails, asked
  <2> QED BY <1>1, <2>1 DEF AnyStep, JobStep, NoModel, RefusePort, Launch, Healthy, GiveUp,
          Review, ReviewFails, Judge, StopServer, ScriptOver, Upload, ServerDies, Hang,
          Killed, StrangerLeaves, asked
<1> QED BY <1>1 DEF Next, AnyStep, Submit, Refuse, Collect, Abandon, vars, asked

(* Where the three Barrys are listed, each at most once, what is true of a *)
(* job at each of its places stays so.                                     *)
THEOREM RackInvariant == Spec => [](NamedOnce(config.rack) => RackInv)
<1>1. (NamedOnce(config.rack) => RackInv) /\ [Next]_vars
      => (NamedOnce(config.rack) => RackInv)'
  BY NextRack, ConfigStays
<1> QED BY <1>1, InitRack, PTL DEF Spec

(* Every review was made against a server of its reviewer's own model,     *)
(* however the models and windows of the three Barrys differ.              *)
THEOREM ReviewsAreAsConfigured ==
    Spec => [](NamedOnce(config.rack) => ReviewedAsConfigured)
<1>1. RackInv => ReviewedAsConfigured
  <2> SUFFICES ASSUME RackInv, NEW j \in Job
               PROVE  LET rs == Jobs(Asked)[j]
                      IN  /\ \A p \in made[j] : \E n \in DOMAIN rs :
                                /\ rs[n].identity = p[1]
                                /\ p[2].model = rs[n].model
                                /\ \/ p[2].window = Window(Asked, rs[n])
                                   \/ /\ ~Asked.bare /\ n > 1 /\ rs[n - 1].model = rs[n].model
                                      /\ \E q \in made[j] : q[1] = rs[n - 1].identity /\ q[2] = p[2]
                          /\ Asked.bare => \A p, q \in made[j] : p[2] = q[2] => p = q
    BY DEF ReviewedAsConfigured
  <2>1. JobInv(j)
    BY DEF RackInv
  <2>2. AsConfigured(j)
    BY <2>1 DEF JobInv
  <2>3. ASSUME Asked.bare, NEW p \in made[j], NEW q \in made[j], p[2] = q[2]
        PROVE  p = q
    <3>1. Reviews(P(j), p[2].id + 1, p[1]) /\ Reviews(P(j), q[2].id + 1, q[1])
      BY <2>1, <2>3 DEF JobInv, OwnServer
    <3>2. p[1] = q[1]
      BY <2>3, <3>1 DEF Reviews
    <3>3. p = <<p[1], p[2]>> /\ q = <<q[1], q[2]>>
      BY <2>1 DEF JobInv, JobType
    <3> QED BY <2>3, <3>2, <3>3
  <2> QED BY <2>2, <2>3 DEF AsConfigured
<1> QED BY <1>1, RackInvariant, PTL

(* No job has two servers on its card, and none leaves one behind.         *)
THEOREM OneServerAtATime == Spec => [](NamedOnce(config.rack) => OneServer)
<1>1. RackInv => OneServer
  <2> SUFFICES ASSUME RackInv, NEW j \in Job
               PROVE  /\ Cardinality(servers[j]) <= 1
                      /\ at[j] \in {"uploading", "done", "failed"} => servers[j] = {}
    BY DEF OneServer
  <2>1. ServerInv(j)
    BY DEF RackInv, JobInv
  <2>2. servers[j] = {} \/ \E s : servers[j] = {s}
    BY <2>1 DEF ServerInv
  <2>3. Cardinality(servers[j]) <= 1
    <3>1. CASE servers[j] = {}
      <4>1. Cardinality(servers[j]) = 0
        BY <3>1, FS_EmptySet
      <4> QED BY <4>1
    <3>2. ASSUME NEW s, servers[j] = {s}
          PROVE  Cardinality(servers[j]) <= 1
      <4>1. Cardinality(servers[j]) = 1
        BY <3>2, FS_Singleton
      <4> QED BY <4>1
    <3> QED BY <2>2, <3>1, <3>2
  <2> QED BY <2>1, <2>3 DEF ServerInv, Ends
<1> QED BY <1>1, RackInvariant, PTL

(* No valid configuration of the three Barrys makes an experiment that     *)
(* barry refuses, or one that fails when no step of it failed, no model    *)
(* was missing and no port was taken.  That a judge's server that is never *)
(* started costs the reviews is among these reasons.                       *)
THEOREM NotLostOfItself == Spec => [](NamedOnce(config.rack) => LostForAReason)
<1>1. RackInv => LostForAReason
  BY DEF RackInv, Outcome, LostForAReason, Reason
<1> QED BY <1>1, RackInvariant, PTL

(* Where the three Barrys are listed, each at most once, a verdict of the  *)
(* rack's judge is of the two reviews of its own job.                      *)
THEOREM RackVerdictOfBoth == Spec => []VerdictOfBoth
<1>1. (NamedOnce(config.rack) => RackInv) => VerdictOfBoth
  BY DEF RackInv, Outcome, VerdictOfBoth, VerdictOfThePair
<1> QED BY <1>1, RackInvariant, PTL
=============================================================================
